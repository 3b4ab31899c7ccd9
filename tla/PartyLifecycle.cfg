SPECIFICATION Spec
CONSTANTS
  NoSession = NoSession
  Devices = {d1, d2}
  IDs = {p1, p2}
  MaxRequests = 2
  MaxAsks = 2
  MaxFaults = 1
CHECK_DEADLOCK FALSE
INVARIANTS
  LifecycleTypeOK
  PartyIsFound
  
  OneHostPerParty
PROPERTIES
  SongsStay
  ShownCodesWork
