SPECIFICATION PartySpec
CONSTANTS
  host = host
  guest = guest
  A = A
  B = B
  NoSong = NoSong
  OwnSong = OwnSong
  LocalSong = LocalSong
  Devices = {host, guest}
  Host = host
  Adders = {guest}
  Songs = {A}
  MaxInFlight = 1
  MaxQueue = 2
  MaxReads = 1
  MaxFaults = 0
  MayRestart = {}
  MayClose = {host}
  OwnMusic = {}
  MaxObservers = 1
  MaxNotes = 1
  MaxPrepares = 1
CHECK_DEADLOCK FALSE
PROPERTIES
  ClosedIsSilent
