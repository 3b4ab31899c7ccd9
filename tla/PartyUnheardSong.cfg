SPECIFICATION PartySpec
CONSTANTS
  host = host
  guest = guest
  A = A
  B = B
  NoSong = NoSong
  OwnSong = OwnSong
  LocalSong = LocalSong
  Devices = {host, guest}
  Host = host
  Adders = {host, guest}
  Songs = {A, B}
  MaxInFlight = 2
  MaxQueue = 2
  MaxReads = 1
  MaxFaults = 0
  MayRestart = {}
  MayClose = {}
  OwnMusic = {}
  MaxObservers = 1
  MaxNotes = 1
  MaxPrepares = 1
CHECK_DEADLOCK FALSE
INVARIANTS
  ShownIsQueue
