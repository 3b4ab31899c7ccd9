SPECIFICATION PartySpec
CONSTANTS
  host = host
  guest = guest
  A = A
  B = B
  NoSong = NoSong
  OwnSong = OwnSong
  LocalSong = LocalSong
  Devices = {host, guest}
  Host = host
  Adders = {host}
  Songs = {A, B}
  MaxInFlight = 2
  MaxQueue = 3
  MaxReads = 1
  MaxFaults = 0
  MayRestart = {}
  MayClose = {host}
  OwnMusic = {}
  MaxObservers = 1
  MaxNotes = 1
  MaxPrepares = 2
SYMMETRY SongSymmetry
CHECK_DEADLOCK FALSE
INVARIANTS
  MarksInOrder
  PlayedIsPrefix
  SongsAreNew
PROPERTIES
  HostIsJukebox
