SPECIFICATION FairImportSpec
CONSTANTS
  phone = phone
  other = other
  A = A
  B = B
  NoSong = NoSong
  Devices = {phone, other}
  Adders = {phone}
  Songs = {A, B}
  Playlist <- TwiceAndOther
  MaxInFlight = 1
  MaxQueue = 3
  MaxReads = 2
  MaxFaults = 1
CHECK_DEADLOCK FALSE
INVARIANTS
  ImportTypeOK
  ImportKeepsOrder
PROPERTIES
  ImportArrives
