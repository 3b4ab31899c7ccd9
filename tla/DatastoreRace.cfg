SPECIFICATION Spec
CONSTANTS
  d1 = d1
  d2 = d2
  A = A
  B = B
  NoSong = NoSong
  Devices = {d1, d2}
  Adders = {d1, d2}
  Songs = {A, B}
  MaxInFlight = 2
  MaxQueue = 2
  MaxReads = 1
  MaxFaults = 1
SYMMETRY FullSymmetry
INVARIANTS
  TypeOK
  NoHoles
  NoHolesInv
  CastsSucceed
  CastsInv
