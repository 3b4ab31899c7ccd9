SPECIFICATION Spec
CONSTANTS
  A = A
  B = B
  NoSong = NoSong
  Songs = {A, B}
  MaxErrors = 0
  MaxSongs = 2
  MaxCommands = 2
  MaxValidations = 1
CHECK_DEADLOCK FALSE
INVARIANTS
  NothingIsReplaced
