SPECIFICATION PacedSpec
CONSTANTS
  A = A
  B = B
  NoSong = NoSong
  Songs = {A, B}
  MaxErrors = 1
  MaxSongs = 4
  MaxCommands = 2
  MaxValidations = 1
CHECK_DEADLOCK FALSE
INVARIANTS
  PartyTypeOK
  PlaysWhatIsShown
  CountIsSlot
PROPERTIES
  IsJukebox
