SPECIFICATION Spec
CONSTANTS
  q1 = q1
  q2 = q2
  q3 = q3
  s1 = s1
  s2 = s2
  list = list
  NoText = NoText
  Queries = {q1, q2, q3}
  Sendable = {q1, q2}
  Hints <- SomeHints
  Results <- SomeResults
  UserPlaylists <- OnePlaylist
  MaxPending = 2
  MaxHints = 1
  MaxSearches = 4
CHECK_DEADLOCK FALSE
INVARIANTS
  SearchTypeOK
  TapTakesTheRow
  StoredAreLastThree
PROPERTIES
  AnswersAreShown
