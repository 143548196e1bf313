SPECIFICATION Spec
CONSTANTS
  WrittenBack <- build_files
  Alphabets <- MCAlphabets
  MaxPieces <- MCMaxPieces
  OtherSpace <- Tab
  MaxRenders = 1
INVARIANTS
  WordsSurvive
  ContentKept
  NothingLost
  ObjectsSeen
CHECK_DEADLOCK FALSE
