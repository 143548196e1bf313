SPECIFICATION Spec
CONSTANTS
  WrittenBack <- build_files
  Alphabets <- BareAlphabets
  MaxPieces <- BareMaxPieces
  OtherSpace <- Tab
  MaxRenders = 2
INVARIANT LaterDiffsClean
CHECK_DEADLOCK FALSE
