SPECIFICATION Spec
CONSTANTS
  ChunkSize = 3
  Word = 2
  RecLen = 2
  MaxRecords = 4
CHECK_DEADLOCK FALSE
INVARIANT
  EOFMeansAllRecords
