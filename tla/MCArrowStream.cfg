SPECIFICATION Spec
CONSTANTS
  ChunkSize = 3
  Word = 2
  RecLen = 2
  MaxRecords = 6
CHECK_DEADLOCK FALSE
INVARIANTS
  StreamIsFramed
  ReadIsFaithful
  RoundTrip
