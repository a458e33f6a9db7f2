SPECIFICATION FairSpec
CONSTANTS
  MaxChunks = 3
  FooterLen = 2
CHECK_DEADLOCK FALSE
INVARIANTS
  TypeOK
  EndedBodyIsWhole
  NothingLeaks
PROPERTIES
  CallsReturn
  ConnectionUploads
