SPECIFICATION FairSpec
CONSTANTS
  MaxChunks = 3
  FooterLen = 2
CHECK_DEADLOCK FALSE
PROPERTY
  CallsAlwaysReturn
