SPECIFICATION FairSpec
CONSTANTS
  NumReaders = 2
  Addrs = {a, b}
  MaxFaults = 1
  MaxMoves = 1
  MaxExpiries = 0
  Budget = 1
  Rows = 2
CHECK_DEADLOCK FALSE
INVARIANTS
  OneClientPerSession
  
  DownloadIsComplete
PROPERTY
  DownloadFinishes
