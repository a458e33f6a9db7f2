SPECIFICATION FairSpec
CONSTANTS
  Tasks = {t1, t2}
  MaxRows = 2
  MaxRetry = 4
  RetryAfter <- MCRetryAfter
  DefaultWait = 2
  Horizon = 9
  MaxFaults = 4
  MaxWaits = 2
CHECK_DEADLOCK FALSE
INVARIANTS
  TypeOK
  OneInstancePerCall
  WaitMeansSuccess
  RowsAreAll
PROPERTY
  CallsReturn
