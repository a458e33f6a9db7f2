SPECIFICATION FairSpec
CONSTANTS
  b1 = b1  b2 = b2
  Blocks = {b1, b2}
  Writers = {w1, w2}
  None = None
  Lists <- MCLists
  MaxFaults = 3
  MaxCommits = 2
CHECK_DEADLOCK FALSE
INVARIANTS
  TypeOK
  CommittedAsListed
  NoClosedBlockOmitted
  FailedCommitIsHonest
  LastCloseWins
PROPERTIES
  CallsReturn
  WritersUpload
