SPECIFICATION MCSpec
CONSTANTS
  Procs <- MCProcs
  Content <- MCContent
  TableTypes <- MCTableTypes
  NewTypes <- MCNewTypes
  Decoded <- MCDecoded
  Unreadable <- MCUnreadable
  NumNames = 3
  PageSize = 1
  MaxCalls = 3
  MaxFaults = 1
CHECK_DEADLOCK FALSE
INVARIANTS
  LoadIsFaithful
  ExistsIsHonest
  ListingIsComplete
  EndpointIsNamed
  ResourceIsWhole
