SPECIFICATION Spec
CONSTANTS
  ipA = ipA  ipB = ipB  prt = prt  s1 = s1  s2 = s2
  SlotIds = {s1, s2}
  Ips = {ipA, ipB}
  Ports = {prt}
  BadPort = BadPort
  NotAServer = NotAServer
  Writers = {w1, w2}
  Records = {r1, r2}
  Routes <- MCRoutes
  Footer = Footer
  Partial = Partial
  NoSlot = NoSlot
  NoServer = NoServer
  MaxFaults = 2
  MaxMoves = 1
SYMMETRY Symm
INVARIANTS
  TypeOK
  SlotsAvailable
  DuplicatesNeedALostAnswer
  PacksAreWhole
  EvidenceKept
PROPERTIES
  FailedFlushKeepsPack
  DeliversAtLeastOnce
