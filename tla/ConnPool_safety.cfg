SPECIFICATION Spec
CONSTANTS
  t1 = t1 t2 = t2 t3 = t3
  c1 = c1 c2 = c2 c3 = c3
  NoThread = NoThread NoConn = NoConn
  Threads <- MCThreads3
  Conns <- MCConns3
  DefMin = 2
  DefMax = 2
  Ranges <- MovedRanges
  NestLimit = 2
  PingsServer = TRUE
SYMMETRY Symmetry
ACTION_CONSTRAINT Raising
INVARIANTS TypeOK CountsMatch Ownership MutexHeldInside HeldHaveHandle WithinMax FloorKept
PROPERTIES HandedOutLive GrowOnlyWhenNoneIdle NoNeedlessWait ImplementsLease
