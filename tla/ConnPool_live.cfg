SPECIFICATION FairSpec
CONSTANTS
  t1 = t1 t2 = t2 t3 = t3
  c1 = c1 c2 = c2 c3 = c3
  NoThread = NoThread NoConn = NoConn
  Threads <- MCThreads3
  Conns <- MCConns2
  DefMin = 1
  DefMax = 2
  Ranges <- NoRanges
  NestLimit = 1
  PingsServer = FALSE
PROPERTIES HandedOutUsable MutexFreed PoolServes WaitersAnswered
