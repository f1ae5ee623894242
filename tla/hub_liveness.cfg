\* One writer and two connections of the same waiter, one of which may break.
SPECIFICATION FairSpec
CONSTANTS
  w1 = w1
  w2 = w2
  Ringers = {r1}
  Batches <- MCOneBatch
  Conns = {w1, w2}
  ReadersOf <- MCSharedReaders
  Timeouts = {0, 1}
  Window = 1
  Keep = 1
  MaxLog = 1
  MaxNow = 1
  MaxRings = 2
  MaxDrops = 1
PROPERTIES EveryRingIsTold EveryWaitReturns
