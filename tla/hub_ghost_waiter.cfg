\* One waiter whose connection breaks while it waits.
SPECIFICATION Spec
CONSTANTS
  w1 = w1
  w2 = w2
  Ringers = {r1}
  Batches <- MCOneBatch
  Conns = {w1}
  ReadersOf <- MCReadersOf
  Timeouts = {0, 1}
  Window = 1
  Keep = 1
  MaxLog = 1
  MaxNow = 1
  MaxRings = 2
  MaxDrops = 1
INVARIANTS WaitingMeansConnected
