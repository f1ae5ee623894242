\* Two writers, whose timestamps may reach the log out of order, and two
\* waiters with overlapping readers; the log keeps two rings.
SPECIFICATION Spec
CONSTANTS
  w1 = w1
  w2 = w2
  Ringers = {r1, r2}
  Batches <- MCBatches
  Conns = {w1, w2}
  ReadersOf <- MCReadersOf
  Timeouts = {0, 2}
  Window = 1
  Keep = 1
  MaxLog = 2
  MaxNow = 2
  MaxRings = 3
  MaxDrops = 0
INVARIANTS TypeOK NothingMissed NoLostWakeup
PROPERTIES MailCountsExactly MailIsCoalesced
