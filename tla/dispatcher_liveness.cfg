\* Two single-shot callers and a bulk caller compete for one slot.
SPECIFICATION FairSpec
CONSTANTS
  ja = ja
  jb = jb
  jc = jc
  jd = jd
  Jobs = {jb, jc}
  Bulks = {x}
  TokenLen <- MCTokenLen
  Buckets <- MCBuckets
  MaxBatchTokens = 2
  Streams = 1
  PerStream = 1
  Deadlined = {jb}
  TooLong = {jc}
  Threshold = 1
  Cooldown = 1
  MaxCount = 1
INVARIANTS SlotsAreConserved
PROPERTIES EveryJobIsAnswered
