\* A job with a deadline and one without, one slot.
SPECIFICATION Spec
CONSTANTS
  ja = ja
  jb = jb
  jc = jc
  jd = jd
  Jobs = {jb, jc}
  Bulks = {}
  TokenLen <- MCTokenLen
  Buckets <- MCBuckets
  MaxBatchTokens = 2
  Streams = 1
  PerStream = 2
  Deadlined = {jb}
  TooLong = {}
  Threshold = 1
  Cooldown = 1
  MaxCount = 1
PROPERTIES NoLateDispatch
