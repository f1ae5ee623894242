\* Four single-shot callers: two that fit a batch together, one that fills it, one over the cap.
SPECIFICATION Spec
CONSTANTS
  ja = ja
  jb = jb
  jc = jc
  jd = jd
  Jobs = {ja, jb, jc, jd}
  Bulks = {}
  TokenLen <- MCTokenLen
  Buckets <- MCBuckets
  MaxBatchTokens = 2
  Streams = 2
  PerStream = 1
  Deadlined = {jb}
  TooLong = {jc}
  Threshold = 1
  Cooldown = 1
  MaxCount = 1
INVARIANTS EachJobIsSomewhereOnce QueueDepthIsExact BatchesFit OnlyTheOverLongAreTooLong NothingLeftBehind
