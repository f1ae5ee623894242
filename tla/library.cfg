SPECIFICATION MCSpec
CONSTANTS
  Threads = {t1, t2}
  None = None
  va = va
  vb = vb
  vc = vc
  vnan = vnan
  Approx <- MCApprox
  BadVectors = {vnan}
  ChunkRows = 2
  Calls <- MCCalls
  NaN = NaN
  ParThreshold = 3
  Whole = 2
  Unit = 12
  MaxCharsPerToken = 1
  MinCtx = 4
  DefaultCtx = 8
  DefaultSeqMax = 2
  DefaultStreams = 2
  MaxWalkDepth = 2
  FileTarget = "file"
  NoTarget = "none"
  Builtin <- MCBuiltin
  MaxDuration = 1000
  Requests <- MCRequests
  NoRequest = NoRequest
  Ids = {"s"}
  Edges <- MCEdges
  MaxEdges = 4
  Distances = {0, 2}
  Limits = {1, 9}
  Configs <- MCConfigs
  Contents <- MCContents
INVARIANTS IndexIsSound RankingIsRight CutsAreRight TraversalsAreRight ScrubIsForItsOwnConfig DecisionsAreRight
PROPERTY ImplementsKeyedVectors
CHECK_DEADLOCK FALSE
