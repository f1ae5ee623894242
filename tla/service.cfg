SPECIFICATION MCSpec
CONSTANTS
  Platforms = {"systemd", "launchd", "scm"}
  Configs <- MCConfigs
  Addresses <- MCAddresses
  Versions = {1, 2}
  MaxCommands = 2
  MaxMishaps = 1
  Questions <- MCQuestions
  SecretFiles <- MCSecretFiles
  NoQuestion = NoQuestion
  Threshold = 2
  Cooldown = 3
  MaxCount = 3
  Clients = {"c1", "c2"}
  ApiRequests <- MCApiRequests
  Second = 2
  Rejections = {"r1", "r2", "r3"}
  WarnEvery = 2
  MaxNow = 5
INVARIANTS ServiceTellsTheTruth StartupAndRepliesAreRight
PROPERTY ServiceSettles
CHECK_DEADLOCK FALSE
