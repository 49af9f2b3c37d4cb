SPECIFICATION HistSpec
CONSTANTS
  v1 = v1
  v2 = v2
  Versions = {v1, v2}
  NoVersion = NoVersion
  Machines = {1}
  HashRank <- MCHashRank
  NameRank <- MCNameRank
  DeploySets <- NoDeploys
  Outcomes = {"succeeded"}
  BatchSize = 1
  Budget = 3
  Faulty = FALSE
  CanaryPercent = 10
  CanaryMin = 1
  CanaryMax = 50
PROPERTIES
  FlipFansOut
CHECK_DEADLOCK FALSE
