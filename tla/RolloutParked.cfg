SPECIFICATION FairSpec
CONSTANTS
  v1 = v1
  v2 = v2
  Versions = {v1}
  NoVersion = NoVersion
  Machines = {1, 2, 3, 4, 5}
  HashRank <- MCHashRank
  NameRank <- MCNameRank
  DeploySets <- NoDeploys
  Outcomes = {"succeeded", "failed"}
  BatchSize = 5
  Budget = 1
  Faulty = FALSE
  CanaryPercent = 80
  CanaryMin = 1
  CanaryMax = 50
PROPERTIES
  RolloutConcludes
CHECK_DEADLOCK FALSE
