SPECIFICATION HistSpec
CONSTANTS
  v1 = v1
  v2 = v2
  Versions = {v1}
  NoVersion = NoVersion
  Machines = {1, 2, 3}
  HashRank <- MCHashRank
  NameRank <- MCNameRank
  DeploySets <- AllMachines
  Outcomes = {"succeeded", "failed"}
  BatchSize = 2
  Budget = 2
  Faulty = FALSE
  CanaryPercent = 50
  CanaryMin = 1
  CanaryMax = 50
PROPERTIES
  FreshEvidence
CHECK_DEADLOCK FALSE
