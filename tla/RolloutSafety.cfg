SPECIFICATION Spec
CONSTANTS
  v1 = v1
  v2 = v2
  Versions = {v1, v2}
  NoVersion = NoVersion
  Machines = {1, 2}
  HashRank <- MCHashRank
  NameRank <- MCNameRank
  DeploySets <- AllMachines
  Outcomes = {"succeeded"}
  BatchSize = 1
  Budget = 3
  Faulty = TRUE
  CanaryPercent = 10
  CanaryMin = 1
  CanaryMax = 50
INVARIANTS
  TypeOK
  BlastRadius
  EarnedPromotion
  DispatchedMeansQueued
CHECK_DEADLOCK FALSE
