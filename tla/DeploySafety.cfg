SPECIFICATION FairSpec
CONSTANTS
  Machines = {m1}
  NoDoc = NoDoc
  NoRoute = NoRoute
  NoSweep = NoSweep
  ClosesProcesses = FALSE
  MaxAge = 2
  MaxInterference = 1
  MaxEvents = 2
INVARIANT TypeOK
INVARIANT CompletedIsInstalled
INVARIANT StatusFollowsTargets
PROPERTY RegressesOnlyByRetry
PROPERTY EndsWhereSwept
CHECK_DEADLOCK FALSE
