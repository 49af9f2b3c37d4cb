\* The code breaks each of these claims. TLC stops at the first violation:
\* take one line at a time in the place of the last uncommented one.
SPECIFICATION FairSpec
CONSTANTS
  Machines = {m1}
  NoDoc = NoDoc
  NoRoute = NoRoute
  NoSweep = NoSweep
  ClosesProcesses = FALSE
  MaxAge = 2
  MaxInterference = 1
  MaxEvents = 2
CHECK_DEADLOCK FALSE
PROPERTY NothingStaysStuck
\* INVARIANT CancelledIsNotInstalled
\* PROPERTY NeverRegresses
\* PROPERTY FailsOnlyTheDead
