\* A pool of two pids runs out when two instances are up: then a launch has
\* no pid to take, which is why a deadlock is no error here.
SPECIFICATION FairSpec
CONSTANTS
  monitor = monitor
  worker = worker
  Workers = {worker}
  NoThread = NoThread
  p1 = p1
  p2 = p2
  Pids = {p1, p2}
  NoPid = NoPid
  Discovery = "path"
  RELAUNCHES = 1
  MaxCommands = 1
  MaxFaults = 2
  MaxRecycles = 1
INVARIANT TypeOK
INVARIANT OneUnlessOverlapped
INVARIANT EscalationEarned
PROPERTY StrangersSpared
PROPERTY KeepsRunning
CHECK_DEADLOCK FALSE
