\* The code breaks each of these claims. TLC stops at the first violation:
\* take one line at a time in the place of the last uncommented one.
SPECIFICATION Spec
CONSTANTS
  monitor = monitor
  worker = worker
  Workers = {worker}
  NoThread = NoThread
  p1 = p1
  p2 = p2
  Pids = {p1, p2}
  NoPid = NoPid
  Discovery = "path"
  RELAUNCHES = 1
  MaxCommands = 4
  MaxFaults = 0
  MaxRecycles = 0
INVARIANT OneInstance
\* INVARIANT RebootNeedsCrashes
\* INVARIANT KilledStaysDown
