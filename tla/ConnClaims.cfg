\* The code breaks each of these claims. TLC stops at the first violation:
\* take one line at a time in the place of the last uncommented one.
SPECIFICATION Spec
CONSTANTS
  commands = commands
  l1 = l1
  l2 = l2
  l3 = l3
  l4 = l4
  Names = {commands}
  Loops = {l1, l2, l3, l4}
  NoLoop = NoLoop
  FAILURE_THRESHOLD = 1
  MaxPerWindow = 1
  MaxFaults = 1
  MaxEarlyLooks = 0
CHECK_DEADLOCK FALSE
PROPERTY ForcedIsImmediate
\* INVARIANT PolledOnce
