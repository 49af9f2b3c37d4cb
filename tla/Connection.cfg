SPECIFICATION FairSpec
CONSTANTS
  commands = commands
  l1 = l1
  l2 = l2
  l3 = l3
  l4 = l4
  Names = {commands}
  Loops = {l1, l2, l3, l4}
  NoLoop = NoLoop
  FAILURE_THRESHOLD = 2
  MaxPerWindow = 1
  MaxFaults = 1
  MaxEarlyLooks = 1
INVARIANT TypeOK
INVARIANT NeverStranded
PROPERTY KeepsReturning
PROPERTY ListenersReturn
PROPERTY OutageNoticed
CHECK_DEADLOCK FALSE
