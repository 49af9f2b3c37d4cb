SPECIFICATION HistSpec
CONSTANTS
  shot = shot
  install = install
  sync = sync
  Commands = {shot, sync}
  Fast <- MCFast
  Stamped <- MCStamped
  QueueMax = 1
  MaxFaults = 1
  NotRead = NotRead
INVARIANTS
  TypeOK
  OncePerProcess
PROPERTIES
  NothingLost
CHECK_DEADLOCK FALSE
