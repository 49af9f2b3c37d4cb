SPECIFICATION FairSpec
CONSTANTS
  shot = shot
  install = install
  sync = sync
  Commands = {sync}
  Fast <- MCFast
  Stamped <- MCStamped
  QueueMax = 1
  MaxFaults = 1
  NotRead = NotRead
PROPERTIES
  Retried
CHECK_DEADLOCK FALSE
