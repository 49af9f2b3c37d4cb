SPECIFICATION CrashSpec
CONSTANTS
  shot = shot
  install = install
  sync = sync
  Commands = {install, sync}
  Fast <- MCFast
  Stamped <- MCStamped
  QueueMax = 1
  MaxFaults = 2
  NotRead = NotRead
PROPERTIES
  Answered
CHECK_DEADLOCK FALSE
