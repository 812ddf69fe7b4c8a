CONSTANTS
  Rows = {r1}
  Permanent = {}
  Servers = {s1, s2}
  Timed = TRUE
  NoServer = NoServer
  MaxJobs = 1
  Faults = {}
SPECIFICATION Spec
INVARIANT SyncedIsGiven
CHECK_DEADLOCK FALSE
