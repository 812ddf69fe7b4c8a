CONSTANTS
  Rows = {r1}
  Permanent = {}
  Servers = {s1, s2}
  Timed = TRUE
  NoServer = NoServer
  MaxJobs = 2
  Faults = {}
SPECIFICATION Spec
INVARIANT RemovedIsGone
CHECK_DEADLOCK FALSE
