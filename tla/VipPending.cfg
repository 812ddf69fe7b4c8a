CONSTANTS
  Rows = {r1, r2}
  Permanent = {}
  Servers = {s1}
  Timed = TRUE
  NoServer = NoServer
  MaxJobs = 3
  Faults = {}
SPECIFICATION Spec
INVARIANT PendingHasJob
CHECK_DEADLOCK FALSE
