CONSTANTS
  Rows = {r1}
  Permanent = {}
  Servers = {s1, s2}
  Timed = FALSE
  NoServer = NoServer
  MaxJobs = 2
  Faults = {"unhosted"}
SPECIFICATION Spec
INVARIANT EndedIsGone
CHECK_DEADLOCK FALSE
