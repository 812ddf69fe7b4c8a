CONSTANTS
  Rows = {r1, r2}
  Permanent = {r2}
  Servers = {s1, s2}
  Timed = TRUE
  NoServer = NoServer
  MaxJobs = 2
  Faults = {"unhosted"}
SPECIFICATION Spec
SYMMETRY Symmetry
CONSTRAINT Bounded
INVARIANTS NewestWins SyncedIsTrue RunsFresh
CHECK_DEADLOCK FALSE
VIEW View
