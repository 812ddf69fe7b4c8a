CONSTANTS
  Requests = {read, write, other}
  Reads = {read}
  MaxConcurrent = 2
  FailureThreshold = 2
  MaxReadRetries = 1
SPECIFICATION Spec
INVARIANT OneProbe
