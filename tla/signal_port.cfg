SPECIFICATION Spec
CONSTANTS
  User = {u1}
  Port = {p1, p2}
  MaxJobs = 1
  MaxCalls = 2
  MaxFault = 1
  None = None
INVARIANT PortIsListened
CHECK_DEADLOCK FALSE
