SPECIFICATION Spec
CONSTANTS
  User = {u1, u2}
  Port = {p1, p2}
  MaxJobs = 2
  MaxCalls = 2
  MaxFault = 1
  None = None
SYMMETRY Symmetry
INVARIANT SessionAgrees
INVARIANT CountAgrees
INVARIANT NoGhost
CHECK_DEADLOCK FALSE
