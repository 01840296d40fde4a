SPECIFICATION Spec
CONSTANTS
  j1 = j1
  j2 = j2
  m1 = m1
  m2 = m2
  c1 = c1
  c2 = c2
  Job = {j1}
  Mpu = {m1}
  Client = {c1, c2}
  Failing = {}
  MaxQueue = 2
  MaxFailed = 1
  None = None
INVARIANT EndMeansQuiet
