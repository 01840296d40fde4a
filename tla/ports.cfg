SPECIFICATION Spec
CONSTANTS
  m1 = m1
  m2 = m2
  c1 = c1
  c2 = c2
  Mpu = {m1, m2}
  Channel = {1}
  Client = {c1, c2}
  portPoint = 6
  portRange = 2
  Int16Max = 7
  Ending = {m1}
  MaxQueue = 1
  None = None
SYMMETRY Symmetry
CHECK_DEADLOCK FALSE
INVARIANT TypeOK
INVARIANT HeldOnce
PROPERTY PortsComeBack
