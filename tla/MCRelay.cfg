SPECIFICATION MCSpec
CONSTANTS
  A = A
  B = B
  a1 = a1
  a2 = a2
  b1 = b1
  Lines = {A, B}
  Devices = {a1, a2, b1}
  LineOf <- ThreeDevices
  Callers = {A}
  MaxConns = 2
  NoLine = NoLine
  c1 = c1
  c2 = c2
  h1 = h1
  Conns = {c1, c2}
  Hardware = {h1}
  HardwareOf <- OneDevice
  LineNumbers = {n1}
  Cap = 1
  MaxCloses = 2
  None = None
INVARIANTS
  ReconnectKeepsCall
  NoOrphanCall
  NoPanic
  IndexesAgree
PROPERTIES
  CallerGoneEndsCall
  DoomedConnLeaves
CHECK_DEADLOCK FALSE
