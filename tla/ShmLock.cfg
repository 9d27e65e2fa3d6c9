CONSTANTS
  c1 = c1
  c2 = c2
  c3 = c3
  a = a
  b = b
  NoConn = NoConn
  Conn = {c1, c2, c3}
  Process = {a, b}
  ProcessOf <- Home
  NSlot = 2
  Main = {c2}
  MaxTimeouts = 1
SPECIFICATION Spec
INVARIANTS
  ShmExclusion
  WaitersHaveHolder
PROPERTY
  TruncatedOnlyAlone
