CONSTANTS
  f1 = f1
  f2 = f2
  f3 = f3
  f4 = f4
  a = a
  b = b
  File = {f1, f2, f3, f4}
  Process = {a, b}
  ProcessOf <- Home
  Main = {f2}
  Gone = Gone
  MaxTimeouts = 1
SYMMETRY Alike
CONSTRAINT FewOpen
SPECIFICATION Spec
INVARIANTS
  InodeAgrees
  WaitQueueIsSound
PROPERTIES
  PendingKeepsNewReadersOut
  ImplementsDatabaseLock
