CONSTANTS
  f1 = f1
  f2 = f2
  a = a
  File = {f1, f2}
  Process = {a}
  ProcessOf <- Home
  Main = {f2}
  Gone = Gone
  MaxTimeouts = 1
SPECIFICATION PFairSpec
PROPERTIES
  CommitGetsExclusive
  SleeperIsWoken
