SPECIFICATION Spec
CONSTANTS
  c1 = c1
  c2 = c2
  None = None
  Conn = {c1, c2}
  NPage = 3
  MaxVer = 3
  MaxSlot = 7
  Environments <- Surroundings
INVARIANTS
  PowerSafe
  CacheIsCurrent
  PagerInvariant
PROPERTIES
  OverwritesOnlyJournalled
  ImplementsSnapshotStore
