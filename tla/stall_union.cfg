SPECIFICATION Spec
CONSTANTS
  Threads = {"t1", "t2", "t3"}
  MaxTime = 4
CHECK_DEADLOCK FALSE
INVARIANTS UnionExact
PROPERTY SnapshotNeverShrinks
