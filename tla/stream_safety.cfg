SPECIFICATION Spec
CONSTANTS
  A = A
  B = B
  Layers = {A, B}
  Experts = {1, 2}
  Projs = {1, 2}
  P0 = 1
  Lanes = {l1, l2}
  Threads = {t1}
  EntryBytes <- MCBytes
  Budgets = {1, 2, 4}
  Modes <- SafeModes
  TopK = 2
  MaxLoads = 2
  MaxResizes = 1
  ReadsMayFail = FALSE
  CommitsMayFail = FALSE
  MayStray = FALSE
SYMMETRY MCSymmetry
INVARIANTS TypeOK UseSeesData NoReadIntoReleasedPages NoCollidingReads ValidIsComplete LruIsValidSet ExcessIsInUse
