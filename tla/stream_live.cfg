SPECIFICATION FairSpec
CONSTANTS
  A = A
  B = B
  Layers = {A, B}
  Experts = {1, 2}
  Projs = {1, 2}
  P0 = 1
  Lanes = {l1}
  Threads = {t1, t2}
  EntryBytes <- MCBytes
  Budgets = {2}
  Modes <- LiveModes
  TopK = 1
  MaxLoads = 2
  MaxResizes = 0
  ReadsMayFail = TRUE
  CommitsMayFail = TRUE
  MayStray = TRUE
PROPERTIES ComputeEnds DrainEnds ShutdownEnds
