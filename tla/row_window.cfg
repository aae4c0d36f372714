SPECIFICATION Spec
CONSTANTS
  A = A
  B = B
  Tables = {A, B}
  RowBytes <- MCRowBytes
  NRows <- MCNRows
  SlabBytes = 2
  Page = 1
  AskedBudget = 4
  DefaultBudget = 8
  Graphs <- SpacedGraphs
  GenSpan = 3
  MaxIds = 2
  MaxDecodes = 3
  ReadsMayFail = TRUE
CHECK_DEADLOCK FALSE
INVARIANTS RowsInPlace WindowAccounted WindowBound
