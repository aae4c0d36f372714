SPECIFICATION Spec
CONSTANTS
  s1 = s1
  s2 = s2
  a1 = a1
  a2 = a2
  Sessions = {s1, s2}
  Addresses = {a1, a2}
  Modes <- OpenModes
  Avail = {0, 4, 12}
  ExpertBytes = 6
  DenseBytes <- MCDense
  MinCache = 1
  RowWindow = 1
  Perils = {}
SYMMETRY MCSymmetry
INVARIANTS WeightsReadable HookServesItsSession NothingLeft BudgetAsPlanned
