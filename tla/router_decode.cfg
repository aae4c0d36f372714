SPECIFICATION Spec
CONSTANTS
  NLayers = 3
  Experts = {1, 2, 3}
  NUsed = 2
  Modes <- PolicyModes
  Chains <- MCChains
  Scores <- MCScores
  MaxGraphs = 3
INVARIANTS UnloadedOnlyAfterMove SlotsSelectedOrDead CommitFromThisToken GradesWhatWasPredicted
CHECK_DEADLOCK FALSE
