SPECIFICATION FairSpec
CONSTANTS
  NLayers = 2
  Experts = {"e1", "e2"}
  Projs = {"up", "down"}
  Lanes = {"l1"}
  Eval = "eval"
  Modes <- SoundModes
  Budgets = {0, 1, 3}
  CommitsMayFail = TRUE
  Reissues = FALSE
  MaxIds = 2
  MaxLoads = 3
  MaxIssues = 2
  MaxResizes = 1
CHECK_DEADLOCK FALSE
INVARIANTS
  LruIsValidSet ResidentHasNoLiveJobs NoReadIntoReleasedPages
  ResidentComplete PagesAccounted AdoptedIsResident
PROPERTY CallsReturn
