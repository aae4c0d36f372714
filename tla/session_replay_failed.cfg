SPECIFICATION Spec
CONSTANTS
  Modes <- GrowingInParts
  Prompts = {"u"}
  NPredict = 2
  DraftMax = 1
  MinMatch = 1
  MaxMatch = 2
  Slack = 1
  MaxCtx = 9
  Texts = {}
  Skip = 2
  MaxTurns = 2
CHECK_DEADLOCK FALSE
INVARIANT KvMirrorsRecords
