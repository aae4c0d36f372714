SPECIFICATION FairSpec
CONSTANTS
  Modes <- SoundModes
  Prompts = {"u"}
  NPredict = 2
  DraftMax = 1
  MinMatch = 1
  MaxMatch = 2
  Slack = 1
  MaxCtx = 9
  Texts = {1, 3}
  Skip = 2
  MaxTurns = 3
CHECK_DEADLOCK FALSE
INVARIANTS KvMirrorsRecords GeneratesFromConversation
PROPERTIES ImplementsConversation TurnsEnd
