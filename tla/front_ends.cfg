SPECIFICATION Spec
CONSTANTS
  Efforts = {"low", "high", "long"}
  TooLong = {"long"}
  Modes <- SafeModes
INVARIANTS
  AnsweredInOrder
  ControlsHonoured
  StreamCarriesAnswer
PROPERTIES
  ConversationContinues
  CancelsTheirOwn
  RequestsAnswered
CHECK_DEADLOCK FALSE
