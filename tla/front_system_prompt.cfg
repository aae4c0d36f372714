SPECIFICATION Spec
CONSTANTS
  Efforts = {"low"}
  TooLong = {}
  Modes <- SystemModes
PROPERTIES
  ConversationContinues
CHECK_DEADLOCK FALSE
