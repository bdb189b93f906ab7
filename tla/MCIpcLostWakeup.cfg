CONSTANTS
  MSG_QUEUE_SIZE = 2
  NULL = NULL
  Kinds = {"plain"}
  Streaming = FALSE
  HostPos = FALSE
  MaxCmds = 2
  MaxPosn = 0
SPECIFICATION FairSpec
PROPERTIES CommandAnswered
CHECK_DEADLOCK FALSE
