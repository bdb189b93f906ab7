CONSTANTS
  MSG_QUEUE_SIZE = 2
  NULL = NULL
  Kinds = {"plain", "save"}
  Streaming = TRUE
  HostPos = TRUE
  MaxCmds = 3
  MaxPosn = 4
SPECIFICATION FairSpec
INVARIANTS TypeOK MsgConserved CommandOnce NoOverwrite PendingCoversQueue
PROPERTIES ChannelFifo CommandAnswered NotificationDelivered
CHECK_DEADLOCK FALSE
