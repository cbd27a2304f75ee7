\* A consumer that keeps reading next to one that may stop, and four
\* notifications, so that a task that waits for its consumer is overtaken.
CONSTANTS
  c1 = c1
  c2 = c2
  Values <- Contents
  None = None
  Err = Err
  Consumers = {c1, c2}
  Fair = {c1}
  Payload <- Notifications
  MaxQueued = 1
  Capacity = 1
  ChannelSize = 1
  Window = 1
SPECIFICATION Spec
INVARIANTS
  TypeOK
  StreamIsContiguous
  CleanEndMeansOverwritten
  ReceivedAsSent
PROPERTIES
  DeliveredOrEnded
  ExExKeepsUp
  TaskReleased
CHECK_DEADLOCK FALSE
