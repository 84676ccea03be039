SPECIFICATION FairSpec
CONSTANTS
  NationCount = 2
  process_frame_delay = 2
  RECEIVE_QUEUE_BACKUP = 5
  alternating_send_rate = 2
  Window = 4
  Capacity = 1
  LastFrame = 8
  MaxCommands = 0
INVARIANTS
  OneQueuePerFrame
PROPERTIES
  NothingDiscarded
  FramesAdvance
CHECK_DEADLOCK FALSE
