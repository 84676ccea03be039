SPECIFICATION Spec
CONSTANTS
  NationCount = 2
  process_frame_delay = 1
  RECEIVE_QUEUE_BACKUP = 4
  alternating_send_rate = 1
  Window = 2
  Capacity = 2
  LastFrame = 4
  MaxCommands = 1
PROPERTIES
  ImplementsFrameCast
INVARIANTS
  CommandsAgree
  CommandsInOrder
CHECK_DEADLOCK FALSE
