SPECIFICATION Spec
CONSTANTS
  NationCount = 2
  process_frame_delay = 5
  RECEIVE_QUEUE_BACKUP = 18
  alternating_send_rate = 2
  Window = 9
  Capacity = 71
  LastFrame = 9
  MaxCommands = 1
INVARIANTS
  CommandsAgree
CHECK_DEADLOCK FALSE
