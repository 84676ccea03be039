SPECIFICATION Spec
CONSTANTS
  Peers = {1, 2}
  process_frame_delay = 2
  SyncTestLevel = 3
  LastFrame = 11
  MaxFaults = 1
  MaxRequests = 2
CONSTRAINT OneTrouble
INVARIANTS
  SameFrameCompared
  DivergenceNoticed
  NoFalseAlarm
  SavesAgree
  SaveStillToCome
CHECK_DEADLOCK FALSE
