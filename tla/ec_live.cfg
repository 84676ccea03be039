SPECIFICATION FairSpec
CONSTANTS
  p1 = p1
  p2 = p2
  Peers = {p1, p2}
  MAX_QUEUE = 4
  MAX_RECV_QUEUE = 2
  Lifetime = 2
  MaxSend <- Stream
PROPERTIES
  EventuallyFreed
  EventuallyDelivered
CHECK_DEADLOCK FALSE
