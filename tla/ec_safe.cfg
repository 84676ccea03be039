SPECIFICATION Spec
CONSTANTS
  p1 = p1
  p2 = p2
  Peers = {p1, p2}
  MAX_QUEUE = 4
  MAX_RECV_QUEUE = 3
  Lifetime = 2
  MaxSend <- Answered
INVARIANTS
  TypeOK
  NoFalseAck
  WindowsAgree
  ReceiverTracksGaps
  HeadIsAwaited
PROPERTIES
  AtMostOnce
  ImplementsReliableCast
CONSTRAINT FewInFlight
CHECK_DEADLOCK FALSE
