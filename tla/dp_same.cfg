SPECIFICATION Spec
CONSTANTS
  h1 = h1
  a1 = a1
  a2 = a2
  Nations = {h1, a1}
  AI = {a1}
  TalkIds = {"PROPOSE_TRADE_TREATY"}
  IsRemote = FALSE
  Enhanced = TRUE
  Mortal = {}
  TALK_MSG_VALID_DAYS = 1
  DISP_NEWS_DAYS = 2
  TALK_MSG_KEEP_DAYS = 3
  MaxRecords = 3
  MaxWire = 1
  None = None
PROPERTIES SameMessageIsAccepted
CHECK_DEADLOCK FALSE
