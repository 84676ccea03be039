SPECIFICATION FairSpec
CONSTANTS
  h1 = h1
  a1 = a1
  a2 = a2
  Nations = {h1, a1}
  AI = {a1}
  TalkIds = {"PROPOSE_TRADE_TREATY", "PROPOSE_ALLIANCE_TREATY", "END_TRADE_TREATY", "REQUEST_CEASE_WAR"}
  IsRemote = TRUE
  Enhanced = TRUE
  Mortal = {}
  TALK_MSG_VALID_DAYS = 1
  DISP_NEWS_DAYS = 2
  TALK_MSG_KEEP_DAYS = 3
  MaxRecords = 2
  MaxWire = 2
  None = None
PROPERTIES
  OnlyStrayRepliesHarm
  AiGetsAnAnswer
CHECK_DEADLOCK FALSE
