SPECIFICATION Spec
CONSTANTS
  h1 = h1
  a1 = a1
  a2 = a2
  Nations = {h1, a1, a2}
  AI = {a1, a2}
  TalkIds = {"PROPOSE_ALLIANCE_TREATY", "REQUEST_DECLARE_WAR", "REQUEST_TRADE_EMBARGO"}
  IsRemote = FALSE
  Enhanced = TRUE
  Mortal = {a2}
  TALK_MSG_VALID_DAYS = 0
  DISP_NEWS_DAYS = 1
  TALK_MSG_KEEP_DAYS = 1
  MaxRecords = 3
  MaxWire = 1
  None = None
INVARIANTS
  RelationsAreMutual
  NoTradeInWar
  AlliesTrade
  MessagesOfTheLiving
PROPERTIES
  OnlyValidAccepted
CHECK_DEADLOCK FALSE
