CONSTANTS
  HISTORYSIZE = 4
  MsgId = {0, 1}
  Token = {t1, t2}
  NoToken = NoToken
  IfIndex = {1}
  MaxRequests = 6
SPECIFICATION Spec
INVARIANTS TypeOK 
CHECK_DEADLOCK FALSE
