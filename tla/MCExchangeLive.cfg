SPECIFICATION Spec
CONSTANTS
  None = None
  Token = {t1}
  Con = {t1}
  Slow = {t1}
  Legacy = {t1}
  TryingCount = 1
  MaxAttempt = 1
  MaxInFlight = 1
  MaxQueue = 1
  MaxOwed = 1
PROPERTY EveryRequestSettled
CHECK_DEADLOCK FALSE
