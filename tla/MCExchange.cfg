SPECIFICATION Spec
CONSTANTS
  None = None
  Token = {t1, t2}
  Con = {t1}
  Slow = {t1}
  Legacy = {t2}
  TryingCount = 2
  MaxAttempt = 1
  MaxInFlight = 1
  MaxQueue = 1
  MaxOwed = 1
INVARIANT TypeOK
PROPERTY KeepsContract
CHECK_DEADLOCK FALSE
