CONSTANTS
  Obs = {o1}
  RequestCon = {TRUE, FALSE}
  MAX_SEQUENCE_NUMBER = 3
  MAX_OBSERVER_FAILED_COMM = 1
  MAX_OBSERVER_NON_COUNT = 1
  MaxDups = 1
  MaxInFlight = 2
  NotifyBound = 3
SPECIFICATION Spec
PROPERTY NewestAccepted
