SPECIFICATION Spec
CONSTANTS
    s1 = s1  s2 = s2  s3 = s3  s4 = s4
    k1 = k1  k2 = k2
    Send <- MCSend
    Confirmable <- MCConfirmable
    Key <- MCKey
    Timeouts = {1, 2}
    TryingCount = 2
    MaxAge = 4
    MaxWait = 0
INVARIANTS TypeOK UniqueKeys Fates NoRecordSkipped
PROPERTIES FateIsFinal
