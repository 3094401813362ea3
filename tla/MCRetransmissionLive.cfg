SPECIFICATION Spec
CONSTANTS
    s1 = s1  s2 = s2  s3 = s3  s4 = s4
    k1 = k1  k2 = k2
    Send <- MCTwoSends
    Confirmable <- MCTwoSends
    Key <- MCKey
    Timeouts = {1}
    TryingCount = 3
    MaxAge = 4
    MaxWait = 7
INVARIANTS FullBackoff NoUseAfterFree
PROPERTIES Decided TeardownComplete
