SPECIFICATION Spec
CONSTANTS
    Msg = {m1, m2, m3}
    NoMsg = NoMsg
    MaxStarts = 2
INVARIANTS TypeOK ExactlyOnce FIFO NoUseAfterFree
PROPERTIES QueuedIsTaken StopReturns TeardownComplete
