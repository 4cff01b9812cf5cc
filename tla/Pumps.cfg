SPECIFICATION FairSpec
CONSTANTS
    Capacity = 2
    MaxSends = 4
INVARIANT NoSendOnClosed
PROPERTY PumpsEnd
PROPERTY KeepsThePromise
CHECK_DEADLOCK FALSE
