SPECIFICATION FairSpec
CONSTANTS
    MaxAttempts = 2
    MaxQueue = 2
    MaxSockets = 7
    MaxFaults = 3
    MaxSends = 3
INVARIANT ConnectionIsWatched
INVARIANT QueueDrained
INVARIANT NeverStranded
PROPERTY QueuedIsSent
CHECK_DEADLOCK FALSE
