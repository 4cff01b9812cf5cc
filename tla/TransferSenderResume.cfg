SPECIFICATION FairSpec
CONSTANTS
    TotalChunks = 2
    NumLanes = 2
    Streams = {s1, s2}
    s1 = s1
    s2 = s2
    MaxPauses = 1
    Env = {"pauseSender"}
PROPERTY SenderResumeDelivers
CHECK_DEADLOCK FALSE
