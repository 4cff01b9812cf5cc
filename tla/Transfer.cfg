SPECIFICATION FairSpec
CONSTANTS
    TotalChunks = 2
    NumLanes = 2
    Streams = {s1, s2}
    s1 = s1
    s2 = s2
    MaxPauses = 1
    Env = {"pauseSender", "pauseReceiver", "cancelSender", "cancelReceiver", "reject", "connLoss", "storageFault"}
INVARIANT CompletedMeansAllSent
INVARIANT ResumePointSound
INVARIANT ReassembleOnlyWhenAllSaved
INVARIANT NoOrphanChunks
PROPERTY NoSendWhenStopped
PROPERTY AcceptedTransferArrives
PROPERTY ReceiverResumeRecovers
CHECK_DEADLOCK FALSE
