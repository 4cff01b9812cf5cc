SPECIFICATION FairSpec
CONSTANTS
    RoomIds = {i1, i2}
    Codes = {k1, k2}
    Requests = {r1, r2, r3}
    Lifetimes = {0, 1}
    MaxLifetime = 3
    Day = 2
    Limits = {0}
    DefaultLimit = 2
    MaxTime = 3
    Collisions = {}
 
 
INVARIANT LockHolds
 
PROPERTY ExpiredRoomPurged
CHECK_DEADLOCK FALSE
