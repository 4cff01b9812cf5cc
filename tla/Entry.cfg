SPECIFICATION FairSpec
CONSTANTS
    A = A
    B = B
    r1 = r1
    r2 = r2
    Tabs = {A, B}
    Rooms = {r1, r2}
    Made = {r2}
    Builds = {"production", "development"}
    MaxPeers = 2
    MaxLoads = 2
INVARIANT SessionTokenFits
INVARIANT IdentityAgrees
INVARIANT OneClient
PROPERTY VisitDecides
CHECK_DEADLOCK FALSE
