SPECIFICATION Spec
CONSTANTS
    h1 = h1
    h2 = h2
    c1 = c1
    c2 = c2
    c3 = c3
    p1 = p1
    p2 = p2
    p3 = p3
    Hubs = {h1, h2}
    Conns = {c1, c2, c3}
    Peers = {p1, p2, p3}
    Sites <- HubSites
INVARIANT MutualDiscovery
INVARIANT PresenceExact
INVARIANT LocalDiscovery
INVARIANT ClientsAreOpen
INVARIANT RoomFollowsClients
INVARIANT NoFanoutLoop
CHECK_DEADLOCK FALSE
