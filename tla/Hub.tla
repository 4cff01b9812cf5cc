-------------------------------- MODULE Hub ---------------------------------
(***************************************************************************)
(* The signaling hub (hub.go, client.go) for one room, run by one or       *)
(* several server instances that share Redis presence and NATS subjects.   *)
(* Rooms do not interact, so one is enough.                                *)
(*                                                                         *)
(* A hub is one goroutine that takes a connection to register, one to      *)
(* unregister or a message to broadcast at a time; its handlers are split  *)
(* at the Redis calls, where other instances and the NATS callback         *)
(* goroutine (natsDeliver) get in between.  What a SendJSON puts on a      *)
(* client's channel is applied to the client's view (known, got) at once:  *)
(* the channel is FIFO and roomStore treats room-state, peer-joined and    *)
(* peer-left as set updates.                                               *)
(***************************************************************************)
EXTENDS Integers, Sequences, FiniteSets

CONSTANTS
    Hubs,        \* server instances
    Conns,       \* WebSocket connections over the lifetime of the instance
    Peers,       \* peer identities of the room tokens
    Sites        \* the deployments to look at

NoConn == "no connection"
NoPeer == "no peer"

\* A deployment: the connections made, the instance each one reaches, the
\* peer_id of its token (a reconnect reuses its token), whether Redis and NATS
\* are configured, what may fail, and how many signaling messages the clients
\* send (a bound).
ASSUME HubAssumption ==
    /\ \A s \in Sites : /\ s.conns \subseteq Conns
                         /\ s.hubOf \in [Conns -> Hubs]
                         /\ s.peerOf \in [Conns -> Peers]
                         /\ s.cache \in BOOLEAN /\ s.broker \in BOOLEAN
                         /\ s.faults \subseteq {"subscribe", "redis", "shutdown"}
                         /\ s.signals \in Nat
    /\ NoConn \notin Conns /\ NoPeer \notin Peers

VARIABLES
    site,      \* the deployment, fixed at the start
    conn,      \* where the goroutines of a connection are
    hub,       \* the hub goroutine: program counter, connection, peersList
    clients,   \* LocalRoom.Clients
    room,      \* LocalRoom in h.rooms, with or without a NATS subscription
    closed,    \* connections whose Send channel is closed or marked closed
    presence,  \* the Redis hash room:<id>:presence
    nats,      \* messages on the way to each instance's subscription
    bcast,     \* the Broadcast channel
    down,      \* progress of Shutdown
    known,     \* the peers each client believes to be in the room
    got,       \* copies of signaling messages each client has received
    signals    \* signaling messages sent so far

vars == <<site, conn, hub, clients, room, closed, presence, nats, bcast, down,
          known, got, signals>>

ConnPhase == {"new", "waiting", "up", "closing", "gone"}
HubPC == {"select", "join", "presence", "list", "greet", "leave", "left"}
Message == [type : {"joined", "left", "signal"}, peer : Peers,
            target : Peers \union {NoPeer}]

Idle == [pc |-> "select", c |-> NoConn, list |-> {}]

Init ==
    /\ site \in Sites
    /\ conn = [c \in Conns |-> "new"]
    /\ hub = [h \in Hubs |-> Idle]
    /\ clients = [h \in Hubs |-> [p \in Peers |-> NoConn]]
    /\ room = [h \in Hubs |-> "absent"]
    /\ closed = {}
    /\ presence = {}
    /\ nats = [h \in Hubs |-> <<>>]
    /\ bcast = [h \in Hubs |-> <<>>]
    /\ down = [h \in Hubs |-> "running"]
    /\ known = [c \in Conns |-> {}]
    /\ got = [c \in Conns |-> 0]
    /\ signals = 0

-----------------------------------------------------------------------------
(* Helpers *)

HubOf == site.hubOf
PeerOf == site.peerOf
HasCache == site.cache
HasBroker == site.broker
Faults == site.faults

LocalPeers(h) == {p \in Peers : clients[h][p] # NoConn}
Members(h) == {c \in Conns : clients[h][PeerOf[c]] = c /\ HubOf[c] = h}

Msg(type, peer, target) == [type |-> type, peer |-> peer, target |-> target]

\* Whom instance h hands a message to: its target, or everyone but the author.
\* A peer-joined published to NATS has no FromID, so it reaches its subject too.
Recipients(h, m) ==
    {c \in Members(h) \ closed :
        CASE m.target # NoPeer -> PeerOf[c] = m.target
          [] m.type = "signal" -> PeerOf[c] # m.peer
          [] OTHER -> TRUE}

\* A client's view after a peer-joined or peer-left; roomStore ignores itself.
View(c, m) ==
    CASE m.type = "joined" -> known[c] \union ({m.peer} \ {PeerOf[c]})
      [] m.type = "left" -> known[c] \ {m.peer}
      [] OTHER -> known[c]

Deliver(h, m) ==
    /\ known' = [c \in Conns |-> IF c \in Recipients(h, m) THEN View(c, m)
                                 ELSE known[c]]
    /\ got' = [c \in Conns |-> IF c \in Recipients(h, m) /\ m.type = "signal"
                               THEN got[c] + 1 ELSE got[c]]

\* NATS hands a message to every subscription, the publisher's included (the
\* connection is opened without NoEcho).
publishToNats(m) ==
    [h \in Hubs |-> IF HasBroker /\ room[h] = "subscribed"
                    THEN Append(nats[h], m) ELSE nats[h]]

\* The list of peers a newcomer is told.
BugListsLocalPeers(h, p) == LocalPeers(h) \ {p}
peersList(h, p) == (IF HasCache THEN presence ELSE LocalPeers(h)) \ {p}

BugKeepsPresence(p) == presence
RemovePresence(p) == presence \ {p}

BugCountsTheLeaver(h) == Cardinality(LocalPeers(h)) = 1
isEmpty(h) == LocalPeers(h) = {}

exists(h, c) == clients[h][PeerOf[c]] # NoConn

BugKeepsEntry(h, c) == clients
deleteClient(h, c) == [clients EXCEPT ![h][PeerOf[c]] = NoConn]

\* The local peers that get the peer-joined of c.
BugTellsNobody(h, c) == {}
existingPeers(h, c) == Members(h) \ {c}

-----------------------------------------------------------------------------
(* Connections: WSHandler, ReadPump *)

\* WSHandler blocks on the unbuffered Register channel.
connect(c) ==
    /\ c \in site.conns
    /\ conn[c] = "new"
    /\ conn' = [conn EXCEPT ![c] = "waiting"]
    /\ UNCHANGED <<site, hub, clients, room, closed, presence, nats, bcast, down,
                   known, got, signals>>

\* The connection dies: ReadPump ends and blocks on Unregister.
disconnect(c) ==
    /\ conn[c] = "up"
    /\ conn' = [conn EXCEPT ![c] = "closing"]
    /\ UNCHANGED <<site, hub, clients, room, closed, presence, nats, bcast, down,
                   known, got, signals>>

\* ReadPump stamps a message with the connection's identity and queues it.
signal(c) ==
    /\ conn[c] = "up"
    /\ signals < site.signals
    /\ signals' = signals + 1
    /\ \E target \in (Peers \ {PeerOf[c]}) \union {NoPeer} :
          bcast' = [bcast EXCEPT ![HubOf[c]] =
                       Append(@, Msg("signal", PeerOf[c], target))]
    /\ UNCHANGED <<site, conn, hub, clients, room, closed, presence, nats, down,
                   known, got>>

-----------------------------------------------------------------------------
(* handleRegister *)

\* While shutting down the client only gets an error.  The first client of a
\* room creates it and subscribes; a failed subscription leaves the room
\* behind without the client.
registerRefused(h, c) ==
    /\ down[h] # "running"
    /\ UNCHANGED <<hub, room>>

registerRoom(h, c) ==
    /\ down[h] = "running"
    /\ room[h] = "absent"
    /\ room' = [room EXCEPT ![h] = IF HasBroker THEN "subscribed" ELSE "bare"]
    /\ hub' = [hub EXCEPT ![h] = [pc |-> "join", c |-> c, list |-> {}]]

registerSubscribeError(h, c) ==
    /\ down[h] = "running"
    /\ room[h] = "absent"
    /\ HasBroker /\ "subscribe" \in Faults
    /\ room' = [room EXCEPT ![h] = "bare"]
    /\ UNCHANGED hub

registerKnownRoom(h, c) ==
    /\ down[h] = "running"
    /\ room[h] # "absent"
    /\ hub' = [hub EXCEPT ![h] = [pc |-> "join", c |-> c, list |-> {}]]
    /\ UNCHANGED room

register(h, c) ==
    /\ hub[h].pc = "select"
    /\ HubOf[c] = h /\ conn[c] = "waiting"
    /\ conn' = [conn EXCEPT ![c] = "up"]
    /\ \/ registerRefused(h, c) \/ registerRoom(h, c)
       \/ registerSubscribeError(h, c) \/ registerKnownRoom(h, c)
    /\ UNCHANGED <<site, clients, closed, presence, nats, bcast, down, known, got,
                   signals>>

\* lr.Clients[client.ID] = client, whoever held the ID before.
join(h) ==
    LET c == hub[h].c IN
    /\ hub[h].pc = "join"
    /\ clients' = [clients EXCEPT ![h][PeerOf[c]] = c]
    /\ hub' = [hub EXCEPT ![h].pc = "presence"]
    /\ UNCHANGED <<site, conn, room, closed, presence, nats, bcast, down, known,
                   got, signals>>

\* A Redis error is logged and ignored.
setPresence(h) ==
    /\ hub[h].pc = "presence"
    /\ \/ presence' = IF HasCache THEN presence \union {PeerOf[hub[h].c]}
                      ELSE presence
       \/ HasCache /\ "redis" \in Faults /\ UNCHANGED presence
    /\ hub' = [hub EXCEPT ![h].pc = "list"]
    /\ UNCHANGED <<site, conn, clients, room, closed, nats, bcast, down, known, got,
                   signals>>

listPeers(h) ==
    /\ hub[h].pc = "list"
    /\ \/ hub' = [hub EXCEPT ![h] = [pc |-> "greet", c |-> hub[h].c,
                                    list |-> peersList(h, PeerOf[hub[h].c])]]
       \/ /\ HasCache /\ "redis" \in Faults
          /\ hub' = [hub EXCEPT ![h] = [pc |-> "greet", c |-> hub[h].c, list |-> {}]]
    /\ UNCHANGED <<site, conn, clients, room, closed, presence, nats, bcast, down,
                   known, got, signals>>

\* auth and room-state to the newcomer, peer-joined to the local peers and to
\* NATS.
greet(h) ==
    LET c == hub[h].c IN
    /\ hub[h].pc = "greet"
    /\ known' = [d \in Conns |->
          CASE d = c -> IF c \in closed THEN known[c]
                        ELSE known[c] \union hub[h].list
            [] d \in existingPeers(h, c) \ closed -> known[d] \union {PeerOf[c]}
            [] OTHER -> known[d]]
    /\ nats' = publishToNats(Msg("joined", PeerOf[c], NoPeer))
    /\ hub' = [hub EXCEPT ![h] = Idle]
    /\ UNCHANGED <<site, conn, clients, room, closed, presence, bcast, down, got,
                   signals>>

-----------------------------------------------------------------------------
(* handleUnregister *)

\* The entry is looked up and deleted by ID; the channel that is closed is
\* that of the connection that leaves.
unregister(h, c) ==
    /\ hub[h].pc = "select"
    /\ HubOf[c] = h /\ conn[c] = "closing"
    /\ conn' = [conn EXCEPT ![c] = "gone"]
    /\ IF room[h] # "absent" /\ exists(h, c)
       THEN /\ clients' = deleteClient(h, c)
            /\ closed' = closed \union {c}
            /\ hub' = [hub EXCEPT ![h] = [pc |-> "leave", c |-> c, list |-> {}]]
       ELSE UNCHANGED <<clients, closed, hub>>
    /\ UNCHANGED <<site, room, presence, nats, bcast, down, known, got, signals>>

leave(h) ==
    /\ hub[h].pc = "leave"
    /\ \/ presence' = IF HasCache THEN RemovePresence(PeerOf[hub[h].c])
                      ELSE presence
       \/ HasCache /\ "redis" \in Faults /\ UNCHANGED presence
    /\ hub' = [hub EXCEPT ![h].pc = "left"]
    /\ UNCHANGED <<site, conn, clients, room, closed, nats, bcast, down, known, got,
                   signals>>

\* peer-left to the remaining peers and to NATS; the last one out ends the
\* subscription and removes the room.
left(h) ==
    LET m == Msg("left", PeerOf[hub[h].c], NoPeer) IN
    /\ hub[h].pc = "left"
    /\ Deliver(h, m)
    /\ IF isEmpty(h)
       THEN /\ room' = [room EXCEPT ![h] = "absent"]
            /\ nats' = [publishToNats(m) EXCEPT ![h] = <<>>]
       ELSE /\ UNCHANGED room
            /\ nats' = publishToNats(m)
    /\ hub' = [hub EXCEPT ![h] = Idle]
    /\ UNCHANGED <<site, conn, clients, closed, presence, bcast, down, signals>>

-----------------------------------------------------------------------------
(* handleBroadcast, handleNatsMessage, Shutdown *)

\* Pings, auth, join and leave messages change nothing in the room.
handleBroadcast(h) ==
    /\ hub[h].pc = "select"
    /\ bcast[h] # <<>>
    /\ bcast' = [bcast EXCEPT ![h] = Tail(@)]
    /\ IF room[h] # "absent"
       THEN /\ Deliver(h, Head(bcast[h]))
            /\ nats' = publishToNats(Head(bcast[h]))
       ELSE UNCHANGED <<known, got, nats>>
    /\ UNCHANGED <<site, conn, hub, clients, room, closed, presence, down, signals>>

\* What is on its way to the instances once h has taken a message from NATS.
BugRepublishes(h) == [publishToNats(Head(nats[h])) EXCEPT ![h] = Tail(@)]
takenFromNats(h) == [nats EXCEPT ![h] = Tail(@)]

natsDeliver(h) ==
    /\ nats[h] # <<>>
    /\ nats' = takenFromNats(h)
    /\ IF room[h] # "absent" THEN Deliver(h, Head(nats[h]))
       ELSE UNCHANGED <<known, got>>
    /\ UNCHANGED <<site, conn, hub, clients, room, closed, presence, bcast, down,
                   signals>>

shutdown(h) ==
    /\ "shutdown" \in Faults
    /\ down[h] = "running"
    /\ down' = [down EXCEPT ![h] = "notified"]
    /\ UNCHANGED <<site, conn, hub, clients, room, closed, presence, nats, bcast,
                   known, got, signals>>

\* Half a second later every registered connection is marked and closed.
shutdownClose(h) ==
    /\ down[h] = "notified"
    /\ down' = [down EXCEPT ![h] = "closed"]
    /\ closed' = closed \union Members(h)
    /\ conn' = [c \in Conns |-> IF c \in Members(h) /\ conn[c] = "up"
                                THEN "closing" ELSE conn[c]]
    /\ UNCHANGED <<site, hub, clients, room, presence, nats, bcast, known, got,
                   signals>>

-----------------------------------------------------------------------------
\* The hub goroutine.
hubStep(h) ==
    \/ \E c \in Conns : register(h, c) \/ unregister(h, c)
    \/ join(h) \/ setPresence(h) \/ listPeers(h) \/ greet(h)
    \/ leave(h) \/ left(h) \/ handleBroadcast(h)

Next ==
    \/ \E c \in Conns : connect(c) \/ disconnect(c) \/ signal(c)
    \/ \E h \in Hubs : hubStep(h) \/ natsDeliver(h) \/ shutdown(h) \/ shutdownClose(h)

Spec == Init /\ [][Next]_vars

-----------------------------------------------------------------------------
(* Properties *)

\* Every variable keeps its type; in particular a newcomer is told peers.
TypeOK ==
    /\ site \in Sites
    /\ conn \in [Conns -> ConnPhase]
    /\ hub \in [Hubs -> [pc : HubPC, c : Conns \union {NoConn}, list : SUBSET Peers]]
    /\ clients \in [Hubs -> [Peers -> Conns \union {NoConn}]]
    /\ room \in [Hubs -> {"absent", "bare", "subscribed"}]
    /\ closed \in SUBSET Conns
    /\ presence \in SUBSET Peers
    /\ nats \in [Hubs -> Seq(Message)]
    /\ bcast \in [Hubs -> Seq(Message)]
    /\ down \in [Hubs -> {"running", "notified", "closed"}]
    /\ known \in [Conns -> SUBSET Peers]
    /\ got \in [Conns -> Nat]
    /\ signals \in Nat

Registered(c) == c \in Members(HubOf[c])

\* Nothing is in progress: every goroutine waits, no message is on its way.
Quiet ==
    /\ \A h \in Hubs : hub[h].pc = "select" /\ nats[h] = <<>> /\ bcast[h] = <<>>
    /\ \A c \in Conns : conn[c] \notin {"waiting", "closing"}

\* Nothing fails, and several instances share Redis and NATS.
Sound == /\ Faults = {}
         /\ \/ HasCache /\ HasBroker
            \/ \A c, d \in site.conns : HubOf[c] = HubOf[d]

\* No two connections carry the same token.
NoReconnects == \A c, d \in Conns : PeerOf[c] = PeerOf[d] => c = d

\* Any two peers in the room have been told of each other once things are
\* quiet, on the same instance or not: handleRegister subscribes, then sets
\* its presence, then reads the others'.
MutualDiscovery ==
    Sound /\ NoReconnects /\ Quiet => \A c, d \in Conns :
        Registered(c) /\ Registered(d) /\ PeerOf[c] # PeerOf[d]
            => PeerOf[d] \in known[c]

\* Redis presence is exactly the set of registered peers once things are quiet.
PresenceExact ==
    Sound /\ HasCache /\ NoReconnects /\ Quiet
        => presence = {PeerOf[c] : c \in {d \in Conns : Registered(d)}}

\* An instance with a client in the room listens to the room's subject, so
\* that it misses nothing other instances publish, and a hub goroutine at rest
\* keeps no room without clients.
RoomFollowsClients ==
    HasBroker /\ "subscribe" \notin Faults => \A h \in Hubs :
        /\ LocalPeers(h) # {} => room[h] = "subscribed"
        /\ hub[h].pc = "select" /\ LocalPeers(h) = {} => room[h] = "absent"

\* No hub writes to a closed channel: whoever is in Clients has its Send
\* channel open, unless Shutdown has marked it closed.
ClientsAreOpen ==
    \A h \in Hubs : down[h] # "closed" => Members(h) \cap closed = {}

\* c's peer never connects to another instance.
Sticky(c) == \A e \in site.conns : PeerOf[e] = PeerOf[c] => HubOf[e] = HubOf[c]

\* Whatever Redis and the subscription do, of two peers of one instance the
\* older has been told of the younger once things are quiet (handleRegister
\* tells lr.Clients itself), so that one of the two can open the connection.
\* Both have been on that instance only: the peer-left of a connection that
\* ends on another instance comes back through NATS, possibly after the
\* greeting of the new one, and handleRegister greets once.
LocalDiscovery ==
    Quiet => \A c, d \in Conns :
        /\ Registered(c) /\ Registered(d) /\ c # d /\ HubOf[c] = HubOf[d]
        /\ Sticky(c) /\ Sticky(d)
        => PeerOf[d] \in known[c] \/ PeerOf[c] \in known[d]

\* A signaling message reaches a client directly and once more through the
\* instance's own subscription, and never again: natsOrigin keeps what came
\* from NATS from being published a second time, by this instance or another.
NoFanoutLoop ==
    \A c \in Conns : got[c] <= (IF HasBroker THEN 2 ELSE 1) * signals

\* cache.go: "GetRoomPresence lists all active peers and statuses in a room": a
\* peer whose connection is up is in the room's presence.
PresenceListsActive ==
    Quiet => \A c \in Conns : conn[c] = "up" => PeerOf[c] \in presence
=============================================================================
