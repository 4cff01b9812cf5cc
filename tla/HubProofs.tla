------------------------------ MODULE HubProofs ------------------------------
(***************************************************************************)
(* Proofs about Hub, for every number of instances, connections, peers and *)
(* deployments.                                                            *)
(***************************************************************************)
EXTENDS Hub, TLAPS, SequenceTheorems, FiniteSetTheorems

-----------------------------------------------------------------------------
(* Helpers *)

\* What a deployment consists of.
LEMMA SiteFacts ==
    ASSUME site \in Sites
    PROVE  /\ HubOf \in [Conns -> Hubs] /\ PeerOf \in [Conns -> Peers]
           /\ HasCache \in BOOLEAN /\ HasBroker \in BOOLEAN
           /\ NoConn \notin Conns /\ NoPeer \notin Peers
  BY HubAssumption DEF HubOf, PeerOf, HasCache, HasBroker

LEMMA MsgType ==
    ASSUME NEW t \in {"joined", "left", "signal"}, NEW p \in Peers,
           NEW q \in Peers \union {NoPeer}
    PROVE  Msg(t, p, q) \in Message
  BY DEF Msg, Message

\* A message is appended to the subscriptions there are.
LEMMA PublishFacts ==
    ASSUME TypeOK, NEW m \in Message
    PROVE  /\ publishToNats(m) \in [Hubs -> Seq(Message)]
           /\ \A h \in Hubs : publishToNats(m)[h] =
                 IF HasBroker /\ room[h] = "subscribed" THEN Append(nats[h], m) ELSE nats[h]
  BY DEF TypeOK, publishToNats

LEMMA DeliverType ==
    ASSUME TypeOK, NEW h \in Hubs, NEW m \in Message, Deliver(h, m)
    PROVE  known' \in [Conns -> SUBSET Peers] /\ got' \in [Conns -> Nat]
<1>1. PeerOf \in [Conns -> Peers]
  BY SiteFacts DEF TypeOK
<1>2. \A c \in Conns : View(c, m) \in SUBSET Peers
  BY <1>1 DEF View, TypeOK, Message
<1>3. known' \in [Conns -> SUBSET Peers]
  BY <1>2 DEF Deliver, TypeOK
<1>4. got' \in [Conns -> Nat]
  BY DEF Deliver, TypeOK
<1> QED  BY <1>3, <1>4

\* Whom the hub goroutine serves while it is in a handler.
ServesInv ==
    \A h \in Hubs : hub[h].pc # "select" => hub[h].c \in Conns /\ HubOf[hub[h].c] = h

LEMMA InitInv == Init => TypeOK /\ ServesInv
<1> SUFFICES ASSUME Init PROVE TypeOK /\ ServesInv
  OBVIOUS
<1>1. Idle \in [pc : HubPC, c : Conns \union {NoConn}, list : SUBSET Peers]
  BY DEF Idle, HubPC
<1>2. TypeOK
  BY <1>1 DEF Init, TypeOK, ConnPhase
<1>3. ServesInv
  BY DEF Init, ServesInv, Idle
<1> QED  BY <1>2, <1>3

-----------------------------------------------------------------------------
(* Type correctness *)

LEMMA ConnType ==
    ASSUME TypeOK, NEW c \in Conns, connect(c) \/ disconnect(c) \/ signal(c)
    PROVE  TypeOK'
<1>1. CASE connect(c)
  BY <1>1 DEF connect, TypeOK, ConnPhase
<1>2. CASE disconnect(c)
  BY <1>2 DEF disconnect, TypeOK, ConnPhase
<1>3. CASE signal(c)
  <2>1. PICK target \in (Peers \ {PeerOf[c]}) \union {NoPeer} :
           bcast' = [bcast EXCEPT ![HubOf[c]] = Append(@, Msg("signal", PeerOf[c], target))]
    BY <1>3 DEF signal
  <2>2. Msg("signal", PeerOf[c], target) \in Message
    BY SiteFacts, MsgType DEF TypeOK
  <2>3. HubOf[c] \in Hubs /\ bcast[HubOf[c]] \in Seq(Message)
    BY SiteFacts DEF TypeOK
  <2>4. Append(bcast[HubOf[c]], Msg("signal", PeerOf[c], target)) \in Seq(Message)
    BY <2>2, <2>3, AppendProperties
  <2>5. bcast' \in [Hubs -> Seq(Message)]
    BY <2>1, <2>3, <2>4 DEF TypeOK
  <2> QED  BY <1>3, <2>5 DEF signal, TypeOK
<1> QED  BY <1>1, <1>2, <1>3

LEMMA RegisterType ==
    ASSUME TypeOK, NEW h \in Hubs, NEW c \in Conns, register(h, c)
    PROVE  TypeOK'
<1>1. hub' \in [Hubs -> [pc : HubPC, c : Conns \union {NoConn}, list : SUBSET Peers]]
  <2>1. [pc |-> "join", c |-> c, list |-> {}] \in
            [pc : HubPC, c : Conns \union {NoConn}, list : SUBSET Peers]
    BY DEF HubPC
  <2> QED  BY <2>1 DEF register, registerRefused, registerRoom, registerSubscribeError,
           registerKnownRoom, TypeOK
<1>2. room' \in [Hubs -> {"absent", "bare", "subscribed"}]
  BY DEF register, registerRefused, registerRoom, registerSubscribeError,
     registerKnownRoom, TypeOK
<1>3. conn' \in [Conns -> ConnPhase]
  BY DEF register, TypeOK, ConnPhase
<1> QED  BY <1>1, <1>2, <1>3 DEF register, TypeOK

LEMMA RegisterStepType ==
    ASSUME TypeOK, ServesInv, NEW h \in Hubs,
           join(h) \/ setPresence(h) \/ listPeers(h) \/ greet(h)
    PROVE  TypeOK'
<1> DEFINE c == hub[h].c
<1>1. c \in Conns /\ PeerOf[c] \in Peers
  BY SiteFacts DEF ServesInv, TypeOK, join, setPresence, listPeers, greet
<1>2. CASE join(h)
  <2>1. clients' \in [Hubs -> [Peers -> Conns \union {NoConn}]]
    BY <1>1, <1>2 DEF join, TypeOK
  <2>2. hub' \in [Hubs -> [pc : HubPC, c : Conns \union {NoConn}, list : SUBSET Peers]]
    BY <1>2, ZenonT(60) DEF join, TypeOK, HubPC
  <2> QED  BY <1>2, <2>1, <2>2 DEF join, TypeOK
<1>3. CASE setPresence(h)
  <2>1. presence' \in SUBSET Peers
    BY <1>1, <1>3 DEF setPresence, TypeOK
  <2>2. hub' \in [Hubs -> [pc : HubPC, c : Conns \union {NoConn}, list : SUBSET Peers]]
    BY <1>3, ZenonT(60) DEF setPresence, TypeOK, HubPC
  <2> QED  BY <1>3, <2>1, <2>2 DEF setPresence, TypeOK
<1>4. CASE listPeers(h)
  <2>1. peersList(h, PeerOf[c]) \in SUBSET Peers
    BY DEF peersList, LocalPeers, TypeOK
  <2>2. hub' \in [Hubs -> [pc : HubPC, c : Conns \union {NoConn}, list : SUBSET Peers]]
    <3>1. PICK l \in SUBSET Peers :
             hub' = [hub EXCEPT ![h] = [pc |-> "greet", c |-> c, list |-> l]]
      BY <1>4, <2>1 DEF listPeers
    <3>2. [pc |-> "greet", c |-> c, list |-> l] \in
             [pc : HubPC, c : Conns \union {NoConn}, list : SUBSET Peers]
      BY <1>1 DEF HubPC
    <3> QED  BY <3>1, <3>2 DEF TypeOK
  <2> QED  BY <1>4, <2>2 DEF listPeers, TypeOK
<1>5. CASE greet(h)
  <2>1. hub[h].list \in SUBSET Peers
    BY DEF TypeOK
  <2>2. known' \in [Conns -> SUBSET Peers]
    BY <1>1, <1>5, <2>1 DEF greet, TypeOK
  <2>3. Msg("joined", PeerOf[c], NoPeer) \in Message
    BY <1>1, MsgType
  <2>4. nats' \in [Hubs -> Seq(Message)]
    BY <1>5, <2>3, PublishFacts DEF greet
  <2>5. hub' \in [Hubs -> [pc : HubPC, c : Conns \union {NoConn}, list : SUBSET Peers]]
    BY <1>5 DEF greet, TypeOK, HubPC, Idle
  <2> QED  BY <1>5, <2>2, <2>4, <2>5 DEF greet, TypeOK
<1> QED  BY <1>2, <1>3, <1>4, <1>5

LEMMA UnregisterType ==
    ASSUME TypeOK, ServesInv, NEW h \in Hubs,
           (\E c \in Conns : unregister(h, c)) \/ leave(h) \/ left(h)
    PROVE  TypeOK'
<1>1. ASSUME NEW c \in Conns, unregister(h, c) PROVE TypeOK'
  <2>1. clients' \in [Hubs -> [Peers -> Conns \union {NoConn}]]
    <3>1. deleteClient(h, c) \in [Hubs -> [Peers -> Conns \union {NoConn}]]
      BY DEF deleteClient, TypeOK
    <3> QED  BY <1>1, <3>1 DEF unregister, TypeOK
  <2>2. hub' \in [Hubs -> [pc : HubPC, c : Conns \union {NoConn}, list : SUBSET Peers]]
    <3>1. hub' \in {hub, [hub EXCEPT ![h] = [pc |-> "leave", c |-> c, list |-> {}]]}
      BY <1>1 DEF unregister
    <3>2. [pc |-> "leave", c |-> c, list |-> {}] \in
             [pc : HubPC, c : Conns \union {NoConn}, list : SUBSET Peers]
      BY DEF HubPC
    <3> QED  BY <3>1, <3>2 DEF TypeOK
  <2>3. conn' \in [Conns -> ConnPhase] /\ closed' \in SUBSET Conns
    BY <1>1, ZenonT(60) DEF unregister, TypeOK, ConnPhase
  <2> QED  BY <1>1, <2>1, <2>2, <2>3 DEF unregister, TypeOK
<1>2. CASE leave(h)
  <2>1. presence' \in SUBSET Peers
    BY <1>2 DEF leave, RemovePresence, TypeOK
  <2>2. hub' \in [Hubs -> [pc : HubPC, c : Conns \union {NoConn}, list : SUBSET Peers]]
    BY <1>2, ZenonT(60) DEF leave, TypeOK, HubPC
  <2> QED  BY <1>2, <2>1, <2>2 DEF leave, TypeOK
<1>3. CASE left(h)
  <2> DEFINE m == Msg("left", PeerOf[hub[h].c], NoPeer)
  <2>1. m \in Message
    BY <1>3, SiteFacts, MsgType DEF ServesInv, TypeOK, left
  <2> HIDE DEF m
  <2>2. /\ Deliver(h, m)
        /\ nats' \in {publishToNats(m), [publishToNats(m) EXCEPT ![h] = <<>>]}
        /\ room' \in {room, [room EXCEPT ![h] = "absent"]}
        /\ hub' = [hub EXCEPT ![h] = Idle]
    BY <1>3 DEF left, m
  <2>3. known' \in [Conns -> SUBSET Peers] /\ got' \in [Conns -> Nat]
    BY <2>1, <2>2, DeliverType
  <2>4. nats' \in [Hubs -> Seq(Message)]
    <3>1. publishToNats(m) \in [Hubs -> Seq(Message)]
      BY <2>1, PublishFacts
    <3>2. [publishToNats(m) EXCEPT ![h] = <<>>] \in [Hubs -> Seq(Message)]
      BY <3>1
    <3> QED  BY <2>2, <3>1, <3>2
  <2>5. room' \in [Hubs -> {"absent", "bare", "subscribed"}]
    BY <2>2 DEF TypeOK
  <2>6. hub' \in [Hubs -> [pc : HubPC, c : Conns \union {NoConn}, list : SUBSET Peers]]
    BY <2>2 DEF TypeOK, HubPC, Idle
  <2> QED  BY <1>3, <2>3, <2>4, <2>5, <2>6 DEF left, TypeOK
<1> QED  BY <1>1, <1>2, <1>3

\* The head of a queue of messages is one, and so is what is left.
LEMMA QueueHead ==
    ASSUME NEW q \in Seq(Message), q # <<>>
    PROVE  Head(q) \in Message /\ Tail(q) \in Seq(Message)
  OBVIOUS

LEMMA MessageType ==
    ASSUME TypeOK, NEW h \in Hubs, handleBroadcast(h) \/ natsDeliver(h)
    PROVE  TypeOK'
<1>1. CASE handleBroadcast(h)
  <2>1. /\ Head(bcast[h]) \in Message
        /\ bcast' \in [Hubs -> Seq(Message)]
    BY <1>1, QueueHead DEF handleBroadcast, TypeOK
  <2>2. known' \in [Conns -> SUBSET Peers] /\ got' \in [Conns -> Nat]
    BY <1>1, <2>1, DeliverType DEF handleBroadcast, TypeOK
  <2>3. nats' \in [Hubs -> Seq(Message)]
    BY <1>1, <2>1, PublishFacts DEF handleBroadcast, TypeOK
  <2> QED  BY <1>1, <2>1, <2>2, <2>3 DEF handleBroadcast, TypeOK
<1>2. CASE natsDeliver(h)
  <2>1. /\ Head(nats[h]) \in Message
        /\ nats' \in [Hubs -> Seq(Message)]
    BY <1>2, QueueHead DEF natsDeliver, takenFromNats, TypeOK
  <2>2. known' \in [Conns -> SUBSET Peers] /\ got' \in [Conns -> Nat]
    BY <1>2, <2>1, DeliverType DEF natsDeliver, TypeOK
  <2> QED  BY <1>2, <2>1, <2>2 DEF natsDeliver, TypeOK
<1> QED  BY <1>1, <1>2

LEMMA ShutdownType ==
    ASSUME TypeOK, NEW h \in Hubs, shutdown(h) \/ shutdownClose(h)
    PROVE  TypeOK'
<1>1. CASE shutdown(h)
  BY <1>1 DEF shutdown, TypeOK
<1>2. CASE shutdownClose(h)
  <2>1. conn' \in [Conns -> ConnPhase] /\ closed' \in SUBSET Conns
    BY <1>2 DEF shutdownClose, TypeOK, ConnPhase, Members
  <2> QED  BY <1>2, <2>1 DEF shutdownClose, TypeOK
<1> QED  BY <1>1, <1>2

LEMMA NextServesInv == TypeOK /\ ServesInv /\ [Next]_vars => ServesInv'
<1> SUFFICES ASSUME TypeOK, ServesInv, [Next]_vars PROVE ServesInv'
  OBVIOUS
<1>1. UNCHANGED HubOf
  BY DEF HubOf, vars, Next, hubStep, connect, disconnect, signal, register, unregister,
     join, setPresence, listPeers, greet, leave, left, handleBroadcast, natsDeliver,
     shutdown, shutdownClose
<1>2. CASE UNCHANGED hub
  BY <1>1, <1>2 DEF ServesInv
<1>3. ASSUME NEW h \in Hubs, NEW c \in Conns, register(h, c) \/ unregister(h, c)
      PROVE  ServesInv'
  <2>1. /\ HubOf[c] = h
        /\ \/ hub' = hub
           \/ hub' = [hub EXCEPT ![h] = [pc |-> "join", c |-> c, list |-> {}]]
           \/ hub' = [hub EXCEPT ![h] = [pc |-> "leave", c |-> c, list |-> {}]]
    BY <1>3 DEF register, registerRefused, registerRoom, registerSubscribeError,
       registerKnownRoom, unregister
  <2>2. \A g \in Hubs : hub'[g] = hub[g] \/ (g = h /\ hub'[g].c = c)
    BY <2>1 DEF TypeOK
  <2> QED  BY <1>1, <2>1, <2>2 DEF ServesInv
<1>4. ASSUME NEW h \in Hubs,
             join(h) \/ setPresence(h) \/ listPeers(h) \/ greet(h) \/ leave(h) \/ left(h)
      PROVE  ServesInv'
  <2>1. /\ \A g \in Hubs \ {h} : hub'[g] = hub[g]
        /\ hub'[h].pc = "select" \/ (hub'[h].c = hub[h].c /\ hub[h].pc # "select")
    BY <1>4 DEF TypeOK, join, setPresence, listPeers, greet, leave, left, Idle
  <2> QED  BY <1>1, <2>1 DEF ServesInv
<1> QED  BY <1>2, <1>3, <1>4
         DEF Next, hubStep, vars, connect, disconnect, signal, handleBroadcast,
             natsDeliver, shutdown, shutdownClose

LEMMA NextTypeOK == TypeOK /\ ServesInv /\ [Next]_vars => TypeOK'
<1> SUFFICES ASSUME TypeOK, ServesInv, [Next]_vars PROVE TypeOK'
  OBVIOUS
<1>1. CASE UNCHANGED vars
  BY <1>1 DEF vars, TypeOK
<1>2. ASSUME NEW c \in Conns, connect(c) \/ disconnect(c) \/ signal(c) PROVE TypeOK'
  BY <1>2, ConnType
<1>3. ASSUME NEW h \in Hubs, hubStep(h) PROVE TypeOK'
  BY <1>3, RegisterType, RegisterStepType, UnregisterType, MessageType DEF hubStep
<1>4. ASSUME NEW h \in Hubs, natsDeliver(h) \/ shutdown(h) \/ shutdownClose(h) PROVE TypeOK'
  BY <1>4, MessageType, ShutdownType
<1> QED  BY <1>1, <1>2, <1>3, <1>4 DEF Next

LEMMA TypesInvariant == Spec => [](TypeOK /\ ServesInv)
<1>1. Init => TypeOK /\ ServesInv
  BY InitInv
<1>2. TypeOK /\ ServesInv /\ [Next]_vars => TypeOK' /\ ServesInv'
  BY NextTypeOK, NextServesInv
<1> QED  BY <1>1, <1>2, PTL DEF Spec

\* Every variable keeps its type, in every deployment.
THEOREM TypeCorrect == Spec => []TypeOK
<1> QED  BY TypesInvariant, PTL

-----------------------------------------------------------------------------
(* The room of an instance *)

Registering == {"join", "presence", "list", "greet"}

\* An instance has the room, and has its subscription, from before its first
\* client is in until after the last one is out.
RoomInv ==
    \A h \in Hubs :
        /\ LocalPeers(h) # {} \/ hub[h].pc \in Registering => room[h] # "absent"
        /\ hub[h].pc \in {"presence", "list", "greet"} => LocalPeers(h) # {}
        /\ "subscribe" \notin Faults =>
              /\ hub[h].pc = "select" /\ LocalPeers(h) = {} => room[h] = "absent"
              /\ HasBroker => room[h] # "bare"

\* The deployment stays what it is.
LEMMA SameSite ==
    ASSUME [Next]_vars
    PROVE  /\ site' = site /\ HubOf' = HubOf /\ PeerOf' = PeerOf
           /\ HasCache' = HasCache /\ HasBroker' = HasBroker /\ Faults' = Faults
  BY DEF HubOf, PeerOf, HasCache, HasBroker, Faults, vars, Next, hubStep, connect,
     disconnect, signal, register, unregister, join, setPresence, listPeers, greet, leave,
     left, handleBroadcast, natsDeliver, shutdown, shutdownClose

\* Who is in the room of an instance changes at join and unregister only.
LEMMA SameLocalPeers ==
    ASSUME NEW h \in Hubs, clients'[h] = clients[h]
    PROVE  LocalPeers(h)' = LocalPeers(h)
  BY DEF LocalPeers

LEMMA InitRoomInv == Init => RoomInv
  BY DEF Init, Idle, RoomInv, Registering, LocalPeers

LEMMA RegisterRoomInv ==
    ASSUME TypeOK, ServesInv, RoomInv, NEW h \in Hubs,
           \/ \E c \in Conns : register(h, c)
           \/ join(h) \/ setPresence(h) \/ listPeers(h) \/ greet(h)
    PROVE  RoomInv'
<1>1. [Next]_vars
  BY DEF Next, hubStep
<1>2. /\ \A g \in Hubs \ {h} : hub'[g] = hub[g] /\ clients'[g] = clients[g] /\ room'[g] = room[g]
  BY DEF TypeOK, register, registerRefused, registerRoom, registerSubscribeError,
     registerKnownRoom, join, setPresence, listPeers, greet
<1>3. ASSUME NEW c \in Conns, register(h, c) PROVE RoomInv'
  <2>1. LocalPeers(h)' = LocalPeers(h)
    BY <1>3, SameLocalPeers DEF register
  <2>2. hub[h].pc = "select" /\ hub'[h].pc \in {"select", "join"}
    BY <1>3 DEF register, registerRefused, registerRoom, registerSubscribeError,
       registerKnownRoom, TypeOK
  <2>3. hub'[h].pc = "join" => room'[h] # "absent"
    BY <1>3, <2>2 DEF register, registerRefused, registerRoom, registerSubscribeError,
       registerKnownRoom, TypeOK
  <2>4. \/ room'[h] = room[h]
        \/ room[h] = "absent" /\ (HasBroker /\ "subscribe" \notin Faults => room'[h] = "subscribed")
                              /\ ("subscribe" \notin Faults => hub'[h].pc = "join")
    BY <1>3 DEF register, registerRefused, registerRoom, registerSubscribeError,
       registerKnownRoom, TypeOK
  <2>5. room'[h] # "absent" \/ room'[h] = room[h]
    BY <1>3 DEF register, registerRefused, registerRoom, registerSubscribeError,
       registerKnownRoom, TypeOK
  <2> QED  BY <1>1, <1>2, <2>1, <2>2, <2>3, <2>4, <2>5, SameSite, SameLocalPeers DEF RoomInv, Registering
<1>4. CASE join(h)
  <2>1. PeerOf[hub[h].c] \in Peers /\ hub[h].c # NoConn
    BY <1>4, SiteFacts DEF ServesInv, TypeOK, join
  <2>2. LocalPeers(h)' # {}
    BY <1>4, <2>1 DEF join, LocalPeers, TypeOK
  <2>3. hub'[h].pc = "presence" /\ hub[h].pc = "join" /\ room'[h] = room[h]
    BY <1>4 DEF join, TypeOK
  <2> QED  BY <1>1, <1>2, <2>2, <2>3, SameSite, SameLocalPeers DEF RoomInv, Registering
<1>5. CASE setPresence(h) \/ listPeers(h) \/ greet(h)
  <2>1. /\ LocalPeers(h)' = LocalPeers(h) /\ room'[h] = room[h]
        /\ hub[h].pc \in {"presence", "list", "greet"}
        /\ hub'[h].pc \in {"list", "greet", "select"}
    BY <1>5, SameLocalPeers DEF setPresence, listPeers, greet, TypeOK, Idle
  <2> QED  BY <1>1, <1>2, <2>1, SameSite, SameLocalPeers DEF RoomInv, Registering
<1> QED  BY <1>3, <1>4, <1>5

LEMMA UnregisterRoomInv ==
    ASSUME TypeOK, ServesInv, RoomInv, NEW h \in Hubs,
           (\E c \in Conns : unregister(h, c)) \/ leave(h) \/ left(h)
    PROVE  RoomInv'
<1>1. [Next]_vars
  BY DEF Next, hubStep
<1>2. \A g \in Hubs \ {h} : hub'[g] = hub[g] /\ clients'[g] = clients[g] /\ room'[g] = room[g]
  BY DEF TypeOK, unregister, deleteClient, leave, left
<1>3. ASSUME NEW c \in Conns, unregister(h, c) PROVE RoomInv'
  <2>1. CASE room[h] # "absent" /\ exists(h, c)
    <3>1. hub'[h].pc = "leave" /\ room'[h] = room[h]
      BY <1>3, <2>1 DEF unregister, TypeOK
    <3> QED  BY <1>1, <1>2, <2>1, <3>1, SameSite, SameLocalPeers DEF RoomInv, Registering
  <2>2. CASE ~(room[h] # "absent" /\ exists(h, c))
    <3>1. hub' = hub /\ room' = room /\ clients' = clients
      BY <1>3, <2>2 DEF unregister
    <3> QED  BY <1>1, <3>1, SameSite, SameLocalPeers DEF RoomInv, Registering
  <2> QED  BY <2>1, <2>2
<1>4. CASE leave(h)
  <2>1. hub[h].pc = "leave" /\ hub'[h].pc = "left" /\ room'[h] = room[h] /\ clients'[h] = clients[h]
    BY <1>4 DEF leave, TypeOK
  <2> QED  BY <1>1, <1>2, <2>1, SameSite, SameLocalPeers DEF RoomInv, Registering
<1>5. CASE left(h)
  <2>1. /\ hub'[h].pc = "select" /\ clients'[h] = clients[h]
        /\ room'[h] = IF LocalPeers(h) = {} THEN "absent" ELSE room[h]
    BY <1>5 DEF left, isEmpty, Idle, TypeOK
  <2> QED  BY <1>1, <1>2, <2>1, SameSite, SameLocalPeers DEF RoomInv, Registering
<1> QED  BY <1>3, <1>4, <1>5

LEMMA NextRoomInv == TypeOK /\ ServesInv /\ RoomInv /\ [Next]_vars => RoomInv'
<1> SUFFICES ASSUME TypeOK, ServesInv, RoomInv, [Next]_vars PROVE RoomInv'
  OBVIOUS
<1>1. CASE hub' = hub /\ clients' = clients /\ room' = room
  BY <1>1, SameSite, SameLocalPeers DEF RoomInv
<1>2. ASSUME NEW h \in Hubs, hubStep(h) PROVE RoomInv'
  BY <1>1, <1>2, RegisterRoomInv, UnregisterRoomInv DEF hubStep, handleBroadcast
<1> QED
  BY <1>1, <1>2 DEF Next, vars, connect, disconnect, signal, natsDeliver, shutdown, shutdownClose

LEMMA RoomsInvariant == Spec => [](TypeOK /\ ServesInv /\ RoomInv)
<1>1. Init => RoomInv
  BY InitRoomInv
<1>2. TypeOK /\ ServesInv /\ RoomInv /\ [Next]_vars => RoomInv'
  BY NextRoomInv
<1> QED  BY <1>1, <1>2, TypesInvariant, PTL DEF Spec

\* An instance with a client in the room listens to the room's subject, and a
\* hub at rest keeps no room without clients, unless a subscription fails.
THEOREM RoomsFollowClients == Spec => []RoomFollowsClients
<1>1. TypeOK /\ RoomInv => RoomFollowsClients
  BY DEF TypeOK, RoomInv, RoomFollowsClients
<1> QED  BY <1>1, RoomsInvariant, PTL

-----------------------------------------------------------------------------
(* Closed channels *)

\* A connection whose goroutines run.
Live(c) == conn[c] \in {"up", "closing"}

\* An entry of Clients is a live connection of its instance and peer.
EntryInv ==
    \A h \in Hubs, p \in Peers : clients[h][p] # NoConn =>
        /\ HubOf[clients[h][p]] = h
        /\ PeerOf[clients[h][p]] = p
        /\ Live(clients[h][p])

\* The hub registers a live connection and takes leave of one that has gone.
HandlerInv ==
    \A h \in Hubs :
        /\ hub[h].pc \in Registering => Live(hub[h].c)
        /\ hub[h].pc \in {"leave", "left"} => conn[hub[h].c] = "gone"

\* Before Shutdown closes everything, a channel is closed when its connection
\* has gone.
GoneInv == \A c \in closed : down[HubOf[c]] = "closed" \/ conn[c] = "gone"

CloseInv == TypeOK /\ ServesInv /\ RoomInv /\ EntryInv /\ HandlerInv /\ GoneInv

\* A live connection stays live until its hub takes it out, and then it is
\* gone for good.
LEMMA ConnSteps ==
    ASSUME TypeOK, [Next]_vars, NEW c \in Conns
    PROVE  /\ conn[c] = "gone" => conn'[c] = "gone"
           /\ Live(c) => Live(c)' \/ \E h \in Hubs : unregister(h, c)
<1>1. CASE UNCHANGED conn
  BY <1>1 DEF Live
<1>2. ASSUME NEW d \in Conns, connect(d) \/ disconnect(d)
      PROVE  (conn[c] = "gone" => conn'[c] = "gone") /\ (Live(c) => Live(c)')
  BY <1>2 DEF connect, disconnect, Live, TypeOK
<1>3. ASSUME NEW h \in Hubs, NEW d \in Conns, register(h, d)
      PROVE  (conn[c] = "gone" => conn'[c] = "gone") /\ (Live(c) => Live(c)')
  BY <1>3 DEF register, Live, TypeOK
<1>4. ASSUME NEW h \in Hubs, NEW d \in Conns, unregister(h, d)
      PROVE  /\ conn[c] = "gone" => conn'[c] = "gone"
             /\ Live(c) => Live(c)' \/ unregister(h, c)
  BY <1>4 DEF unregister, Live, TypeOK
<1>5. ASSUME NEW h \in Hubs, shutdownClose(h)
      PROVE  (conn[c] = "gone" => conn'[c] = "gone") /\ (Live(c) => Live(c)')
  BY <1>5 DEF shutdownClose, Live, TypeOK
<1> QED
  BY <1>1, <1>2, <1>3, <1>4, <1>5
  DEF vars, Next, hubStep, signal, join, setPresence, listPeers, greet, leave, left,
      handleBroadcast, natsDeliver, shutdown

LEMMA InitClose == Init => CloseInv
<1> SUFFICES ASSUME Init PROVE CloseInv
  OBVIOUS
<1>1. TypeOK /\ ServesInv /\ RoomInv
  BY InitInv, InitRoomInv
<1>2. EntryInv /\ HandlerInv /\ GoneInv
  BY DEF Init, Idle, EntryInv, HandlerInv, GoneInv, Registering
<1> QED  BY <1>1, <1>2 DEF CloseInv

\* Whoever leaves has no entry left, since Clients is looked up by peer.
LEMMA UnregisterEntry ==
    ASSUME CloseInv, NEW h \in Hubs, NEW c \in Conns, unregister(h, c)
    PROVE  /\ clients'[h][PeerOf[c]] = NoConn
           /\ \A g \in Hubs, p \in Peers : clients'[g][p] \in {clients[g][p], NoConn}
<1>1. PeerOf[c] \in Peers /\ TypeOK
  BY SiteFacts DEF CloseInv, TypeOK
<1>2. CASE clients[h][PeerOf[c]] = NoConn
  BY <1>2 DEF unregister, exists
<1>3. CASE clients[h][PeerOf[c]] # NoConn
  <2>1. room[h] # "absent"
    BY <1>1, <1>3 DEF CloseInv, RoomInv, LocalPeers
  <2>2. clients' = [clients EXCEPT ![h][PeerOf[c]] = NoConn]
    BY <1>3, <2>1 DEF unregister, exists, deleteClient
  <2> QED  BY <1>1, <2>2 DEF TypeOK
<1> QED  BY <1>2, <1>3

LEMMA UnregisterClose ==
    ASSUME CloseInv, [Next]_vars, NEW h \in Hubs, NEW c \in Conns, unregister(h, c)
    PROVE  EntryInv' /\ HandlerInv' /\ GoneInv'
<1>1. /\ HubOf' = HubOf /\ PeerOf' = PeerOf /\ down' = down /\ HubOf[c] = h
      /\ conn'[c] = "gone" /\ (\A d \in Conns \ {c} : conn'[d] = conn[d])
      /\ hub[h].pc = "select" /\ conn[c] = "closing"
  BY SameSite DEF unregister, CloseInv, TypeOK
<1>2. EntryInv'
  <2> SUFFICES ASSUME NEW g \in Hubs, NEW p \in Peers, clients'[g][p] # NoConn
               PROVE  /\ HubOf[clients'[g][p]] = g /\ PeerOf[clients'[g][p]] = p
                      /\ conn'[clients'[g][p]] \in {"up", "closing"}
    BY <1>1 DEF EntryInv, Live
  <2>1. clients'[g][p] = clients[g][p]
    BY UnregisterEntry
  <2>2. /\ HubOf[clients'[g][p]] = g /\ PeerOf[clients'[g][p]] = p
        /\ conn[clients'[g][p]] \in {"up", "closing"} /\ clients'[g][p] \in Conns
    BY <2>1 DEF CloseInv, EntryInv, Live, TypeOK
  <2>3. clients'[g][p] # c
    BY <1>1, <2>2, UnregisterEntry
  <2> QED  BY <1>1, <2>2, <2>3
<1>3. HandlerInv'
  <2> SUFFICES ASSUME NEW g \in Hubs
               PROVE  /\ hub'[g].pc \in Registering => conn'[hub'[g].c] \in {"up", "closing"}
                      /\ hub'[g].pc \in {"leave", "left"} => conn'[hub'[g].c] = "gone"
    BY DEF HandlerInv, Live
  <2>1. CASE hub'[g] = [pc |-> "leave", c |-> c, list |-> {}]
    BY <1>1, <2>1 DEF Registering
  <2>2. CASE hub'[g] = hub[g]
    <3>1. hub[g].pc # "select" => hub[g].c \in Conns /\ hub[g].c # c
      BY <1>1 DEF CloseInv, ServesInv
    <3> QED  BY <1>1, <2>2, <3>1 DEF CloseInv, HandlerInv, Live, Registering
  <2> QED  BY <2>1, <2>2 DEF unregister, CloseInv, TypeOK
<1>4. GoneInv'
  <2>1. closed' \subseteq closed \union {c}
    BY DEF unregister
  <2>2. \A d \in closed : down[HubOf[d]] = "closed" \/ conn[d] = "gone"
    BY DEF GoneInv, CloseInv
  <2>3. \A d \in closed : d \in Conns
    BY DEF CloseInv, TypeOK
  <2>4. \A d \in closed' : down[HubOf[d]] = "closed" \/ conn'[d] = "gone"
    BY <1>1, <2>1, <2>2, <2>3
  <2> QED  BY <1>1, <2>4 DEF GoneInv
<1> QED  BY <1>2, <1>3, <1>4

\* The other steps end no connection.
LEMMA OtherConns ==
    ASSUME TypeOK, [Next]_vars, ~ \E h \in Hubs, c \in Conns : unregister(h, c)
    PROVE  /\ \A c \in Conns : Live(c) => Live(c)'
           /\ \A c \in Conns : conn[c] = "gone" => conn'[c] = "gone"
  BY ConnSteps

LEMMA EntryStep ==
    ASSUME CloseInv, [Next]_vars, ~ \E h \in Hubs, c \in Conns : unregister(h, c)
    PROVE  EntryInv'
<1>1. CASE clients' = clients
  <2>1. \A h \in Hubs, p \in Peers : clients[h][p] # NoConn => clients[h][p] \in Conns
    BY DEF CloseInv, TypeOK
  <2> QED  BY <1>1, <2>1, OtherConns, SameSite DEF EntryInv, CloseInv, Live
<1>2. ASSUME NEW h \in Hubs, join(h) PROVE EntryInv'
  <2> DEFINE c == hub[h].c
  <2>1. c \in Conns /\ HubOf[c] = h /\ PeerOf[c] \in Peers /\ Live(c) /\ conn' = conn
    BY <1>2, SiteFacts DEF join, CloseInv, ServesInv, HandlerInv, TypeOK, Registering
  <2>2. \A g \in Hubs, p \in Peers :
           clients'[g][p] = IF g = h /\ p = PeerOf[c] THEN c ELSE clients[g][p]
    BY <1>2, <2>1 DEF join, CloseInv, TypeOK
  <2> QED  BY <2>1, <2>2, SameSite DEF EntryInv, CloseInv, Live
<1> QED
  BY <1>1, <1>2 DEF Next, hubStep, vars, connect, disconnect, signal, register, setPresence,
     listPeers, greet, leave, left, handleBroadcast, natsDeliver, shutdown, shutdownClose

LEMMA HandlerStep ==
    ASSUME CloseInv, [Next]_vars, ~ \E h \in Hubs, c \in Conns : unregister(h, c)
    PROVE  HandlerInv'
<1>1. ASSUME NEW g \in Hubs
      PROVE  \/ hub'[g].pc = "select"
             \/ hub'[g].c = hub[g].c /\ hub'[g].pc \in Registering /\ hub[g].pc \in Registering
             \/ hub'[g].c = hub[g].c /\ hub'[g].pc \in {"leave", "left"}
                                     /\ hub[g].pc \in {"leave", "left"}
             \/ hub'[g].pc = "join" /\ hub'[g].c \in Conns /\ conn'[hub'[g].c] = "up"
  <2>1. CASE hub'[g] = hub[g]
    BY <2>1 DEF CloseInv, TypeOK, HubPC, Registering
  <2>2. ASSUME NEW c \in Conns, register(g, c), hub'[g] # hub[g]
        PROVE  hub'[g].pc = "join" /\ hub'[g].c \in Conns /\ conn'[hub'[g].c] = "up"
    <3>1. hub'[g].pc = "join" /\ hub'[g].c = c
      BY <2>2 DEF register, registerRefused, registerRoom, registerSubscribeError,
         registerKnownRoom, CloseInv, TypeOK
    <3>2. conn'[c] = "up"
      BY <2>2 DEF register, CloseInv, TypeOK
    <3> QED  BY <3>1, <3>2
  <2>3. CASE join(g) \/ setPresence(g) \/ listPeers(g)
    BY <2>3 DEF join, setPresence, listPeers, CloseInv, TypeOK, Registering
  <2>4. CASE greet(g) \/ left(g)
    BY <2>4 DEF greet, left, CloseInv, TypeOK, Idle
  <2>5. CASE leave(g)
    BY <2>5 DEF leave, CloseInv, TypeOK
  <2>6. \/ hub'[g] = hub[g]
        \/ \E c \in Conns : register(g, c)
        \/ join(g) \/ setPresence(g) \/ listPeers(g) \/ greet(g) \/ left(g) \/ leave(g)
    <3>1. ASSUME NEW h \in Hubs \ {g}, hubStep(h) PROVE hub'[g] = hub[g]
      BY <3>1 DEF hubStep, register, registerRefused, registerRoom, registerSubscribeError,
         registerKnownRoom, join, setPresence, listPeers, greet, leave, left,
         handleBroadcast, CloseInv, TypeOK
    <3>2. ASSUME hubStep(g) PROVE
             \/ hub'[g] = hub[g]
             \/ \E c \in Conns : register(g, c)
             \/ join(g) \/ setPresence(g) \/ listPeers(g) \/ greet(g) \/ left(g) \/ leave(g)
      BY <3>2 DEF hubStep, handleBroadcast
    <3>3. CASE hub' = hub
      BY <3>3
    <3> QED
      BY <3>1, <3>2, <3>3 DEF Next, vars, connect, disconnect, signal, natsDeliver, shutdown,
         shutdownClose
  <2> QED  BY <2>1, <2>2, <2>3, <2>4, <2>5, <2>6
<1>2. \A g \in Hubs : hub[g].pc \in Registering \union {"leave", "left"} => hub[g].c \in Conns
  BY DEF CloseInv, ServesInv, Registering
<1>3. Registering \cap {"select", "leave", "left"} = {}
  BY DEF Registering
<1> QED  BY <1>1, <1>2, <1>3, OtherConns DEF HandlerInv, CloseInv, Live

LEMMA GoneStep ==
    ASSUME CloseInv, [Next]_vars, ~ \E h \in Hubs, c \in Conns : unregister(h, c)
    PROVE  GoneInv'
<1>1. CASE closed' = closed /\ down' = down
  BY <1>1, OtherConns, SameSite DEF GoneInv, CloseInv, TypeOK
<1>2. ASSUME NEW h \in Hubs, shutdown(h) PROVE GoneInv'
  BY <1>2, OtherConns, SameSite DEF shutdown, GoneInv, CloseInv, TypeOK
<1>3. ASSUME NEW h \in Hubs, shutdownClose(h) PROVE GoneInv'
  <2>1. \A c \in closed' : c \in closed \/ HubOf[c] = h
    BY <1>3 DEF shutdownClose, Members
  <2>2. down'[h] = "closed" /\ \A g \in Hubs \ {h} : down'[g] = down[g]
    BY <1>3 DEF shutdownClose, CloseInv, TypeOK
  <2>3. \A c \in closed : c \in Conns /\ HubOf[c] \in Hubs
    BY SiteFacts DEF CloseInv, TypeOK
  <2> QED  BY <2>1, <2>2, <2>3, OtherConns, SameSite DEF GoneInv, CloseInv
<1> QED
  BY <1>1, <1>2, <1>3 DEF Next, hubStep, vars, connect, disconnect, signal, register, join,
     setPresence, listPeers, greet, leave, left, handleBroadcast, natsDeliver

LEMMA NextClose == CloseInv /\ [Next]_vars => CloseInv'
<1> SUFFICES ASSUME CloseInv, [Next]_vars PROVE CloseInv'
  OBVIOUS
<1>1. TypeOK' /\ ServesInv' /\ RoomInv'
  BY NextTypeOK, NextServesInv, NextRoomInv DEF CloseInv
<1>2. EntryInv' /\ HandlerInv' /\ GoneInv'
  BY UnregisterClose, EntryStep, HandlerStep, GoneStep
<1> QED  BY <1>1, <1>2 DEF CloseInv

LEMMA CloseInvariant == Spec => []CloseInv
<1>1. Init => CloseInv
  BY InitClose
<1>2. CloseInv /\ [Next]_vars => CloseInv'
  BY NextClose
<1> QED  BY <1>1, <1>2, PTL DEF Spec

\* No hub writes to a closed channel before Shutdown closes them all.
THEOREM NoWriteToClosed == Spec => []ClientsAreOpen
<1>1. CloseInv => ClientsAreOpen
  <2> SUFFICES ASSUME CloseInv, NEW h \in Hubs, down[h] # "closed",
                      NEW c \in Members(h), c \in closed
               PROVE  FALSE
    BY DEF ClientsAreOpen
  <2>1. c \in Conns /\ HubOf[c] = h /\ clients[h][PeerOf[c]] = c
    BY DEF Members
  <2>2. PeerOf[c] \in Peers /\ NoConn \notin Conns
    BY <2>1, SiteFacts DEF CloseInv, TypeOK
  <2>3. Live(c)
    BY <2>1, <2>2 DEF CloseInv, EntryInv
  <2>4. conn[c] = "gone"
    BY <2>1 DEF CloseInv, GoneInv
  <2> QED  BY <2>3, <2>4 DEF Live
<1> QED  BY <1>1, CloseInvariant, PTL

-----------------------------------------------------------------------------
(* Presence *)

\* The connection the goroutine of its instance serves, in one of the states S.
At(c, S) == hub[HubOf[c]].c = c /\ hub[HubOf[c]].pc \in S

\* Whose peer presence has: it is set after the entry is made, and removed
\* after the entry is.
Present(c) == (Registered(c) /\ ~At(c, {"presence"})) \/ At(c, {"leave"})

\* Nothing fails and no token is used twice.
Orderly == Faults = {} /\ NoReconnects

MemberInv == \A h \in Hubs :
    hub[h].pc \in {"presence", "list", "greet"} => Registered(hub[h].c)

FreshInv == Orderly => \A h \in Hubs : hub[h].pc = "join" => ~Registered(hub[h].c)

PresInv ==
    Orderly /\ HasCache =>
        /\ \A c \in Conns : PeerOf[c] \in presence <=> Present(c)
        /\ \A p \in presence : \E c \in Conns : PeerOf[c] = p

OrderInv == CloseInv /\ MemberInv /\ FreshInv /\ PresInv

LEMMA RegisteredFact ==
    \A c \in Conns : Registered(c) <=> clients[HubOf[c]][PeerOf[c]] = c
  BY DEF Registered, Members

\* Two connections of one peer are one.
LEMMA OnePerPeer ==
    ASSUME Orderly, NEW c \in Conns, NEW d \in Conns, PeerOf[c] = PeerOf[d]
    PROVE  c = d
  BY DEF Orderly, NoReconnects

LEMMA SameOrder == ASSUME [Next]_vars PROVE Orderly' = Orderly
<1>1. NoReconnects' = NoReconnects
  BY SameSite DEF NoReconnects
<1> QED  BY <1>1, SameSite DEF Orderly

\* The steps of one hub goroutine leave the others alone.
LEMMA OneHubMoves ==
    ASSUME TypeOK, NEW h \in Hubs, hubStep(h)
    PROVE  \A g \in Hubs \ {h} : hub'[g] = hub[g] /\ clients'[g] = clients[g]
  BY DEF TypeOK, hubStep, register, registerRefused, registerRoom, registerSubscribeError,
     registerKnownRoom, join, setPresence, listPeers, greet, unregister, deleteClient, leave,
     left, handleBroadcast

\* What a step does to the hub goroutines and to Clients.
LEMMA HubSteps ==
    ASSUME TypeOK, ServesInv, [Next]_vars
    PROVE  \/ /\ hub' = hub /\ clients' = clients /\ presence' = presence
           \/ \E h \in Hubs : hubStep(h)
  BY DEF Next, vars, connect, disconnect, signal, natsDeliver, shutdown, shutdownClose

LEMMA ServedFacts ==
    ASSUME TypeOK, ServesInv, NEW h \in Hubs, hub[h].pc # "select"
    PROVE  hub[h].c \in Conns /\ HubOf[hub[h].c] = h /\ PeerOf[hub[h].c] \in Peers
  BY SiteFacts DEF ServesInv, TypeOK

LEMMA InitOrder == Init => OrderInv
<1> SUFFICES ASSUME Init PROVE OrderInv
  OBVIOUS
<1>1. CloseInv
  BY InitClose
<1>2. \A c \in Conns : HubOf[c] \in Hubs /\ PeerOf[c] \in Peers /\ NoConn \notin Conns
  BY <1>1, SiteFacts DEF CloseInv, TypeOK
<1>3. \A c \in Conns : ~Present(c)
  BY <1>2, RegisteredFact DEF Init, Idle, Present, At
<1>4. MemberInv /\ FreshInv
  BY DEF Init, Idle, MemberInv, FreshInv
<1>5. PresInv
  BY <1>3 DEF Init, PresInv
<1> QED  BY <1>1, <1>4, <1>5 DEF OrderInv

LEMMA JoinOrder ==
    ASSUME OrderInv, [Next]_vars, NEW h \in Hubs, NEW c \in Conns, c = hub[h].c, join(h)
    PROVE  MemberInv' /\ FreshInv' /\ PresInv'
<1>1. /\ HubOf[c] = h /\ PeerOf[c] \in Peers /\ hub[h].pc = "join"
      /\ hub'[h].pc = "presence" /\ hub'[h].c = c /\ clients'[h][PeerOf[c]] = c
      /\ \A p \in Peers \ {PeerOf[c]} : clients'[h][p] = clients[h][p]
      /\ presence' = presence
  <2>1. HubOf[c] = h /\ PeerOf[c] \in Peers /\ hub[h].pc = "join" /\ TypeOK
    BY ServedFacts DEF OrderInv, CloseInv, join
  <2> QED  BY <2>1 DEF join, TypeOK
<1>2. /\ \A d \in Conns : HubOf[d] \in Hubs /\ PeerOf[d] \in Peers
      /\ \A g \in Hubs \ {h} : hub'[g] = hub[g] /\ clients'[g] = clients[g]
      /\ \A g \in Hubs : hub[g].pc # "select" => hub[g].c \in Conns /\ HubOf[hub[g].c] = g
  BY SiteFacts, OneHubMoves DEF OrderInv, CloseInv, TypeOK, hubStep, ServesInv
<1>3. /\ \A d \in Conns : Registered(d) <=> clients[HubOf[d]][PeerOf[d]] = d
      /\ \A d \in Conns : Registered(d)' <=> clients'[HubOf[d]][PeerOf[d]] = d
  BY SameSite DEF Registered, Members
<1>4. MemberInv'
  BY <1>1, <1>2, <1>3 DEF MemberInv, OrderInv
<1>5. ASSUME Orderly, NEW d \in Conns, d # c PROVE Registered(d)' <=> Registered(d)
  <2>1. PeerOf[d] # PeerOf[c]
    BY <1>1, <1>5, OnePerPeer
  <2> QED  BY <1>1, <1>2, <1>3, <1>5, <2>1
<1>6. FreshInv'
  <2> SUFFICES ASSUME Orderly, NEW g \in Hubs, hub'[g].pc = "join"
               PROVE  ~Registered(hub[g].c)'
    BY SameOrder DEF FreshInv
  <2>1. g # h /\ hub'[g] = hub[g]
    BY <1>1, <1>2
  <2>2. hub[g].c \in Conns /\ hub[g].c # c /\ ~Registered(hub[g].c)
    BY <1>1, <1>2, <2>1 DEF FreshInv, OrderInv
  <2>3. ~Registered(hub[g].c)' <=> ~(clients'[HubOf[hub'[g].c]][PeerOf[hub'[g].c]] = hub'[g].c)
    BY <1>3, <2>1, <2>2
  <2> QED  BY <1>3, <1>5, <2>1, <2>2, <2>3
<1>7. PresInv'
  <2>1. ASSUME Orderly PROVE ~Present(c) /\ ~Present(c)'
    BY <1>1, <2>1, SameSite DEF Present, At, FreshInv, OrderInv
  <2>2. ASSUME Orderly, NEW d \in Conns, d # c PROVE Present(d)' <=> Present(d)
    <3>1. \A S : At(d, S)' <=> At(d, S)
      BY <1>1, <1>2, <2>2, SameSite DEF At
    <3>2. (At(d, {"presence"})' <=> At(d, {"presence"})) /\ (At(d, {"leave"})' <=> At(d, {"leave"}))
      BY <3>1
    <3> QED  BY <1>5, <2>2, <3>2 DEF Present
  <2> SUFFICES ASSUME Orderly, HasCache
               PROVE  /\ \A d \in Conns : PeerOf[d] \in presence' <=> Present(d)'
                      /\ \A p \in presence' : \E d \in Conns : PeerOf[d] = p
    BY SameOrder, SameSite DEF PresInv
  <2>3. /\ \A d \in Conns : PeerOf[d] \in presence <=> Present(d)
        /\ \A p \in presence : \E d \in Conns : PeerOf[d] = p
    BY DEF PresInv, OrderInv
  <2> QED  BY <1>1, <2>1, <2>2, <2>3
<1> QED  BY <1>4, <1>6, <1>7

\* A step that leaves Clients alone leaves everyone registered who is.
LEMMA SameClients ==
    ASSUME [Next]_vars, clients' = clients
    PROVE  \A d \in Conns : Registered(d)' <=> Registered(d)
  BY SameSite DEF Registered, Members

\* A connection that has gone has no entry.
LEMMA GoneIsOut ==
    ASSUME CloseInv, NEW c \in Conns, conn[c] = "gone"
    PROVE  ~Registered(c)
<1>1. HubOf[c] \in Hubs /\ PeerOf[c] \in Peers /\ NoConn \notin Conns
  BY SiteFacts DEF CloseInv, TypeOK
<1> QED  BY <1>1, RegisteredFact DEF CloseInv, EntryInv, Live

\* The hub serves c: a step of the handler that leaves Clients alone is about c only.
LEMMA ServeFrame ==
    ASSUME OrderInv, [Next]_vars, NEW h \in Hubs, NEW c \in Conns, c = hub[h].c,
           hub[h].pc # "select", hubStep(h), clients' = clients,
           hub'[h].pc = "select" \/ hub'[h].c = c
    PROVE  /\ \A d \in Conns : Registered(d)' <=> Registered(d)
           /\ \A d \in Conns \ {c} : Present(d)' <=> Present(d)
           /\ \A d \in Conns \ {c} : Orderly => PeerOf[d] # PeerOf[c]
           /\ \A g \in Hubs \ {h} : hub'[g] = hub[g]
           /\ HubOf[c] = h /\ PeerOf[c] \in Peers
<1>1. /\ HubOf[c] = h /\ PeerOf[c] \in Peers
      /\ \A g \in Hubs \ {h} : hub'[g] = hub[g]
      /\ \A d \in Conns : HubOf[d] \in Hubs
  BY ServedFacts, OneHubMoves, SiteFacts DEF OrderInv, CloseInv, TypeOK
<1>2. \A d \in Conns : Registered(d)' <=> Registered(d)
  BY SameClients
<1>3. \A d \in Conns \ {c} : Orderly => PeerOf[d] # PeerOf[c]
  BY OnePerPeer
<1>4. ASSUME NEW d \in Conns \ {c} PROVE Present(d)' <=> Present(d)
  <2>1. CASE HubOf[d] # h
    BY <1>1, <1>2, <2>1, SameSite DEF Present, At
  <2>2. CASE HubOf[d] = h
    BY <1>1, <1>2, <2>2, SameSite DEF Present, At
  <2> QED  BY <2>1, <2>2
<1> QED  BY <1>1, <1>2, <1>3, <1>4

\* Registered and fresh connections are so as long as Clients and the others stay.
LEMMA ServeMembers ==
    ASSUME OrderInv, [Next]_vars, NEW h \in Hubs, NEW c \in Conns, c = hub[h].c,
           hub[h].pc # "select", hubStep(h), clients' = clients,
           \/ hub'[h].pc \in {"select", "leave", "left"}
           \/ /\ hub'[h].pc \in {"list", "greet"} /\ hub'[h].c = c
              /\ hub[h].pc \in {"presence", "list"}
    PROVE  MemberInv' /\ FreshInv'
<1>1. /\ \A d \in Conns : Registered(d)' <=> Registered(d)
      /\ \A g \in Hubs \ {h} : hub'[g] = hub[g]
      /\ \A g \in Hubs : hub[g].pc # "select" => hub[g].c \in Conns
  BY OneHubMoves, SameClients DEF OrderInv, CloseInv, ServesInv
<1>2. MemberInv'
  <2> SUFFICES ASSUME NEW g \in Hubs, hub'[g].pc \in {"presence", "list", "greet"}
               PROVE  \E e \in Conns : e = hub'[g].c /\ Registered(e)'
    BY DEF MemberInv, Registered, Members
  <2>1. hub'[g].c = hub[g].c /\ hub[g].pc \in {"presence", "list", "greet"}
    BY <1>1
  <2>2. Registered(hub[g].c) /\ hub[g].c \in Conns
    BY <1>1, <2>1 DEF MemberInv, OrderInv
  <2> QED  BY <1>1, <2>1, <2>2
<1>3. FreshInv'
  <2> SUFFICES ASSUME Orderly, NEW g \in Hubs, hub'[g].pc = "join"
               PROVE  \E e \in Conns : e = hub'[g].c /\ ~Registered(e)'
    BY SameOrder DEF FreshInv, Registered, Members
  <2>1. hub'[g].c = hub[g].c /\ hub[g].pc = "join"
    BY <1>1
  <2>2. ~Registered(hub[g].c) /\ hub[g].c \in Conns
    BY <1>1, <2>1 DEF FreshInv, OrderInv
  <2> QED  BY <1>1, <2>1, <2>2
<1> QED  BY <1>2, <1>3

LEMMA ServeOrder ==
    ASSUME OrderInv, [Next]_vars, NEW h \in Hubs,
           setPresence(h) \/ listPeers(h) \/ greet(h) \/ leave(h) \/ left(h)
    PROVE  MemberInv' /\ FreshInv' /\ PresInv'
<1>1. TypeOK /\ hubStep(h) /\ clients' = clients /\ hub[h].pc # "select"
  BY DEF OrderInv, CloseInv, hubStep, setPresence, listPeers, greet, leave, left
<1>2. PICK c \in Conns : c = hub[h].c
  BY <1>1, ServedFacts DEF OrderInv, CloseInv
<1>3. /\ hub'[h].pc = "select" \/ hub'[h].c = c
      /\ \/ hub'[h].pc \in {"select", "leave", "left"}
         \/ hub'[h].pc \in {"list", "greet"} /\ hub'[h].c = c /\ hub[h].pc \in {"presence", "list"}
  BY <1>1, <1>2 DEF setPresence, listPeers, greet, leave, left, Idle, TypeOK
<1>4. MemberInv' /\ FreshInv'
  BY <1>1, <1>2, <1>3, ServeMembers
<1>5. /\ \A d \in Conns : Registered(d)' <=> Registered(d)
      /\ \A d \in Conns \ {c} : Present(d)' <=> Present(d)
      /\ \A d \in Conns \ {c} : Orderly => PeerOf[d] # PeerOf[c]
      /\ HubOf[c] = h /\ PeerOf[c] \in Peers
  BY <1>1, <1>2, <1>3, ServeFrame
<1>6. PresInv'
  <2> SUFFICES ASSUME Orderly, HasCache
               PROVE  /\ \A d \in Conns : PeerOf[d] \in presence' <=> Present(d)'
                      /\ \A p \in presence' : \E d \in Conns : PeerOf[d] = p
    BY SameOrder, SameSite DEF PresInv
  <2>1. /\ \A d \in Conns : PeerOf[d] \in presence <=> Present(d)
        /\ \A p \in presence : \E d \in Conns : PeerOf[d] = p
    BY DEF PresInv, OrderInv
  <2>2. CASE setPresence(h)
    <3>1. presence' = presence \union {PeerOf[c]}
      BY <1>2, <2>2 DEF setPresence, Orderly
    <3>2. hub[h].pc = "presence" /\ hub'[h].pc = "list" /\ Registered(c)
      BY <1>1, <1>2, <2>2 DEF setPresence, TypeOK, OrderInv, MemberInv
    <3>3. Present(c)'
      BY <1>5, <3>2, SameSite DEF Present, At
    <3> QED  BY <1>5, <2>1, <3>1, <3>3
  <2>3. CASE listPeers(h) \/ greet(h) \/ left(h)
    <3>1. presence' = presence
      BY <2>3 DEF listPeers, greet, left
    <3>2. hub[h].pc \in {"list", "greet", "left"} /\ hub'[h].pc \in {"greet", "select"}
      BY <1>1, <2>3 DEF listPeers, greet, left, Idle, TypeOK
    <3>3. Present(c)' <=> Present(c)
      BY <1>5, <3>2, SameSite DEF Present, At
    <3> QED  BY <1>5, <2>1, <3>1, <3>3
  <2>4. CASE leave(h)
    <3>1. presence' = presence \ {PeerOf[c]}
      BY <1>2, <2>4 DEF leave, RemovePresence, Orderly
    <3>2. hub[h].pc = "leave" /\ hub'[h].pc = "left" /\ ~Registered(c)
      BY <1>1, <1>2, <2>4, GoneIsOut DEF leave, TypeOK, OrderInv, CloseInv, HandlerInv
    <3>3. ~Present(c)'
      BY <1>5, <3>2, SameSite DEF Present, At
    <3> QED  BY <1>5, <2>1, <3>1, <3>3
  <2> QED  BY <2>2, <2>3, <2>4
<1> QED  BY <1>4, <1>6

LEMMA RegisterOrder ==
    ASSUME OrderInv, [Next]_vars, NEW h \in Hubs, NEW c \in Conns, register(h, c)
    PROVE  MemberInv' /\ FreshInv' /\ PresInv'
<1>1. /\ clients' = clients /\ presence' = presence /\ conn[c] = "waiting" /\ HubOf[c] = h
      /\ hub[h].pc = "select" /\ hub'[h].pc \in {"select", "join"}
      /\ hub'[h].pc = "join" => hub'[h].c = c
  BY DEF register, registerRefused, registerRoom, registerSubscribeError, registerKnownRoom,
     OrderInv, CloseInv, TypeOK
<1>2. /\ \A d \in Conns : Registered(d)' <=> Registered(d)
      /\ \A g \in Hubs \ {h} : hub'[g] = hub[g]
      /\ \A g \in Hubs : hub[g].pc # "select" => hub[g].c \in Conns
  BY <1>1, OneHubMoves, SameClients DEF OrderInv, CloseInv, ServesInv, hubStep
<1>3. MemberInv'
  <2> SUFFICES ASSUME NEW g \in Hubs, hub'[g].pc \in {"presence", "list", "greet"}
               PROVE  \E e \in Conns : e = hub'[g].c /\ Registered(e)'
    BY DEF MemberInv, Registered, Members
  <2>1. hub'[g].c = hub[g].c /\ hub[g].pc \in {"presence", "list", "greet"}
    BY <1>1, <1>2
  <2>2. Registered(hub[g].c) /\ hub[g].c \in Conns
    BY <1>2, <2>1 DEF MemberInv, OrderInv
  <2> QED  BY <1>2, <2>1, <2>2
<1>4. ~Registered(c)
  <2>1. HubOf[c] \in Hubs /\ PeerOf[c] \in Peers /\ NoConn \notin Conns
    BY SiteFacts DEF OrderInv, CloseInv, TypeOK
  <2> QED  BY <1>1, <2>1, RegisteredFact DEF OrderInv, CloseInv, EntryInv, Live
<1>5. FreshInv'
  <2> SUFFICES ASSUME Orderly, NEW g \in Hubs, hub'[g].pc = "join"
               PROVE  \E e \in Conns : e = hub'[g].c /\ ~Registered(e)'
    BY SameOrder DEF FreshInv, Registered, Members
  <2>1. CASE g = h
    BY <1>1, <1>2, <1>4, <2>1
  <2>2. CASE g # h
    <3>1. hub[g].c \in Conns /\ ~Registered(hub[g].c)
      BY <1>2, <2>2 DEF FreshInv, OrderInv
    <3> QED  BY <1>2, <2>2, <3>1
  <2> QED  BY <2>1, <2>2
<1>6. PresInv'
  <2>1. \A d \in Conns : HubOf[d] \in Hubs
    BY SiteFacts DEF OrderInv, CloseInv, TypeOK
  <2>2. \A d \in Conns : Present(d)' <=> Present(d)
    BY <1>1, <1>2, <2>1, SameSite DEF Present, At
  <2> QED  BY <1>1, <2>2, SameOrder, SameSite DEF PresInv, OrderInv
<1> QED  BY <1>3, <1>5, <1>6

LEMMA UnregisterOrder ==
    ASSUME OrderInv, [Next]_vars, NEW h \in Hubs, NEW c \in Conns, unregister(h, c)
    PROVE  MemberInv' /\ FreshInv' /\ PresInv'
<1>1. /\ hub[h].pc = "select" /\ HubOf[c] = h /\ PeerOf[c] \in Peers /\ presence' = presence
      /\ \A d \in Conns : HubOf[d] \in Hubs /\ PeerOf[d] \in Peers
  BY SiteFacts DEF unregister, OrderInv, CloseInv, TypeOK
<1>2. \/ hub' = hub /\ clients' = clients
      \/ /\ room[h] # "absent" /\ clients[h][PeerOf[c]] # NoConn
         /\ clients' = [clients EXCEPT ![h][PeerOf[c]] = NoConn]
         /\ hub' = [hub EXCEPT ![h] = [pc |-> "leave", c |-> c, list |-> {}]]
  BY DEF unregister, exists, deleteClient
<1>3. CASE hub' = hub /\ clients' = clients
  <2>1. \A d \in Conns : (Registered(d)' <=> Registered(d)) /\ (Present(d)' <=> Present(d))
    BY <1>3, SameSite DEF Present, At, Registered, Members
  <2>2. MemberInv' /\ FreshInv'
    BY <1>3, SameSite, SameOrder DEF MemberInv, FreshInv, OrderInv, Registered, Members
  <2> QED  BY <1>1, <2>1, <2>2, SameOrder, SameSite DEF PresInv, OrderInv
<1>4. CASE /\ clients[h][PeerOf[c]] # NoConn
           /\ clients' = [clients EXCEPT ![h][PeerOf[c]] = NoConn]
           /\ hub' = [hub EXCEPT ![h] = [pc |-> "leave", c |-> c, list |-> {}]]
  <2>1. /\ hub'[h].pc = "leave" /\ hub'[h].c = c
        /\ \A g \in Hubs \ {h} : hub'[g] = hub[g] /\ clients'[g] = clients[g]
        /\ clients'[h][PeerOf[c]] = NoConn
        /\ \A p \in Peers \ {PeerOf[c]} : clients'[h][p] = clients[h][p]
        /\ NoConn \notin Conns
    BY <1>1, <1>4, HubAssumption DEF OrderInv, CloseInv, TypeOK
  <2>2. ASSUME NEW d \in Conns, HubOf[d] # h \/ PeerOf[d] # PeerOf[c]
        PROVE  Registered(d)' <=> Registered(d)
    BY <1>1, <2>1, <2>2, SameSite DEF Registered, Members
  <2>3. MemberInv'
    <3> SUFFICES ASSUME NEW g \in Hubs, hub'[g].pc \in {"presence", "list", "greet"}
                 PROVE  \E e \in Conns : e = hub'[g].c /\ Registered(e)'
      BY DEF MemberInv, Registered, Members
    <3>1. g # h /\ hub'[g] = hub[g] /\ hub[g].c \in Conns /\ HubOf[hub[g].c] = g
      BY <2>1 DEF OrderInv, CloseInv, ServesInv
    <3>2. Registered(hub[g].c)
      BY <3>1 DEF MemberInv, OrderInv
    <3> QED  BY <2>2, <3>1, <3>2
  <2>4. FreshInv'
    <3> SUFFICES ASSUME Orderly, NEW g \in Hubs, hub'[g].pc = "join"
                 PROVE  \E e \in Conns : e = hub'[g].c /\ ~Registered(e)'
      BY SameOrder DEF FreshInv, Registered, Members
    <3>1. g # h /\ hub'[g] = hub[g] /\ hub[g].c \in Conns /\ HubOf[hub[g].c] = g
      BY <2>1 DEF OrderInv, CloseInv, ServesInv
    <3>2. ~Registered(hub[g].c)
      BY <3>1 DEF FreshInv, OrderInv
    <3> QED  BY <2>2, <3>1, <3>2
  <2>5. PresInv'
    <3> SUFFICES ASSUME Orderly, HasCache
                 PROVE  /\ \A d \in Conns : PeerOf[d] \in presence' <=> Present(d)'
                        /\ \A p \in presence' : \E d \in Conns : PeerOf[d] = p
      BY SameOrder, SameSite DEF PresInv
    <3>1. /\ \A d \in Conns : PeerOf[d] \in presence <=> Present(d)
          /\ \A p \in presence : \E d \in Conns : PeerOf[d] = p
      BY DEF PresInv, OrderInv
    <3>2. Registered(c)
      <4>1. PICK e \in Conns : e = clients[h][PeerOf[c]]
        BY <1>1, <1>4 DEF OrderInv, CloseInv, TypeOK
      <4>2. HubOf[e] = h /\ PeerOf[e] = PeerOf[c]
        BY <1>1, <1>4, <4>1 DEF OrderInv, CloseInv, EntryInv
      <4>3. e = c
        BY <4>2, OnePerPeer
      <4> QED  BY <1>1, <4>1, <4>3, RegisteredFact
    <3>3. Present(c) /\ Present(c)'
      BY <1>1, <2>1, <3>2, SameSite DEF Present, At
    <3>4. ASSUME NEW d \in Conns, d # c PROVE Present(d)' <=> Present(d)
      <4>1. PeerOf[d] # PeerOf[c]
        BY <3>4, OnePerPeer
      <4>2. Registered(d)' <=> Registered(d)
        BY <2>2, <4>1
      <4>3. CASE HubOf[d] = h
        BY <1>1, <2>1, <3>4, <4>2, <4>3, SameSite DEF Present, At
      <4>4. CASE HubOf[d] # h
        BY <1>1, <2>1, <4>2, <4>4, SameSite, ZenonT(60) DEF Present, At
      <4> QED  BY <4>3, <4>4
    <3> QED  BY <1>1, <3>1, <3>3, <3>4
  <2> QED  BY <2>3, <2>4, <2>5
<1> QED  BY <1>2, <1>3, <1>4

LEMMA NextOrder == OrderInv /\ [Next]_vars => OrderInv'
<1> SUFFICES ASSUME OrderInv, [Next]_vars PROVE OrderInv'
  OBVIOUS
<1>1. CloseInv'
  BY NextClose DEF OrderInv
<1>2. CASE hub' = hub /\ clients' = clients /\ presence' = presence
  <2>1. \A d \in Conns : Present(d)' <=> Present(d)
    BY <1>2, SameSite DEF Present, At, Registered, Members
  <2>2. MemberInv' /\ FreshInv'
    BY <1>2, SameSite, SameOrder DEF MemberInv, FreshInv, OrderInv, Registered, Members
  <2>3. PresInv'
    BY <1>2, <2>1, SameOrder, SameSite DEF PresInv, OrderInv
  <2> QED  BY <1>1, <2>2, <2>3 DEF OrderInv
<1>3. ASSUME NEW h \in Hubs, hubStep(h) PROVE OrderInv'
  <2>1. CASE join(h)
    <3>1. hub[h].c \in Conns
      BY <2>1 DEF join, OrderInv, CloseInv, ServesInv
    <3> QED  BY <1>1, <2>1, <3>1, JoinOrder DEF OrderInv
  <2>2. CASE handleBroadcast(h)
    BY <1>2, <2>2 DEF handleBroadcast
  <2> QED
    BY <1>1, <1>3, <2>1, <2>2, RegisterOrder, UnregisterOrder, ServeOrder DEF hubStep, OrderInv
<1> QED  BY <1>2, <1>3, HubSteps DEF OrderInv, CloseInv

LEMMA OrderInvariant == Spec => []OrderInv
<1>1. Init => OrderInv
  BY InitOrder
<1>2. OrderInv /\ [Next]_vars => OrderInv'
  BY NextOrder
<1> QED  BY <1>1, <1>2, PTL DEF Spec

\* With every token used once and Redis answering, presence is who is
\* registered as soon as no handler is under way.
THEOREM PresenceIsExact == Spec => []PresenceExact
<1>1. OrderInv => PresenceExact
  <2> SUFFICES ASSUME OrderInv, Sound, HasCache, NoReconnects, Quiet
               PROVE  presence = {PeerOf[c] : c \in {d \in Conns : Registered(d)}}
    BY DEF PresenceExact
  <2>1. Orderly
    BY DEF Orderly, Sound
  <2>2. /\ \A c \in Conns : PeerOf[c] \in presence <=> Present(c)
        /\ \A p \in presence : \E c \in Conns : PeerOf[c] = p
    BY <2>1 DEF OrderInv, PresInv
  <2>3. \A c \in Conns : Present(c) <=> Registered(c)
    <3>1. \A c \in Conns : HubOf[c] \in Hubs
      BY SiteFacts DEF OrderInv, CloseInv, TypeOK
    <3> QED  BY <3>1 DEF Present, At, Quiet
  <2> QED  BY <2>2, <2>3
<1> QED  BY <1>1, OrderInvariant, PTL

-----------------------------------------------------------------------------
(* Discovery *)

\* m is among the messages of q.
Queued(q, m) == \E i \in 1..Len(q) : q[i] = m

\* Only connections of the deployment come, and without that fault no instance
\* shuts down.
ComesInv ==
    /\ \A c \in Conns : conn[c] # "new" => c \in site.conns
    /\ Faults = {} => \A h \in Hubs : down[h] = "running"

\* Clients queue signaling messages only; a peer-left tells of a connection
\* that has gone.
MailInv ==
    \A h \in Hubs, m \in Message :
        /\ Queued(bcast[h], m) => m.type = "signal"
        /\ Orderly /\ Queued(nats[h], m) /\ m.type = "left" =>
              \A c \in Conns : PeerOf[c] = m.peer => conn[c] = "gone"

Greeting == {"presence", "list", "greet"}

Joined(d) == Msg("joined", PeerOf[d], NoPeer)

\* c has been told of d, or will be: by d, which has yet to send its
\* peer-joined, by the peer-joined on its way, or by presence, which c has yet
\* to read or has read with d in it.
Told(c, d) ==
    \/ PeerOf[d] \in known[c]
    \/ At(d, Greeting)
    \/ Queued(nats[HubOf[c]], Joined(d))
    \/ At(c, {"presence", "list"})
    \/ At(c, {"greet"}) /\ PeerOf[d] \in hub[HubOf[c]].list

ToldInv ==
    Sound /\ NoReconnects => \A c, d \in Conns :
        Registered(c) /\ Registered(d) /\ PeerOf[c] # PeerOf[d] => Told(c, d)

DiscoverInv == OrderInv /\ ComesInv /\ MailInv /\ ToldInv

\* Queues.
LEMMA QueuedAppend ==
    ASSUME NEW q \in Seq(Message), NEW m \in Message, NEW x
    PROVE  Queued(Append(q, m), x) <=> Queued(q, x) \/ x = m
<1>1. Len(Append(q, m)) = Len(q) + 1 /\ Len(q) \in Nat
  OBVIOUS
<1>2. \A i \in 1..Len(q) : Append(q, m)[i] = q[i]
  OBVIOUS
<1>3. Append(q, m)[Len(q) + 1] = m
  OBVIOUS
<1> QED  BY <1>1, <1>2, <1>3 DEF Queued

LEMMA QueuedTail ==
    ASSUME NEW q \in Seq(Message), q # <<>>, NEW x
    PROVE  Queued(q, x) <=> Queued(Tail(q), x) \/ x = Head(q)
<1>1. Len(Tail(q)) = Len(q) - 1 /\ Len(q) \in Nat /\ Len(q) >= 1 /\ Head(q) = q[1]
  OBVIOUS
<1>2. \A i \in 1..(Len(q) - 1) : Tail(q)[i] = q[i + 1]
  OBVIOUS
<1>3. ASSUME NEW i \in 1..Len(q), q[i] = x PROVE Queued(Tail(q), x) \/ x = Head(q)
  <2>1. CASE i = 1
    BY <1>1, <1>3, <2>1
  <2>2. CASE i # 1
    <3>1. i - 1 \in 1..(Len(q) - 1) /\ Tail(q)[i - 1] = q[i]
      BY <1>1, <1>2, <2>2
    <3> QED  BY <1>1, <1>3, <3>1 DEF Queued
  <2> QED  BY <2>1, <2>2
<1>4. ASSUME NEW i \in 1..(Len(q) - 1), Tail(q)[i] = x PROVE Queued(q, x)
  <2>1. i + 1 \in 1..Len(q) /\ q[i + 1] = x
    BY <1>1, <1>2, <1>4
  <2> QED  BY <2>1 DEF Queued
<1>5. x = Head(q) => Queued(q, x)
  BY <1>1 DEF Queued
<1> QED  BY <1>1, <1>3, <1>4, <1>5 DEF Queued

LEMMA QueuedEmpty == \A x : ~Queued(<<>>, x)
  BY DEF Queued

LEMMA PublishQueued ==
    ASSUME TypeOK, NEW m \in Message, NEW h \in Hubs, NEW x
    PROVE  /\ Queued(nats[h], x) => Queued(publishToNats(m)[h], x)
           /\ Queued(publishToNats(m)[h], x) => Queued(nats[h], x) \/ x = m
           /\ HasBroker /\ room[h] = "subscribed" => Queued(publishToNats(m)[h], m)
<1>1. nats[h] \in Seq(Message)
  BY DEF TypeOK
<1> QED  BY <1>1, PublishFacts, QueuedAppend

LEMMA InitDiscover == Init => DiscoverInv
<1> SUFFICES ASSUME Init PROVE DiscoverInv
  OBVIOUS
<1>1. OrderInv
  BY InitOrder
<1>2. ComesInv
  BY DEF Init, ComesInv
<1>3. MailInv
  BY QueuedEmpty DEF Init, MailInv
<1>4. ToldInv
  <2>1. \A c \in Conns : HubOf[c] \in Hubs /\ PeerOf[c] \in Peers /\ NoConn \notin Conns
    BY <1>1, SiteFacts DEF OrderInv, CloseInv, TypeOK
  <2> QED  BY <2>1, RegisteredFact DEF Init, ToldInv
<1> QED  BY <1>1, <1>2, <1>3, <1>4 DEF DiscoverInv

LEMMA NextComes == DiscoverInv /\ [Next]_vars => ComesInv'
<1> SUFFICES ASSUME DiscoverInv, [Next]_vars PROVE ComesInv'
  OBVIOUS
<1>1. TypeOK
  BY DEF DiscoverInv, OrderInv, CloseInv
<1>2. \A c \in Conns : conn'[c] # "new" => c \in site.conns
  <2>1. ASSUME NEW c \in Conns, NEW d \in Conns, connect(d), conn'[c] # "new"
        PROVE  c \in site.conns
    BY <1>1, <2>1 DEF connect, TypeOK, DiscoverInv, ComesInv
  <2>2. ASSUME NEW c \in Conns, ~ \E d \in Conns : connect(d)
        PROVE  conn'[c] # "new" => conn[c] # "new"
    BY <1>1, <2>2, ZenonT(60) DEF TypeOK, Next, hubStep, vars, disconnect, signal, register, unregister,
       join, setPresence, listPeers, greet, leave, left, handleBroadcast, natsDeliver,
       shutdown, shutdownClose
  <2> QED  BY <2>1, <2>2 DEF DiscoverInv, ComesInv
<1>3. Faults = {} => \A h \in Hubs : down'[h] = "running"
  <2>1. Faults = {} => down' = down
    <3> SUFFICES ASSUME Faults = {} PROVE down' = down
      OBVIOUS
    <3>1. ASSUME NEW h \in Hubs PROVE ~shutdown(h) /\ ~shutdownClose(h)
      BY DEF shutdown, shutdownClose, DiscoverInv, ComesInv
    <3> QED
      BY <3>1 DEF Next, hubStep, vars, connect, disconnect, signal, register, unregister,
         join, setPresence, listPeers, greet, leave, left, handleBroadcast, natsDeliver
  <2> QED  BY <2>1 DEF DiscoverInv, ComesInv
<1> QED  BY <1>2, <1>3, SameSite DEF ComesInv

\* What comes into the queues: signaling messages, peer-joined, and the
\* peer-left of a connection that has gone.
LEMMA NewMail ==
    ASSUME DiscoverInv, [Next]_vars, NEW h \in Hubs, NEW m \in Message
    PROVE  /\ Queued(bcast'[h], m) => Queued(bcast[h], m) \/ m.type = "signal"
           /\ Queued(nats'[h], m) =>
                 \/ Queued(nats[h], m)
                 \/ m.type # "left"
                 \/ \E c \in Conns : m.peer = PeerOf[c] /\ conn[c] = "gone"
<1> DEFINE Goal ==
        /\ Queued(bcast'[h], m) => Queued(bcast[h], m) \/ m.type = "signal"
        /\ Queued(nats'[h], m) =>
              \/ Queued(nats[h], m)
              \/ m.type # "left"
              \/ \E c \in Conns : m.peer = PeerOf[c] /\ conn[c] = "gone"
<1>1. /\ TypeOK /\ bcast[h] \in Seq(Message) /\ nats[h] \in Seq(Message)
      /\ \A c \in Conns : HubOf[c] \in Hubs /\ PeerOf[c] \in Peers
  BY SiteFacts DEF DiscoverInv, OrderInv, CloseInv, TypeOK
<1>2. CASE bcast' = bcast /\ nats' = nats
  BY <1>2
<1>3. ASSUME NEW c \in Conns, signal(c) PROVE Goal
  <2>1. PICK target \in (Peers \ {PeerOf[c]}) \union {NoPeer} :
           bcast' = [bcast EXCEPT ![HubOf[c]] = Append(@, Msg("signal", PeerOf[c], target))]
    BY <1>3 DEF signal
  <2> DEFINE b == Msg("signal", PeerOf[c], target)
  <2>2. b \in Message /\ b.type = "signal"
    BY <1>1, MsgType DEF Msg
  <2>3. bcast'[h] \in {bcast[h], Append(bcast[h], b)}
    BY <2>1, <1>1 DEF TypeOK
  <2> HIDE DEF b
  <2>4. Queued(bcast'[h], m) => Queued(bcast[h], m) \/ m = b
    BY <1>1, <2>2, <2>3, QueuedAppend
  <2>5. nats' = nats
    BY <1>3 DEF signal
  <2> QED  BY <2>2, <2>4, <2>5
<1>4. ASSUME NEW g \in Hubs, greet(g) PROVE Goal
  <2>1. hub[g].c \in Conns
    BY <1>4 DEF greet, DiscoverInv, OrderInv, CloseInv, ServesInv
  <2>2. Joined(hub[g].c) \in Message /\ Joined(hub[g].c).type = "joined"
    BY <1>1, <2>1, MsgType DEF Joined, Msg
  <2>3. nats' = publishToNats(Joined(hub[g].c)) /\ bcast' = bcast
    BY <1>4 DEF greet, Joined
  <2> QED  BY <1>1, <2>2, <2>3, PublishQueued
<1>5. ASSUME NEW g \in Hubs, left(g) PROVE Goal
  <2> DEFINE c == hub[g].c  l == Msg("left", PeerOf[c], NoPeer)
  <2>1. c \in Conns /\ conn[c] = "gone"
    BY <1>5 DEF left, DiscoverInv, OrderInv, CloseInv, ServesInv, HandlerInv
  <2>2. l \in Message /\ l.peer = PeerOf[c]
    BY <1>1, <2>1, MsgType DEF Msg
  <2>3. /\ nats' \in {publishToNats(l), [publishToNats(l) EXCEPT ![g] = <<>>]}
        /\ bcast' = bcast
    BY <1>5 DEF left
  <2> HIDE DEF l
  <2>4. nats'[h] \in {publishToNats(l)[h], <<>>}
    BY <1>1, <2>2, <2>3, PublishFacts
  <2>5. Queued(nats'[h], m) => Queued(nats[h], m) \/ m = l
    BY <1>1, <2>2, <2>4, PublishQueued, QueuedEmpty
  <2> QED  BY <2>1, <2>2, <2>3, <2>5
<1>6. ASSUME NEW g \in Hubs, handleBroadcast(g) PROVE Goal
  <2> DEFINE b == Head(bcast[g])
  <2>1. bcast[g] \in Seq(Message) /\ bcast[g] # <<>>
    BY <1>6 DEF handleBroadcast, DiscoverInv, OrderInv, CloseInv, TypeOK
  <2>2. b \in Message /\ b.type = "signal"
    BY <2>1, QueueHead, QueuedTail DEF DiscoverInv, MailInv
  <2>3. nats' \in {nats, publishToNats(b)}
    BY <1>6 DEF handleBroadcast
  <2> HIDE DEF b
  <2>4. Queued(nats'[h], m) => Queued(nats[h], m) \/ m.type # "left"
    BY <1>1, <2>2, <2>3, PublishQueued
  <2>5. bcast'[h] = IF h = g THEN Tail(bcast[h]) ELSE bcast[h]
    BY <1>1, <1>6 DEF handleBroadcast, TypeOK
  <2>6. Queued(bcast'[h], m) => Queued(bcast[h], m)
    BY <1>1, <2>1, <2>5, QueuedTail
  <2> QED  BY <2>4, <2>6
<1>7. ASSUME NEW g \in Hubs, natsDeliver(g) PROVE Goal
  <2>1. /\ nats'[h] = IF h = g THEN Tail(nats[h]) ELSE nats[h]
        /\ h = g => nats[h] # <<>>
        /\ bcast' = bcast
    BY <1>1, <1>7 DEF natsDeliver, takenFromNats, TypeOK
  <2> QED  BY <1>1, <2>1, QueuedTail
<1>8. CASE \E g \in Hubs : hubStep(g)
  BY <1>2, <1>4, <1>5, <1>6, <1>8
  DEF hubStep, register, join, setPresence, listPeers, unregister, leave
<1> QED
  BY <1>2, <1>3, <1>7, <1>8 DEF Next, vars, connect, disconnect, shutdown, shutdownClose

LEMMA NextMail == DiscoverInv /\ [Next]_vars => MailInv'
<1> SUFFICES ASSUME DiscoverInv, [Next]_vars, NEW h \in Hubs, NEW m \in Message
             PROVE  /\ Queued(bcast'[h], m) => m.type = "signal"
                    /\ Orderly /\ Queued(nats'[h], m) /\ m.type = "left" =>
                          \A c \in Conns : PeerOf[c] = m.peer => conn'[c] = "gone"
  BY SameOrder, SameSite DEF MailInv
<1>1. TypeOK
  BY DEF DiscoverInv, OrderInv, CloseInv
<1>2. Queued(bcast'[h], m) => m.type = "signal"
  BY NewMail DEF DiscoverInv, MailInv
<1>3. ASSUME Orderly, Queued(nats'[h], m), m.type = "left", NEW c \in Conns, PeerOf[c] = m.peer
      PROVE  conn[c] = "gone"
  <2>1. CASE Queued(nats[h], m)
    BY <1>3, <2>1 DEF DiscoverInv, MailInv
  <2>2. ASSUME NEW d \in Conns, m.peer = PeerOf[d], conn[d] = "gone" PROVE conn[c] = "gone"
    BY <1>3, <2>2, OnePerPeer
  <2> QED  BY <1>3, <2>1, <2>2, NewMail
<1> QED  BY <1>1, <1>2, <1>3, ConnSteps

\* The hub goroutine of c stays as it is, or was and is not greeting c.
SameService(c) ==
    \/ hub'[HubOf[c]] = hub[HubOf[c]]
    \/ ~At(c, Greeting) /\ ~At(c, Greeting)'

\* A step that disturbs neither c nor d leaves c told of d.
LEMMA ToldFrame ==
    ASSUME [Next]_vars, NEW c \in Conns, NEW d \in Conns, Told(c, d),
           SameService(c), SameService(d),
           PeerOf[d] \in known[c] => PeerOf[d] \in known'[c],
           Queued(nats[HubOf[c]], Joined(d)) =>
              \/ Queued(nats'[HubOf[c]], Joined(d))
              \/ PeerOf[d] \in known'[c]
    PROVE  Told(c, d)'
<1>1. Joined(d)' = Joined(d)
  BY SameSite DEF Joined, Msg
<1>2. At(d, Greeting) => At(d, Greeting)'
  BY SameSite DEF SameService, At
<1>3. /\ At(c, {"presence", "list"}) => At(c, {"presence", "list"})'
      /\ At(c, {"greet"}) /\ PeerOf[d] \in hub[HubOf[c]].list =>
            At(c, {"greet"})' /\ PeerOf[d] \in hub'[HubOf[c]].list
  BY SameSite DEF SameService, At, Greeting
<1> QED  BY <1>1, <1>2, <1>3, SameSite DEF Told

\* What is known of a registered connection when nothing fails.
LEMMA PairFacts ==
    ASSUME DiscoverInv, Sound, NoReconnects, NEW c \in Conns, Registered(c)
    PROVE  /\ HubOf[c] \in Hubs /\ PeerOf[c] \in Peers /\ Orderly
           /\ c \notin closed /\ c \in site.conns /\ conn[c] # "gone"
           /\ clients[HubOf[c]][PeerOf[c]] = c /\ PeerOf[c] \in LocalPeers(HubOf[c])
           /\ room[HubOf[c]] # "absent"
           /\ HasBroker => room[HubOf[c]] = "subscribed"
<1>1. HubOf[c] \in Hubs /\ PeerOf[c] \in Peers /\ NoConn \notin Conns /\ TypeOK
  BY SiteFacts DEF DiscoverInv, OrderInv, CloseInv, TypeOK
<1>2. Orderly /\ Faults = {}
  BY DEF Orderly, Sound
<1>3. clients[HubOf[c]][PeerOf[c]] = c /\ PeerOf[c] \in LocalPeers(HubOf[c])
  BY <1>1, RegisteredFact DEF LocalPeers
<1>4. conn[c] \in {"up", "closing"}
  BY <1>1, <1>3 DEF DiscoverInv, OrderInv, CloseInv, EntryInv, Live
<1>5. c \notin closed
  BY <1>1, <1>2, <1>4 DEF DiscoverInv, OrderInv, CloseInv, GoneInv, ComesInv
<1>6. c \in site.conns
  BY <1>4 DEF DiscoverInv, ComesInv
<1>7. room[HubOf[c]] # "absent" /\ (HasBroker => room[HubOf[c]] = "subscribed")
  BY <1>1, <1>2, <1>3 DEF DiscoverInv, OrderInv, CloseInv, RoomInv, TypeOK
<1> QED  BY <1>1, <1>2, <1>3, <1>4, <1>5, <1>6, <1>7

\* A message adds a peer that has joined, and takes away only one that has left.
LEMMA DeliverKnown ==
    ASSUME NEW h \in Hubs, NEW m \in Message, Deliver(h, m), NEW c \in Conns, NEW p \in Peers
    PROVE  /\ p \in known[c] /\ ~(m.type = "left" /\ m.peer = p) => p \in known'[c]
           /\ /\ HubOf[c] = h /\ Registered(c) /\ c \notin closed /\ PeerOf[c] # p
              /\ m = Msg("joined", p, NoPeer)
              => p \in known'[c]
<1>1. known'[c] = IF c \in Recipients(h, m) THEN View(c, m) ELSE known[c]
  BY DEF Deliver
<1>2. p \in known[c] /\ ~(m.type = "left" /\ m.peer = p) => p \in known'[c]
  BY <1>1 DEF View, Message
<1>3. ASSUME HubOf[c] = h, Registered(c), c \notin closed, PeerOf[c] # p,
             m = Msg("joined", p, NoPeer)
      PROVE  p \in known'[c]
  <2>1. c \in Recipients(h, m)
    BY <1>3 DEF Recipients, Registered, Msg
  <2> QED  BY <1>1, <1>3, <2>1 DEF View, Msg
<1> QED  BY <1>2, <1>3

\* Nothing happens to the hub goroutines, and no message moves.
LEMMA ToldQuiet ==
    ASSUME DiscoverInv, [Next]_vars, Sound, NoReconnects,
           hub' = hub, clients' = clients, nats' = nats, known' = known,
           NEW c \in Conns, NEW d \in Conns, Registered(c)', Registered(d)', PeerOf[c] # PeerOf[d]
    PROVE  Told(c, d)'
<1>1. Registered(c) /\ Registered(d)
  BY SameClients
<1>2. Told(c, d)
  BY <1>1 DEF DiscoverInv, ToldInv
<1> QED  BY <1>2, ToldFrame DEF SameService

LEMMA ToldRegister ==
    ASSUME DiscoverInv, [Next]_vars, Sound, NoReconnects,
           NEW h \in Hubs, NEW e \in Conns, register(h, e),
           NEW c \in Conns, NEW d \in Conns, Registered(c)', Registered(d)', PeerOf[c] # PeerOf[d]
    PROVE  Told(c, d)'
<1>1. /\ clients' = clients /\ nats' = nats /\ known' = known
      /\ hub[h].pc = "select" /\ hub'[h].pc \in {"select", "join"}
  BY DEF register, registerRefused, registerRoom, registerSubscribeError, registerKnownRoom,
     DiscoverInv, OrderInv, CloseInv, TypeOK
<1>2. Registered(c) /\ Registered(d)
  BY <1>1, SameClients
<1>3. Told(c, d)
  BY <1>2 DEF DiscoverInv, ToldInv
<1>4. ASSUME NEW x \in Conns PROVE SameService(x)
  <2>1. HubOf[x] \in Hubs
    BY SiteFacts DEF DiscoverInv, OrderInv, CloseInv, TypeOK
  <2>2. CASE HubOf[x] = h
    BY <1>1, <2>2, SameSite DEF SameService, At, Greeting
  <2>3. CASE HubOf[x] # h
    BY <2>1, <2>3, OneHubMoves DEF SameService, hubStep, DiscoverInv, OrderInv, CloseInv
  <2> QED  BY <2>2, <2>3
<1> QED  BY <1>1, <1>3, <1>4, ToldFrame

\* While the hub serves e, it greets nobody else.
LEMMA OthersService ==
    ASSUME TypeOK, ServesInv, [Next]_vars, NEW h \in Hubs, hubStep(h), NEW e \in Conns,
           hub[h].pc = "select" \/ hub[h].c = e,
           hub'[h].pc = "select" \/ hub'[h].c = e,
           NEW x \in Conns, x # e
    PROVE  SameService(x)
<1>1. HubOf[x] \in Hubs
  BY SiteFacts DEF TypeOK
<1>2. CASE HubOf[x] = h
  BY <1>2, SameSite DEF SameService, At, Greeting
<1>3. CASE HubOf[x] # h
  BY <1>1, <1>3, OneHubMoves DEF SameService
<1> QED  BY <1>2, <1>3

LEMMA ToldJoin ==
    ASSUME DiscoverInv, [Next]_vars, Sound, NoReconnects,
           NEW h \in Hubs, NEW e \in Conns, e = hub[h].c, join(h),
           NEW c \in Conns, NEW d \in Conns, Registered(c)', Registered(d)', PeerOf[c] # PeerOf[d]
    PROVE  Told(c, d)'
<1>1. /\ HubOf[e] = h /\ PeerOf[e] \in Peers /\ hub[h].pc = "join" /\ TypeOK /\ ServesInv
      /\ \A x \in Conns : HubOf[x] \in Hubs /\ PeerOf[x] \in Peers
  BY ServedFacts, SiteFacts DEF DiscoverInv, OrderInv, CloseInv, join, TypeOK
<1>2. /\ hub'[h].pc = "presence" /\ hub'[h].c = e /\ nats' = nats /\ known' = known
      /\ \A p \in Peers \ {PeerOf[e]} : clients'[h][p] = clients[h][p]
      /\ \A g \in Hubs \ {h} : clients'[g] = clients[g]
  BY <1>1 DEF join, TypeOK
<1>3. CASE c = e
  BY <1>1, <1>2, <1>3, SameSite DEF Told, At
<1>4. CASE d = e
  BY <1>1, <1>2, <1>4, SameSite DEF Told, At, Greeting
<1>5. CASE c # e /\ d # e
  <2>1. PeerOf[c] # PeerOf[e] /\ PeerOf[d] # PeerOf[e]
    BY <1>5 DEF NoReconnects
  <2>2. Registered(c) /\ Registered(d)
    BY <1>1, <1>2, <2>1, SameSite DEF Registered, Members
  <2>3. Told(c, d)
    BY <2>2 DEF DiscoverInv, ToldInv
  <2>4. SameService(c) /\ SameService(d)
    BY <1>1, <1>2, <1>5, OthersService DEF hubStep
  <2> QED  BY <1>2, <2>3, <2>4, ToldFrame
<1> QED  BY <1>3, <1>4, <1>5

\* The list of peers is read after the presence of whoever is not about to
\* set it.
LEMMA ListHasPeers ==
    ASSUME DiscoverInv, Sound, NoReconnects,
           NEW c \in Conns, NEW d \in Conns, Registered(c), Registered(d),
           PeerOf[c] # PeerOf[d], ~At(d, Greeting)
    PROVE  PeerOf[d] \in peersList(HubOf[c], PeerOf[c])
<1>1. CASE HasCache
  <2>1. Present(d)
    BY DEF Present, At, Greeting
  <2>2. PeerOf[d] \in presence
    BY <1>1, <2>1, PairFacts DEF DiscoverInv, OrderInv, PresInv
  <2> QED  BY <1>1, <2>2, PairFacts DEF peersList
<1>2. CASE ~HasCache
  <2>1. HubOf[c] = HubOf[d]
    BY <1>2, PairFacts DEF Sound
  <2> QED  BY <1>2, <2>1, PairFacts DEF peersList
<1> QED  BY <1>1, <1>2

LEMMA ToldList ==
    ASSUME DiscoverInv, [Next]_vars, Sound, NoReconnects,
           NEW h \in Hubs, NEW e \in Conns, e = hub[h].c, setPresence(h) \/ listPeers(h),
           NEW c \in Conns, NEW d \in Conns, Registered(c)', Registered(d)', PeerOf[c] # PeerOf[d]
    PROVE  Told(c, d)'
<1>1. /\ HubOf[e] = h /\ TypeOK /\ ServesInv /\ hub[h].pc \in {"presence", "list"}
      /\ clients' = clients /\ nats' = nats /\ known' = known
  BY ServedFacts DEF DiscoverInv, OrderInv, CloseInv, setPresence, listPeers
<1>2. hub'[h].c = e /\ hub'[h].pc \in {"list", "greet"}
  BY <1>1 DEF setPresence, listPeers, TypeOK
<1>3. Registered(c) /\ Registered(d)
  BY <1>1, SameClients
<1>4. CASE d = e
  BY <1>1, <1>2, <1>4, SameSite DEF Told, At, Greeting
<1>5. CASE c = e /\ setPresence(h)
  <2>1. hub'[h].pc = "list"
    BY <1>1, <1>5 DEF setPresence, TypeOK
  <2> QED  BY <1>1, <1>2, <1>5, <2>1, SameSite DEF Told, At
<1>6. CASE c = e /\ d # e /\ listPeers(h)
  <2>1. CASE At(d, Greeting)
    <3>1. SameService(d)
      BY <1>1, <1>2, <1>6, OthersService DEF hubStep
    <3>2. At(d, Greeting)'
      BY <2>1, <3>1, SameSite DEF SameService, At
    <3> QED  BY <3>2 DEF Told
  <2>2. CASE ~At(d, Greeting)
    <3>1. hub'[h].list = peersList(h, PeerOf[c]) /\ hub'[h].pc = "greet"
      BY <1>1, <1>6 DEF listPeers, TypeOK, Sound
    <3>2. PeerOf[d] \in hub'[h].list
      BY <1>1, <1>3, <1>6, <2>2, <3>1, ListHasPeers
    <3> QED  BY <1>1, <1>2, <1>6, <3>1, <3>2, SameSite DEF Told, At
  <2> QED  BY <2>1, <2>2
<1>7. CASE c # e /\ d # e
  <2>1. SameService(c) /\ SameService(d)
    BY <1>1, <1>2, <1>7, OthersService DEF hubStep
  <2>2. Told(c, d)
    BY <1>3 DEF DiscoverInv, ToldInv
  <2> QED  BY <1>1, <2>1, <2>2, ToldFrame
<1> QED  BY <1>4, <1>5, <1>6, <1>7

LEMMA ToldGreet ==
    ASSUME DiscoverInv, [Next]_vars, Sound, NoReconnects,
           NEW h \in Hubs, NEW e \in Conns, e = hub[h].c, greet(h),
           NEW c \in Conns, NEW d \in Conns, Registered(c)', Registered(d)', PeerOf[c] # PeerOf[d]
    PROVE  Told(c, d)'
<1>1. /\ HubOf[e] = h /\ TypeOK /\ ServesInv /\ hub[h].pc = "greet"
      /\ clients' = clients /\ nats' = publishToNats(Joined(e)) /\ hub' = [hub EXCEPT ![h] = Idle]
  BY ServedFacts DEF DiscoverInv, OrderInv, CloseInv, greet, Joined
<1>2. /\ hub'[h].pc = "select"
      /\ c = e /\ e \notin closed => known'[c] = known[c] \union hub[h].list
      /\ c # e /\ c \in existingPeers(h, e) \ closed => known'[c] = known[c] \union {PeerOf[e]}
      /\ known[c] \subseteq known'[c]
  <2>1. hub'[h].pc = "select"
    BY <1>1 DEF Idle, TypeOK
  <2>2. known'[c] = CASE c = e -> IF e \in closed THEN known[c] ELSE known[c] \union hub[h].list
                      [] c \in existingPeers(h, e) \ closed -> known[c] \union {PeerOf[e]}
                      [] OTHER -> known[c]
    BY DEF greet
  <2>3. c = e => known'[c] = IF e \in closed THEN known[c] ELSE known[c] \union hub[h].list
    BY <2>2 DEF existingPeers
  <2>4. c # e => known'[c] = IF c \in existingPeers(h, e) \ closed
                             THEN known[c] \union {PeerOf[e]} ELSE known[c]
    BY <2>2
  <2> QED  BY <2>1, <2>3, <2>4
<1>3. Registered(c) /\ Registered(d)
  BY <1>1, SameClients
<1>4. Told(c, d) /\ HubOf[c] \in Hubs /\ c \notin closed
  BY <1>3, PairFacts DEF DiscoverInv, ToldInv
<1>5. Joined(e) \in Message /\ Joined(e)' = Joined(e)
  BY <1>1, ServedFacts, MsgType, SameSite DEF Joined, Msg
<1>6. /\ PeerOf[d] \in known[c] => PeerOf[d] \in known'[c]
      /\ \A x : Queued(nats[HubOf[c]], x) => Queued(nats'[HubOf[c]], x)
  BY <1>1, <1>2, <1>4, <1>5, PublishQueued
<1>7. CASE d = e
  <2>1. CASE HubOf[c] = h
    <3>1. c \in existingPeers(h, e)
      BY <1>3, <1>7, <2>1 DEF existingPeers, Registered
    <3>2. PeerOf[d] \in known'[c]
      BY <1>2, <1>4, <1>7, <3>1 DEF existingPeers
    <3> QED  BY <3>2, SameSite DEF Told
  <2>2. CASE HubOf[c] # h
    <3>1. HasBroker
      BY <1>1, <1>3, <1>7, <2>2, PairFacts DEF Sound
    <3>2. Queued(nats'[HubOf[c]], Joined(e))
      BY <1>1, <1>3, <1>4, <1>5, <3>1, PairFacts, PublishQueued
    <3> QED  BY <1>5, <1>7, <3>2, SameSite DEF Told
  <2> QED  BY <2>1, <2>2
<1>8. CASE c = e /\ d # e
  <2>1. SameService(d)
    BY <1>1, <1>2, <1>8, OthersService DEF hubStep
  <2>2. CASE At(d, Greeting)
    <3>1. At(d, Greeting)'
      BY <2>1, <2>2, SameSite DEF SameService, At
    <3> QED  BY <3>1 DEF Told
  <2>3. CASE PeerOf[d] \in known[c] \/ PeerOf[d] \in hub[h].list
    <3>1. PeerOf[d] \in known'[c]
      BY <1>2, <1>4, <1>8, <2>3
    <3> QED  BY <3>1, SameSite DEF Told
  <2>4. CASE Queued(nats[HubOf[c]], Joined(d))
    <3>1. Queued(nats'[HubOf[c]], Joined(d)) /\ Joined(d)' = Joined(d)
      BY <1>6, <2>4, SameSite DEF Joined, Msg
    <3> QED  BY <3>1, SameSite DEF Told
  <2> QED  BY <1>1, <1>4, <1>8, <2>2, <2>3, <2>4 DEF Told, At
<1>9. CASE c # e /\ d # e
  <2>1. SameService(c) /\ SameService(d)
    BY <1>1, <1>2, <1>9, OthersService DEF hubStep
  <2> QED  BY <1>4, <1>6, <2>1, ToldFrame
<1> QED  BY <1>7, <1>8, <1>9

LEMMA ToldLeave ==
    ASSUME DiscoverInv, [Next]_vars, Sound, NoReconnects, NEW h \in Hubs,
           (\E e \in Conns : unregister(h, e)) \/ leave(h) \/ left(h),
           NEW c \in Conns, NEW d \in Conns, Registered(c)', Registered(d)', PeerOf[c] # PeerOf[d]
    PROVE  Told(c, d)'
<1>1. /\ TypeOK /\ ServesInv /\ hubStep(h)
      /\ \A x \in Conns : HubOf[x] \in Hubs /\ PeerOf[x] \in Peers /\ x # NoConn
  BY SiteFacts DEF DiscoverInv, OrderInv, CloseInv, TypeOK, hubStep
<1>2. hub[h].pc \in {"select", "leave", "left"} /\ hub'[h].pc \in {"select", "leave", "left"}
  <2>1. ASSUME NEW e \in Conns, unregister(h, e)
        PROVE  hub[h].pc = "select" /\ hub'[h].pc \in {"select", "leave"}
    <3>1. \/ hub' = hub
          \/ hub' = [hub EXCEPT ![h] = [pc |-> "leave", c |-> e, list |-> {}]]
      BY <2>1 DEF unregister
    <3>2. hub[h].pc = "select"
      BY <2>1 DEF unregister
    <3> QED  BY <1>1, <3>1, <3>2 DEF TypeOK
  <2>2. CASE leave(h) \/ left(h)
    BY <1>1, <2>2 DEF leave, left, Idle, TypeOK
  <2> QED  BY <2>1, <2>2
<1>3. SameService(c) /\ SameService(d)
  <2>1. ASSUME NEW x \in Conns PROVE SameService(x)
    <3>1. CASE HubOf[x] = h
      BY <1>2, <3>1, SameSite DEF SameService, At, Greeting
    <3>2. CASE HubOf[x] # h
      BY <1>1, <3>2, OneHubMoves DEF SameService
    <3> QED  BY <3>1, <3>2
  <2> QED  BY <2>1
<1>4. Registered(c) /\ Registered(d)
  <2>1. \A g \in Hubs, p \in Peers : clients'[g][p] \in {clients[g][p], NoConn}
    BY <1>1, UnregisterEntry DEF leave, left, DiscoverInv, OrderInv
  <2> QED  BY <1>1, <2>1, SameSite DEF Registered, Members
<1>5. Told(c, d)
  BY <1>4 DEF DiscoverInv, ToldInv
<1>6. CASE nats' = nats /\ known' = known
  BY <1>3, <1>5, <1>6, ToldFrame
<1>7. CASE left(h)
  <2> DEFINE l == Msg("left", PeerOf[hub[h].c], NoPeer)
  <2>1. hub[h].c \in Conns /\ conn[hub[h].c] = "gone"
    BY <1>7 DEF left, DiscoverInv, OrderInv, CloseInv, ServesInv, HandlerInv
  <2>2. l \in Message /\ l.type = "left" /\ l.peer # PeerOf[d]
    <3>1. PeerOf[hub[h].c] # PeerOf[d]
      BY <1>4, <2>1, PairFacts DEF NoReconnects
    <3> QED  BY <1>1, <2>1, <3>1, MsgType DEF Msg
  <2>3. HubOf[c] # h \/ ~isEmpty(h)
    BY <1>4, PairFacts DEF isEmpty
  <2>4. /\ Deliver(h, l)
        /\ nats' \in {publishToNats(l), [publishToNats(l) EXCEPT ![h] = <<>>]}
        /\ ~isEmpty(h) => nats' = publishToNats(l)
    BY <1>7 DEF left
  <2> HIDE DEF l
  <2>5. nats'[HubOf[c]] = publishToNats(l)[HubOf[c]]
    BY <1>1, <2>2, <2>3, <2>4, PublishFacts
  <2>6. Queued(nats[HubOf[c]], Joined(d)) => Queued(nats'[HubOf[c]], Joined(d))
    BY <1>1, <2>2, <2>5, PublishQueued
  <2>7. PeerOf[d] \in known[c] => PeerOf[d] \in known'[c]
    BY <1>1, <2>2, <2>4, DeliverKnown
  <2> QED  BY <1>3, <1>5, <2>6, <2>7, ToldFrame
<1> QED  BY <1>6, <1>7 DEF unregister, leave

LEMMA ToldBroadcast ==
    ASSUME DiscoverInv, [Next]_vars, Sound, NoReconnects, NEW h \in Hubs, handleBroadcast(h),
           NEW c \in Conns, NEW d \in Conns, Registered(c)', Registered(d)', PeerOf[c] # PeerOf[d]
    PROVE  Told(c, d)'
<1>1. /\ TypeOK /\ hub' = hub /\ clients' = clients /\ HubOf[c] \in Hubs /\ PeerOf[d] \in Peers
      /\ bcast[h] \in Seq(Message) /\ bcast[h] # <<>>
  BY SiteFacts DEF DiscoverInv, OrderInv, CloseInv, TypeOK, handleBroadcast
<1>2. Told(c, d)
  <2>1. Registered(c) /\ Registered(d)
    BY <1>1, SameClients
  <2> QED  BY <2>1 DEF DiscoverInv, ToldInv
<1> DEFINE b == Head(bcast[h])
<1>3. b \in Message /\ b.type = "signal"
  BY <1>1, QueueHead, QueuedTail DEF DiscoverInv, MailInv
<1>4. \/ nats' = nats /\ known' = known
      \/ Deliver(h, b) /\ nats' = publishToNats(b)
  BY DEF handleBroadcast
<1> HIDE DEF b
<1>5. /\ PeerOf[d] \in known[c] => PeerOf[d] \in known'[c]
      /\ Queued(nats[HubOf[c]], Joined(d)) => Queued(nats'[HubOf[c]], Joined(d))
  BY <1>1, <1>3, <1>4, DeliverKnown, PublishQueued
<1> QED  BY <1>1, <1>2, <1>5, ToldFrame DEF SameService

LEMMA ToldNats ==
    ASSUME DiscoverInv, [Next]_vars, Sound, NoReconnects, NEW h \in Hubs, natsDeliver(h),
           NEW c \in Conns, NEW d \in Conns, Registered(c)', Registered(d)', PeerOf[c] # PeerOf[d]
    PROVE  Told(c, d)'
<1>1. /\ TypeOK /\ hub' = hub /\ clients' = clients /\ HubOf[c] \in Hubs /\ PeerOf[d] \in Peers
      /\ nats[h] \in Seq(Message) /\ nats[h] # <<>>
      /\ nats' = [nats EXCEPT ![h] = Tail(@)]
  BY SiteFacts DEF DiscoverInv, OrderInv, CloseInv, TypeOK, natsDeliver, takenFromNats
<1>2. Registered(c) /\ Registered(d)
  BY <1>1, SameClients
<1>3. Told(c, d)
  BY <1>2 DEF DiscoverInv, ToldInv
<1> DEFINE m == Head(nats[h])
<1>4. m \in Message /\ Queued(nats[h], m)
  BY <1>1, QueueHead, QueuedTail
<1>5. ~(m.type = "left" /\ m.peer = PeerOf[d])
  BY <1>2, <1>4, PairFacts DEF DiscoverInv, MailInv
<1>6. /\ room[h] # "absent" => Deliver(h, m)
      /\ room[h] = "absent" => known' = known
  BY DEF natsDeliver
<1> HIDE DEF m
<1>7. PeerOf[d] \in known[c] => PeerOf[d] \in known'[c]
  BY <1>1, <1>4, <1>5, <1>6, DeliverKnown
<1>8. ASSUME Queued(nats[HubOf[c]], Joined(d))
      PROVE  Queued(nats'[HubOf[c]], Joined(d)) \/ PeerOf[d] \in known'[c]
  <2>1. CASE HubOf[c] # h
    BY <1>1, <1>8, <2>1 DEF TypeOK
  <2>2. CASE HubOf[c] = h /\ Joined(d) # m
    <3>1. nats'[HubOf[c]] = Tail(nats[h])
      BY <1>1, <2>2 DEF TypeOK
    <3> QED  BY <1>1, <1>8, <2>2, <3>1, QueuedTail DEF m
  <2>3. CASE HubOf[c] = h /\ Joined(d) = m
    <3>1. room[h] # "absent" /\ c \notin closed
      BY <1>2, <2>3, PairFacts
    <3> QED  BY <1>1, <1>2, <1>4, <1>6, <2>3, <3>1, DeliverKnown DEF Joined
  <2> QED  BY <2>1, <2>2, <2>3
<1> QED  BY <1>1, <1>3, <1>7, <1>8, ToldFrame DEF SameService

LEMMA SameSound ==
    ASSUME [Next]_vars
    PROVE  (Sound' <=> Sound) /\ (NoReconnects' <=> NoReconnects)
<1>1. site' = site
  BY SameSite
<1>2. Sound' <=> Sound
  BY <1>1 DEF Sound, Faults, HasCache, HasBroker, HubOf
<1>3. NoReconnects' <=> NoReconnects
  BY <1>1 DEF NoReconnects, PeerOf
<1> QED  BY <1>2, <1>3

LEMMA NextTold == DiscoverInv /\ [Next]_vars => ToldInv'
<1> SUFFICES ASSUME DiscoverInv, [Next]_vars, Sound, NoReconnects,
                    NEW c \in Conns, NEW d \in Conns,
                    Registered(c)', Registered(d)', PeerOf[c] # PeerOf[d]
             PROVE  Told(c, d)'
  BY SameSound, SameSite DEF ToldInv
<1>1. CASE hub' = hub /\ clients' = clients /\ nats' = nats /\ known' = known
  BY <1>1, ToldQuiet
<1>2. ASSUME NEW h \in Hubs, hubStep(h) PROVE Told(c, d)'
  <2>1. CASE join(h) \/ setPresence(h) \/ listPeers(h) \/ greet(h)
    <3>1. hub[h].c \in Conns
      BY <2>1 DEF join, setPresence, listPeers, greet, DiscoverInv, OrderInv, CloseInv, ServesInv
    <3> QED  BY <2>1, <3>1, ToldJoin, ToldList, ToldGreet
  <2> QED  BY <1>2, <2>1, ToldRegister, ToldLeave, ToldBroadcast DEF hubStep
<1>3. ASSUME NEW h \in Hubs, natsDeliver(h) PROVE Told(c, d)'
  BY <1>3, ToldNats
<1> QED
  BY <1>1, <1>2, <1>3
  DEF Next, vars, connect, disconnect, signal, shutdown, shutdownClose

LEMMA DiscoverInvariant == Spec => []DiscoverInv
<1>1. Init => DiscoverInv
  BY InitDiscover
<1>2. DiscoverInv /\ [Next]_vars => DiscoverInv'
  BY NextOrder, NextComes, NextMail, NextTold DEF DiscoverInv
<1> QED  BY <1>1, <1>2, PTL DEF Spec

\* Any two peers in the room have been told of each other once no handler is
\* under way and no message on its way, on whatever instances they are.
THEOREM PeersDiscoverEachOther == Spec => []MutualDiscovery
<1>1. DiscoverInv => MutualDiscovery
  <2> SUFFICES ASSUME DiscoverInv, Sound, NoReconnects, Quiet,
                      NEW c \in Conns, NEW d \in Conns,
                      Registered(c), Registered(d), PeerOf[c] # PeerOf[d]
               PROVE  PeerOf[d] \in known[c]
    BY DEF MutualDiscovery
  <2>1. Told(c, d)
    BY DEF DiscoverInv, ToldInv
  <2>2. HubOf[c] \in Hubs /\ HubOf[d] \in Hubs
    BY PairFacts
  <2> QED  BY <2>1, <2>2, QueuedEmpty DEF Told, At, Greeting, Quiet
<1> QED  BY <1>1, DiscoverInvariant, PTL

-----------------------------------------------------------------------------
(* Discovery on one instance *)

\* A channel that is closed belongs to a connection that is going or gone.
ShutInv == \A c \in closed : conn[c] \in {"closing", "gone"}

\* NATS has something for an instance only while it is subscribed.
QueueInv == \A h \in Hubs : nats[h] # <<>> => HasBroker /\ room[h] = "subscribed"

\* Nobody has the place of a peer whose leave is under way.
LeaveInv ==
    \A h \in Hubs : hub[h].pc \in {"leave", "left"} => clients[h][PeerOf[hub[h].c]] = NoConn

\* Every peer-left of p in q is followed by a peer-joined.
Restored(q, p) ==
    \A i \in 1..Len(q) : q[i].type = "left" /\ q[i].peer = p =>
        \E j \in i..Len(q) : q[j] = Msg("joined", p, NoPeer)

\* c has been told of d, or its hub is about to tell it, and nothing on its way
\* takes that back for good.
Heard(c, d) ==
    \/ c \in closed
    \/ At(d, Greeting)
    \/ /\ PeerOf[d] \in known[c] \/ Queued(nats[HubOf[c]], Joined(d))
       /\ Restored(nats[HubOf[c]], PeerOf[d])

HeardInv ==
    \A c, d \in Conns :
        /\ Registered(c) /\ Registered(d) /\ c # d /\ HubOf[c] = HubOf[d]
        /\ Sticky(c) /\ Sticky(d)
        => Heard(c, d) \/ Heard(d, c)

LocalInv == DiscoverInv /\ ShutInv /\ QueueInv /\ LeaveInv /\ HeardInv

LEMMA RestoredAppend ==
    ASSUME NEW q \in Seq(Message), NEW m \in Message, NEW p
    PROVE  /\ m = Msg("joined", p, NoPeer) => Restored(Append(q, m), p)
           /\ Restored(q, p) /\ ~(m.type = "left" /\ m.peer = p) => Restored(Append(q, m), p)
<1>1. /\ Len(q) \in Nat /\ Len(Append(q, m)) = Len(q) + 1
      /\ \A i \in 1..Len(q) : Append(q, m)[i] = q[i]
      /\ Append(q, m)[Len(q) + 1] = m
  OBVIOUS
<1>2. ASSUME m = Msg("joined", p, NoPeer) PROVE Restored(Append(q, m), p)
  <2>1. \A i \in 1..(Len(q) + 1) : Len(q) + 1 \in i..(Len(q) + 1)
    BY <1>1
  <2> QED  BY <1>1, <1>2, <2>1 DEF Restored
<1>3. ASSUME Restored(q, p), ~(m.type = "left" /\ m.peer = p)
      PROVE  Restored(Append(q, m), p)
  <2> SUFFICES ASSUME NEW i \in 1..(Len(q) + 1), Append(q, m)[i].type = "left",
                      Append(q, m)[i].peer = p
               PROVE  \E j \in i..(Len(q) + 1) : Append(q, m)[j] = Msg("joined", p, NoPeer)
    BY <1>1 DEF Restored
  <2>1. i \in 1..Len(q) /\ q[i].type = "left" /\ q[i].peer = p
    BY <1>1, <1>3
  <2>2. PICK j \in i..Len(q) : q[j] = Msg("joined", p, NoPeer)
    BY <1>3, <2>1 DEF Restored
  <2>3. j \in i..(Len(q) + 1) /\ j \in 1..Len(q)
    BY <1>1, <2>1, <2>2
  <2> QED  BY <1>1, <2>2, <2>3
<1> QED  BY <1>2, <1>3

LEMMA RestoredTail ==
    ASSUME NEW q \in Seq(Message), q # <<>>, NEW p, Restored(q, p)
    PROVE  /\ Restored(Tail(q), p)
           /\ Head(q).type = "left" /\ Head(q).peer = p =>
                 Queued(Tail(q), Msg("joined", p, NoPeer))
<1>1. /\ Len(Tail(q)) = Len(q) - 1 /\ Len(q) \in Nat /\ Len(q) >= 1 /\ Head(q) = q[1]
      /\ \A i \in 1..(Len(q) - 1) : Tail(q)[i] = q[i + 1]
  OBVIOUS
<1>2. Restored(Tail(q), p)
  <2> SUFFICES ASSUME NEW i \in 1..(Len(q) - 1), q[i + 1].type = "left", q[i + 1].peer = p
               PROVE  \E j \in i..(Len(q) - 1) : Tail(q)[j] = Msg("joined", p, NoPeer)
    BY <1>1 DEF Restored
  <2>1. i + 1 \in 1..Len(q)
    BY <1>1
  <2>2. PICK j \in (i + 1)..Len(q) : q[j] = Msg("joined", p, NoPeer)
    BY <2>1 DEF Restored
  <2>3. j - 1 \in i..(Len(q) - 1) /\ j - 1 \in 1..(Len(q) - 1) /\ (j - 1) + 1 = j
    BY <1>1, <2>1, <2>2
  <2> QED  BY <1>1, <2>2, <2>3
<1>3. ASSUME Head(q).type = "left", Head(q).peer = p
      PROVE  Queued(Tail(q), Msg("joined", p, NoPeer))
  <2>1. 1 \in 1..Len(q) /\ q[1].type = "left" /\ q[1].peer = p
    BY <1>1, <1>3
  <2>2. PICK j \in 1..Len(q) : q[j] = Msg("joined", p, NoPeer)
    BY <2>1 DEF Restored
  <2>3. j # 1
    BY <2>1, <2>2 DEF Msg
  <2>4. j - 1 \in 1..(Len(q) - 1) /\ (j - 1) + 1 = j
    BY <1>1, <2>2, <2>3
  <2>5. Tail(q)[j - 1] = Msg("joined", p, NoPeer) /\ j - 1 \in 1..Len(Tail(q))
    BY <1>1, <2>2, <2>4
  <2> QED  BY <2>5 DEF Queued
<1> QED  BY <1>2, <1>3

LEMMA RestoredEmpty == \A p : Restored(<<>>, p)
  BY DEF Restored

\* What is published keeps a queue restored, unless it is the peer's leave.
LEMMA PublishRestored ==
    ASSUME TypeOK, NEW m \in Message, NEW h \in Hubs, NEW p, Restored(nats[h], p),
           ~(m.type = "left" /\ m.peer = p)
    PROVE  Restored(publishToNats(m)[h], p)
<1>1. nats[h] \in Seq(Message)
  BY DEF TypeOK
<1> QED  BY <1>1, PublishFacts, RestoredAppend

-----------------------------------------------------------------------------

LEMMA InitLocal == Init => LocalInv
<1> SUFFICES ASSUME Init PROVE LocalInv
  OBVIOUS
<1>1. DiscoverInv
  BY InitDiscover
<1>2. ShutInv /\ QueueInv /\ LeaveInv
  BY DEF Init, ShutInv, QueueInv, LeaveInv, Idle
<1>3. HeardInv
  <2>1. \A c \in Conns : HubOf[c] \in Hubs /\ PeerOf[c] \in Peers /\ NoConn \notin Conns
    BY <1>1, SiteFacts DEF DiscoverInv, OrderInv, CloseInv, TypeOK
  <2> QED  BY <2>1, RegisteredFact DEF Init, HeardInv
<1> QED  BY <1>1, <1>2, <1>3 DEF LocalInv

LEMMA NextShut == LocalInv /\ [Next]_vars => ShutInv'
<1> SUFFICES ASSUME LocalInv, [Next]_vars PROVE ShutInv'
  OBVIOUS
<1>1. TypeOK /\ CloseInv /\ ShutInv
  BY DEF LocalInv, DiscoverInv, OrderInv, CloseInv
<1>2. ASSUME NEW c \in Conns, conn[c] \in {"closing", "gone"}
      PROVE  conn'[c] \in {"closing", "gone"}
  <2>1. ASSUME NEW d \in Conns, connect(d) \/ disconnect(d)
        PROVE  conn'[c] \in {"closing", "gone"}
    BY <1>1, <1>2, <2>1 DEF connect, disconnect, TypeOK
  <2>2. ASSUME NEW h \in Hubs, NEW d \in Conns, register(h, d) \/ unregister(h, d)
        PROVE  conn'[c] \in {"closing", "gone"}
    BY <1>1, <1>2, <2>2 DEF register, unregister, TypeOK
  <2>3. ASSUME NEW h \in Hubs, shutdownClose(h) PROVE conn'[c] \in {"closing", "gone"}
    BY <1>1, <1>2, <2>3 DEF shutdownClose, TypeOK
  <2> QED
    BY <1>2, <2>1, <2>2, <2>3
    DEF vars, Next, hubStep, signal, join, setPresence, listPeers, greet, leave, left,
        handleBroadcast, natsDeliver, shutdown
<1>3. CASE closed' = closed
  BY <1>1, <1>2, <1>3 DEF ShutInv, TypeOK
<1>4. ASSUME NEW h \in Hubs, NEW d \in Conns, unregister(h, d) PROVE ShutInv'
  <2>1. conn'[d] = "gone" /\ closed' \subseteq closed \union {d}
    BY <1>1, <1>4 DEF unregister, TypeOK
  <2> QED  BY <1>1, <1>2, <2>1 DEF ShutInv, TypeOK
<1>5. ASSUME NEW h \in Hubs, shutdownClose(h) PROVE ShutInv'
  <2>1. closed' = closed \union Members(h)
    BY <1>5 DEF shutdownClose
  <2>2. ASSUME NEW c \in Members(h) PROVE c \in Conns /\ conn'[c] = "closing"
    <3>1. c \in Conns /\ HubOf[c] = h /\ clients[h][PeerOf[c]] = c
      BY DEF Members
    <3>2. PeerOf[c] \in Peers /\ c # NoConn
      BY <1>1, <3>1, SiteFacts DEF TypeOK
    <3>3. Live(c)
      BY <3>1, <3>2, <1>1 DEF CloseInv, EntryInv
    <3> QED  BY <1>1, <1>5, <3>1, <3>3 DEF shutdownClose, Live, TypeOK
  <2> QED  BY <1>1, <1>2, <2>1, <2>2 DEF ShutInv, TypeOK
<1> QED
  BY <1>3, <1>4, <1>5
  DEF vars, Next, hubStep, connect, disconnect, signal, register, join, setPresence,
      listPeers, greet, leave, left, handleBroadcast, natsDeliver, shutdown

LEMMA NextQueue == LocalInv /\ [Next]_vars => QueueInv'
<1> SUFFICES ASSUME LocalInv, [Next]_vars, NEW h \in Hubs, nats'[h] # <<>>
             PROVE  HasBroker /\ room'[h] = "subscribed"
  BY SameSite DEF QueueInv
<1>1. /\ TypeOK /\ QueueInv /\ ServesInv
      /\ \A c \in Conns : HubOf[c] \in Hubs /\ PeerOf[c] \in Peers
      /\ \A g \in Hubs : bcast[g] \in Seq(Message) /\ nats[g] \in Seq(Message)
  BY SiteFacts DEF LocalInv, DiscoverInv, OrderInv, CloseInv, TypeOK
<1>2. CASE nats' = nats /\ room' = room
  BY <1>1, <1>2 DEF QueueInv
<1>3. ASSUME NEW m \in Message, nats' = publishToNats(m), room' = room
      PROVE  HasBroker /\ room'[h] = "subscribed"
  BY <1>1, <1>3, PublishFacts DEF QueueInv
<1>4. ASSUME NEW g \in Hubs, NEW c \in Conns, register(g, c)
      PROVE  HasBroker /\ room'[h] = "subscribed"
  <2>1. nats[h] # <<>> /\ room[h] = "subscribed" /\ HasBroker
    BY <1>1, <1>4 DEF register, QueueInv
  <2>2. room'[h] = room[h]
    BY <1>1, <1>4, <2>1 DEF register, registerRefused, registerRoom, registerSubscribeError,
       registerKnownRoom, TypeOK
  <2> QED  BY <2>1, <2>2
<1>5. ASSUME NEW g \in Hubs, greet(g) PROVE HasBroker /\ room'[h] = "subscribed"
  <2>1. Joined(hub[g].c) \in Message
    BY <1>1, <1>5, ServedFacts, MsgType DEF Joined, greet
  <2> QED  BY <1>3, <1>5, <2>1 DEF greet, Joined
<1>6. ASSUME NEW g \in Hubs, left(g) PROVE HasBroker /\ room'[h] = "subscribed"
  <2> DEFINE l == Msg("left", PeerOf[hub[g].c], NoPeer)
  <2>1. l \in Message
    BY <1>1, <1>6, ServedFacts, MsgType DEF left
  <2>2. \/ nats' = publishToNats(l) /\ room' = room
        \/ nats' = [publishToNats(l) EXCEPT ![g] = <<>>] /\ room' = [room EXCEPT ![g] = "absent"]
    BY <1>6 DEF left
  <2> HIDE DEF l
  <2>3. nats'[h] = publishToNats(l)[h] /\ room'[h] = room[h]
    BY <1>1, <2>1, <2>2, PublishFacts DEF TypeOK
  <2> QED  BY <1>1, <2>1, <2>3, PublishFacts DEF QueueInv
<1>7. ASSUME NEW g \in Hubs, handleBroadcast(g) PROVE HasBroker /\ room'[h] = "subscribed"
  <2>1. Head(bcast[g]) \in Message
    BY <1>1, <1>7, QueueHead DEF handleBroadcast
  <2> QED  BY <1>2, <1>3, <1>7, <2>1 DEF handleBroadcast
<1>8. ASSUME NEW g \in Hubs, natsDeliver(g) PROVE HasBroker /\ room'[h] = "subscribed"
  <2>1. nats[h] # <<>> /\ room' = room
    BY <1>1, <1>8 DEF natsDeliver, takenFromNats, TypeOK
  <2> QED  BY <1>1, <2>1 DEF QueueInv
<1> QED
  BY <1>2, <1>4, <1>5, <1>6, <1>7, <1>8
  DEF vars, Next, hubStep, connect, disconnect, signal, join, setPresence, listPeers,
      unregister, leave, shutdown, shutdownClose

LEMMA NextLeave == LocalInv /\ [Next]_vars => LeaveInv'
<1> SUFFICES ASSUME LocalInv, [Next]_vars, NEW g \in Hubs, hub'[g].pc \in {"leave", "left"}
             PROVE  clients'[g][PeerOf[hub'[g].c]] = NoConn
  BY SameSite DEF LeaveInv
<1>1. TypeOK /\ ServesInv /\ CloseInv /\ LeaveInv
  BY DEF LocalInv, DiscoverInv, OrderInv, CloseInv
<1>2. CASE hub'[g] = hub[g] /\ clients'[g] = clients[g]
  BY <1>1, <1>2 DEF LeaveInv
<1>3. CASE \E c \in Conns : unregister(g, c)
  <2>1. PICK c \in Conns : unregister(g, c)
    BY <1>3
  <2>2. /\ hub[g].pc = "select"
        /\ hub' \in {hub, [hub EXCEPT ![g] = [pc |-> "leave", c |-> c, list |-> {}]]}
    BY <2>1 DEF unregister
  <2>3. hub'[g].c = c
    BY <1>1, <2>2 DEF TypeOK
  <2> QED  BY <1>1, <2>1, <2>3, UnregisterEntry
<1>4. CASE leave(g)
  <2>1. hub[g].pc = "leave" /\ hub'[g].c = hub[g].c /\ clients' = clients
    BY <1>1, <1>4 DEF leave, TypeOK
  <2> QED  BY <1>1, <2>1 DEF LeaveInv
<1>5. ASSUME NEW c \in Conns, register(g, c)
      PROVE  hub'[g] = hub[g] /\ clients'[g] = clients[g]
  BY <1>1, <1>5 DEF register, registerRefused, registerRoom, registerSubscribeError,
     registerKnownRoom, TypeOK
<1>6. ~(join(g) \/ setPresence(g) \/ listPeers(g) \/ greet(g) \/ left(g))
  BY <1>1 DEF join, setPresence, listPeers, greet, left, Idle, TypeOK
<1>7. ASSUME hubStep(g) PROVE clients'[g][PeerOf[hub'[g].c]] = NoConn
  BY <1>2, <1>3, <1>4, <1>5, <1>6, <1>7 DEF hubStep, handleBroadcast
<1>8. ASSUME NEW h \in Hubs \ {g}, hubStep(h) PROVE hub'[g] = hub[g] /\ clients'[g] = clients[g]
  BY <1>1, <1>8, OneHubMoves
<1> QED  BY <1>1, <1>2, <1>7, <1>8, HubSteps

\* What is known of two peers of an instance.
LEMMA PairOfOne ==
    ASSUME LocalInv, NEW c \in Conns, NEW d \in Conns, Registered(c), Registered(d), c # d,
           HubOf[c] = HubOf[d]
    PROVE  /\ HubOf[c] \in Hubs /\ PeerOf[c] \in Peers /\ PeerOf[d] \in Peers
           /\ PeerOf[c] # PeerOf[d] /\ c \in site.conns /\ d \in site.conns
           /\ room[HubOf[c]] # "absent" /\ ~isEmpty(HubOf[c])
           /\ TypeOK /\ ServesInv /\ nats[HubOf[c]] \in Seq(Message)
           /\ Live(c)
<1>1. /\ HubOf[c] \in Hubs /\ PeerOf[c] \in Peers /\ PeerOf[d] \in Peers /\ NoConn \notin Conns
      /\ TypeOK /\ ServesInv /\ CloseInv /\ ComesInv
  BY SiteFacts DEF LocalInv, DiscoverInv, OrderInv, CloseInv, TypeOK
<1>2. clients[HubOf[c]][PeerOf[c]] = c /\ clients[HubOf[c]][PeerOf[d]] = d
  BY RegisteredFact
<1>3. PeerOf[c] \in LocalPeers(HubOf[c])
  BY <1>1, <1>2 DEF LocalPeers
<1>4. Live(c) /\ Live(d)
  BY <1>1, <1>2 DEF CloseInv, EntryInv
<1>5. c \in site.conns /\ d \in site.conns
  BY <1>1, <1>4 DEF ComesInv, Live
<1>6. room[HubOf[c]] # "absent"
  BY <1>1, <1>3 DEF CloseInv, RoomInv
<1> QED  BY <1>1, <1>2, <1>3, <1>4, <1>5, <1>6 DEF isEmpty, TypeOK

\* A step that keeps the hub's service, c's view and the queue keeps c told of d.
LEMMA HeardFrame ==
    ASSUME [Next]_vars, NEW c \in Conns, NEW d \in Conns, Heard(c, d),
           closed \subseteq closed', At(d, Greeting) => At(d, Greeting)',
           \/ c \in closed
           \/ PeerOf[d] \in known[c] \/ Queued(nats[HubOf[c]], Joined(d)) =>
                 PeerOf[d] \in known'[c] \/ Queued(nats'[HubOf[c]], Joined(d)),
           Restored(nats[HubOf[c]], PeerOf[d]) => Restored(nats'[HubOf[c]], PeerOf[d])
    PROVE  Heard(c, d)'
<1>1. Joined(d)' = Joined(d)
  BY SameSite DEF Joined, Msg
<1>2. Restored(nats[HubOf[c]], PeerOf[d])' <=> Restored(nats'[HubOf[c]], PeerOf[d])
  BY SameSite DEF Restored, Msg
<1> QED  BY <1>1, <1>2, SameSite DEF Heard

LEMMA ServiceKept ==
    ASSUME [Next]_vars, NEW d \in Conns, SameService(d), At(d, Greeting)
    PROVE  At(d, Greeting)'
  BY SameSite DEF SameService, At

\* Whoever was in the room when the hub greets e is told of e.
LEMMA HeardGreet ==
    ASSUME LocalInv, [Next]_vars, NEW h \in Hubs, NEW e \in Conns, e = hub[h].c, greet(h),
           NEW c \in Conns, Registered(c), Registered(e), c # e, HubOf[c] = h, HubOf[e] = h
    PROVE  Heard(c, e)'
<1>1. /\ PeerOf[e] \in Peers /\ PeerOf[c] # PeerOf[e] /\ TypeOK /\ nats[h] \in Seq(Message)
      /\ QueueInv
  BY PairOfOne DEF LocalInv
<1>2. nats' = publishToNats(Joined(e)) /\ closed' = closed
  BY DEF greet, Joined
<1>3. Joined(e) \in Message
  BY <1>1, MsgType DEF Joined
<1>4. CASE c \in closed
  BY <1>2, <1>4 DEF Heard
<1>5. CASE c \notin closed
  <2>1. c \in existingPeers(h, e) \ closed
    BY <1>5 DEF existingPeers, Registered
  <2>2. PeerOf[e] \in known'[c]
    BY <2>1 DEF greet
  <2>3. Restored(nats'[h], PeerOf[e])
    <3>1. CASE HasBroker /\ room[h] = "subscribed"
      BY <1>1, <1>2, <1>3, <3>1, PublishFacts, RestoredAppend DEF Joined
    <3>2. CASE ~(HasBroker /\ room[h] = "subscribed")
      <4>1. nats'[h] = <<>>
        BY <1>1, <1>2, <1>3, <3>2, PublishFacts DEF QueueInv
      <4> QED  BY <4>1, RestoredEmpty
    <3> QED  BY <3>1, <3>2
  <2>4. Restored(nats[HubOf[c]], PeerOf[e])'
    BY <2>3, SameSite DEF Restored, Msg
  <2> QED  BY <2>2, <2>4, SameSite DEF Heard
<1> QED  BY <1>4, <1>5

\* The hub sends a message that is not the leave of d, or NATS takes one in.
LEMMA HeardPublish ==
    ASSUME LocalInv, [Next]_vars, NEW c \in Conns, NEW d \in Conns, Heard(c, d),
           Registered(c), Registered(d), c # d, HubOf[c] = HubOf[d],
           NEW m \in Message, ~(m.type = "left" /\ m.peer = PeerOf[d]),
           nats'[HubOf[c]] = publishToNats(m)[HubOf[c]],
           PeerOf[d] \in known[c] => PeerOf[d] \in known'[c],
           closed' = closed, At(d, Greeting) => At(d, Greeting)'
    PROVE  Heard(c, d)'
<1>1. HubOf[c] \in Hubs /\ TypeOK
  BY PairOfOne
<1>2. Queued(nats[HubOf[c]], Joined(d)) => Queued(nats'[HubOf[c]], Joined(d))
  BY <1>1, PublishQueued
<1>3. Restored(nats[HubOf[c]], PeerOf[d]) => Restored(nats'[HubOf[c]], PeerOf[d])
  BY <1>1, PublishRestored
<1> QED  BY <1>2, <1>3, HeardFrame

LEMMA HeardNats ==
    ASSUME LocalInv, [Next]_vars, NEW h \in Hubs, natsDeliver(h),
           NEW c \in Conns, NEW d \in Conns, Heard(c, d),
           Registered(c), Registered(d), c # d, HubOf[c] = HubOf[d]
    PROVE  Heard(c, d)'
<1>1. /\ HubOf[c] \in Hubs /\ TypeOK /\ PeerOf[d] \in Peers /\ PeerOf[c] # PeerOf[d]
      /\ room[HubOf[c]] # "absent"
  BY PairOfOne
<1>2. /\ nats[h] \in Seq(Message) /\ nats[h] # <<>> /\ nats' = [nats EXCEPT ![h] = Tail(@)]
      /\ hub' = hub /\ closed' = closed
  BY <1>1 DEF natsDeliver, takenFromNats, TypeOK
<1> DEFINE m == Head(nats[h])
<1>3. m \in Message
  BY <1>2, QueueHead
<1>4. /\ room[h] # "absent" => Deliver(h, m)
      /\ room[h] = "absent" => known' = known
  BY DEF natsDeliver
<1>5. CASE HubOf[c] # h
  <2>1. known'[c] = known[c]
    <3>1. c \notin Recipients(h, m)
      BY <1>5 DEF Recipients, Members
    <3> QED  BY <1>4, <3>1 DEF Deliver
  <2> QED  BY <1>1, <1>2, <1>5, <2>1, HeardFrame, SameSite DEF At, TypeOK
<1>6. CASE HubOf[c] = h
  <2>1. nats'[h] = Tail(nats[h]) /\ Deliver(h, m)
    BY <1>1, <1>2, <1>4, <1>6 DEF TypeOK
  <2>2. Restored(nats[h], PeerOf[d]) => Restored(nats'[h], PeerOf[d])
    BY <1>2, <2>1, RestoredTail
  <2>3. CASE c \in closed
    BY <1>2, <2>3 DEF Heard
  <2>4. CASE c \notin closed /\ At(d, Greeting)
    BY <1>2, <2>4, SameSite DEF Heard, At
  <2>5. CASE c \notin closed /\ ~At(d, Greeting)
    <3>1. /\ PeerOf[d] \in known[c] \/ Queued(nats[h], Joined(d))
          /\ Restored(nats[h], PeerOf[d])
      BY <1>6, <2>5 DEF Heard
    <3>2. Queued(nats[h], Joined(d)) =>
             PeerOf[d] \in known'[c] \/ Queued(nats'[h], Joined(d))
      <4>1. CASE Joined(d) = m
        BY <1>1, <1>3, <1>6, <2>1, <2>5, <4>1, DeliverKnown DEF Joined
      <4>2. CASE Joined(d) # m
        BY <1>2, <2>1, <4>2, QueuedTail
      <4> QED  BY <4>1, <4>2
    <3>3. PeerOf[d] \in known[c] =>
             PeerOf[d] \in known'[c] \/ Queued(nats'[h], Joined(d))
      <4>1. CASE m.type = "left" /\ m.peer = PeerOf[d]
        BY <1>2, <2>1, <3>1, <4>1, RestoredTail DEF Joined
      <4>2. CASE ~(m.type = "left" /\ m.peer = PeerOf[d])
        BY <1>1, <1>3, <2>1, <4>2, DeliverKnown
      <4> QED  BY <4>1, <4>2
    <3> QED  BY <1>2, <1>6, <2>2, <2>5, <3>2, <3>3, HeardFrame DEF At
  <2> QED  BY <2>3, <2>4, <2>5
<1> QED  BY <1>5, <1>6

\* A step of one hub goroutine keeps what two peers of an instance have been
\* told, or tells it.
LEMMA HeardServe ==
    ASSUME LocalInv, [Next]_vars, NEW h \in Hubs,
           setPresence(h) \/ listPeers(h) \/ greet(h),
           NEW c \in Conns, NEW d \in Conns,
           Registered(c), Registered(d), c # d, HubOf[c] = HubOf[d],
           Sticky(c), Sticky(d)
    PROVE  Heard(c, d)' \/ Heard(d, c)'
<1> DEFINE e == hub[h].c
<1>1. /\ HubOf[c] \in Hubs /\ TypeOK /\ ServesInv /\ nats[HubOf[c]] \in Seq(Message)
      /\ Heard(c, d) \/ Heard(d, c)
  BY PairOfOne DEF LocalInv, HeardInv
<1>2. e \in Conns /\ HubOf[e] = h /\ PeerOf[e] \in Peers
  BY <1>1, ServedFacts DEF setPresence, listPeers, greet
<1>3. /\ closed' = closed /\ hubStep(h)
      /\ \/ nats' = nats /\ known' = known
         \/ nats' = publishToNats(Joined(e))
  BY DEF setPresence, listPeers, greet, hubStep, Joined
<1>4. ASSUME NEW x \in Conns, At(x, Greeting), x # e \/ ~greet(h) PROVE At(x, Greeting)'
  <2>1. CASE x = e
    <3>1. hub'[h].c = e /\ hub'[h].pc \in Greeting
      BY <1>1, <1>4, <2>1 DEF setPresence, listPeers, TypeOK, Greeting
    <3> QED  BY <1>2, <2>1, <3>1, SameSite DEF At
  <2>2. CASE x # e
    <3>1. hub'[h].pc = "select" \/ hub'[h].c = e
      BY <1>1 DEF setPresence, listPeers, greet, TypeOK, Idle
    <3> QED  BY <1>1, <1>2, <1>3, <1>4, <2>2, <3>1, OthersService, ServiceKept
  <2> QED  BY <2>1, <2>2
<1>5. CASE ~greet(h)
  <2>1. nats' = nats /\ known' = known
    BY <1>5 DEF setPresence, listPeers
  <2> QED  BY <1>1, <1>3, <1>4, <1>5, <2>1, HeardFrame
<1>6. CASE greet(h) /\ d = e
  BY <1>2, <1>6, HeardGreet
<1>7. CASE greet(h) /\ c = e
  BY <1>2, <1>7, HeardGreet
<1>8. CASE greet(h) /\ c # e /\ d # e
  <2>1. nats' = publishToNats(Joined(e)) /\ Joined(e) \in Message /\ Joined(e).type = "joined"
    BY <1>2, <1>8, MsgType DEF greet, Joined, Msg
  <2>2. ASSUME NEW x \in Conns PROVE known[x] \subseteq known'[x]
    <3>1. known'[x] = CASE x = e -> IF e \in closed THEN known[x] ELSE known[x] \union hub[h].list
                      [] x \in existingPeers(h, e) \ closed -> known[x] \union {PeerOf[e]}
                      [] OTHER -> known[x]
      BY <1>8 DEF greet
    <3>2. x = e => known[x] \subseteq known'[x]
      BY <3>1 DEF existingPeers
    <3>3. x # e => known[x] \subseteq known'[x]
      BY <3>1
    <3> QED  BY <3>2, <3>3
  <2> HIDE DEF e
  <2>3. ASSUME Heard(c, d) PROVE Heard(c, d)'
    BY <1>1, <1>3, <1>4, <1>8, <2>1, <2>2, <2>3, HeardPublish
  <2>4. ASSUME Heard(d, c) PROVE Heard(d, c)'
    BY <1>1, <1>3, <1>4, <1>8, <2>1, <2>2, <2>4, HeardPublish
  <2> QED  BY <1>1, <2>3, <2>4
<1> QED  BY <1>5, <1>6, <1>7, <1>8

LEMMA HeardLeave ==
    ASSUME LocalInv, [Next]_vars, NEW h \in Hubs,
           \/ \E e \in Conns : register(h, e) \/ unregister(h, e)
           \/ leave(h) \/ left(h) \/ handleBroadcast(h),
           NEW c \in Conns, NEW d \in Conns, Heard(c, d),
           Registered(c), Registered(d), c # d, HubOf[c] = HubOf[d], Sticky(d)
    PROVE  Heard(c, d)'
<1>1. /\ HubOf[c] \in Hubs /\ PeerOf[d] \in Peers /\ TypeOK /\ ServesInv /\ hubStep(h)
      /\ nats[HubOf[c]] \in Seq(Message) /\ ~isEmpty(HubOf[c])
      /\ c \in site.conns /\ d \in site.conns
  BY PairOfOne DEF hubStep
<1>2. closed \subseteq closed'
  BY DEF register, unregister, leave, left, handleBroadcast
<1>3. At(d, Greeting) => At(d, Greeting)'
  <2>1. CASE hub' = hub
    BY <2>1, SameSite DEF At
  <2>2. CASE HubOf[d] = h /\ ~handleBroadcast(h)
    <3>1. hub[h].pc \in {"select", "leave", "left"}
      BY <2>2 DEF register, unregister, leave, left
    <3> QED  BY <2>2, <3>1 DEF At, Greeting
  <2>3. CASE HubOf[d] # h
    <3>1. HubOf[d] \in Hubs
      BY SiteFacts DEF LocalInv, DiscoverInv, OrderInv, CloseInv, TypeOK
    <3> QED  BY <1>1, <2>3, <3>1, OneHubMoves, SameSite DEF At
  <2> QED  BY <2>1, <2>2, <2>3 DEF handleBroadcast
<1>4. CASE nats' = nats /\ known' = known
  BY <1>2, <1>3, <1>4, HeardFrame
<1>5. CASE left(h)
  <2> DEFINE g == hub[h].c  l == Msg("left", PeerOf[g], NoPeer)
  <2>1. /\ g \in Conns /\ HubOf[g] = h /\ PeerOf[g] \in Peers /\ conn[g] = "gone"
        /\ clients[h][PeerOf[g]] = NoConn
    <3>1. hub[h].pc = "left"
      BY <1>5 DEF left
    <3> QED  BY <1>1, <3>1, ServedFacts
             DEF LocalInv, DiscoverInv, OrderInv, CloseInv, HandlerInv, LeaveInv
  <2>2. PeerOf[g] # PeerOf[d]
    <3>1. g \in site.conns
      BY <2>1 DEF LocalInv, DiscoverInv, ComesInv
    <3>2. CASE HubOf[d] = h
      <4>1. clients[h][PeerOf[d]] = d /\ d # NoConn
        BY <3>2, RegisteredFact, SiteFacts, <1>1 DEF TypeOK
      <4> QED  BY <2>1, <4>1
    <3>3. CASE HubOf[d] # h
      BY <1>1, <2>1, <3>1, <3>3 DEF Sticky
    <3> QED  BY <3>2, <3>3
  <2>3. /\ Deliver(h, l) /\ closed' = closed
        /\ nats' \in {publishToNats(l), [publishToNats(l) EXCEPT ![h] = <<>>]}
        /\ ~isEmpty(h) => nats' = publishToNats(l)
    BY <1>5 DEF left
  <2>4. l \in Message /\ ~(l.type = "left" /\ l.peer = PeerOf[d])
    BY <2>1, <2>2, MsgType DEF Msg
  <2> HIDE DEF l, g
  <2>5. nats'[HubOf[c]] = publishToNats(l)[HubOf[c]]
    BY <1>1, <2>3, <2>4, PublishFacts
  <2>6. PeerOf[d] \in known[c] => PeerOf[d] \in known'[c]
    BY <1>1, <2>3, <2>4, DeliverKnown
  <2> QED  BY <1>3, <2>3, <2>4, <2>5, <2>6, HeardPublish
<1>6. CASE handleBroadcast(h)
  <2> DEFINE b == Head(bcast[h])
  <2>1. bcast[h] \in Seq(Message) /\ bcast[h] # <<>>
    BY <1>1, <1>6 DEF handleBroadcast, TypeOK
  <2>2. b \in Message /\ b.type = "signal"
    BY <2>1, QueueHead, QueuedTail DEF LocalInv, DiscoverInv, MailInv
  <2>3. /\ closed' = closed
        /\ \/ nats' = nats /\ known' = known
           \/ Deliver(h, b) /\ nats' = publishToNats(b)
    BY <1>6 DEF handleBroadcast
  <2> HIDE DEF b
  <2>4. PeerOf[d] \in known[c] => PeerOf[d] \in known'[c]
    BY <1>1, <2>2, <2>3, DeliverKnown
  <2> QED  BY <1>3, <1>4, <2>2, <2>3, <2>4, HeardPublish
<1> QED  BY <1>4, <1>5, <1>6 DEF register, unregister, leave

LEMMA NextHeard == LocalInv /\ [Next]_vars => HeardInv'
<1> SUFFICES ASSUME LocalInv, [Next]_vars, NEW c \in Conns, NEW d \in Conns,
                    Registered(c)', Registered(d)', c # d, HubOf[c] = HubOf[d],
                    Sticky(c), Sticky(d)
             PROVE  Heard(c, d)' \/ Heard(d, c)'
  BY SameSite DEF HeardInv, Sticky
<1> DEFINE Goal == Heard(c, d)' \/ Heard(d, c)'
<1>1. /\ TypeOK /\ CloseInv /\ ServesInv
      /\ \A x \in Conns : HubOf[x] \in Hubs /\ PeerOf[x] \in Peers /\ x # NoConn
  BY SiteFacts DEF LocalInv, DiscoverInv, OrderInv, CloseInv, TypeOK
<1>2. Registered(c) /\ Registered(d) => Heard(c, d) \/ Heard(d, c)
  BY DEF LocalInv, HeardInv
<1>3. CASE /\ hub' = hub /\ clients' = clients /\ nats' = nats /\ known' = known
           /\ closed \subseteq closed'
  <2>1. Registered(c) /\ Registered(d)
    BY <1>3, SameClients
  <2>2. \A x \in Conns : At(x, Greeting) => At(x, Greeting)'
    BY <1>3, SameSite DEF At
  <2> QED  BY <1>2, <1>3, <2>1, <2>2, HeardFrame
<1>4. ASSUME NEW h \in Hubs, join(h) PROVE Goal
  <2> DEFINE e == hub[h].c
  <2>1. /\ e \in Conns /\ HubOf[e] = h /\ hub[h].pc = "join" /\ hubStep(h)
        /\ hub'[h].pc = "presence" /\ hub'[h].c = e
        /\ nats' = nats /\ known' = known /\ closed' = closed
        /\ clients' = [clients EXCEPT ![h][PeerOf[e]] = e]
    BY <1>1, <1>4, ServedFacts DEF join, TypeOK, hubStep
  <2>2. CASE c = e
    BY <2>1, <2>2, SameSite DEF At, Greeting, Heard
  <2>3. CASE d = e
    BY <2>1, <2>3, SameSite DEF At, Greeting, Heard
  <2>4. CASE c # e /\ d # e
    <3>1. ASSUME NEW x \in Conns, x # e, Registered(x)' PROVE Registered(x)
      <4>1. clients'[HubOf[x]][PeerOf[x]] = x
        BY <3>1, SameSite DEF Registered, Members
      <4>2. clients[HubOf[x]][PeerOf[x]] = x
        BY <1>1, <2>1, <3>1, <4>1 DEF TypeOK
      <4> QED  BY <4>2, RegisteredFact
    <3>2. ASSUME NEW x \in Conns, x # e, At(x, Greeting) PROVE At(x, Greeting)'
      BY <1>1, <2>1, <3>2, OthersService, ServiceKept
    <3> QED  BY <1>2, <2>1, <2>4, <3>1, <3>2, HeardFrame
  <2> QED  BY <2>2, <2>3, <2>4
<1>5. ASSUME NEW h \in Hubs, setPresence(h) \/ listPeers(h) \/ greet(h) PROVE Goal
  <2>1. Registered(c) /\ Registered(d)
    BY <1>5, SameClients DEF setPresence, listPeers, greet
  <2> QED  BY <1>5, <2>1, HeardServe
<1>6. ASSUME NEW h \in Hubs,
             \/ \E e \in Conns : register(h, e) \/ unregister(h, e)
             \/ leave(h) \/ left(h) \/ handleBroadcast(h)
      PROVE  Goal
  <2>1. \A g \in Hubs, p \in Peers : clients'[g][p] \in {clients[g][p], NoConn}
    BY <1>1, <1>6, UnregisterEntry DEF register, leave, left, handleBroadcast
  <2>2. Registered(c) /\ Registered(d)
    BY <1>1, <2>1, SameSite DEF Registered, Members
  <2> QED  BY <1>2, <1>6, <2>2, HeardLeave
<1>7. ASSUME NEW h \in Hubs, natsDeliver(h) PROVE Goal
  <2>1. Registered(c) /\ Registered(d)
    BY <1>7, SameClients DEF natsDeliver
  <2> QED  BY <1>2, <1>7, <2>1, HeardNats
<1> QED
  BY <1>3, <1>4, <1>5, <1>6, <1>7
  DEF Next, hubStep, vars, connect, disconnect, signal, shutdown, shutdownClose

LEMMA LocalInvariant == Spec => []LocalInv
<1>1. Init => LocalInv
  BY InitLocal
<1>2. LocalInv /\ [Next]_vars => LocalInv'
  BY NextOrder, NextComes, NextMail, NextTold, NextShut, NextQueue, NextLeave, NextHeard
  DEF LocalInv, DiscoverInv
<1> QED  BY <1>1, <1>2, PTL DEF Spec

\* Whatever Redis, NATS and Shutdown do, of two peers of an instance one has
\* been told of the other once no handler is under way and no message on its
\* way, if the two never connect to another instance.
THEOREM NeighboursDiscover == Spec => []LocalDiscovery
<1>1. LocalInv => LocalDiscovery
  <2> SUFFICES ASSUME LocalInv, Quiet, NEW c \in Conns, NEW d \in Conns,
                      Registered(c), Registered(d), c # d, HubOf[c] = HubOf[d],
                      Sticky(c), Sticky(d)
               PROVE  PeerOf[d] \in known[c] \/ PeerOf[c] \in known[d]
    BY DEF LocalDiscovery
  <2>1. /\ Heard(c, d) \/ Heard(d, c)
        /\ HubOf[c] \in Hubs /\ Live(c) /\ Live(d)
    BY PairOfOne DEF LocalInv, HeardInv
  <2>2. c \notin closed /\ d \notin closed
    BY <2>1 DEF LocalInv, ShutInv, Live, Quiet
  <2>3. ~At(c, Greeting) /\ ~At(d, Greeting) /\ nats[HubOf[c]] = <<>>
    BY <2>1 DEF At, Greeting, Quiet
  <2> QED  BY <2>1, <2>2, <2>3, QueuedEmpty DEF Heard
<1> QED  BY <1>1, LocalInvariant, PTL

-----------------------------------------------------------------------------
(* Fan-out *)

\* The positions of the signaling messages of a queue.
Signals(q) == {i \in 1..Len(q) : q[i].type = "signal"}

\* The messages in the Broadcast channels of all instances.
Pending == {x \in Hubs \X Nat : x[2] \in 1..Len(bcast[x[1]])}

\* A message still in a Broadcast channel may reach c directly, if it is that
\* of c's instance, and through NATS; one on its way from NATS may do it once.
Bounded(received, inNats, inBcast, pending, total) ==
    IF HasBroker THEN received + inNats + inBcast + pending <= 2 * total
    ELSE received + inBcast <= total

CountInv ==
    /\ IsFiniteSet(Pending)
    /\ \A c \in Conns :
          Bounded(got[c], Cardinality(Signals(nats[HubOf[c]])), Len(bcast[HubOf[c]]),
                  Cardinality(Pending), signals)

FanInv == LocalInv /\ CountInv

LEMMA SignalsFinite ==
    ASSUME NEW q \in Seq(Message)
    PROVE  IsFiniteSet(Signals(q)) /\ Cardinality(Signals(q)) \in Nat
<1>1. IsFiniteSet(1..Len(q)) /\ Signals(q) \in SUBSET (1..Len(q))
  BY FS_Interval DEF Signals
<1>2. IsFiniteSet(Signals(q))
  BY <1>1, FS_Subset
<1> QED  BY <1>2, FS_CardinalityType

LEMMA SignalsAppend ==
    ASSUME NEW q \in Seq(Message), NEW m \in Message
    PROVE  /\ Cardinality(Signals(Append(q, m))) <= Cardinality(Signals(q)) + 1
           /\ m.type # "signal" => Signals(Append(q, m)) = Signals(q)
<1>1. /\ Len(q) \in Nat /\ Len(Append(q, m)) = Len(q) + 1
      /\ \A i \in 1..Len(q) : Append(q, m)[i] = q[i]
      /\ Append(q, m)[Len(q) + 1] = m
  OBVIOUS
<1>2. Signals(Append(q, m)) = Signals(q) \union
         (IF m.type = "signal" THEN {Len(q) + 1} ELSE {})
  BY <1>1 DEF Signals
<1>3. IsFiniteSet(Signals(q)) /\ Cardinality(Signals(q)) \in Nat
  BY SignalsFinite
<1>4. Cardinality(Signals(q) \union {Len(q) + 1}) \in
         {Cardinality(Signals(q)), Cardinality(Signals(q)) + 1}
  BY <1>3, FS_AddElement
<1>5. CASE m.type = "signal"
  BY <1>2, <1>3, <1>4, <1>5
<1>6. CASE m.type # "signal"
  BY <1>2, <1>3, <1>6
<1> QED  BY <1>5, <1>6

LEMMA SignalsTail ==
    ASSUME NEW q \in Seq(Message), q # <<>>
    PROVE  Cardinality(Signals(Tail(q))) +
              (IF Head(q).type = "signal" THEN 1 ELSE 0) <= Cardinality(Signals(q))
<1>1. /\ Len(Tail(q)) = Len(q) - 1 /\ Len(q) \in Nat /\ Len(q) >= 1 /\ Head(q) = q[1]
      /\ \A i \in 1..(Len(q) - 1) : Tail(q)[i] = q[i + 1]
      /\ Tail(q) \in Seq(Message)
  OBVIOUS
<1> DEFINE S == Signals(Tail(q))  R == Signals(q) \ {1}
           f == [i \in S |-> i + 1]
<1>2. f \in Injection(S, R)
  <2>1. ASSUME NEW i \in S PROVE i \in Int /\ i + 1 \in R
    BY <1>1 DEF Signals
  <2> QED  BY <2>1 DEF Injection, IsInjective
<1>3. IsFiniteSet(Signals(q)) /\ Cardinality(Signals(q)) \in Nat
      /\ Cardinality(S) \in Nat
  BY <1>1, SignalsFinite
<1>4. /\ IsFiniteSet(R)
      /\ Cardinality(R) = IF 1 \in Signals(q) THEN Cardinality(Signals(q)) - 1
                          ELSE Cardinality(Signals(q))
  BY <1>3, FS_RemoveElement
<1> HIDE DEF f, R
<1>5. Cardinality(S) <= Cardinality(R)
  BY <1>2, <1>4, FS_Injection
<1>6. Head(q).type = "signal" <=> 1 \in Signals(q)
  BY <1>1 DEF Signals
<1> QED  BY <1>3, <1>4, <1>5, <1>6

LEMMA PublishSignals ==
    ASSUME TypeOK, NEW m \in Message, NEW h \in Hubs
    PROVE  /\ Cardinality(Signals(publishToNats(m)[h])) <= Cardinality(Signals(nats[h])) + 1
           /\ m.type # "signal" \/ ~HasBroker =>
                 Cardinality(Signals(publishToNats(m)[h])) = Cardinality(Signals(nats[h]))
<1>1. nats[h] \in Seq(Message)
  BY DEF TypeOK
<1>2. Cardinality(Signals(nats[h])) <= Cardinality(Signals(nats[h])) + 1
  BY <1>1, SignalsFinite
<1> QED  BY <1>1, <1>2, PublishFacts, SignalsAppend

LEMMA DeliverGot ==
    ASSUME TypeOK, NEW h \in Hubs, NEW m \in Message, Deliver(h, m), NEW c \in Conns
    PROVE  /\ got'[c] \in {got[c], got[c] + 1}
           /\ HubOf[c] # h \/ m.type # "signal" => got'[c] = got[c]
  BY DEF Deliver, Recipients, Members

-----------------------------------------------------------------------------

LEMMA InitFan == Init => FanInv
<1> SUFFICES ASSUME Init PROVE FanInv
  OBVIOUS
<1>1. LocalInv /\ \A c \in Conns : HubOf[c] \in Hubs
  BY InitLocal, SiteFacts DEF LocalInv, DiscoverInv, OrderInv, CloseInv, TypeOK
<1>2. Pending = {} /\ Signals(<<>>) = {} /\ Len(<<>>) = 0
  BY DEF Init, Pending, Signals
<1>3. Cardinality(Pending) = 0 /\ Cardinality(Signals(<<>>)) = 0 /\ IsFiniteSet(Pending)
  BY <1>2, FS_EmptySet
<1>4. ASSUME NEW c \in Conns
      PROVE  Bounded(got[c], Cardinality(Signals(nats[HubOf[c]])), Len(bcast[HubOf[c]]),
                     Cardinality(Pending), signals)
  <2>1. /\ got[c] = 0 /\ signals = 0 /\ Len(bcast[HubOf[c]]) = 0
        /\ Cardinality(Signals(nats[HubOf[c]])) = 0
    BY <1>1, <1>2, <1>3 DEF Init
  <2> QED  BY <1>3, <2>1 DEF Bounded
<1> QED  BY <1>1, <1>3, <1>4 DEF FanInv, CountInv

LEMMA FanFacts ==
    ASSUME FanInv
    PROVE  /\ TypeOK /\ ServesInv /\ HasBroker \in BOOLEAN /\ signals \in Nat
           /\ \A c \in Conns : HubOf[c] \in Hubs /\ PeerOf[c] \in Peers /\ got[c] \in Nat
           /\ \A h \in Hubs : nats[h] \in Seq(Message) /\ bcast[h] \in Seq(Message)
           /\ \A h \in Hubs : Cardinality(Signals(nats[h])) \in Nat
           /\ \A h \in Hubs : Len(bcast[h]) \in Nat
           /\ IsFiniteSet(Pending) /\ Cardinality(Pending) \in Nat
<1>1. TypeOK /\ ServesInv /\ IsFiniteSet(Pending)
  BY DEF FanInv, CountInv, LocalInv, DiscoverInv, OrderInv, CloseInv
<1>2. \A h \in Hubs : nats[h] \in Seq(Message) /\ bcast[h] \in Seq(Message)
  BY <1>1 DEF TypeOK
<1> QED  BY <1>1, <1>2, SiteFacts, SignalsFinite, FS_CardinalityType DEF TypeOK

\* The messages of the Broadcast channels after one is added or taken.
LEMMA PendingAdd ==
    ASSUME FanInv, NEW h \in Hubs, NEW m \in Message,
           bcast' = [bcast EXCEPT ![h] = Append(@, m)]
    PROVE  /\ IsFiniteSet(Pending') /\ Cardinality(Pending') = Cardinality(Pending) + 1
           /\ Len(bcast'[h]) = Len(bcast[h]) + 1
           /\ \A g \in Hubs \ {h} : bcast'[g] = bcast[g]
<1>1. /\ bcast'[h] = Append(bcast[h], m) /\ Len(bcast'[h]) = Len(bcast[h]) + 1
      /\ Len(bcast[h]) \in Nat
      /\ \A g \in Hubs \ {h} : bcast'[g] = bcast[g]
      /\ \A g \in Hubs : Len(bcast[g]) \in Nat
  BY FanFacts DEF TypeOK
<1>2. Pending' = Pending \union {<<h, Len(bcast[h]) + 1>>}
  <2>1. ASSUME NEW g \in Hubs, NEW n \in Nat
        PROVE  <<g, n>> \in Pending' <=> <<g, n>> \in Pending \/ (g = h /\ n = Len(bcast[h]) + 1)
    BY <1>1 DEF Pending
  <2>2. <<h, Len(bcast[h]) + 1>> \in Hubs \X Nat
    BY <1>1
  <2>3. Pending \subseteq Hubs \X Nat /\ Pending' \subseteq Hubs \X Nat
    BY DEF Pending
  <2> QED  BY <2>1, <2>2, <2>3
<1>3. <<h, Len(bcast[h]) + 1>> \notin Pending
  BY <1>1 DEF Pending
<1> QED  BY <1>1, <1>2, <1>3, FanFacts, FS_AddElement

LEMMA PendingTake ==
    ASSUME FanInv, NEW h \in Hubs, bcast[h] # <<>>, bcast' = [bcast EXCEPT ![h] = Tail(@)]
    PROVE  /\ IsFiniteSet(Pending') /\ Cardinality(Pending') = Cardinality(Pending) - 1
           /\ Len(bcast'[h]) = Len(bcast[h]) - 1
           /\ \A g \in Hubs \ {h} : bcast'[g] = bcast[g]
<1>1. /\ bcast'[h] = Tail(bcast[h]) /\ Len(bcast'[h]) = Len(bcast[h]) - 1
      /\ Len(bcast[h]) \in Nat /\ Len(bcast[h]) >= 1
      /\ \A g \in Hubs \ {h} : bcast'[g] = bcast[g]
      /\ \A g \in Hubs : Len(bcast[g]) \in Nat
  BY FanFacts DEF TypeOK
<1>2. Pending' = Pending \ {<<h, Len(bcast[h])>>}
  <2>1. ASSUME NEW g \in Hubs, NEW n \in Nat
        PROVE  <<g, n>> \in Pending' <=> <<g, n>> \in Pending /\ ~(g = h /\ n = Len(bcast[h]))
    BY <1>1 DEF Pending
  <2>2. Pending \subseteq Hubs \X Nat /\ Pending' \subseteq Hubs \X Nat
    BY DEF Pending
  <2> QED  BY <2>1, <2>2
<1>3. <<h, Len(bcast[h])>> \in Pending
  BY <1>1 DEF Pending
<1> QED  BY <1>1, <1>2, <1>3, FanFacts, FS_RemoveElement

LEMMA CountPrimed ==
    ASSUME [Next]_vars, IsFiniteSet(Pending'),
           \A c \in Conns :
              Bounded(got'[c], Cardinality(Signals(nats'[HubOf[c]])), Len(bcast'[HubOf[c]]),
                      Cardinality(Pending'), signals')
    PROVE  CountInv'
<1> SUFFICES ASSUME NEW c \in Conns
             PROVE  Bounded(got[c], Cardinality(Signals(nats[HubOf[c]])), Len(bcast[HubOf[c]]),
                            Cardinality(Pending), signals)'
  BY DEF CountInv
<1>1. Signals(nats[HubOf[c]])' = Signals(nats'[HubOf[c]])
  BY SameSite DEF Signals
<1> QED  BY <1>1, SameSite DEF Bounded

\* Nothing comes in; a message is sent; it is taken from a Broadcast channel,
\* that of c's instance or of another one.
LEMMA NoCopy ==
    ASSUME NEW k \in Int, NEW n \in Int, NEW b \in Int, NEW p \in Int, NEW s \in Int,
           NEW k2 \in Int, NEW n2 \in Int, HasBroker \in BOOLEAN, Bounded(k, n, b, p, s),
           k2 + n2 <= k + n, ~HasBroker => k2 = k
    PROVE  Bounded(k2, n2, b, p, s)
  BY DEF Bounded

LEMMA OneSent ==
    ASSUME NEW k \in Int, NEW n \in Int, NEW b \in Int, NEW p \in Int, NEW s \in Int,
           NEW b2 \in Int, HasBroker \in BOOLEAN, Bounded(k, n, b, p, s),
           b2 = b \/ b2 = b + 1
    PROVE  Bounded(k, n, b2, p + 1, s + 1)
  BY DEF Bounded

LEMMA OneTaken ==
    ASSUME NEW k \in Int, NEW n \in Int, NEW b \in Int, NEW p \in Int, NEW s \in Int,
           NEW k2 \in Int, NEW n2 \in Int, NEW b2 \in Int,
           HasBroker \in BOOLEAN, Bounded(k, n, b, p, s),
           n2 <= n + 1, (b2 = b /\ k2 = k) \/ (b2 = b - 1 /\ k2 <= k + 1)
    PROVE  Bounded(k2, n2, b2, p - 1, s)
  BY DEF Bounded

\* No message comes in, and no copy of one is made.
LEMMA CountFrame ==
    ASSUME FanInv, [Next]_vars, bcast' = bcast, signals' = signals,
           \A c \in Conns : /\ got'[c] \in Nat
                            /\ got'[c] + Cardinality(Signals(nats'[HubOf[c]]))
                                  <= got[c] + Cardinality(Signals(nats[HubOf[c]]))
                            /\ ~HasBroker => got'[c] = got[c],
           \A h \in Hubs : Cardinality(Signals(nats'[h])) \in Nat
    PROVE  CountInv'
<1>1. Pending' = Pending
  BY DEF Pending
<1>2. ASSUME NEW c \in Conns
      PROVE  Bounded(got'[c], Cardinality(Signals(nats'[HubOf[c]])), Len(bcast'[HubOf[c]]),
                     Cardinality(Pending'), signals')
  <2>1. /\ HubOf[c] \in Hubs /\ got[c] \in Nat /\ Cardinality(Signals(nats[HubOf[c]])) \in Nat
        /\ Len(bcast[HubOf[c]]) \in Nat /\ Cardinality(Pending) \in Nat /\ signals \in Nat
        /\ HasBroker \in BOOLEAN /\ got'[c] \in Nat
        /\ Cardinality(Signals(nats'[HubOf[c]])) \in Nat
    BY FanFacts
  <2>2. Bounded(got[c], Cardinality(Signals(nats[HubOf[c]])), Len(bcast[HubOf[c]]),
                Cardinality(Pending), signals)
    BY DEF FanInv, CountInv
  <2> QED  BY <1>1, <2>1, <2>2, NoCopy
<1> QED  BY <1>1, <1>2, CountPrimed, FanFacts

LEMMA NextCount == FanInv /\ [Next]_vars => CountInv'
<1> SUFFICES ASSUME FanInv, [Next]_vars PROVE CountInv'
  OBVIOUS
<1>1. /\ TypeOK /\ ServesInv /\ HasBroker \in BOOLEAN /\ signals \in Nat
      /\ \A c \in Conns : HubOf[c] \in Hubs /\ PeerOf[c] \in Peers /\ got[c] \in Nat
      /\ \A h \in Hubs : nats[h] \in Seq(Message) /\ bcast[h] \in Seq(Message)
      /\ \A h \in Hubs : Cardinality(Signals(nats[h])) \in Nat
      /\ \A h \in Hubs : Len(bcast[h]) \in Nat
      /\ IsFiniteSet(Pending) /\ Cardinality(Pending) \in Nat
  BY FanFacts
<1>2. \A h \in Hubs : nats'[h] \in Seq(Message) /\ Cardinality(Signals(nats'[h])) \in Nat
  <2>1. TypeOK'
    BY <1>1, NextTypeOK
  <2> QED  BY <2>1, SignalsFinite DEF TypeOK
<1>3. CASE bcast' = bcast /\ nats' = nats /\ got' = got /\ signals' = signals
  BY <1>1, <1>3, CountFrame
<1>4. ASSUME NEW d \in Conns, signal(d) PROVE CountInv'
  <2>1. PICK target \in (Peers \ {PeerOf[d]}) \union {NoPeer} :
           bcast' = [bcast EXCEPT ![HubOf[d]] = Append(@, Msg("signal", PeerOf[d], target))]
    BY <1>4 DEF signal
  <2>2. Msg("signal", PeerOf[d], target) \in Message
    BY <1>1, MsgType
  <2>3. /\ IsFiniteSet(Pending') /\ Cardinality(Pending') = Cardinality(Pending) + 1
        /\ Len(bcast'[HubOf[d]]) = Len(bcast[HubOf[d]]) + 1
        /\ \A g \in Hubs \ {HubOf[d]} : bcast'[g] = bcast[g]
    BY <1>1, <2>1, <2>2, PendingAdd
  <2>4. signals' = signals + 1 /\ nats' = nats /\ got' = got
    BY <1>4 DEF signal
  <2>5. ASSUME NEW c \in Conns
        PROVE  Bounded(got'[c], Cardinality(Signals(nats'[HubOf[c]])), Len(bcast'[HubOf[c]]),
                       Cardinality(Pending'), signals')
    <3>1. Bounded(got[c], Cardinality(Signals(nats[HubOf[c]])), Len(bcast[HubOf[c]]),
                  Cardinality(Pending), signals)
      BY DEF FanInv, CountInv
    <3>2. /\ HubOf[c] \in Hubs /\ got[c] \in Int /\ Cardinality(Signals(nats[HubOf[c]])) \in Int
          /\ Len(bcast[HubOf[c]]) \in Int /\ signals \in Int /\ Cardinality(Pending) \in Int
      BY <1>1
    <3>3. /\ \/ Len(bcast'[HubOf[c]]) = Len(bcast[HubOf[c]])
             \/ Len(bcast'[HubOf[c]]) = Len(bcast[HubOf[c]]) + 1
          /\ Len(bcast'[HubOf[c]]) \in Int
      <4>1. CASE HubOf[c] = HubOf[d]
        BY <2>3, <3>2, <4>1
      <4>2. CASE HubOf[c] # HubOf[d]
        <5>1. bcast'[HubOf[c]] = bcast[HubOf[c]]
          BY <2>3, <3>2, <4>2
        <5> QED  BY <3>2, <5>1
      <4> QED  BY <4>1, <4>2
    <3>4. Bounded(got[c], Cardinality(Signals(nats[HubOf[c]])), Len(bcast'[HubOf[c]]),
                  Cardinality(Pending) + 1, signals + 1)
      BY <1>1, <3>1, <3>2, <3>3, OneSent
    <3> QED  BY <2>3, <2>4, <3>4
  <2> QED  BY <2>3, <2>5, CountPrimed
<1>5. ASSUME NEW h \in Hubs, greet(h) PROVE CountInv'
  <2>1. Joined(hub[h].c) \in Message /\ Joined(hub[h].c).type = "joined"
    BY <1>1, <1>5, ServedFacts, MsgType DEF greet, Joined, Msg
  <2>2. nats' = publishToNats(Joined(hub[h].c)) /\ UNCHANGED <<bcast, got, signals>>
    BY <1>5 DEF greet, Joined
  <2>3. \A g \in Hubs : Cardinality(Signals(nats'[g])) = Cardinality(Signals(nats[g]))
    BY <1>1, <2>1, <2>2, PublishSignals
  <2> QED  BY <1>1, <1>2, <2>2, <2>3, CountFrame
<1>6. ASSUME NEW h \in Hubs, left(h) PROVE CountInv'
  <2> DEFINE l == Msg("left", PeerOf[hub[h].c], NoPeer)
  <2>1. l \in Message /\ l.type = "left"
    BY <1>1, <1>6, ServedFacts, MsgType DEF left, Msg
  <2>2. /\ Deliver(h, l) /\ UNCHANGED <<bcast, signals>>
        /\ nats' \in {publishToNats(l), [publishToNats(l) EXCEPT ![h] = <<>>]}
    BY <1>6 DEF left
  <2> HIDE DEF l
  <2>3. \A c \in Conns : got'[c] = got[c]
    BY <1>1, <2>1, <2>2, DeliverGot
  <2>4. ASSUME NEW g \in Hubs
        PROVE  Cardinality(Signals(nats'[g])) <= Cardinality(Signals(nats[g]))
    <3>1. nats'[g] \in {publishToNats(l)[g], <<>>}
      BY <1>1, <2>1, <2>2, PublishFacts
    <3>2. Cardinality(Signals(<<>>)) = 0
      BY FS_EmptySet DEF Signals
    <3>3. Cardinality(Signals(publishToNats(l)[g])) = Cardinality(Signals(nats[g]))
      BY <1>1, <2>1, PublishSignals
    <3> QED  BY <1>1, <3>1, <3>2, <3>3
  <2> QED  BY <1>1, <1>2, <2>2, <2>3, <2>4, CountFrame
<1>7. ASSUME NEW h \in Hubs, natsDeliver(h) PROVE CountInv'
  <2> DEFINE m == Head(nats[h])
  <2>1. /\ nats[h] # <<>> /\ nats' = [nats EXCEPT ![h] = Tail(@)] /\ UNCHANGED <<bcast, signals>>
        /\ got' = got \/ Deliver(h, m)
    BY <1>7 DEF natsDeliver, takenFromNats
  <2>2. m \in Message
    BY <1>1, <2>1, QueueHead
  <2>3. HasBroker
    BY <2>1 DEF FanInv, LocalInv, QueueInv
  <2>4. /\ nats'[h] = Tail(nats[h]) /\ \A g \in Hubs \ {h} : nats'[g] = nats[g]
    BY <1>1, <2>1 DEF TypeOK
  <2>5. Cardinality(Signals(nats'[h])) + (IF m.type = "signal" THEN 1 ELSE 0)
           <= Cardinality(Signals(nats[h]))
    BY <1>1, <2>1, <2>4, SignalsTail
  <2> HIDE DEF m
  <2>6. ASSUME NEW c \in Conns
        PROVE  /\ got'[c] \in Nat
               /\ got'[c] + Cardinality(Signals(nats'[HubOf[c]]))
                     <= got[c] + Cardinality(Signals(nats[HubOf[c]]))
    <3>1. /\ got'[c] \in {got[c], got[c] + 1}
          /\ HubOf[c] # h \/ m.type # "signal" => got'[c] = got[c]
      BY <1>1, <2>1, <2>2, DeliverGot
    <3>2. CASE HubOf[c] = h
      BY <1>1, <1>2, <2>5, <3>1, <3>2
    <3>3. CASE HubOf[c] # h
      BY <1>1, <2>4, <3>1, <3>3
    <3> QED  BY <3>2, <3>3
  <2> QED  BY <1>2, <2>1, <2>3, <2>6, CountFrame
<1>8. ASSUME NEW h \in Hubs, handleBroadcast(h) PROVE CountInv'
  <2> DEFINE b == Head(bcast[h])
  <2>1. bcast[h] # <<>> /\ bcast' = [bcast EXCEPT ![h] = Tail(@)] /\ signals' = signals
    BY <1>8 DEF handleBroadcast
  <2>2. b \in Message
    BY <1>1, <2>1, QueueHead
  <2>3. (nats' = nats /\ got' = got) \/ (Deliver(h, b) /\ nats' = publishToNats(b))
    BY <1>8 DEF handleBroadcast
  <2> HIDE DEF b
  <2>4. /\ IsFiniteSet(Pending') /\ Cardinality(Pending') = Cardinality(Pending) - 1
        /\ Len(bcast'[h]) = Len(bcast[h]) - 1
        /\ \A g \in Hubs \ {h} : bcast'[g] = bcast[g]
    BY <2>1, PendingTake
  <2>5. ASSUME NEW c \in Conns
        PROVE  Bounded(got'[c], Cardinality(Signals(nats'[HubOf[c]])), Len(bcast'[HubOf[c]]),
                       Cardinality(Pending'), signals')
    <3>1. Bounded(got[c], Cardinality(Signals(nats[HubOf[c]])), Len(bcast[HubOf[c]]),
                  Cardinality(Pending), signals)
      BY DEF FanInv, CountInv
    <3>2. /\ got'[c] \in {got[c], got[c] + 1}
          /\ HubOf[c] # h => got'[c] = got[c]
      BY <1>1, <2>2, <2>3, DeliverGot
    <3>3. /\ Cardinality(Signals(nats'[HubOf[c]])) <= Cardinality(Signals(nats[HubOf[c]])) + 1
          /\ HubOf[c] \in Hubs /\ got[c] \in Nat /\ Cardinality(Signals(nats[HubOf[c]])) \in Nat
          /\ Len(bcast[HubOf[c]]) \in Nat /\ Cardinality(Signals(nats'[HubOf[c]])) \in Nat
      BY <1>1, <1>2, <2>2, <2>3, PublishSignals
    <3>4. /\ \/ Len(bcast'[HubOf[c]]) = Len(bcast[HubOf[c]]) /\ got'[c] = got[c]
             \/ Len(bcast'[HubOf[c]]) = Len(bcast[HubOf[c]]) - 1 /\ got'[c] <= got[c] + 1
          /\ Len(bcast'[HubOf[c]]) \in Int /\ got'[c] \in Int
      BY <2>4, <3>2, <3>3
    <3>5. /\ got[c] \in Int /\ Cardinality(Signals(nats[HubOf[c]])) \in Int
          /\ Len(bcast[HubOf[c]]) \in Int /\ Cardinality(Pending) \in Int /\ signals \in Int
          /\ Cardinality(Signals(nats'[HubOf[c]])) \in Int
          /\ Cardinality(Signals(nats'[HubOf[c]])) <= Cardinality(Signals(nats[HubOf[c]])) + 1
          /\ HasBroker \in BOOLEAN
      BY <1>1, <3>3
    <3>6. Bounded(got'[c], Cardinality(Signals(nats'[HubOf[c]])), Len(bcast'[HubOf[c]]),
                  Cardinality(Pending) - 1, signals)
      BY <3>1, <3>4, <3>5, OneTaken
    <3> QED  BY <2>1, <2>4, <3>6
  <2> QED  BY <2>4, <2>5, CountPrimed
<1> QED
  BY <1>3, <1>4, <1>5, <1>6, <1>7, <1>8
  DEF vars, Next, hubStep, connect, disconnect, register, join, setPresence, listPeers,
      unregister, leave, shutdown, shutdownClose

LEMMA FanInvariant == Spec => []FanInv
<1>1. Init => FanInv
  BY InitFan
<1>2. FanInv /\ [Next]_vars => CountInv'
  BY NextCount
<1>3. Init => CountInv
  BY <1>1 DEF FanInv
<1>4. FanInv <=> LocalInv /\ CountInv
  BY DEF FanInv
<1> QED  BY <1>2, <1>3, <1>4, LocalInvariant, PTL DEF Spec

\* A client gets at most two copies of a signaling message, one without NATS,
\* for any number of instances and messages.
THEOREM NoLoops == Spec => []NoFanoutLoop
<1>1. FanInv => NoFanoutLoop
  <2> SUFFICES ASSUME FanInv, NEW c \in Conns
               PROVE  got[c] <= (IF HasBroker THEN 2 ELSE 1) * signals
    BY DEF NoFanoutLoop
  <2>1. Bounded(got[c], Cardinality(Signals(nats[HubOf[c]])), Len(bcast[HubOf[c]]),
                Cardinality(Pending), signals)
    BY DEF FanInv, CountInv
  <2>2. /\ HubOf[c] \in Hubs /\ got[c] \in Nat /\ Cardinality(Signals(nats[HubOf[c]])) \in Nat
        /\ Len(bcast[HubOf[c]]) \in Nat /\ Cardinality(Pending) \in Nat /\ signals \in Nat
        /\ HasBroker \in BOOLEAN
    BY FanFacts
  <2> QED  BY <2>1, <2>2 DEF Bounded
<1> QED  BY <1>1, FanInvariant, PTL

=============================================================================
