----------------------------- MODULE PeerSession ----------------------------
(***************************************************************************)
(* How two pages of a room set up a session: roomStore.ts (the peers map,  *)
(* setupWebRTCPeer, the queue of early signaling messages, the handlers    *)
(* registered by connectSignaling, the key exchange) and webrtc.ts.        *)
(*                                                                         *)
(* Page A has the smaller peer id and makes the offer.  Every call of      *)
(* setupWebRTCPeer has a number that also names the RTCPeerConnection it   *)
(* creates, and is split at its awaits: the TURN credentials, the offer,   *)
(* the key packet, the queued messages.  The browser serialises what is    *)
(* done to one connection, so handling an offer is one step.  ICE          *)
(* candidates are left out: two connections that hold each other's         *)
(* descriptions reach each other.  So is the status shown for a peer,      *)
(* nothing reads it but the display.                                       *)
(***************************************************************************)
EXTENDS Integers, Sequences, FiniteSets

CONSTANTS
    MaxSetups,  \* setupWebRTCPeer calls of each page (a bound)
    MaxFaults,  \* faults of the environment (a bound)
    MaxOpens,   \* control channels open when one more may open behind a fault (a bound)
    Drops,      \* the pages whose signaling connection may be lost
    Reloads,    \* the pages that may be reloaded
    IceLosses   \* the pages that may be the first to lose the peer connection

Pages == {"A", "B"}

ASSUME PeerSessionAssumption ==
    /\ MaxSetups \in Nat /\ MaxFaults \in Nat /\ MaxOpens \in Nat
    /\ Drops \subseteq Pages /\ Reloads \subseteq Pages /\ IceLosses \subseteq Pages

other(p) == IF p = "A" THEN "B" ELSE "A"
Calls == 1..MaxSetups
None == 0

VARIABLES
    online,    \* the page's signaling connection is registered in the hub
    out,       \* sendQueue of an offline signaling client
    inbox,     \* messages on their way to the page, through the hub
    entry,     \* peers.get(remotePeerId)
    pending,   \* pendingSignalingMessages of the remote peer
    stage,     \* where each setupWebRTCPeer call is
    flush,     \* the actions a call has taken from pending
    after,     \* the offer whose handler awaits the call
    pc,        \* state of each RTCPeerConnection
    mate,      \* the remote connection its remote description came from
    opened,    \* connections whose control channel has opened
    deriving,  \* key packets completeKeyExchange is working on
    session,   \* which key pair the page has; a reload makes a new one
    opens,     \* control channels opened so far, up to MaxOpens
    faults

vars == <<online, out, inbox, entry, pending, stage, flush, after, pc,
          mate, opened, deriving, session, opens, faults>>
sendVars == <<out, inbox>>
callVars == <<stage, flush, after>>
pcVars == <<pc, mate, opened>>
keyVars == <<deriving, session>>

NoEntry == [here |-> FALSE, pcm |-> None, key |-> -1, coord |-> None]
Placeholder == [NoEntry EXCEPT !.here = TRUE]

\* A message: its type and the sender's connection or key pair.
Msg(type, ref) == [type |-> type, ref |-> ref]
NoMsg == Msg("none", 0)

Init ==
    /\ online = [p \in Pages |-> FALSE]
    /\ out = [p \in Pages |-> <<>>]
    /\ inbox = [p \in Pages |-> <<>>]
    /\ entry = [p \in Pages |-> NoEntry]
    /\ pending = [p \in Pages |-> <<>>]
    /\ stage = [p \in Pages |-> [i \in Calls |-> "unused"]]
    /\ flush = [p \in Pages |-> [i \in Calls |-> <<>>]]
    /\ after = [p \in Pages |-> [i \in Calls |-> NoMsg]]
    /\ pc = [p \in Pages |-> [i \in Calls |-> "none"]]
    /\ mate = [p \in Pages |-> [i \in Calls |-> None]]
    /\ opened = [p \in Pages |-> {}]
    /\ deriving = [p \in Pages |-> {}]
    /\ session = [p \in Pages |-> 0]
    /\ opens = 0
    /\ faults = 0

-----------------------------------------------------------------------------
(* Helpers *)

\* The page with the smaller id makes the offer.
isInitiator(p) == p = "A"

\* inbox after p sends m (its own inbox being box): the hub drops what is for
\* a page that is not registered, an offline client keeps it in its queue.
sendFrom(box, p, m) ==
    IF online[p]
    THEN /\ inbox' = IF online[other(p)] THEN [box EXCEPT ![other(p)] = Append(@, m)]
                     ELSE box
         /\ UNCHANGED out
    ELSE inbox' = box /\ out' = [out EXCEPT ![p] = Append(@, m)]

send(p, m) == sendFrom(inbox, p, m)

\* Connection i of p and its mate have each other's description.
Linked(p, i) ==
    LET q == other(p)
        j == mate[p][i] IN
    /\ pc[p][i] = "paired" /\ j # None
    /\ pc[q][j] = "paired" /\ mate[q][j] = i

\* The guard of setupWebRTCPeer and of its callers: the peer is in the map.
BugLooksForManager(p) == entry[p].pcm # None
hasPeer(p) == entry[p].here

isNextCall(p, i) ==
    stage[p][i] = "unused" /\ \A j \in 1..(i - 1) : stage[p][j] # "unused"

\* A call that has ended is forgotten, and so is a connection that has.
endCall(p, i) ==
    /\ stage' = [stage EXCEPT ![p][i] = "done"]
    /\ after' = [after EXCEPT ![p][i] = NoMsg]

endConnection(p, i, how) ==
    /\ pc' = [pc EXCEPT ![p][i] = how]
    /\ mate' = [mate EXCEPT ![p][i] = None]
    /\ opened' = [opened EXCEPT ![p] = @ \ {i}]

\* The first part of a call, up to its first await: the placeholder.
beginSetup(p, m) ==
    /\ entry' = [entry EXCEPT ![p] = Placeholder]
    /\ \E i \in Calls : /\ isNextCall(p, i)
                         /\ stage' = [stage EXCEPT ![p][i] = "turn"]
                         /\ after' = [after EXCEPT ![p][i] = m]
    /\ UNCHANGED flush

\* An offer or an answer becomes the remote description of the connection that
\* is installed, if that is in the state for it.
canAccept(p, m) ==
    LET i == entry[p].pcm IN
    /\ i # None
    /\ \/ m.type = "offer" /\ pc[p][i] = "new"
       \/ m.type = "answer" /\ pc[p][i] = "offered"

\* A connection that has been negotiated takes the offer of a new remote
\* connection as a renegotiation, or the browser refuses its fingerprint.
mayRenegotiate(p, m) ==
    LET i == entry[p].pcm IN
    /\ i # None
    /\ m.type = "offer" /\ pc[p][i] \in {"paired", "failed"}

acceptDescription(box, p, m) ==
    LET i == entry[p].pcm IN
    /\ pc' = [pc EXCEPT ![p][i] = "paired"]
    /\ mate' = [mate EXCEPT ![p][i] = m.ref]
    /\ opened' = [opened EXCEPT ![p] = @ \ {i}]
    /\ IF m.type = "offer" THEN sendFrom(box, p, Msg("answer", i))
       ELSE inbox' = box /\ UNCHANGED out

\* A key packet has come, by signaling or over the control channel, and page p
\* starts to derive the key.
completeKeyExchange(p, s) == [deriving EXCEPT ![p] = @ \union {s}]

execute(box, p, m) ==
    /\ deriving' = IF m.type = "key" THEN completeKeyExchange(p, m.ref)
                   ELSE deriving
    /\ \/ /\ canAccept(p, m) \/ mayRenegotiate(p, m)
          /\ acceptDescription(box, p, m)
       \/ /\ ~canAccept(p, m)
          /\ inbox' = box
          /\ UNCHANGED <<out, pcVars>>
    /\ UNCHANGED session

\* queueOrExecuteSignaling: a message is for a connection that is installed.
BugWaitsForKey(p) == entry[p].here /\ entry[p].key # -1
ready(p) == entry[p].here /\ entry[p].pcm # None

queueOrExecute(box, p, m) ==
    IF ready(p)
    THEN execute(box, p, m) /\ UNCHANGED pending
    ELSE /\ pending' = [pending EXCEPT ![p] = Append(@, m)]
         /\ inbox' = box
         /\ UNCHANGED <<out, pcVars, keyVars>>

-----------------------------------------------------------------------------
(* The hub, for one room on one instance *)

\* connectSignaling, or a reconnect: the page is told of the other one (a
\* room-state without peers does nothing), the other of the newcomer, and the
\* client flushes its queue.
join(p) ==
    LET q == other(p) IN
    /\ ~online[p]
    /\ online' = [online EXCEPT ![p] = TRUE]
    /\ inbox' = IF online[q]
                THEN [inbox EXCEPT ![p] = <<Msg("room-state", 0)>>,
                                   ![q] = Append(@, Msg("peer-joined", 0)) \o out[p]]
                ELSE inbox
    /\ out' = [out EXCEPT ![p] = <<>>]
    /\ UNCHANGED <<entry, pending, callVars, pcVars, keyVars, opens, faults>>

IsSignal(m) == m.type \in {"offer", "answer", "key"}

\* The hub unregisters p.  Its select takes the Unregister and the Broadcast
\* channel in any order, so peer-left may overtake messages p has sent.
unregister(p) ==
    LET q == other(p) IN
    /\ online' = [online EXCEPT ![p] = FALSE]
    /\ IF online[q]
       THEN \E k \in 0..Len(inbox[q]) :
               /\ \A n \in (k + 1)..Len(inbox[q]) : IsSignal(inbox[q][n])
               /\ inbox' = [inbox EXCEPT ![p] = <<>>,
                     ![q] = SubSeq(@, 1, k) \o <<Msg("peer-left", 0)>>
                               \o SubSeq(@, k + 1, Len(@))]
       ELSE inbox' = [inbox EXCEPT ![p] = <<>>]

-----------------------------------------------------------------------------
(* Handlers of signaling messages *)

receive(p, type) ==
    /\ inbox[p] # <<>>
    /\ Head(inbox[p]).type = type
    /\ UNCHANGED <<online, opens, faults>>

Taken(p) == [inbox EXCEPT ![p] = Tail(@)]

onPeerThere(p) ==
    /\ receive(p, "peer-joined") \/ receive(p, "room-state")
    /\ IF hasPeer(p) THEN UNCHANGED <<entry, callVars>>
       ELSE beginSetup(p, NoMsg)
    /\ inbox' = Taken(p)
    /\ UNCHANGED <<out, pending, pcVars, keyVars>>

\* peers without the one that left.
BugKeepsEntry(p) == entry
removePeer(p) == [entry EXCEPT ![p] = NoEntry]

onPeerLeft(p) ==
    /\ receive(p, "peer-left")
    /\ pending' = [pending EXCEPT ![p] = <<>>]
    /\ entry' = removePeer(p)
    /\ IF entry[p].pcm # None THEN endConnection(p, entry[p].pcm, "closed")
       ELSE UNCHANGED pcVars
    /\ inbox' = Taken(p)
    /\ UNCHANGED <<out, callVars, keyVars>>

\* An offer of a peer that is not in the map sets it up first.
onOffer(p) ==
    /\ receive(p, "offer")
    /\ IF hasPeer(p)
       THEN /\ queueOrExecute(Taken(p), p, Head(inbox[p]))
            /\ UNCHANGED <<entry, callVars>>
       ELSE /\ beginSetup(p, Head(inbox[p]))
            /\ inbox' = Taken(p)
            /\ UNCHANGED <<out, pending, pcVars, keyVars>>

onSignal(p) ==
    /\ receive(p, "answer") \/ receive(p, "key")
    /\ queueOrExecute(Taken(p), p, Head(inbox[p]))
    /\ UNCHANGED <<entry, callVars>>

-----------------------------------------------------------------------------
(* setupWebRTCPeer after its awaits *)

\* The TURN credentials are there, or five seconds have passed: the manager is
\* created and installed in whatever entry the peer now has, and initialised.
turnDone(p, i) ==
    /\ stage[p][i] = "turn"
    /\ entry' = IF entry[p].here THEN [entry EXCEPT ![p].pcm = i] ELSE entry
    /\ pc' = [pc EXCEPT ![p][i] = "new"]
    /\ stage' = [stage EXCEPT ![p][i] = IF isInitiator(p) THEN "offer" ELSE "keys"]
    /\ UNCHANGED <<online, sendVars, pending, flush, after, mate, opened,
                   keyVars, opens, faults>>

\* A manager closed in the meantime makes initialize() throw, which ends the
\* call and the handler that awaits it.
offerDone(p, i) ==
    /\ stage[p][i] = "offer"
    /\ IF pc[p][i] = "closed"
       THEN endCall(p, i) /\ UNCHANGED <<pc, sendVars>>
       ELSE /\ stage' = [stage EXCEPT ![p][i] = "keys"]
            /\ pc' = [pc EXCEPT ![p][i] = "offered"]
            /\ send(p, Msg("offer", i))
            /\ UNCHANGED after
    /\ UNCHANGED <<online, entry, pending, flush, mate, opened, keyVars, opens, faults>>

\* What a call takes from the queue when its key packet is sent.
BugForgetsQueue(p) == <<>>
takeQueue(p) == pending[p]

keysDone(p, i) ==
    /\ stage[p][i] = "keys"
    /\ stage' = [stage EXCEPT ![p][i] =
                    IF takeQueue(p) = <<>> /\ after[p][i] = NoMsg THEN "done"
                    ELSE "flush"]
    /\ send(p, Msg("key", session[p]))
    /\ flush' = [flush EXCEPT ![p][i] = takeQueue(p)]
    /\ pending' = [pending EXCEPT ![p] = <<>>]
    /\ UNCHANGED <<online, entry, after, pcVars, keyVars, opens, faults>>

\* A queued action looks for the installed connection when it runs.
flushStep(p, i) ==
    /\ stage[p][i] = "flush" /\ flush[p][i] # <<>>
    /\ flush' = [flush EXCEPT ![p][i] = Tail(@)]
    /\ execute(inbox, p, Head(flush[p][i]))
    /\ UNCHANGED <<online, entry, pending, stage, after, opens, faults>>

setupDone(p, i) ==
    /\ stage[p][i] = "flush" /\ flush[p][i] = <<>>
    /\ endCall(p, i)
    /\ IF after[p][i] = NoMsg THEN UNCHANGED <<sendVars, pending, pcVars, keyVars>>
       ELSE queueOrExecute(inbox, p, after[p][i])
    /\ UNCHANGED <<online, entry, flush, opens, faults>>

-----------------------------------------------------------------------------
(* The connection and the key exchange *)

\* onControlChannelOpen: a page without the key sends its packet again, over
\* both ways.
channelOpen(p, i) ==
    /\ Linked(p, i) /\ i \notin opened[p]
    /\ faults > 0 => opens < MaxOpens
    /\ opens' = IF opens < MaxOpens THEN opens + 1 ELSE opens
    /\ opened' = [opened EXCEPT ![p] = @ \union {i}]
    /\ IF entry[p].here /\ entry[p].key = -1
       THEN /\ send(p, Msg("key", session[p]))
            /\ deriving' = IF entry[p].pcm # None /\ Linked(p, entry[p].pcm)
                           THEN completeKeyExchange(other(p), session[p])
                           ELSE deriving
       ELSE UNCHANGED <<sendVars, deriving>>
    /\ UNCHANGED <<online, entry, pending, callVars, pc, mate,
                   session, faults>>

\* The transfer coordinator is made once, for the manager installed then.
finalizeKeyExchange(p, s) ==
    /\ s \in deriving[p]
    /\ deriving' = [deriving EXCEPT ![p] = @ \ {s}]
    /\ entry' = IF entry[p].here
                THEN [entry EXCEPT ![p].key = s,
                                   ![p].coord = IF @ = None THEN entry[p].pcm ELSE @]
                ELSE entry
    /\ UNCHANGED <<online, sendVars, pending, callVars, pcVars, session, opens, faults>>

\* connectionState 'disconnected': the entry goes, whichever connection it has.
dropPeer(p) ==
    /\ pending' = [pending EXCEPT ![p] = <<>>]
    /\ entry' = [entry EXCEPT ![p] = NoEntry]

pcDisconnected(p, i) ==
    /\ i \in opened[p] /\ pc[p][i] = "paired"
    /\ IF Linked(p, i)
       THEN p \in IceLosses /\ faults < MaxFaults /\ faults' = faults + 1
       ELSE UNCHANGED faults
    /\ endConnection(p, i, "lost")
    /\ IF entry[p].here THEN dropPeer(p) ELSE UNCHANGED <<entry, pending>>
    /\ UNCHANGED <<online, sendVars, callVars, keyVars, opens>>

\* connectionState 'failed': after 'disconnected', or of a connection whose
\* mate has gone before it was up.
pcFailed(p, i) ==
    /\ \/ pc[p][i] = "lost"
       \/ /\ pc[p][i] = "paired" /\ i \notin opened[p]
          /\ pc[other(p)][mate[p][i]] \in {"closed", "lost"}
    /\ endConnection(p, i, "failed")
    /\ pending' = IF entry[p].here THEN [pending EXCEPT ![p] = <<>>] ELSE pending
    /\ UNCHANGED <<online, sendVars, entry, callVars, keyVars, opens, faults>>

-----------------------------------------------------------------------------
(* Faults *)

\* The signaling connection is lost; the client will join again.
drop(p) ==
    /\ p \in Drops /\ faults < MaxFaults
    /\ online[p]
    /\ faults' = faults + 1
    /\ unregister(p)
    /\ UNCHANGED <<out, entry, pending, callVars, pcVars, keyVars, opens>>

\* The page is reloaded: nothing is left of it, and it joins again with its
\* token and new keys.
reload(p) ==
    /\ p \in Reloads /\ faults < MaxFaults
    /\ online[p]
    /\ faults' = faults + 1
    /\ unregister(p)
    /\ out' = [out EXCEPT ![p] = <<>>]
    /\ entry' = [entry EXCEPT ![p] = NoEntry]
    /\ pending' = [pending EXCEPT ![p] = <<>>]
    /\ stage' = [stage EXCEPT ![p] = [i \in Calls |->
                    IF stage[p][i] = "unused" THEN "unused" ELSE "done"]]
    /\ pc' = [pc EXCEPT ![p] = [i \in Calls |->
                    IF stage[p][i] = "unused" THEN "none" ELSE "closed"]]
    /\ deriving' = [deriving EXCEPT ![p] = {}]
    /\ session' = [session EXCEPT ![p] = @ + 1]
    /\ flush' = [flush EXCEPT ![p] = [i \in Calls |-> <<>>]]
    /\ after' = [after EXCEPT ![p] = [i \in Calls |-> NoMsg]]
    /\ mate' = [mate EXCEPT ![p] = [i \in Calls |-> None]]
    /\ opened' = [opened EXCEPT ![p] = {}]
    /\ UNCHANGED opens

-----------------------------------------------------------------------------
pageStep(p) ==
    \/ onPeerThere(p) \/ onPeerLeft(p) \/ onOffer(p) \/ onSignal(p)
    \/ \E i \in Calls :
          \/ turnDone(p, i) \/ offerDone(p, i) \/ keysDone(p, i)
          \/ flushStep(p, i) \/ setupDone(p, i)
          \/ channelOpen(p, i) \/ pcDisconnected(p, i) \/ pcFailed(p, i)
    \/ \E s \in deriving[p] : finalizeKeyExchange(p, s)

Next ==
    \E p \in Pages : join(p) \/ pageStep(p) \/ drop(p) \/ reload(p)

Spec == Init /\ [][Next]_vars

-----------------------------------------------------------------------------
(* Properties *)

Message == [type : {"offer", "answer", "key", "room-state", "peer-joined", "peer-left"},
            ref : Nat]

\* Every variable keeps its type.
TypeOK ==
    /\ online \in [Pages -> BOOLEAN]
    /\ {out, inbox, pending} \subseteq [Pages -> Seq(Message)]
    /\ entry \in [Pages -> [here : BOOLEAN, pcm : Calls \union {None},
                            key : Nat \union {-1}, coord : Calls \union {None}]]
    /\ stage \in [Pages -> [Calls -> {"unused", "turn", "offer", "keys", "flush", "done"}]]
    /\ flush \in [Pages -> [Calls -> Seq(Message)]]
    /\ after \in [Pages -> [Calls -> Message \union {NoMsg}]]
    /\ pc \in [Pages -> [Calls -> {"none", "new", "offered", "paired", "closed",
                                   "lost", "failed"}]]
    /\ mate \in [Pages -> [Calls -> Nat]] /\ opened \in [Pages -> SUBSET Calls]
    /\ deriving \in [Pages -> SUBSET Nat] /\ session \in [Pages -> Nat]
    /\ opens \in 0..MaxOpens /\ faults \in 0..MaxFaults

KeysAgree ==
    \A p \in Pages : entry[p].key = session[other(p)]

\* Both pages have each other, over connections that lead to each other, with
\* keys of the same two key pairs and a transfer coordinator on that connection.
Established ==
    /\ \A p \in Pages : /\ entry[p].here /\ entry[p].pcm # None
                        /\ Linked(p, entry[p].pcm)
                        /\ entry[p].coord = entry[p].pcm
    /\ mate["A"][entry["A"].pcm] = entry["B"].pcm
    /\ KeysAgree

\* No message and no call is under way on or between the pages.
Resting ==
    \A p \in Pages :
        /\ online[p] /\ inbox[p] = <<>> /\ deriving[p] = {}
        /\ \A i \in Calls : stage[p][i] \in {"unused", "done"}

\* Two pages in the room have a session once everything has been handled, in
\* whatever order they joined, however long the TURN credentials took and
\* whatever arrived meanwhile.
RestingHasSession == Resting /\ faults = 0 => Established

\* Once there is a session nothing that is still under way takes it apart: not
\* a second peer-joined or room-state, a late answer or a repeated key packet.
EstablishedStays ==
    [][Established /\ faults' = 0 => Established']_vars

\* Messages queued for a peer in the map are never forgotten: a setup call is
\* still to flush them.
QueueHasFlusher ==
    \A p \in Pages : entry[p].here /\ pending[p] # <<>>
        => \E i \in Calls : stage[p][i] \in {"turn", "offer", "keys"}

\* The connection of a peer in the map has not been closed by this page.
InstalledIsUsable ==
    \A p \in Pages : entry[p].pcm # None => pc[p][entry[p].pcm] # "closed"

\* Nothing is under way between the pages, and no connection is going to
\* change its state.
Settled ==
    \A p \in Pages :
        /\ online[p] /\ inbox[p] = <<>> /\ deriving[p] = {}
        /\ \A i \in Calls :
              /\ stage[p][i] \in {"unused", "done"}
              /\ Linked(p, i) <=> i \in opened[p]
              /\ pc[p][i] # "lost"

\* plan.md, of a reconnect: "Peers re-establish WebRTC connection via
\* signaling".  Two pages that are both back in the room and have settled have
\* a session.
ReconnectReestablishes == Settled => Established
=============================================================================
