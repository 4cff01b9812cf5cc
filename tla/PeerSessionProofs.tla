-------------------------- MODULE PeerSessionProofs --------------------------
(***************************************************************************)
(* Proofs about PeerSession: whatever the number of setup calls and of     *)
(* faults, no connection that has been closed stays installed and no       *)
(* queued message is forgotten; and two pages that meet without a fault    *)
(* come to a session that nothing still under way takes apart.             *)
(***************************************************************************)
EXTENDS PeerSession, TLAPS, SequenceTheorems

\* What a variable may hold for a page.
Entries == [here : BOOLEAN, pcm : Calls \union {None},
            key : Nat \union {-1}, coord : Calls \union {None}]
Stages == {"unused", "turn", "offer", "keys", "flush", "done"}
States == {"none", "new", "offered", "paired", "closed", "lost", "failed"}

\* The message queues, the calls, the connections.
MailType == {out, inbox, pending} \subseteq [Pages -> Seq(Message)]
CallType == /\ stage \in [Pages -> [Calls -> Stages]]
            /\ flush \in [Pages -> [Calls -> Seq(Message)]]
            /\ after \in [Pages -> [Calls -> Message \union {NoMsg}]]
PcType == /\ pc \in [Pages -> [Calls -> States]]
          /\ mate \in [Pages -> [Calls -> Nat]] /\ opened \in [Pages -> SUBSET Calls]
RestType == /\ online \in [Pages -> BOOLEAN] /\ entry \in [Pages -> Entries]
            /\ deriving \in [Pages -> SUBSET Nat] /\ session \in [Pages -> Nat]
            /\ opens \in 0..MaxOpens /\ faults \in 0..MaxFaults

\* A placeholder waits for the connection of a call that is still to come.
PlaceInv ==
    \A p \in Pages : entry[p].here /\ entry[p].pcm = None
        => \E i \in Calls : stage[p][i] = "turn"

\* A call that is still to flush the queue: one whose connection has been closed
\* ends instead of making its offer.
WillFlush(p, i) ==
    \/ stage[p][i] \in {"turn", "keys"}
    \/ stage[p][i] = "offer" /\ pc[p][i] # "closed"

FlushInv ==
    \A p \in Pages : entry[p].here /\ pending[p] # <<>> => \E i \in Calls : WillFlush(p, i)

QueueInv == PlaceInv /\ FlushInv

-----------------------------------------------------------------------------
(* Helpers *)

LEMMA TypeParts == TypeOK <=> MailType /\ CallType /\ PcType /\ RestType
  BY DEF TypeOK, MailType, CallType, PcType, RestType, Entries, Stages, States

LEMMA TypePartsNext ==
    ASSUME MailType', CallType', PcType', RestType'
    PROVE  TypeOK'
  BY DEF TypeOK, MailType, CallType, PcType, RestType, Entries, Stages, States

LEMMA QueueFacts ==
    ASSUME NEW q \in Seq(Message), q # <<>>
    PROVE  Head(q) \in Message /\ Tail(q) \in Seq(Message)
  BY HeadTailProperties

\* A message of the two pages, whatever connection or key it names.
LEMMA MsgFacts ==
    ASSUME NEW t \in {"offer", "answer", "key", "room-state", "peer-joined", "peer-left"},
           NEW n \in Nat
    PROVE  Msg(t, n) \in Message
  BY DEF Msg, Message

LEMMA PageFacts ==
    ASSUME NEW p \in Pages
    PROVE  other(p) \in Pages
  BY DEF Pages, other

LEMMA SendTypes ==
    ASSUME MailType, NEW p \in Pages, NEW m \in Message,
           NEW box \in [Pages -> Seq(Message)], sendFrom(box, p, m)
    PROVE  inbox' \in [Pages -> Seq(Message)] /\ out' \in [Pages -> Seq(Message)]
<1>1. other(p) \in Pages
  BY PageFacts
<1>2. /\ Append(box[other(p)], m) \in Seq(Message)
      /\ Append(out[p], m) \in Seq(Message)
  BY <1>1 DEF MailType
<1> QED  BY <1>1, <1>2 DEF sendFrom, MailType

LEMMA TakenTypes ==
    ASSUME MailType, NEW p \in Pages, inbox[p] # <<>>
    PROVE  Head(inbox[p]) \in Message /\ Taken(p) \in [Pages -> Seq(Message)]
<1>1. inbox[p] \in Seq(Message)
  BY DEF MailType
<1>2. Head(inbox[p]) \in Message /\ Tail(inbox[p]) \in Seq(Message)
  BY <1>1, QueueFacts
<1> QED  BY <1>2 DEF Taken, MailType

LEMMA EndConnectionTypes ==
    ASSUME PcType, NEW p \in Pages, NEW i \in Calls, NEW how \in States,
           endConnection(p, i, how)
    PROVE  PcType'
  BY DEF PcType, endConnection, None

\* Executing a message changes no entry and no queue, and closes nothing.
LEMMA ExecuteFacts ==
    ASSUME TypeOK, NEW p \in Pages, NEW m \in Message,
           NEW box \in [Pages -> Seq(Message)], execute(box, p, m)
    PROVE  /\ PcType' /\ deriving' \in [Pages -> SUBSET Nat] /\ session' = session
           /\ inbox' \in [Pages -> Seq(Message)] /\ out' \in [Pages -> Seq(Message)]
           /\ \A q \in Pages, i \in Calls : pc'[q][i] = "closed" => pc[q][i] = "closed"
<1> USE TypeParts
<1>1. m.ref \in Nat
  BY DEF Message
<1>2. deriving' \in [Pages -> SUBSET Nat] /\ session' = session
  BY <1>1 DEF execute, completeKeyExchange, RestType
<1>3. CASE (canAccept(p, m) \/ mayRenegotiate(p, m)) /\ acceptDescription(box, p, m)
  <2>1. entry[p].pcm \in Calls
    BY <1>3 DEF RestType, Entries, canAccept, mayRenegotiate
  <2>2. Msg("answer", entry[p].pcm) \in Message
    BY <2>1, MsgFacts DEF Calls
  <2>3. inbox' \in [Pages -> Seq(Message)] /\ out' \in [Pages -> Seq(Message)]
    <3>1. CASE m.type = "offer"
      BY <1>3, <2>2, <3>1, SendTypes DEF acceptDescription
    <3>2. CASE m.type # "offer"
      BY <1>3, <3>2 DEF acceptDescription, MailType
    <3> QED  BY <3>1, <3>2
  <2>4. PcType'
    BY <1>1, <1>3, <2>1 DEF acceptDescription, PcType, States
  <2>5. \A q \in Pages, i \in Calls : pc'[q][i] = "closed" => pc[q][i] = "closed"
    BY <1>3, <2>1 DEF acceptDescription, PcType
  <2> QED  BY <1>2, <2>3, <2>4, <2>5
<1>4. CASE inbox' = box /\ UNCHANGED <<out, pcVars>>
  BY <1>2, <1>4 DEF pcVars, PcType, MailType
<1> QED  BY <1>3, <1>4 DEF execute

\* A message that comes before the connection is queued.
LEMMA QueueOrExecuteFacts ==
    ASSUME TypeOK, NEW p \in Pages, NEW m \in Message,
           NEW box \in [Pages -> Seq(Message)], queueOrExecute(box, p, m)
    PROVE  /\ MailType' /\ PcType' /\ deriving' \in [Pages -> SUBSET Nat]
           /\ session' = session
           /\ \A q \in Pages, i \in Calls : pc'[q][i] = "closed" => pc[q][i] = "closed"
           /\ \A q \in Pages : pending'[q] = pending[q]
                               \/ ~entry[q].here \/ entry[q].pcm = None
<1> USE TypeParts
<1>1. CASE ready(p)
  BY <1>1, ExecuteFacts DEF queueOrExecute, MailType
<1>2. CASE ~ready(p)
  <2>1. Append(pending[p], m) \in Seq(Message)
    BY DEF MailType
  <2>2. MailType'
    BY <1>2, <2>1 DEF queueOrExecute, MailType
  <2>3. PcType' /\ deriving' \in [Pages -> SUBSET Nat] /\ session' = session
    BY <1>2 DEF queueOrExecute, PcType, RestType, pcVars, keyVars
  <2>4. \A q \in Pages : pending'[q] = pending[q] \/ ~entry[q].here \/ entry[q].pcm = None
    BY <1>2 DEF queueOrExecute, ready, MailType
  <2> QED  BY <1>2, <2>2, <2>3, <2>4 DEF queueOrExecute, pcVars
<1> QED  BY <1>1, <1>2

\* A call begins with a placeholder and waits for its credentials.
LEMMA BeginFacts ==
    ASSUME TypeOK, NEW p \in Pages, NEW m \in Message \union {NoMsg}, beginSetup(p, m)
    PROVE  /\ CallType' /\ entry' \in [Pages -> Entries]
           /\ entry'[p].here /\ entry'[p].pcm = None
           /\ \E i \in Calls : stage'[p][i] = "turn"
           /\ \A q \in Pages \ {p} : entry'[q] = entry[q] /\ stage'[q] = stage[q]
<1> USE TypeParts
<1>1. entry' = [entry EXCEPT ![p] = Placeholder] /\ flush' = flush
  BY DEF beginSetup
<1>2. Placeholder \in Entries /\ Placeholder.here /\ Placeholder.pcm = None
  BY DEF Placeholder, NoEntry, Entries
<1>3. PICK i \in Calls : /\ stage' = [stage EXCEPT ![p][i] = "turn"]
                         /\ after' = [after EXCEPT ![p][i] = m]
  BY DEF beginSetup
<1>4. CallType'
  BY <1>1, <1>3 DEF CallType, Stages
<1>5. /\ stage'[p][i] = "turn"
      /\ \A q \in Pages \ {p} : stage'[q] = stage[q]
  BY <1>3 DEF CallType
<1>6. /\ entry' \in [Pages -> Entries] /\ entry'[p] = Placeholder
      /\ \A q \in Pages \ {p} : entry'[q] = entry[q]
  BY <1>1, <1>2 DEF RestType
<1> QED  BY <1>2, <1>4, <1>5, <1>6

\* The hub's part of a lost connection.
LEMMA UnregisterFacts ==
    ASSUME TypeOK, NEW p \in Pages, unregister(p)
    PROVE  online' \in [Pages -> BOOLEAN] /\ inbox' \in [Pages -> Seq(Message)]
<1> USE TypeParts
<1> DEFINE q == other(p)
<1>1. q \in Pages /\ inbox[q] \in Seq(Message)
  BY PageFacts DEF MailType
<1>2. CASE online[q]
  <2>1. PICK k \in 0..Len(inbox[q]) :
            inbox' = [inbox EXCEPT ![p] = <<>>,
                ![q] = SubSeq(@, 1, k) \o <<Msg("peer-left", 0)>>
                           \o SubSeq(@, k + 1, Len(@))]
    BY <1>2 DEF unregister
  <2>2. Msg("peer-left", 0) \in Message
    BY MsgFacts
  <2>3. p # q
    BY DEF other, Pages
  <2>4. SubSeq(inbox[q], 1, k) \in Seq(Message)
    BY <1>1, SubSeqProperties
  <2>5. SubSeq(inbox[q], k + 1, Len(inbox[q])) \in Seq(Message)
    BY <1>1, SubSeqProperties
  <2>6. <<Msg("peer-left", 0)>> \in Seq(Message)
    BY <2>2
  <2>7. SubSeq(inbox[q], 1, k) \o <<Msg("peer-left", 0)>>
            \o SubSeq(inbox[q], k + 1, Len(inbox[q])) \in Seq(Message)
    BY <2>4, <2>5, <2>6, ConcatProperties
  <2>8. <<>> \in Seq(Message)
    OBVIOUS
  <2>9. inbox' \in [Pages -> Seq(Message)]
    BY <1>1, <2>1, <2>3, <2>7, <2>8 DEF MailType
  <2> QED  BY <2>9 DEF unregister, RestType
<1>3. CASE ~online[q]
  <2>1. <<>> \in Seq(Message)
    OBVIOUS
  <2> QED  BY <1>1, <1>3, <2>1 DEF unregister, MailType, RestType
<1> QED  BY <1>2, <1>3

-----------------------------------------------------------------------------
(* Types *)

LEMMA InitTypes == Init => TypeOK
<1> SUFFICES ASSUME Init PROVE TypeOK
  OBVIOUS
<1>1. <<>> \in Seq(Message)
  OBVIOUS
<1>2. MailType /\ CallType
  BY <1>1 DEF Init, MailType, CallType, Stages
<1>3. PcType
  BY DEF Init, PcType, States, None
<1>4. RestType
  BY PeerSessionAssumption DEF Init, RestType, Entries, NoEntry
<1> QED  BY <1>2, <1>3, <1>4, TypeParts

LEMMA JoinTypes == ASSUME TypeOK, NEW p \in Pages, join(p) PROVE TypeOK'
<1> USE TypeParts, TypePartsNext
<1> DEFINE q == other(p)
<1>1. q \in Pages /\ inbox[q] \in Seq(Message) /\ out[p] \in Seq(Message)
  BY PageFacts DEF MailType
<1>2. Msg("room-state", 0) \in Message /\ Msg("peer-joined", 0) \in Message
  BY MsgFacts
<1>3. Append(inbox[q], Msg("peer-joined", 0)) \o out[p] \in Seq(Message)
  BY <1>1, <1>2, ConcatProperties
<1>4. <<Msg("room-state", 0)>> \in Seq(Message) /\ <<>> \in Seq(Message)
  BY <1>2
<1>5. inbox' \in [Pages -> Seq(Message)]
  BY <1>1, <1>3, <1>4 DEF join, MailType
<1>6. out' \in [Pages -> Seq(Message)] /\ pending' = pending
  BY <1>4 DEF join, MailType
<1>7. CallType' /\ PcType' /\ RestType'
  BY DEF join, callVars, pcVars, keyVars, CallType, PcType, RestType
<1> QED  BY <1>5, <1>6, <1>7 DEF MailType

LEMMA OnPeerThereTypes == ASSUME TypeOK, NEW p \in Pages, onPeerThere(p) PROVE TypeOK'
<1> USE TypeParts, TypePartsNext
<1>1. inbox' \in [Pages -> Seq(Message)]
  BY TakenTypes DEF onPeerThere, receive
<1>2. MailType' /\ PcType'
  BY <1>1 DEF onPeerThere, pcVars, MailType, PcType
<1>3. CallType' /\ entry' \in [Pages -> Entries]
  <2>1. CASE hasPeer(p)
    BY <2>1 DEF onPeerThere, callVars, CallType, RestType
  <2>2. CASE ~hasPeer(p)
    BY <2>2, BeginFacts DEF onPeerThere
  <2> QED  BY <2>1, <2>2
<1>4. RestType'
  BY <1>3 DEF onPeerThere, receive, keyVars, RestType
<1> QED  BY <1>2, <1>3, <1>4

LEMMA OnPeerLeftTypes == ASSUME TypeOK, NEW p \in Pages, onPeerLeft(p) PROVE TypeOK'
<1> USE TypeParts, TypePartsNext
<1>1. inbox' \in [Pages -> Seq(Message)] /\ <<>> \in Seq(Message)
  BY TakenTypes DEF onPeerLeft, receive
<1>2. MailType' /\ CallType'
  BY <1>1 DEF onPeerLeft, callVars, MailType, CallType
<1>3. PcType'
  <2>1. CASE entry[p].pcm # None
    <3>1. entry[p].pcm \in Calls /\ "closed" \in States
      BY <2>1 DEF RestType, Entries, States
    <3> QED  BY <2>1, <3>1, EndConnectionTypes DEF onPeerLeft
  <2>2. CASE entry[p].pcm = None
    BY <2>2 DEF onPeerLeft, pcVars, PcType
  <2> QED  BY <2>1, <2>2
<1>4. RestType'
  BY DEF onPeerLeft, receive, removePeer, NoEntry, keyVars, RestType, Entries
<1> QED  BY <1>2, <1>3, <1>4

LEMMA OnOfferTypes == ASSUME TypeOK, NEW p \in Pages, onOffer(p) PROVE TypeOK'
<1> USE TypeParts, TypePartsNext
<1>1. Head(inbox[p]) \in Message /\ Taken(p) \in [Pages -> Seq(Message)]
  BY TakenTypes DEF onOffer, receive
<1>2. UNCHANGED <<online, opens, faults>>
  BY DEF onOffer, receive
<1>3. CASE hasPeer(p)
  <2>1. /\ queueOrExecute(Taken(p), p, Head(inbox[p]))
        /\ UNCHANGED <<entry, callVars>>
    BY <1>3 DEF onOffer
  <2> QED  BY <1>1, <1>2, <2>1, QueueOrExecuteFacts DEF callVars, CallType, RestType
<1>4. CASE ~hasPeer(p)
  <2>1. beginSetup(p, Head(inbox[p])) /\ inbox' = Taken(p)
    BY <1>4 DEF onOffer
  <2>2. CallType' /\ entry' \in [Pages -> Entries]
    BY <1>1, <2>1, BeginFacts
  <2>3. UNCHANGED <<out, pending, pcVars, keyVars>>
    BY <1>4 DEF onOffer
  <2>4. MailType' /\ PcType' /\ RestType'
    BY <1>1, <1>2, <2>1, <2>2, <2>3 DEF pcVars, keyVars, MailType, PcType, RestType
  <2> QED  BY <2>2, <2>4
<1> QED  BY <1>3, <1>4

LEMMA OnSignalTypes == ASSUME TypeOK, NEW p \in Pages, onSignal(p) PROVE TypeOK'
<1> USE TypeParts, TypePartsNext
<1>1. Head(inbox[p]) \in Message /\ Taken(p) \in [Pages -> Seq(Message)]
  BY TakenTypes DEF onSignal, receive
<1>2. /\ queueOrExecute(Taken(p), p, Head(inbox[p]))
      /\ UNCHANGED <<entry, callVars, online, opens, faults>>
  BY DEF onSignal, receive
<1> QED  BY <1>1, <1>2, QueueOrExecuteFacts DEF callVars, CallType, RestType

LEMMA TurnDoneTypes ==
    ASSUME TypeOK, NEW p \in Pages, NEW i \in Calls, turnDone(p, i) PROVE TypeOK'
<1> USE TypeParts, TypePartsNext
<1>1. MailType' /\ CallType'
  BY DEF turnDone, sendVars, MailType, CallType, Stages
<1>2. PcType'
  BY DEF turnDone, PcType, States
<1>3. RestType'
  BY DEF turnDone, keyVars, RestType, Entries
<1> QED  BY <1>1, <1>2, <1>3

LEMMA OfferDoneTypes ==
    ASSUME TypeOK, NEW p \in Pages, NEW i \in Calls, offerDone(p, i) PROVE TypeOK'
<1> USE TypeParts, TypePartsNext
<1>1. RestType' /\ UNCHANGED <<pending, flush, mate, opened>>
  BY DEF offerDone, keyVars, RestType
<1>2. CASE pc[p][i] = "closed"
  <2>1. /\ stage' = [stage EXCEPT ![p][i] = "done"]
        /\ after' = [after EXCEPT ![p][i] = NoMsg]
        /\ UNCHANGED <<out, inbox, pc>>
    BY <1>2 DEF offerDone, endCall, sendVars
  <2>2. CallType'
    BY <1>1, <2>1 DEF CallType, Stages
  <2> QED  BY <1>1, <2>1, <2>2 DEF MailType, PcType
<1>3. CASE pc[p][i] # "closed"
  <2>1. Msg("offer", i) \in Message
    BY MsgFacts DEF Calls
  <2>2. MailType'
    BY <1>1, <1>3, <2>1, SendTypes DEF offerDone, send, MailType
  <2>3. /\ stage' = [stage EXCEPT ![p][i] = "keys"] /\ after' = after
        /\ pc' = [pc EXCEPT ![p][i] = "offered"]
    BY <1>3 DEF offerDone
  <2>4. CallType'
    BY <1>1, <2>3 DEF CallType, Stages
  <2>5. PcType'
    BY <1>1, <2>3 DEF PcType, States
  <2> QED  BY <1>1, <2>2, <2>4, <2>5
<1> QED  BY <1>2, <1>3

LEMMA KeysDoneTypes ==
    ASSUME TypeOK, NEW p \in Pages, NEW i \in Calls, keysDone(p, i) PROVE TypeOK'
<1> USE TypeParts, TypePartsNext
<1>1. Msg("key", session[p]) \in Message
  BY MsgFacts DEF RestType
<1>2. <<>> \in Seq(Message) /\ pending[p] \in Seq(Message)
  BY DEF MailType
<1>3. MailType'
  <2>1. inbox' \in [Pages -> Seq(Message)] /\ out' \in [Pages -> Seq(Message)]
    BY <1>1, SendTypes DEF keysDone, send, MailType
  <2> QED  BY <1>2, <2>1 DEF keysDone, MailType
<1>4. CallType'
  BY <1>2 DEF keysDone, takeQueue, CallType, Stages
<1>5. PcType' /\ RestType'
  BY DEF keysDone, pcVars, keyVars, PcType, RestType
<1> QED  BY <1>3, <1>4, <1>5

LEMMA FlushStepTypes ==
    ASSUME TypeOK, NEW p \in Pages, NEW i \in Calls, flushStep(p, i) PROVE TypeOK'
<1> USE TypeParts, TypePartsNext
<1>1. flush[p][i] \in Seq(Message) /\ flush[p][i] # <<>>
  BY DEF flushStep, CallType
<1>2. Head(flush[p][i]) \in Message /\ Tail(flush[p][i]) \in Seq(Message)
  BY <1>1, QueueFacts
<1>3. /\ execute(inbox, p, Head(flush[p][i])) /\ inbox \in [Pages -> Seq(Message)]
      /\ UNCHANGED <<online, entry, pending, stage, after, opens, faults>>
  BY DEF flushStep, MailType
<1>4. MailType' /\ PcType' /\ RestType'
  BY <1>2, <1>3, ExecuteFacts DEF MailType, RestType
<1>5. CallType'
  BY <1>2, <1>3 DEF flushStep, CallType
<1> QED  BY <1>4, <1>5

LEMMA SetupDoneTypes ==
    ASSUME TypeOK, NEW p \in Pages, NEW i \in Calls, setupDone(p, i) PROVE TypeOK'
<1> USE TypeParts, TypePartsNext
<1>1. CallType'
  BY DEF setupDone, endCall, CallType, Stages
<1>2. UNCHANGED <<online, entry, opens, faults>>
  BY DEF setupDone
<1>3. CASE after[p][i] = NoMsg
  BY <1>1, <1>2, <1>3
     DEF setupDone, sendVars, pcVars, keyVars, MailType, PcType, RestType
<1>4. CASE after[p][i] # NoMsg
  <2>1. after[p][i] \in Message /\ inbox \in [Pages -> Seq(Message)]
    BY <1>4 DEF CallType, MailType
  <2>2. queueOrExecute(inbox, p, after[p][i])
    BY <1>4 DEF setupDone
  <2> QED  BY <1>1, <1>2, <2>1, <2>2, QueueOrExecuteFacts DEF RestType
<1> QED  BY <1>3, <1>4

LEMMA ChannelOpenTypes ==
    ASSUME TypeOK, NEW p \in Pages, NEW i \in Calls, channelOpen(p, i) PROVE TypeOK'
<1> USE TypeParts, TypePartsNext
<1>1. Msg("key", session[p]) \in Message /\ other(p) \in Pages
  BY MsgFacts, PageFacts DEF RestType
<1>2. CallType' /\ PcType'
  BY DEF channelOpen, callVars, CallType, PcType
<1>3. opens' \in 0..MaxOpens /\ UNCHANGED <<online, entry, pending, session, faults>>
  BY PeerSessionAssumption DEF channelOpen, RestType
<1>4. MailType' /\ deriving' \in [Pages -> SUBSET Nat]
  <2>1. CASE entry[p].here /\ entry[p].key = -1
    <3>1. send(p, Msg("key", session[p]))
      BY <2>1 DEF channelOpen
    <3>2. MailType'
      BY <1>1, <1>3, <3>1, SendTypes DEF send, MailType
    <3>3. deriving' \in {deriving, completeKeyExchange(other(p), session[p])}
      BY <2>1 DEF channelOpen
    <3>4. completeKeyExchange(other(p), session[p]) \in [Pages -> SUBSET Nat]
      BY <1>1 DEF completeKeyExchange, RestType
    <3> QED  BY <3>2, <3>3, <3>4 DEF RestType
  <2>2. CASE ~(entry[p].here /\ entry[p].key = -1)
    BY <1>3, <2>2 DEF channelOpen, sendVars, MailType, RestType
  <2> QED  BY <2>1, <2>2
<1> QED  BY <1>2, <1>3, <1>4 DEF RestType

LEMMA FinalizeTypes ==
    ASSUME TypeOK, NEW p \in Pages, NEW s \in deriving[p], finalizeKeyExchange(p, s)
    PROVE  TypeOK'
<1> USE TypeParts, TypePartsNext
<1>1. s \in Nat
  BY DEF RestType
<1>2. RestType'
  BY <1>1, ZenonT(60) DEF finalizeKeyExchange, RestType, Entries
<1>3. MailType' /\ CallType' /\ PcType'
  BY DEF finalizeKeyExchange, sendVars, callVars, pcVars, MailType, CallType, PcType
<1> QED  BY <1>2, <1>3

LEMMA PcDisconnectedTypes ==
    ASSUME TypeOK, NEW p \in Pages, NEW i \in Calls, pcDisconnected(p, i) PROVE TypeOK'
<1> USE TypeParts, TypePartsNext
<1>1. "lost" \in States /\ <<>> \in Seq(Message)
  BY DEF States
<1>2. PcType'
  BY <1>1, EndConnectionTypes DEF pcDisconnected
<1>3. MailType' /\ CallType'
  BY <1>1, ZenonT(60) DEF pcDisconnected, dropPeer, sendVars, callVars, MailType, CallType
<1>4. faults' \in 0..MaxFaults
  BY PeerSessionAssumption DEF pcDisconnected, RestType
<1>5. entry' \in [Pages -> Entries]
  <2>1. NoEntry \in Entries
    BY DEF NoEntry, Entries
  <2>2. entry' = entry \/ entry' = [entry EXCEPT ![p] = NoEntry]
    BY DEF pcDisconnected, dropPeer
  <2> QED  BY <2>1, <2>2 DEF RestType
<1>6. RestType'
  BY <1>4, <1>5 DEF pcDisconnected, keyVars, RestType
<1> QED  BY <1>2, <1>3, <1>6

LEMMA PcFailedTypes ==
    ASSUME TypeOK, NEW p \in Pages, NEW i \in Calls, pcFailed(p, i) PROVE TypeOK'
<1> USE TypeParts, TypePartsNext
<1>1. "failed" \in States /\ <<>> \in Seq(Message)
  BY DEF States
<1>2. PcType'
  BY <1>1, EndConnectionTypes DEF pcFailed
<1>3. MailType' /\ CallType' /\ RestType'
  BY <1>1 DEF pcFailed, sendVars, callVars, keyVars, MailType, CallType, RestType
<1> QED  BY <1>2, <1>3

LEMMA DropTypes == ASSUME TypeOK, NEW p \in Pages, drop(p) PROVE TypeOK'
<1> USE TypeParts, TypePartsNext
<1>1. online' \in [Pages -> BOOLEAN] /\ inbox' \in [Pages -> Seq(Message)]
  BY UnregisterFacts DEF drop
<1>2. MailType' /\ CallType' /\ PcType'
  BY <1>1 DEF drop, callVars, pcVars, MailType, CallType, PcType
<1>3. RestType'
  BY <1>1, PeerSessionAssumption DEF drop, keyVars, RestType
<1> QED  BY <1>2, <1>3

LEMMA ReloadTypes == ASSUME TypeOK, NEW p \in Pages, reload(p) PROVE TypeOK'
<1> USE TypeParts, TypePartsNext
<1>1. online' \in [Pages -> BOOLEAN] /\ inbox' \in [Pages -> Seq(Message)]
  BY UnregisterFacts DEF reload
<1>2. <<>> \in Seq(Message)
  OBVIOUS
<1>3. MailType'
  BY <1>1, <1>2 DEF reload, MailType
<1>4. CallType'
  BY <1>2 DEF reload, CallType, Stages
<1>5. PcType'
  BY DEF reload, PcType, States, None
<1>6. RestType'
  BY <1>1, PeerSessionAssumption DEF reload, NoEntry, RestType, Entries
<1> QED  BY <1>3, <1>4, <1>5, <1>6

LEMMA StepTypes == TypeOK /\ [Next]_vars => TypeOK'
<1> SUFFICES ASSUME TypeOK, [Next]_vars PROVE TypeOK'
  OBVIOUS
<1>1. CASE Next
  <2>1. PICK p \in Pages : join(p) \/ pageStep(p) \/ drop(p) \/ reload(p)
    BY <1>1 DEF Next
  <2>2. CASE pageStep(p)
    <3>1. CASE onPeerThere(p) \/ onPeerLeft(p) \/ onOffer(p) \/ onSignal(p)
      BY <3>1, OnPeerThereTypes, OnPeerLeftTypes, OnOfferTypes, OnSignalTypes
    <3>2. ASSUME NEW i \in Calls,
                 \/ turnDone(p, i) \/ offerDone(p, i) \/ keysDone(p, i)
                 \/ flushStep(p, i) \/ setupDone(p, i)
          PROVE  TypeOK'
      BY <3>2, TurnDoneTypes, OfferDoneTypes, KeysDoneTypes, FlushStepTypes,
         SetupDoneTypes
    <3>3. ASSUME NEW i \in Calls,
                 channelOpen(p, i) \/ pcDisconnected(p, i) \/ pcFailed(p, i)
          PROVE  TypeOK'
      BY <3>3, ChannelOpenTypes, PcDisconnectedTypes, PcFailedTypes
    <3>4. ASSUME NEW s \in deriving[p], finalizeKeyExchange(p, s)
          PROVE  TypeOK'
      BY <3>4, FinalizeTypes
    <3> QED  BY <2>2, <3>1, <3>2, <3>3, <3>4 DEF pageStep
  <2> QED  BY <2>1, <2>2, JoinTypes, DropTypes, ReloadTypes
<1>2. CASE UNCHANGED vars
  BY <1>2 DEF vars, TypeOK
<1> QED  BY <1>1, <1>2

\* Every variable of the two pages keeps its type.
THEOREM TypeCorrect == Spec => []TypeOK
<1>1. Init => TypeOK
  BY InitTypes
<1>2. TypeOK /\ [Next]_vars => TypeOK'
  BY StepTypes
<1> QED  BY <1>1, <1>2, PTL DEF Spec

-----------------------------------------------------------------------------
(* Installed connections *)

LEMMA InitUsable == Init => InstalledIsUsable
  BY DEF Init, NoEntry, InstalledIsUsable

\* What a page does to its connections when it receives something.
LEMMA ReceiveUsable ==
    ASSUME TypeOK, InstalledIsUsable, NEW p \in Pages,
           onPeerThere(p) \/ onPeerLeft(p) \/ onOffer(p) \/ onSignal(p)
    PROVE  InstalledIsUsable'
<1>1. CASE onPeerThere(p)
  <2>1. UNCHANGED pcVars /\ (UNCHANGED entry \/ beginSetup(p, NoMsg))
    BY <1>1 DEF onPeerThere
  <2> QED  BY <2>1, BeginFacts DEF pcVars, InstalledIsUsable
<1>2. CASE onPeerLeft(p)
  <2>1. entry' = [entry EXCEPT ![p] = NoEntry]
    BY <1>2 DEF onPeerLeft, removePeer
  <2>2. \A q \in Pages \ {p} : pc'[q] = pc[q]
    BY <1>2 DEF onPeerLeft, endConnection, pcVars, TypeOK
  <2> QED  BY <2>1, <2>2 DEF NoEntry, InstalledIsUsable, TypeOK
<1>3. CASE onOffer(p) \/ onSignal(p)
  <2>1. Head(inbox[p]) \in Message /\ Taken(p) \in [Pages -> Seq(Message)]
    BY <1>3, TakenTypes, TypeParts DEF onOffer, onSignal, receive
  <2>2. CASE queueOrExecute(Taken(p), p, Head(inbox[p])) /\ UNCHANGED entry
    <3>1. \A q \in Pages, i \in Calls : pc'[q][i] = "closed" => pc[q][i] = "closed"
      BY <2>1, <2>2, QueueOrExecuteFacts
    <3>2. \A q \in Pages : entry[q].pcm \in Calls \union {None}
      BY DEF TypeOK
    <3> QED  BY <2>2, <3>1, <3>2 DEF InstalledIsUsable
  <2>3. CASE beginSetup(p, Head(inbox[p])) /\ UNCHANGED pcVars
    BY <2>1, <2>3, BeginFacts DEF pcVars, InstalledIsUsable
  <2> QED  BY <1>3, <2>2, <2>3 DEF onOffer, onSignal
<1> QED  BY <1>1, <1>2, <1>3

\* What a setup call does to them after each of its awaits.
LEMMA CallUsable ==
    ASSUME TypeOK, InstalledIsUsable, NEW p \in Pages, NEW i \in Calls,
           \/ turnDone(p, i) \/ offerDone(p, i) \/ keysDone(p, i)
           \/ flushStep(p, i) \/ setupDone(p, i)
    PROVE  InstalledIsUsable'
<1> USE DEF InstalledIsUsable
<1>0. \A q \in Pages : entry[q].pcm \in Calls \union {None}
  BY DEF TypeOK
<1>1. CASE turnDone(p, i)
  BY <1>1 DEF turnDone, TypeOK
<1>2. CASE offerDone(p, i)
  <2>1. entry' = entry /\ (pc' = pc \/ pc' = [pc EXCEPT ![p][i] = "offered"])
    BY <1>2 DEF offerDone
  <2>2. \A q \in Pages, j \in Calls : pc'[q][j] = "closed" => pc[q][j] = "closed"
    <3>1. pc \in [Pages -> [Calls -> States]]
      BY DEF TypeOK, States
    <3>2. CASE pc' = [pc EXCEPT ![p][i] = "offered"]
      BY <3>1, <3>2
    <3> QED  BY <2>1, <3>2
  <2> QED  BY <1>0, <2>1, <2>2
<1>3. CASE keysDone(p, i)
  BY <1>3 DEF keysDone, pcVars
<1>4. CASE flushStep(p, i)
  <2>1. Head(flush[p][i]) \in Message /\ inbox \in [Pages -> Seq(Message)]
    <3>1. flush[p][i] \in Seq(Message) /\ flush[p][i] # <<>>
      BY <1>4 DEF flushStep, TypeOK
    <3> QED  BY <3>1, QueueFacts DEF TypeOK
  <2>2. execute(inbox, p, Head(flush[p][i])) /\ UNCHANGED entry
    BY <1>4 DEF flushStep
  <2>3. \A q \in Pages, j \in Calls : pc'[q][j] = "closed" => pc[q][j] = "closed"
    BY <2>1, <2>2, ExecuteFacts
  <2> QED  BY <1>0, <2>2, <2>3
<1>5. CASE setupDone(p, i)
  <2>1. UNCHANGED entry
    BY <1>5 DEF setupDone
  <2>2. \A q \in Pages, j \in Calls : pc'[q][j] = "closed" => pc[q][j] = "closed"
    <3>1. CASE after[p][i] = NoMsg
      BY <1>5, <3>1 DEF setupDone, pcVars
    <3>2. CASE after[p][i] # NoMsg
      <4>1. after[p][i] \in Message /\ inbox \in [Pages -> Seq(Message)]
        BY <3>2 DEF TypeOK
      <4>2. queueOrExecute(inbox, p, after[p][i])
        BY <1>5, <3>2 DEF setupDone
      <4> QED  BY <4>1, <4>2, QueueOrExecuteFacts
    <3> QED  BY <3>1, <3>2
  <2> QED  BY <1>0, <2>1, <2>2
<1> QED  BY <1>1, <1>2, <1>3, <1>4, <1>5

LEMMA ConnectionUsable ==
    ASSUME TypeOK, InstalledIsUsable, NEW p \in Pages, NEW i \in Calls,
           channelOpen(p, i) \/ pcDisconnected(p, i) \/ pcFailed(p, i)
    PROVE  InstalledIsUsable'
<1> USE DEF InstalledIsUsable
<1>0. \A q \in Pages : entry[q].pcm \in Calls \union {None}
  BY DEF TypeOK
<1>1. CASE channelOpen(p, i)
  BY <1>1 DEF channelOpen
<1>2. CASE pcDisconnected(p, i) \/ pcFailed(p, i)
  <2>1. \E how \in {"lost", "failed"} : pc' = [pc EXCEPT ![p][i] = how]
    BY <1>2 DEF pcDisconnected, pcFailed, endConnection
  <2>2. entry' = entry \/ entry' = [entry EXCEPT ![p] = NoEntry]
    BY <1>2 DEF pcDisconnected, pcFailed, dropPeer
  <2>3. \A q \in Pages : entry'[q] \in {entry[q], NoEntry}
    BY <2>2 DEF TypeOK
  <2>4. \A q \in Pages, j \in Calls : pc'[q][j] = "closed" => pc[q][j] = "closed"
    BY <2>1 DEF TypeOK
  <2> QED  BY <1>0, <2>3, <2>4 DEF NoEntry
<1> QED  BY <1>1, <1>2

\* The end of a key exchange leaves everybody's connection installed.
LEMMA FinalizeFacts ==
    ASSUME TypeOK, NEW p \in Pages, NEW s \in deriving[p], finalizeKeyExchange(p, s)
    PROVE  \A q \in Pages : entry'[q].pcm = entry[q].pcm /\ entry'[q].here = entry[q].here
<1>1. \A q \in Pages : entry[q] \in Entries
  BY DEF TypeOK, Entries
<1>2. CASE entry[p].here
  <2>1. \A q \in Pages \ {p} : entry'[q] = entry[q]
    BY <1>2 DEF finalizeKeyExchange, TypeOK
  <2>2. \E c \in Calls \union {None} :
            entry'[p] = [[entry[p] EXCEPT !.key = s] EXCEPT !.coord = c]
    BY <1>2 DEF finalizeKeyExchange, TypeOK
  <2>3. entry'[p].pcm = entry[p].pcm /\ entry'[p].here = entry[p].here
    BY <1>1, <2>2 DEF Entries
  <2> QED  BY <2>1, <2>3
<1>3. CASE ~entry[p].here
  BY <1>3 DEF finalizeKeyExchange
<1> QED  BY <1>2, <1>3

LEMMA OtherUsable ==
    ASSUME TypeOK, InstalledIsUsable, NEW p \in Pages,
           \/ join(p) \/ drop(p) \/ reload(p)
           \/ \E s \in deriving[p] : finalizeKeyExchange(p, s)
    PROVE  InstalledIsUsable'
<1> USE DEF InstalledIsUsable
<1>1. CASE join(p) \/ drop(p)
  BY <1>1 DEF join, drop, pcVars
<1>2. CASE reload(p)
  <2>1. \A q \in Pages \ {p} : entry'[q] = entry[q] /\ pc'[q] = pc[q]
    BY <1>2 DEF reload, TypeOK
  <2>2. entry'[p].pcm = None
    BY <1>2 DEF reload, NoEntry, TypeOK
  <2> QED  BY <2>1, <2>2
<1>3. ASSUME NEW s \in deriving[p], finalizeKeyExchange(p, s) PROVE InstalledIsUsable'
  <2>1. \A q \in Pages : entry'[q].pcm = entry[q].pcm
    BY <1>3, FinalizeFacts
  <2> QED  BY <1>3, <2>1 DEF finalizeKeyExchange, pcVars
<1> QED  BY <1>1, <1>2, <1>3

LEMMA StepUsable == TypeOK /\ InstalledIsUsable /\ [Next]_vars => InstalledIsUsable'
<1> SUFFICES ASSUME TypeOK, InstalledIsUsable, [Next]_vars PROVE InstalledIsUsable'
  OBVIOUS
<1>1. CASE Next
  <2>1. PICK p \in Pages : join(p) \/ pageStep(p) \/ drop(p) \/ reload(p)
    BY <1>1 DEF Next
  <2>2. CASE pageStep(p)
    BY <2>2, ReceiveUsable, CallUsable, ConnectionUsable, OtherUsable DEF pageStep
  <2> QED  BY <2>1, <2>2, OtherUsable
<1>2. CASE UNCHANGED vars
  BY <1>2 DEF vars, InstalledIsUsable
<1> QED  BY <1>1, <1>2

\* The connection a page has installed for its peer has never been closed,
\* whichever of several calls installed it and whatever left meanwhile.
THEOREM InstalledNeverClosed == Spec => []InstalledIsUsable
<1>1. Init => TypeOK /\ InstalledIsUsable
  BY InitTypes, InitUsable
<1>2. TypeOK /\ InstalledIsUsable /\ [Next]_vars => TypeOK' /\ InstalledIsUsable'
  BY StepTypes, StepUsable
<1> QED  BY <1>1, <1>2, PTL DEF Spec

-----------------------------------------------------------------------------
(* The queue of early messages *)

LEMMA InitQueue == Init => QueueInv
  BY DEF Init, NoEntry, QueueInv, PlaceInv, FlushInv

\* A step of page p that leaves the other's entry, queue, calls and connections
\* alone keeps QueueInv if it keeps p's part.
LEMMA OnePage ==
    ASSUME QueueInv, NEW p \in Pages,
           \A q \in Pages \ {p} : /\ entry'[q] = entry[q] /\ pending'[q] = pending[q]
                                  /\ stage'[q] = stage[q] /\ pc'[q] = pc[q],
           entry'[p].here /\ entry'[p].pcm = None => \E i \in Calls : stage'[p][i] = "turn",
           entry'[p].here /\ pending'[p] # <<>> => \E i \in Calls : WillFlush(p, i)'
    PROVE  QueueInv'
  BY DEF QueueInv, PlaceInv, FlushInv, WillFlush

\* A message is handled or queued while every call stays where it is.
LEMMA HandledQueue ==
    ASSUME TypeOK, QueueInv, UNCHANGED entry,
           \A q \in Pages, j \in Calls : stage[q][j] \in {"turn", "offer", "keys"}
                                         => stage'[q][j] = stage[q][j],
           \A q \in Pages, j \in Calls : pc'[q][j] = "closed" => pc[q][j] = "closed",
           \A q \in Pages : pending'[q] = pending[q]
                            \/ ~entry[q].here \/ entry[q].pcm = None
    PROVE  QueueInv'
<1>1. PlaceInv'
  BY DEF QueueInv, PlaceInv
<1>2. ASSUME NEW q \in Pages, entry'[q].here, pending'[q] # <<>>
      PROVE  \E j \in Calls : WillFlush(q, j)'
  <2>1. CASE pending'[q] = pending[q]
    BY <1>2, <2>1 DEF QueueInv, FlushInv, WillFlush
  <2>2. CASE entry[q].pcm = None
    BY <1>2, <2>2 DEF QueueInv, PlaceInv, WillFlush
  <2> QED  BY <1>2, <2>1, <2>2
<1> QED  BY <1>1, <1>2 DEF QueueInv, FlushInv

LEMMA ReceiveQueue ==
    ASSUME TypeOK, QueueInv, NEW p \in Pages,
           onPeerThere(p) \/ onPeerLeft(p) \/ onOffer(p) \/ onSignal(p)
    PROVE  QueueInv'
<1>1. ASSUME NEW m \in Message \union {NoMsg}, beginSetup(p, m),
             UNCHANGED <<pending, pcVars>>
      PROVE  QueueInv'
  <2>1. \E i \in Calls : stage'[p][i] = "turn"
    BY <1>1, BeginFacts
  <2>2. \A q \in Pages \ {p} : entry'[q] = entry[q] /\ stage'[q] = stage[q]
    BY <1>1, BeginFacts
  <2> QED  BY <1>1, <2>1, <2>2, OnePage DEF WillFlush, pcVars
<1>2. ASSUME NEW m \in Message, queueOrExecute(Taken(p), p, m),
             Taken(p) \in [Pages -> Seq(Message)], UNCHANGED <<entry, callVars>>
      PROVE  QueueInv'
  BY <1>2, QueueOrExecuteFacts, HandledQueue DEF callVars
<1>3. CASE onPeerThere(p)
  <2>1. CASE hasPeer(p)
    BY <1>3, <2>1 DEF onPeerThere, callVars, pcVars, QueueInv, PlaceInv, FlushInv, WillFlush
  <2>2. CASE ~hasPeer(p)
    BY <1>1, <1>3, <2>2 DEF onPeerThere
  <2> QED  BY <2>1, <2>2
<1>4. CASE onPeerLeft(p)
  <2>1. ~entry'[p].here
    BY <1>4 DEF onPeerLeft, removePeer, NoEntry, TypeOK
  <2>2. \A q \in Pages \ {p} : /\ entry'[q] = entry[q] /\ pending'[q] = pending[q]
                               /\ stage'[q] = stage[q] /\ pc'[q] = pc[q]
    BY <1>4 DEF onPeerLeft, removePeer, endConnection, callVars, pcVars, TypeOK
  <2> QED  BY <2>1, <2>2, OnePage
<1>5. CASE onOffer(p) \/ onSignal(p)
  <2>1. Head(inbox[p]) \in Message /\ Taken(p) \in [Pages -> Seq(Message)]
    BY <1>5, TakenTypes, TypeParts DEF onOffer, onSignal, receive
  <2> QED  BY <1>1, <1>2, <1>5, <2>1 DEF onOffer, onSignal
<1> QED  BY <1>3, <1>4, <1>5

LEMMA CallQueue ==
    ASSUME TypeOK, QueueInv, NEW p \in Pages, NEW i \in Calls,
           \/ turnDone(p, i) \/ offerDone(p, i) \/ keysDone(p, i)
           \/ flushStep(p, i) \/ setupDone(p, i)
    PROVE  QueueInv'
<1>1. CASE turnDone(p, i)
  <2>1. \A q \in Pages \ {p} : /\ entry'[q] = entry[q] /\ pending'[q] = pending[q]
                               /\ stage'[q] = stage[q] /\ pc'[q] = pc[q]
    BY <1>1 DEF turnDone, TypeOK
  <2>2. entry'[p].here => entry'[p].pcm = i /\ i # None
    BY <1>1 DEF turnDone, TypeOK, Calls, None
  <2>3. WillFlush(p, i)'
    BY <1>1 DEF turnDone, WillFlush, TypeOK
  <2> QED  BY <2>1, <2>2, <2>3, OnePage
<1>2. CASE offerDone(p, i)
  <2>1. UNCHANGED <<entry, pending>> /\ stage[p][i] = "offer"
    BY <1>2 DEF offerDone
  <2>2. CASE pc[p][i] = "closed"
    <3>1. pc' = pc /\ stage' = [stage EXCEPT ![p][i] = "done"]
      BY <1>2, <2>2 DEF offerDone, endCall
    <3>2. \A q \in Pages, j \in Calls : WillFlush(q, j) => WillFlush(q, j)'
      BY <2>1, <2>2, <3>1 DEF WillFlush, TypeOK
    <3>3. \A q \in Pages, j \in Calls : stage[q][j] = "turn" => stage'[q][j] = "turn"
      BY <2>1, <3>1 DEF TypeOK
    <3> QED  BY <2>1, <3>2, <3>3 DEF QueueInv, PlaceInv, FlushInv
  <2>3. CASE pc[p][i] # "closed"
    <3>1. /\ stage' = [stage EXCEPT ![p][i] = "keys"]
          /\ pc' = [pc EXCEPT ![p][i] = "offered"]
      BY <1>2, <2>3 DEF offerDone
    <3> QED  BY <2>1, <3>1 DEF QueueInv, PlaceInv, FlushInv, WillFlush, TypeOK
  <2> QED  BY <2>2, <2>3
<1>3. CASE keysDone(p, i)
  <2>1. \A q \in Pages \ {p} : /\ entry'[q] = entry[q] /\ pending'[q] = pending[q]
                               /\ stage'[q] = stage[q] /\ pc'[q] = pc[q]
    BY <1>3 DEF keysDone, pcVars, TypeOK
  <2>2. pending'[p] = <<>> /\ entry'[p] = entry[p]
    BY <1>3 DEF keysDone, TypeOK
  <2>3. \A j \in Calls : stage[p][j] = "turn" => stage'[p][j] = "turn"
    BY <1>3 DEF keysDone, TypeOK
  <2> QED  BY <2>1, <2>2, <2>3, OnePage DEF QueueInv, PlaceInv
<1>4. CASE flushStep(p, i)
  <2>1. Head(flush[p][i]) \in Message /\ inbox \in [Pages -> Seq(Message)]
    <3>1. flush[p][i] \in Seq(Message) /\ flush[p][i] # <<>>
      BY <1>4 DEF flushStep, TypeOK
    <3> QED  BY <3>1, QueueFacts DEF TypeOK
  <2>2. execute(inbox, p, Head(flush[p][i])) /\ UNCHANGED <<entry, pending, stage>>
    BY <1>4 DEF flushStep
  <2>3. \A q \in Pages, j \in Calls : pc'[q][j] = "closed" => pc[q][j] = "closed"
    BY <2>1, <2>2, ExecuteFacts
  <2> QED  BY <2>2, <2>3, HandledQueue
<1>5. CASE setupDone(p, i)
  <2>1. UNCHANGED entry
    BY <1>5 DEF setupDone
  <2>2. \A q \in Pages, j \in Calls :
            stage[q][j] \in {"turn", "offer", "keys"} => stage'[q][j] = stage[q][j]
    BY <1>5 DEF setupDone, endCall, TypeOK
  <2>3. CASE after[p][i] = NoMsg
    BY <1>5, <2>1, <2>2, <2>3, HandledQueue DEF setupDone, pcVars
  <2>4. CASE after[p][i] # NoMsg
    <3>1. after[p][i] \in Message /\ inbox \in [Pages -> Seq(Message)]
      BY <2>4 DEF TypeOK
    <3>2. queueOrExecute(inbox, p, after[p][i])
      BY <1>5, <2>4 DEF setupDone
    <3> QED  BY <2>1, <2>2, <3>1, <3>2, QueueOrExecuteFacts, HandledQueue
  <2> QED  BY <2>3, <2>4
<1> QED  BY <1>1, <1>2, <1>3, <1>4, <1>5

LEMMA ConnectionQueue ==
    ASSUME TypeOK, QueueInv, NEW p \in Pages, NEW i \in Calls,
           channelOpen(p, i) \/ pcDisconnected(p, i) \/ pcFailed(p, i)
    PROVE  QueueInv'
<1>1. CASE channelOpen(p, i)
  BY <1>1 DEF channelOpen, callVars, QueueInv, PlaceInv, FlushInv, WillFlush
<1>2. CASE pcDisconnected(p, i) \/ pcFailed(p, i)
  <2>1. \E how \in {"lost", "failed"} : pc' = [pc EXCEPT ![p][i] = how]
    BY <1>2 DEF pcDisconnected, pcFailed, endConnection
  <2>2. \A q \in Pages, j \in Calls : pc'[q][j] = "closed" => pc[q][j] = "closed"
    BY <2>1 DEF TypeOK
  <2>3. \A q \in Pages \ {p} : /\ entry'[q] = entry[q] /\ pending'[q] = pending[q]
                               /\ stage'[q] = stage[q] /\ pc'[q] = pc[q]
    <3>1. \A q \in Pages \ {p} : pc'[q] = pc[q]
      BY <2>1 DEF TypeOK
    <3>2. \A q \in Pages \ {p} : entry'[q] = entry[q] /\ pending'[q] = pending[q]
      BY <1>2 DEF pcDisconnected, pcFailed, dropPeer, TypeOK
    <3> QED  BY <1>2, <3>1, <3>2 DEF pcDisconnected, pcFailed, callVars
  <2>4. entry'[p] = entry[p] \/ ~entry'[p].here
    BY <1>2 DEF pcDisconnected, pcFailed, dropPeer, NoEntry, TypeOK
  <2>5. entry'[p].here => pending'[p] = <<>> \/ pending'[p] = pending[p]
    BY <1>2 DEF pcDisconnected, pcFailed, dropPeer, NoEntry, TypeOK
  <2>6. stage' = stage
    BY <1>2 DEF pcDisconnected, pcFailed, callVars
  <2> QED  BY <2>2, <2>3, <2>4, <2>5, <2>6, OnePage
           DEF QueueInv, PlaceInv, FlushInv, WillFlush
<1> QED  BY <1>1, <1>2

LEMMA OtherQueue ==
    ASSUME TypeOK, QueueInv, NEW p \in Pages,
           \/ join(p) \/ drop(p) \/ reload(p)
           \/ \E s \in deriving[p] : finalizeKeyExchange(p, s)
    PROVE  QueueInv'
<1>1. CASE join(p) \/ drop(p)
  BY <1>1 DEF join, drop, callVars, pcVars, QueueInv, PlaceInv, FlushInv, WillFlush
<1>2. CASE reload(p)
  <2>1. \A q \in Pages \ {p} : /\ entry'[q] = entry[q] /\ pending'[q] = pending[q]
                               /\ stage'[q] = stage[q] /\ pc'[q] = pc[q]
    BY <1>2 DEF reload, TypeOK
  <2>2. ~entry'[p].here
    BY <1>2 DEF reload, NoEntry, TypeOK
  <2> QED  BY <2>1, <2>2, OnePage
<1>3. ASSUME NEW s \in deriving[p], finalizeKeyExchange(p, s) PROVE QueueInv'
  <2>1. \A q \in Pages : entry'[q].pcm = entry[q].pcm /\ entry'[q].here = entry[q].here
    BY <1>3, FinalizeFacts
  <2> QED  BY <1>3, <2>1, ZenonT(60)
           DEF finalizeKeyExchange, callVars, pcVars, QueueInv, PlaceInv, FlushInv, WillFlush
<1> QED  BY <1>1, <1>2, <1>3

LEMMA StepQueue == TypeOK /\ QueueInv /\ [Next]_vars => QueueInv'
<1> SUFFICES ASSUME TypeOK, QueueInv, [Next]_vars PROVE QueueInv'
  OBVIOUS
<1>1. CASE Next
  <2>1. PICK p \in Pages : join(p) \/ pageStep(p) \/ drop(p) \/ reload(p)
    BY <1>1 DEF Next
  <2>2. CASE pageStep(p)
    BY <2>2, ReceiveQueue, CallQueue, ConnectionQueue, OtherQueue DEF pageStep
  <2> QED  BY <2>1, <2>2, OtherQueue
<1>2. CASE UNCHANGED vars
  BY <1>2 DEF vars, QueueInv, PlaceInv, FlushInv, WillFlush
<1> QED  BY <1>1, <1>2

\* A message that came too early for its connection is flushed by some call,
\* although calls end early, placeholders are replaced and entries go.
THEOREM EarlyMessagesAreFlushed == Spec => []QueueHasFlusher
<1>1. Init => TypeOK /\ QueueInv
  BY InitTypes, InitQueue
<1>2. TypeOK /\ QueueInv /\ [Next]_vars => TypeOK' /\ QueueInv'
  BY StepTypes, StepQueue
<1>3. QueueInv => QueueHasFlusher
  BY DEF QueueInv, FlushInv, WillFlush, QueueHasFlusher
<1> QED  BY <1>1, <1>2, <1>3, PTL DEF Spec

-----------------------------------------------------------------------------
(* A session without faults *)

Items(q) == {q[k] : k \in 1..Len(q)}

\* Where the one call of a page is, and what it has taken from the queue.
At(p) == IF 1 \in Calls THEN stage[p][1] ELSE "unused"
Flushing(p) == IF 1 \in Calls THEN flush[p][1] ELSE <<>>
Paired(p) == 1 \in Calls /\ pc[p][1] = "paired"

\* The description p waits for, and all that the other page sends it.
Description(p) == IF isInitiator(p) THEN Msg("answer", 1) ELSE Msg("offer", 1)
Key == Msg("key", 0)
Expected(p) == {Key, Description(p)}

\* What p has not handled yet.
Ahead(p) == Items(inbox[p]) \union Items(pending[p]) \union Items(Flushing(p))

\* There is one pair of keys, one call and one connection on each page.
SingleInv(p) ==
    /\ session[p] = 0 /\ out[p] = <<>> /\ deriving[p] \subseteq {0}
    /\ \A i \in Calls : after[p][i] = NoMsg
    /\ \A i \in Calls \ {1} : stage[p][i] = "unused" /\ pc[p][i] = "none"

\* The notice that the other is there comes first and starts the call.
NoticeInv(p) ==
    IF online["A"] /\ online["B"]
    THEN IF At(p) = "unused"
         THEN /\ inbox[p] # <<>> /\ Head(inbox[p]).type \in {"room-state", "peer-joined"}
              /\ Items(Tail(inbox[p])) \subseteq Expected(p)
         ELSE Items(inbox[p]) \subseteq Expected(p)
    ELSE inbox[p] = <<>> /\ At(p) = "unused"

WaitingInv(p) ==
    /\ Items(pending[p]) \subseteq Expected(p) /\ Items(Flushing(p)) \subseteq Expected(p)
    /\ pending[p] # <<>> => At(p) \in {"turn", "offer", "keys"}
    /\ Flushing(p) # <<>> => At(p) = "flush"

PeerInv(p) ==
    /\ entry[p].here <=> At(p) # "unused"
    /\ entry[p].pcm = IF At(p) \in {"unused", "turn"} THEN None ELSE 1
    /\ deriving[p] # {} => entry[p].pcm = 1
    /\ \/ entry[p].key = -1 /\ entry[p].coord = None
       \/ entry[p].key = 0 /\ entry[p].coord = 1 /\ entry[p].pcm = 1

ConnectionInv(p) ==
    /\ 1 \in Calls =>
          CASE At(p) \in {"unused", "turn"} -> pc[p][1] = "none"
            [] At(p) = "offer" -> isInitiator(p) /\ pc[p][1] = "new"
            [] OTHER -> pc[p][1] \in {"paired", IF isInitiator(p) THEN "offered" ELSE "new"}
    /\ Paired(p) => mate[p][1] = 1
    /\ 1 \in opened[p] => Paired(p) /\ Paired(other(p))

\* A has made its offer, and B has paired with it and answered.
Described(p) ==
    IF isInitiator(p) THEN Paired(other(p)) ELSE At(other(p)) \in {"keys", "flush", "done"}

DescriptionInv(p) == Described(p) <=> Description(p) \in Ahead(p) \/ Paired(p)

\* A page past its key packet has given the other one its key.
KeyInv(p) ==
    At(other(p)) \in {"flush", "done"} =>
        Key \in Ahead(p) \/ 0 \in deriving[p] \/ entry[p].key = 0

PageInv(p) ==
    /\ SingleInv(p) /\ NoticeInv(p) /\ WaitingInv(p) /\ PeerInv(p)
    /\ ConnectionInv(p) /\ DescriptionInv(p) /\ KeyInv(p)

CleanInv == faults = 0 => \A p \in Pages : PageInv(p)

LEMMA ItemsEmpty == Items(<<>>) = {}
  BY DEF Items

LEMMA ItemsAppend ==
    ASSUME NEW q \in Seq(Message), NEW m \in Message
    PROVE  Items(Append(q, m)) = Items(q) \union {m} /\ Append(q, m) # <<>>
<1>1. /\ Len(q) \in Nat /\ Len(Append(q, m)) = Len(q) + 1
      /\ \A k \in 1..Len(q) : Append(q, m)[k] = q[k]
      /\ Append(q, m)[Len(q) + 1] = m
  OBVIOUS
<1> QED  BY <1>1 DEF Items

LEMMA ItemsBehind ==
    ASSUME NEW q \in Seq(Message), NEW m \in Message, q # <<>>
    PROVE  /\ Head(Append(q, m)) = Head(q)
           /\ Items(Tail(Append(q, m))) = Items(Tail(q)) \union {m}
<1>1. Head(Append(q, m)) = Head(q)
  OBVIOUS
<1>2. Tail(q) \in Seq(Message) /\ Tail(Append(q, m)) = Append(Tail(q), m)
  OBVIOUS
<1> QED  BY <1>1, <1>2, ItemsAppend

LEMMA ItemsTail ==
    ASSUME NEW q \in Seq(Message), q # <<>>
    PROVE  Items(q) = {Head(q)} \union Items(Tail(q)) /\ Head(q) \in Message
<1>1. /\ Len(Tail(q)) = Len(q) - 1 /\ Len(q) \in Nat /\ Len(q) >= 1 /\ Head(q) = q[1]
      /\ \A k \in 1..(Len(q) - 1) : Tail(q)[k] = q[k + 1]
  OBVIOUS
<1>2. Items(q) \subseteq {Head(q)} \union Items(Tail(q))
  <2> SUFFICES ASSUME NEW k \in 1..Len(q), k # 1 PROVE q[k] \in Items(Tail(q))
    BY <1>1 DEF Items
  <2>1. k - 1 \in 1..Len(Tail(q)) /\ Tail(q)[k - 1] = q[k]
    BY <1>1
  <2> QED  BY <2>1 DEF Items
<1>3. {Head(q)} \union Items(Tail(q)) \subseteq Items(q)
  <2> SUFFICES ASSUME NEW k \in 1..Len(Tail(q)) PROVE Tail(q)[k] \in Items(q)
    BY <1>1 DEF Items
  <2>1. k + 1 \in 1..Len(q) /\ Tail(q)[k] = q[k + 1]
    BY <1>1
  <2> QED  BY <2>1 DEF Items
<1> QED  BY <1>1, <1>2, <1>3

\* The two pages, and the messages between them.
LEMMA PairFacts ==
    ASSUME NEW p \in Pages
    PROVE  /\ other(p) \in Pages /\ other(p) # p /\ other(other(p)) = p
           /\ \A q \in Pages : q = p \/ q = other(p)
           /\ isInitiator(other(p)) <=> ~isInitiator(p)
           /\ (online["A"] /\ online["B"]) <=> (online[p] /\ online[other(p)])
  BY DEF Pages, other, isInitiator

LEMMA ExpectedFacts ==
    ASSUME NEW p \in Pages, NEW m \in Expected(p)
    PROVE  /\ m \in Message /\ Key \in Message /\ Description(p) \in Message
           /\ m.type \notin {"room-state", "peer-joined", "peer-left"} /\ m # NoMsg
           /\ Key # Description(p) /\ Key.type = "key" /\ Key.ref = 0
           /\ Description(p).type = (IF isInitiator(p) THEN "answer" ELSE "offer")
           /\ Description(p).ref = 1
  BY MsgFacts DEF Expected, Description, Key, Msg, NoMsg, Message

LEMMA ExpectedType ==
    ASSUME NEW p \in Pages
    PROVE  Expected(p) \subseteq Message
  BY ExpectedFacts

\* The types SMT needs, page by page.
LEMMA PageTypes ==
    ASSUME TypeOK, NEW p \in Pages
    PROVE  /\ inbox[p] \in Seq(Message) /\ pending[p] \in Seq(Message)
           /\ Flushing(p) \in Seq(Message) /\ online[p] \in BOOLEAN
           /\ At(p) \in Stages /\ faults \in Nat
<1>1. <<>> \in Seq(Message)
  OBVIOUS
<1> QED  BY <1>1 DEF TypeOK, At, Flushing, Stages

\* A page that has a call sends to the other.
LEMMA SendFacts ==
    ASSUME TypeOK, NEW p \in Pages, PageInv(p), At(p) # "unused", NEW m \in Message,
           NEW box \in [Pages -> Seq(Message)], sendFrom(box, p, m)
    PROVE  /\ out' = out /\ inbox'[p] = box[p]
           /\ inbox'[other(p)] = Append(box[other(p)], m)
<1>1. online[p] /\ online[other(p)]
  BY PairFacts DEF PageInv, NoticeInv
<1> QED  BY <1>1, PairFacts DEF sendFrom

LEMMA MailGrows ==
    ASSUME NEW p \in Pages, NEW a \in Seq(Message), NEW b,
           b = a \/ \E m \in Expected(p) : b = Append(a, m)
    PROVE  Items(a) \subseteq Items(b) /\ Items(b) \subseteq Items(a) \union Expected(p)
<1>1. CASE b = a
  BY <1>1
<1>2. ASSUME NEW m \in Expected(p), b = Append(a, m)
      PROVE  Items(b) = Items(a) \union {m}
  BY <1>2, ExpectedType, ItemsAppend
<1> QED  BY <1>1, <1>2

\* What a step of the other page leaves of page q.
Same(q) ==
    /\ online' = online /\ entry'[q] = entry[q] /\ pending'[q] = pending[q] /\ out'[q] = out[q]
    /\ stage'[q] = stage[q] /\ flush'[q] = flush[q] /\ after'[q] = after[q]
    /\ pc'[q] = pc[q] /\ mate'[q] = mate[q] /\ opened'[q] = opened[q]
    /\ session'[q] = session[q]

LEMMA SameFacts ==
    ASSUME NEW q, Same(q)
    PROVE  /\ At(q)' = At(q) /\ Flushing(q)' = Flushing(q) /\ Paired(q)' = Paired(q)
  BY DEF Same, At, Flushing, Paired

\* A step of one page, with a message or without, keeps what the other relies
\* on, if the message tells of the step.
LEMMA OtherPage ==
    ASSUME TypeOK, NEW p \in Pages, NEW q \in Pages, q = other(p), PageInv(q), Same(q),
           \/ inbox'[q] = inbox[q]
           \/ At(p) # "unused" /\ \E m \in Expected(q) : inbox'[q] = Append(inbox[q], m),
           \/ deriving'[q] = deriving[q]
           \/ deriving'[q] = deriving[q] \union {0} /\ Paired(q),
           Paired(p) => Paired(p)',
           Described(q) => Described(q)',
           Described(q)' => Described(q) \/ Description(q) \in Items(inbox'[q]),
           Description(q) \in Items(inbox'[q]) => Description(q) \in Items(inbox[q]) \/ Described(q)',
           At(p)' \in {"flush", "done"} => At(p) \in {"flush", "done"} \/ Key \in Items(inbox'[q]),
           PageInv(p)
    PROVE  PageInv(q)'
<1>1. /\ p = other(q) /\ inbox[q] \in Seq(Message) /\ (inbox'[q] # <<>> \/ inbox[q] = <<>>)
      /\ At(q)' = At(q) /\ Flushing(q)' = Flushing(q) /\ Paired(q)' = Paired(q)
      /\ At(q) \in Stages
  BY PairFacts, PageTypes, SameFacts, ItemsAppend, ExpectedFacts
<1>2. /\ Items(inbox[q]) \subseteq Items(inbox'[q])
      /\ Items(inbox'[q]) \subseteq Items(inbox[q]) \union Expected(q)
  <2>1. inbox[q] \in Seq(Message)
    BY PageTypes
  <2>2. inbox'[q] = inbox[q] \/ \E m \in Expected(q) : inbox'[q] = Append(inbox[q], m)
    OBVIOUS
  <2> QED  BY <2>1, <2>2, MailGrows
<1>3. SingleInv(q)' /\ WaitingInv(q)'
  BY <1>1 DEF PageInv, SingleInv, WaitingInv, Same, Expected, Description
<1>4. NoticeInv(q)'
  <2>1. CASE inbox'[q] = inbox[q]
    BY <1>1, <2>1 DEF PageInv, NoticeInv, Same, Expected, Description
  <2>2. CASE At(p) # "unused" /\ \E m \in Expected(q) : inbox'[q] = Append(inbox[q], m)
    <3>1. online["A"] /\ online["B"] /\ online' = online
      BY <2>2 DEF PageInv, NoticeInv, Same
    <3>2. PICK m \in Expected(q) : inbox'[q] = Append(inbox[q], m)
      BY <2>2
    <3>3. m \in Message
      BY ExpectedFacts
    <3>4. CASE At(q) = "unused"
      <4>1. /\ inbox[q] # <<>> /\ Head(inbox[q]).type \in {"room-state", "peer-joined"}
            /\ Items(Tail(inbox[q])) \subseteq Expected(q)
        BY <3>1, <3>4 DEF PageInv, NoticeInv
      <4>2. /\ inbox'[q] # <<>> /\ Head(inbox'[q]) = Head(inbox[q])
            /\ Items(Tail(inbox'[q])) \subseteq Expected(q)
        <5>1. inbox[q] \in Seq(Message)
          BY <1>1
        <5>2. /\ Append(inbox[q], m) # <<>> /\ Head(Append(inbox[q], m)) = Head(inbox[q])
              /\ Items(Tail(Append(inbox[q], m))) = Items(Tail(inbox[q])) \union {m}
          BY <3>3, <4>1, <5>1, ItemsBehind, ItemsAppend
        <5> QED  BY <3>2, <4>1, <5>2
      <4> QED  BY <1>1, <3>1, <3>4, <4>1, <4>2 DEF NoticeInv, Expected, Description
    <3>5. CASE At(q) # "unused"
      <4>1. Items(inbox'[q]) \subseteq Expected(q)
        BY <1>2, <3>1, <3>5 DEF PageInv, NoticeInv
      <4> QED  BY <1>1, <3>1, <3>5, <4>1 DEF NoticeInv, Expected, Description
    <3> QED  BY <3>4, <3>5
  <2> QED  BY <2>1, <2>2
<1>5. PeerInv(q)'
  <2>1. Paired(q) => entry[q].pcm = 1
    BY <1>1 DEF PageInv, PeerInv, ConnectionInv, Paired, Stages
  <2> QED  BY <1>1, <2>1 DEF PageInv, PeerInv, Same
<1>6. ConnectionInv(q)'
  <2>0. p = other(q)
    BY PairFacts
  <2>1. Paired(other(q)) => Paired(other(q))'
    BY <2>0
  <2>2. ConnectionInv(q) /\ pc'[q] = pc[q] /\ mate'[q] = mate[q] /\ opened'[q] = opened[q]
    BY DEF PageInv, Same
  <2>3. At(q)' = At(q) /\ Paired(q)' = Paired(q) /\ isInitiator(q)' = isInitiator(q)
    BY <1>1 DEF isInitiator
  <2> QED  BY <2>1, <2>2, <2>3 DEF ConnectionInv
<1>7. Ahead(q) \subseteq Ahead(q)' /\ Ahead(q)' \subseteq Ahead(q) \union Items(inbox'[q])
      /\ Items(inbox'[q]) \subseteq Ahead(q)'
  BY <1>1, <1>2 DEF Ahead, Same
<1>8. Description(q)' = Description(q) /\ Key' = Key
  BY DEF Description, Key
<1>9. DescriptionInv(q)'
  <2>1. Items(inbox[q]) \subseteq Ahead(q)
    BY DEF Ahead
  <2> QED  BY <1>1, <1>7, <1>8, <2>1 DEF PageInv, DescriptionInv
<1>10. KeyInv(q)'
  <2>0. KeyInv(q) /\ At(other(q)) = At(p) /\ At(other(q))' = At(p)'
    <3>1. p = other(q)
      BY PairFacts
    <3> QED  BY <3>1 DEF PageInv
  <2>1. At(p) \in {"flush", "done"} =>
           Key \in Ahead(q) \/ 0 \in deriving[q] \/ entry[q].key = 0
    BY <2>0 DEF KeyInv
  <2>2. At(p)' \in {"flush", "done"} =>
           Key \in Ahead(q)' \/ 0 \in deriving'[q] \/ entry'[q].key = 0
    BY <1>7, <2>1 DEF Same
  <2> QED  BY <2>0, <2>2 DEF KeyInv, Key
<1> QED  BY <1>3, <1>4, <1>5, <1>6, <1>9, <1>10 DEF PageInv

\* A message is executed: a key packet is worked on, an offer or an answer
\* pairs the connection, and an offer is answered.
LEMMA Executed ==
    ASSUME TypeOK, NEW p \in Pages, NEW q \in Pages, q = other(p), PageInv(p), PageInv(q),
           NEW m \in Ahead(p), m \in Expected(p), entry[p].pcm = 1,
           NEW box \in [Pages -> Seq(Message)], box[q] = inbox[q], execute(box, p, m)
    PROVE  /\ out' = out /\ session' = session /\ inbox'[p] = box[p]
           /\ deriving'[q] = deriving[q] /\ pc'[q] = pc[q] /\ mate'[q] = mate[q]
           /\ opened'[q] = opened[q]
           /\ \A i \in Calls \ {1} : pc'[p][i] = pc[p][i]
           /\ deriving'[p] = deriving[p] \union (IF m = Key THEN {0} ELSE {})
           /\ opened'[p] \subseteq opened[p]
           /\ IF m = Description(p) THEN pc'[p][1] = "paired" /\ mate'[p][1] = 1
              ELSE pc'[p][1] = pc[p][1] /\ mate'[p][1] = mate[p][1]
           /\ \/ inbox'[q] = inbox[q] /\ (m = Description(p) /\ ~isInitiator(p) => Paired(p))
              \/ /\ inbox'[q] = Append(inbox[q], Msg("answer", 1))
                 /\ m = Description(p) /\ ~isInitiator(p)
<1>1. /\ m \in Message /\ Key # Description(p) /\ Key.type = "key" /\ Key.ref = 0
      /\ Description(p).type = (IF isInitiator(p) THEN "answer" ELSE "offer")
      /\ Description(p).ref = 1 /\ m \in {Key, Description(p)}
      /\ q # p /\ At(p) \in Stages /\ p = other(q)
  BY ExpectedFacts, PairFacts, PageTypes DEF Expected
<1>2. At(p) \notin {"unused", "turn"} /\ 1 \in Calls
  BY DEF PageInv, PeerInv, At, None
<1>3. /\ deriving'[q] = deriving[q] /\ session' = session
      /\ deriving'[p] = deriving[p] \union (IF m = Key THEN {0} ELSE {})
  BY <1>1 DEF execute, completeKeyExchange, TypeOK
<1>4. CASE m = Key
  <2>1. inbox' = box /\ UNCHANGED <<out, pcVars>>
    BY <1>1, <1>4 DEF execute, canAccept, mayRenegotiate
  <2> QED  BY <1>1, <1>3, <1>4, <2>1 DEF pcVars
<1>5. CASE m = Description(p)
  <2>1. Described(p)
    BY <1>5 DEF PageInv, DescriptionInv
  <2>2. pc[p][1] \in {"paired", IF isInitiator(p) THEN "offered" ELSE "new"}
    <3>1. isInitiator(p) => At(p) # "offer"
      BY <1>1, <2>1, PairFacts DEF PageInv, DescriptionInv, Described
    <3> QED  BY <1>1, <1>2, <3>1 DEF PageInv, ConnectionInv, Stages
  <2>3. CASE (canAccept(p, m) \/ mayRenegotiate(p, m)) /\ acceptDescription(box, p, m)
    <3>1. /\ pc' = [pc EXCEPT ![p][1] = "paired"] /\ mate' = [mate EXCEPT ![p][1] = 1]
          /\ opened' = [opened EXCEPT ![p] = @ \ {1}]
      BY <1>1, <1>5, <2>3 DEF acceptDescription
    <3>2. /\ \A i \in Calls \ {1} : pc'[p][i] = pc[p][i]
          /\ pc'[p][1] = "paired" /\ mate'[p][1] = 1 /\ opened'[p] \subseteq opened[p]
          /\ pc'[q] = pc[q] /\ mate'[q] = mate[q] /\ opened'[q] = opened[q]
      BY <1>1, <1>2, <3>1 DEF TypeOK
    <3>3. CASE isInitiator(p)
      <4>1. inbox' = box /\ out' = out
        BY <1>1, <1>5, <2>3, <3>3 DEF acceptDescription
      <4> QED  BY <1>1, <1>3, <1>5, <3>2, <3>3, <4>1
    <3>4. CASE ~isInitiator(p)
      <4>1. sendFrom(box, p, Msg("answer", 1))
        BY <1>1, <1>5, <2>3, <3>4 DEF acceptDescription
      <4>2. Msg("answer", 1) \in Message
        BY MsgFacts
      <4>3. /\ out' = out /\ inbox'[p] = box[p]
            /\ inbox'[q] = Append(inbox[q], Msg("answer", 1))
        BY <1>2, <4>1, <4>2, SendFacts
      <4> QED  BY <1>1, <1>3, <1>5, <3>2, <3>4, <4>3
    <3> QED  BY <3>3, <3>4
  <2>4. CASE ~canAccept(p, m) /\ inbox' = box /\ UNCHANGED <<out, pcVars>>
    <3>1. pc[p][1] = "paired"
      BY <1>1, <1>5, <2>2, <2>4 DEF canAccept, None
    <3>2. mate[p][1] = 1
      BY <1>2, <3>1 DEF PageInv, ConnectionInv, Paired
    <3> QED  BY <1>1, <1>2, <1>3, <1>5, <2>4, <3>1, <3>2 DEF pcVars, Paired
  <2> QED  BY <2>3, <2>4 DEF execute
<1> QED  BY <1>1, <1>4, <1>5

\* An offer or answer comes when the connection waits for it or has had it.
LEMMA DescribedFacts ==
    ASSUME TypeOK, NEW p \in Pages, NEW q \in Pages, q = other(p), PageInv(p), PageInv(q)
    PROVE  /\ Described(p) <=> IF isInitiator(p) THEN Paired(q)
                               ELSE At(q) \in {"keys", "flush", "done"}
           /\ Described(q) <=> IF isInitiator(p) THEN At(p) \in {"keys", "flush", "done"}
                               ELSE Paired(p)
           /\ Described(p)' <=> IF isInitiator(p) THEN Paired(q)'
                                ELSE At(q)' \in {"keys", "flush", "done"}
           /\ Described(q)' <=> IF isInitiator(p) THEN At(p)' \in {"keys", "flush", "done"}
                                ELSE Paired(p)'
           /\ isInitiator(p) /\ Paired(q) => At(p) \in {"keys", "flush", "done"}
<1>1. p = other(q) /\ (isInitiator(q) <=> ~isInitiator(p))
  BY PairFacts
<1>2. /\ Described(p) <=> IF isInitiator(p) THEN Paired(q)
                          ELSE At(q) \in {"keys", "flush", "done"}
      /\ Described(p)' <=> IF isInitiator(p) THEN Paired(q)'
                           ELSE At(q)' \in {"keys", "flush", "done"}
  BY DEF Described, isInitiator
<1>3. /\ Described(q) <=> IF isInitiator(p) THEN At(p) \in {"keys", "flush", "done"}
                          ELSE Paired(p)
      /\ Described(q)' <=> IF isInitiator(p) THEN At(p)' \in {"keys", "flush", "done"}
                           ELSE Paired(p)'
  BY <1>1 DEF Described, isInitiator
<1> QED  BY <1>2, <1>3 DEF PageInv, DescriptionInv

LEMMA Handled ==
    ASSUME TypeOK, NEW p \in Pages, NEW q \in Pages, q = other(p), PageInv(p), PageInv(q),
           NEW m \in Ahead(p), m \in Expected(p), entry[p].pcm = 1,
           NEW box \in [Pages -> Seq(Message)], box[q] = inbox[q], execute(box, p, m),
           UNCHANGED <<online, entry, pending, stage, after>>, flush'[q] = flush[q],
           Ahead(p) \subseteq Ahead(p)' \union {m}, Ahead(p)' \subseteq Ahead(p),
           NoticeInv(p)', WaitingInv(p)'
    PROVE  PageInv(p)' /\ PageInv(q)'
<1>1. /\ out' = out /\ session' = session /\ deriving'[q] = deriving[q]
      /\ pc'[q] = pc[q] /\ mate'[q] = mate[q] /\ opened'[q] = opened[q]
      /\ \A i \in Calls \ {1} : pc'[p][i] = pc[p][i]
      /\ deriving'[p] = deriving[p] \union (IF m = Key THEN {0} ELSE {})
      /\ opened'[p] \subseteq opened[p]
  BY Executed
<1>2. /\ IF m = Description(p) THEN pc'[p][1] = "paired" /\ mate'[p][1] = 1
         ELSE pc'[p][1] = pc[p][1] /\ mate'[p][1] = mate[p][1]
      /\ \/ inbox'[q] = inbox[q] /\ (m = Description(p) /\ ~isInitiator(p) => Paired(p))
         \/ /\ inbox'[q] = Append(inbox[q], Msg("answer", 1))
            /\ m = Description(p) /\ ~isInitiator(p)
  BY Executed
<1>3. /\ At(p)' = At(p) /\ At(q)' = At(q) /\ At(p) \notin {"unused", "turn"} /\ 1 \in Calls
      /\ At(p) \in Stages /\ m \in {Key, Description(p)} /\ Key # Description(p)
      /\ Description(p)' = Description(p)
  BY PageTypes, ExpectedFacts DEF PageInv, PeerInv, At, None, Expected, Description
<1>4. /\ Paired(p)' <=> Paired(p) \/ m = Description(p)
      /\ Paired(q)' <=> Paired(q)
  BY <1>1, <1>2, <1>3 DEF Paired
<1>5. m = Description(p) => Described(p) /\ At(p) # "offer"
  <2>1. m = Description(p) => Described(p)
    BY DEF PageInv, DescriptionInv
  <2>2. At(p) = "offer" => isInitiator(p)
    BY <1>3 DEF PageInv, ConnectionInv
  <2> QED  BY <2>1, <2>2, DescribedFacts
<1>6. SingleInv(p)' /\ PeerInv(p)'
  BY <1>1, <1>3 DEF PageInv, SingleInv, PeerInv
<1>7. ConnectionInv(p)'
  <2>1. /\ At(p) = "offer" => isInitiator(p) /\ pc'[p][1] = "new"
        /\ At(p) # "offer" =>
              pc'[p][1] \in {"paired", IF isInitiator(p) THEN "offered" ELSE "new"}
    BY <1>2, <1>3, <1>5 DEF PageInv, ConnectionInv, Stages
  <2>2. Paired(p)' => mate'[p][1] = 1
    BY <1>2, <1>4 DEF PageInv, ConnectionInv
  <2>3. 1 \in opened'[p] => Paired(p)' /\ Paired(other(p))'
    BY <1>1, <1>4 DEF PageInv, ConnectionInv
  <2> QED  BY <1>3, <2>1, <2>2, <2>3 DEF ConnectionInv, isInitiator
<1>8. DescriptionInv(p)'
  BY <1>3, <1>4, <1>5, DescribedFacts DEF PageInv, DescriptionInv
<1>9. KeyInv(p)'
  <2>1. At(q) \in {"flush", "done"} => Key \in Ahead(p) \/ 0 \in deriving[p] \/ entry[p].key = 0
    BY DEF PageInv, KeyInv
  <2>2. At(q) \in {"flush", "done"} => Key \in Ahead(p)' \/ 0 \in deriving'[p] \/ entry'[p].key = 0
    BY <1>1, <2>1
  <2> QED  BY <1>3, <2>2 DEF KeyInv, Key
<1>10. PageInv(q)'
  <2>1. Same(q)
    BY <1>1 DEF Same
  <2>2. \/ inbox'[q] = inbox[q]
        \/ /\ inbox'[q] = Append(inbox[q], Description(q)) /\ Paired(p)'
           /\ Description(q) \in Items(inbox'[q]) /\ ~isInitiator(p)
    <3>1. CASE inbox'[q] = Append(inbox[q], Msg("answer", 1)) /\ m = Description(p) /\ ~isInitiator(p)
      <4>1. Description(q) = Msg("answer", 1)
        BY <3>1, PairFacts DEF Description
      <4>2. inbox[q] \in Seq(Message) /\ Msg("answer", 1) \in Message
        BY PageTypes, MsgFacts
      <4> QED  BY <1>4, <3>1, <4>1, <4>2, ItemsAppend
    <3> QED  BY <1>2, <3>1
  <2>3. Description(q) \in Expected(q)
    BY DEF Expected
  <2>4. /\ Described(q) => Described(q)'
        /\ Described(q)' => Described(q) \/ Description(q) \in Items(inbox'[q])
        /\ Description(q) \in Items(inbox'[q]) => Description(q) \in Items(inbox[q]) \/ Described(q)'
    BY <1>2, <1>3, <1>4, <2>2, DescribedFacts
  <2> QED  BY <1>1, <1>3, <1>4, <2>1, <2>2, <2>3, <2>4, OtherPage
<1> QED  BY <1>6, <1>7, <1>8, <1>9, <1>10 DEF PageInv

\* A message that comes is executed, or waits for the connection.
LEMMA Received ==
    ASSUME TypeOK, NEW p \in Pages, NEW q \in Pages, q = other(p), PageInv(p), PageInv(q),
           inbox[p] # <<>>, At(p) # "unused",
           queueOrExecute(Taken(p), p, Head(inbox[p])),
           UNCHANGED <<online, entry, stage, flush, after>>
    PROVE  PageInv(p)' /\ PageInv(q)'
<1> DEFINE m == Head(inbox[p])  box == Taken(p)
<1>1. /\ Items(inbox[p]) = {m} \union Items(Tail(inbox[p])) /\ m \in Message
      /\ m \in Ahead(p) /\ Tail(inbox[p]) \in Seq(Message)
  BY PageTypes, ItemsTail DEF Ahead
<1>2. Items(inbox[p]) \subseteq Expected(p) /\ m \in Expected(p) /\ online["A"] /\ online["B"]
  BY <1>1 DEF PageInv, NoticeInv
<1>3. /\ q # p /\ box \in [Pages -> Seq(Message)] /\ box[p] = Tail(inbox[p])
      /\ box[q] = inbox[q] /\ At(p)' = At(p) /\ Flushing(p)' = Flushing(p)
  BY <1>1, PairFacts DEF Taken, TypeOK, At, Flushing
<1>4. ready(p) <=> At(p) # "turn"
  BY DEF ready, PageInv, PeerInv, None
<1> HIDE DEF m, box
<1>5. CASE ready(p)
  <2>1. execute(box, p, m) /\ pending' = pending /\ entry[p].pcm = 1
    BY <1>4, <1>5 DEF queueOrExecute, m, box, PageInv, PeerInv
  <2>2. inbox'[p] = Tail(inbox[p])
    <3>1. /\ m \in Ahead(p) /\ m \in Expected(p) /\ entry[p].pcm = 1 /\ box[q] = inbox[q]
          /\ execute(box, p, m) /\ box \in [Pages -> Seq(Message)]
      BY <1>1, <1>2, <1>3, <2>1
    <3>2. inbox'[p] = box[p]
      BY <3>1, Executed
    <3> QED  BY <1>3, <3>2
  <2>3. Ahead(p) \subseteq Ahead(p)' \union {m} /\ Ahead(p)' \subseteq Ahead(p)
    BY <1>1, <1>3, <2>1, <2>2 DEF Ahead
  <2>4. NoticeInv(p)' /\ WaitingInv(p)'
    BY <1>1, <1>2, <1>3, <2>1, <2>2
    DEF PageInv, NoticeInv, WaitingInv, Expected, Description, Key, isInitiator
  <2> QED  BY <1>1, <1>2, <1>3, <2>1, <2>3, <2>4, Handled
<1>6. CASE ~ready(p)
  <2>1. /\ pending' = [pending EXCEPT ![p] = Append(@, m)] /\ inbox' = box
        /\ UNCHANGED <<out, pcVars, keyVars>>
    BY <1>6 DEF queueOrExecute, m, box
  <2>2. /\ pending'[p] = Append(pending[p], m) /\ pending'[q] = pending[q]
        /\ inbox'[p] = Tail(inbox[p]) /\ inbox'[q] = inbox[q] /\ pending[p] \in Seq(Message)
    BY <1>3, <2>1 DEF TypeOK
  <2>3. Items(pending'[p]) = Items(pending[p]) \union {m} /\ At(p) = "turn"
    BY <1>1, <1>4, <1>6, <2>2, ItemsAppend
  <2>4. Ahead(p)' = Ahead(p)
    BY <1>1, <1>3, <2>2, <2>3 DEF Ahead
  <2>5. At(q)' = At(q) /\ Paired(p)' = Paired(p) /\ Paired(q)' = Paired(q)
        /\ Description(p)' = Description(p)
    BY <2>1 DEF pcVars, At, Paired, Description, isInitiator
  <2>6. NoticeInv(p)' /\ WaitingInv(p)'
    BY <1>1, <1>2, <1>3, <2>2, <2>3
    DEF PageInv, NoticeInv, WaitingInv, Expected, Description, Key, isInitiator
  <2>7. SingleInv(p)' /\ PeerInv(p)'
    BY <1>3, <2>1 DEF PageInv, SingleInv, PeerInv, pcVars, keyVars
  <2>8. ConnectionInv(p)'
    BY <1>3, <2>1, <2>5 DEF PageInv, ConnectionInv, pcVars, isInitiator
  <2>9. DescriptionInv(p)'
    BY <1>3, <2>4, <2>5, DescribedFacts DEF PageInv, DescriptionInv
  <2>10. KeyInv(p)'
    BY <2>1, <2>4, <2>5 DEF PageInv, KeyInv, Key, keyVars
  <2>11. PageInv(q)'
    <3>1. Same(q)
      BY <2>1, <2>2 DEF Same, pcVars, keyVars
    <3>2. deriving'[q] = deriving[q]
      BY <2>1 DEF keyVars
    <3> QED  BY <1>3, <2>2, <2>5, <3>1, <3>2, DescribedFacts, OtherPage
  <2> QED  BY <2>6, <2>7, <2>8, <2>9, <2>10, <2>11 DEF PageInv
<1> QED  BY <1>5, <1>6

\* A step of page p's own call, connection or keys leaves the rest as it is.
OwnStep(p, q) ==
    /\ UNCHANGED <<online, out, mate, session>>
    /\ entry'[q] = entry[q] /\ stage'[q] = stage[q] /\ pending'[q] = pending[q]
    /\ flush'[q] = flush[q] /\ after'[q] = after[q] /\ pc'[q] = pc[q] /\ opened'[q] = opened[q]
    /\ \A i \in Calls : after'[p][i] = NoMsg
    /\ \A i \in Calls \ {1} : stage'[p][i] = stage[p][i] /\ pc'[p][i] = pc[p][i]
    /\ At(p) # "unused" /\ At(p)' # "unused" /\ (Paired(p)' <=> Paired(p))
    /\ inbox'[p] = inbox[p] /\ Ahead(p)' = Ahead(p)

\* No key packet is lost.
KeyStep(p, q) ==
    /\ deriving'[p] \subseteq deriving[p]
    /\ 0 \in deriving[p] => 0 \in deriving'[p] \/ entry'[p].key = 0
    /\ entry[p].key = 0 => entry'[p].key = 0
    /\ \/ deriving'[q] = deriving[q]
       \/ deriving'[q] = deriving[q] \union {0} /\ Paired(q)

\* The other page is told of an offer and of a call past its key packet.
TellStep(p, q) ==
    /\ \/ inbox'[q] = inbox[q]
       \/ \E m \in Expected(q) : inbox'[q] = Append(inbox[q], m)
    /\ Described(q) => Described(q)'
    /\ Described(q)' => Described(q) \/ Description(q) \in Items(inbox'[q])
    /\ Description(q) \in Items(inbox'[q]) => Description(q) \in Items(inbox[q]) \/ Described(q)'
    /\ At(p)' \in {"flush", "done"} => At(p) \in {"flush", "done"} \/ Key \in Items(inbox'[q])

\* A step that handles no message, of a page whose call is under way.
LEMMA Advanced ==
    ASSUME TypeOK, NEW p \in Pages, NEW q \in Pages, q = other(p), PageInv(p), PageInv(q),
           OwnStep(p, q), KeyStep(p, q), TellStep(p, q),
           WaitingInv(p)', PeerInv(p)', ConnectionInv(p)'
    PROVE  PageInv(p)' /\ PageInv(q)'
<1>1. At(q)' = At(q) /\ Paired(q)' = Paired(q) /\ Description(p)' = Description(p)
  BY DEF OwnStep, At, Paired, Description, isInitiator
<1>2. SingleInv(p)'
  BY DEF OwnStep, KeyStep, PageInv, SingleInv
<1>3. NoticeInv(p)'
  BY DEF OwnStep, PageInv, NoticeInv, Expected, Description, Key, isInitiator
<1>4. DescriptionInv(p)'
  BY <1>1, DescribedFacts DEF OwnStep, PageInv, DescriptionInv
<1>5. KeyInv(p)'
  <2>1. At(q) \in {"flush", "done"} => Key \in Ahead(p) \/ 0 \in deriving[p] \/ entry[p].key = 0
    BY DEF PageInv, KeyInv
  <2> QED  BY <1>1, <2>1 DEF OwnStep, KeyStep, KeyInv, Key
<1>6. PageInv(q)'
  <2>1. Same(q)
    BY DEF OwnStep, Same
  <2>2. /\ \/ inbox'[q] = inbox[q]
           \/ At(p) # "unused" /\ \E m \in Expected(q) : inbox'[q] = Append(inbox[q], m)
        /\ \/ deriving'[q] = deriving[q]
           \/ deriving'[q] = deriving[q] \union {0} /\ Paired(q)
        /\ Paired(p) => Paired(p)'
        /\ Described(q) => Described(q)'
        /\ Described(q)' => Described(q) \/ Description(q) \in Items(inbox'[q])
        /\ Description(q) \in Items(inbox'[q]) => Description(q) \in Items(inbox[q]) \/ Described(q)'
        /\ At(p)' \in {"flush", "done"} => At(p) \in {"flush", "done"} \/ Key \in Items(inbox'[q])
    BY DEF OwnStep, KeyStep, TellStep
  <2> QED  BY <2>1, <2>2, OtherPage
<1> QED  BY <1>2, <1>3, <1>4, <1>5, <1>6 DEF PageInv

\* A page's only call.
LEMMA OneCall ==
    ASSUME TypeOK, NEW p \in Pages, PageInv(p), NEW i \in Calls, stage[p][i] # "unused"
    PROVE  /\ i = 1 /\ 1 \in Calls /\ At(p) = stage[p][1] /\ Flushing(p) = flush[p][1]
           /\ At(p) # "unused" /\ entry[p].here /\ after[p][1] = NoMsg
  BY DEF PageInv, SingleInv, PeerInv, At, Flushing

LEMMA JoinClean ==
    ASSUME TypeOK, NEW p \in Pages, NEW q \in Pages, q = other(p), PageInv(p), PageInv(q),
           join(p)
    PROVE  PageInv(p)' /\ PageInv(q)'
<1>1. /\ ~online[p] /\ p # q /\ p = other(q)
      /\ \A r \in {p, q} : inbox[r] = <<>> /\ At(r) = "unused" /\ out[r] = <<>>
      /\ (online["A"] /\ online["B"])' <=> (online'[p] /\ online'[q])
  BY PairFacts DEF join, PageInv, NoticeInv, SingleInv, Pages, other
<1>2. /\ UNCHANGED <<entry, pending, callVars, pcVars, keyVars>> /\ online'[p]
      /\ online'[q] = online[q] /\ out'[p] = <<>> /\ out'[q] = out[q]
  BY <1>1 DEF join, TypeOK
<1>3. \A r \in {p, q} :
         /\ \/ ~online[q] /\ inbox'[r] = <<>>
            \/ online[q] /\ \E t \in {"room-state", "peer-joined"} : inbox'[r] = <<Msg(t, 0)>>
  <2>1. CASE online[q]
    <3>1. inbox' = [inbox EXCEPT ![p] = <<Msg("room-state", 0)>>,
                                 ![q] = Append(@, Msg("peer-joined", 0)) \o out[p]]
      BY <2>1 DEF join
    <3>2. Append(<<>>, Msg("peer-joined", 0)) \o <<>> = <<Msg("peer-joined", 0)>>
      OBVIOUS
    <3>3. inbox'[p] = <<Msg("room-state", 0)>> /\ inbox'[q] = <<Msg("peer-joined", 0)>>
      BY <1>1, <3>1, <3>2 DEF TypeOK
    <3> QED  BY <2>1, <3>3
  <2>2. CASE ~online[q]
    BY <1>1, <2>2 DEF join
  <2> QED  BY <2>1, <2>2
<1>4. ASSUME NEW r \in {p, q} PROVE PageInv(r)'
  <2>1. /\ At(r)' = At(r) /\ At(other(r))' = "unused" /\ Description(r)' = Description(r)
        /\ Paired(r)' = Paired(r) /\ Paired(other(r))' = Paired(other(r))
        /\ Flushing(r)' = Flushing(r) /\ PageInv(r) /\ At(other(r)) = "unused"
    BY <1>1, <1>2 DEF callVars, pcVars, At, Paired, Flushing, Description, isInitiator
  <2>2. /\ Key \notin Items(inbox'[r]) /\ Description(r) \notin Items(inbox'[r])
        /\ Items(inbox[r]) = {}
        /\ online[q] => /\ inbox'[r] # <<>> /\ Items(Tail(inbox'[r])) = {}
                        /\ Head(inbox'[r]).type \in {"room-state", "peer-joined"}
    <3>1. Items(<<>>) = {}
      BY ItemsEmpty
    <3>2. ASSUME NEW t \in {"room-state", "peer-joined"}, inbox'[r] = <<Msg(t, 0)>>
          PROVE  /\ Items(inbox'[r]) = {Msg(t, 0)} /\ Tail(inbox'[r]) = <<>>
                 /\ Head(inbox'[r]) = Msg(t, 0) /\ inbox'[r] # <<>>
      BY <3>2 DEF Items
    <3>3. \A t \in {"room-state", "peer-joined"} :
             Msg(t, 0) # Key /\ Msg(t, 0) # Description(r) /\ Msg(t, 0).type = t
      BY DEF Msg, Key, Description
    <3> QED  BY <1>1, <1>3, <3>1, <3>2, <3>3
  <2>3. SingleInv(r)' /\ WaitingInv(r)' /\ PeerInv(r)' /\ ConnectionInv(r)'
    BY <1>1, <1>2, <2>1
    DEF PageInv, SingleInv, WaitingInv, PeerInv, ConnectionInv, callVars, pcVars, keyVars,
        Expected, Key, isInitiator
  <2>4. NoticeInv(r)'
    BY <1>1, <1>2, <1>3, <2>1, <2>2 DEF NoticeInv
  <2>5. Description(r) \in Ahead(r)' <=> Description(r) \in Ahead(r)
    BY <1>2, <2>1, <2>2 DEF Ahead
  <2>6. DescriptionInv(r)'
    BY <2>1, <2>5 DEF PageInv, DescriptionInv, Described, isInitiator
  <2>7. KeyInv(r)'
    BY <2>1 DEF KeyInv
  <2> QED  BY <2>1, <2>3, <2>4, <2>6, <2>7 DEF PageInv
<1> QED  BY <1>4

LEMMA PeerThereClean ==
    ASSUME TypeOK, NEW p \in Pages, NEW q \in Pages, q = other(p), PageInv(p), PageInv(q),
           onPeerThere(p)
    PROVE  PageInv(p)' /\ PageInv(q)'
<1>1. /\ inbox[p] # <<>> /\ Head(inbox[p]).type \in {"room-state", "peer-joined"}
      /\ online' = online /\ inbox' = Taken(p)
      /\ UNCHANGED <<out, pending, pcVars, keyVars>>
  BY DEF onPeerThere, receive
<1>2. /\ Items(inbox[p]) = {Head(inbox[p])} \union Items(Tail(inbox[p]))
      /\ Head(inbox[p]) # Key /\ Head(inbox[p]) # Description(p)
      /\ Head(inbox[p]) \notin Expected(p)
  BY <1>1, PageTypes, ItemsTail DEF Key, Description, Msg, Expected
<1>3. /\ At(p) = "unused" /\ online["A"] /\ online["B"]
      /\ Items(Tail(inbox[p])) \subseteq Expected(p)
  BY <1>1, <1>2 DEF PageInv, NoticeInv
<1>4. /\ deriving[p] = {} /\ entry[p].key # 0 /\ pending[p] = <<>> /\ Flushing(p) = <<>>
      /\ ~hasPeer(p)
  BY <1>3 DEF PageInv, PeerInv, WaitingInv, hasPeer, None
<1>5. /\ entry' = [entry EXCEPT ![p] = Placeholder] /\ flush' = flush
      /\ \E i \in Calls : /\ isNextCall(p, i) /\ stage' = [stage EXCEPT ![p][i] = "turn"]
                           /\ after' = [after EXCEPT ![p][i] = NoMsg]
  BY <1>4 DEF onPeerThere, beginSetup
<1>6. /\ 1 \in Calls /\ stage' = [stage EXCEPT ![p][1] = "turn"]
      /\ after' = [after EXCEPT ![p][1] = NoMsg]
  <2>1. PICK i \in Calls : /\ isNextCall(p, i) /\ stage' = [stage EXCEPT ![p][i] = "turn"]
                           /\ after' = [after EXCEPT ![p][i] = NoMsg]
    BY <1>5
  <2>2. i = 1
    <3>1. 1 \in Calls /\ (i # 1 => 1 \in 1..(i - 1))
      BY PeerSessionAssumption DEF Calls
    <3>2. stage[p][1] = "unused"
      BY <1>3, <3>1 DEF At
    <3> QED  BY <2>1, <3>1, <3>2 DEF isNextCall
  <2> QED  BY <2>1, <2>2
<1>7. /\ p # q /\ p = other(q) /\ inbox'[p] = Tail(inbox[p]) /\ inbox'[q] = inbox[q]
      /\ stage'[p][1] = "turn" /\ stage'[q] = stage[q] /\ after'[q] = after[q]
      /\ \A i \in Calls \ {1} : stage'[p][i] = stage[p][i]
      /\ \A i \in Calls : after'[p][i] = NoMsg
      /\ entry'[p] = Placeholder /\ entry'[q] = entry[q]
  BY <1>1, <1>5, <1>6, PairFacts DEF TypeOK, Taken, PageInv, SingleInv
<1>8. /\ At(p)' = "turn" /\ At(q)' = At(q) /\ Flushing(p)' = Flushing(p)
      /\ Paired(p)' = Paired(p) /\ Paired(q)' = Paired(q) /\ Description(p)' = Description(p)
  BY <1>1, <1>5, <1>6, <1>7 DEF At, Flushing, Paired, Description, isInitiator, pcVars
<1>9. Placeholder.here /\ Placeholder.pcm = None /\ Placeholder.key = -1 /\ Placeholder.coord = None
  BY DEF Placeholder, NoEntry
<1>10. SingleInv(p)' /\ NoticeInv(p)' /\ WaitingInv(p)' /\ PeerInv(p)'
  <2>1. SingleInv(p)'
    BY <1>1, <1>7 DEF PageInv, SingleInv, pcVars, keyVars
  <2>2. NoticeInv(p)'
    BY <1>1, <1>3, <1>7, <1>8 DEF NoticeInv, Expected, Key
  <2>3. WaitingInv(p)'
    BY <1>1, <1>4, <1>8, ItemsEmpty DEF WaitingInv
  <2>4. PeerInv(p)'
    BY <1>1, <1>4, <1>7, <1>8, <1>9 DEF PeerInv, keyVars
  <2> QED  BY <2>1, <2>2, <2>3, <2>4
<1>11. ConnectionInv(p)'
  BY <1>1, <1>3, <1>6, <1>8 DEF PageInv, ConnectionInv, pcVars
<1>12. Ahead(p) = Ahead(p)' \union {Head(inbox[p])}
  BY <1>1, <1>2, <1>7, <1>8 DEF Ahead
<1>13. DescriptionInv(p)' /\ KeyInv(p)'
  <2>1. At(q) \in {"flush", "done"} => Key \in Ahead(p)'
    BY <1>2, <1>4, <1>12 DEF PageInv, KeyInv
  <2>2. KeyInv(p)'
    BY <1>8, <2>1 DEF KeyInv, Key
  <2>3. DescriptionInv(p)'
    BY <1>2, <1>8, <1>12, DescribedFacts DEF PageInv, DescriptionInv
  <2> QED  BY <2>2, <2>3
<1>14. PageInv(q)'
  <2>1. Same(q) /\ deriving'[q] = deriving[q]
    BY <1>1, <1>5, <1>7 DEF Same, pcVars, keyVars
  <2>2. Described(q)' <=> Described(q)
    BY <1>3, <1>8, DescribedFacts
  <2> QED  BY <1>7, <1>8, <2>1, <2>2, OtherPage
<1> QED  BY <1>10, <1>11, <1>13, <1>14 DEF PageInv

LEMMA ReceiveClean ==
    ASSUME TypeOK, NEW p \in Pages, NEW q \in Pages, q = other(p), PageInv(p), PageInv(q),
           onPeerThere(p) \/ onPeerLeft(p) \/ onOffer(p) \/ onSignal(p)
    PROVE  PageInv(p)' /\ PageInv(q)'
<1>1. CASE onPeerThere(p)
  BY <1>1, PeerThereClean
<1>2. CASE onPeerLeft(p) \/ onOffer(p) \/ onSignal(p)
  <2>1. /\ inbox[p] # <<>> /\ online' = online
        /\ Head(inbox[p]).type \in {"peer-left", "offer", "answer", "key"}
    BY <1>2 DEF onPeerLeft, onOffer, onSignal, receive
  <2>2. Head(inbox[p]) \in Items(inbox[p])
    BY <2>1, PageTypes, ItemsTail
  <2>3. At(p) # "unused" /\ Head(inbox[p]) \in Expected(p)
    BY <2>1, <2>2 DEF PageInv, NoticeInv
  <2>4. hasPeer(p) /\ ~onPeerLeft(p)
    BY <2>3, ExpectedFacts DEF PageInv, PeerInv, hasPeer, onPeerLeft, receive
  <2>5. /\ queueOrExecute(Taken(p), p, Head(inbox[p]))
        /\ UNCHANGED <<entry, stage, flush, after>>
    BY <1>2, <2>4 DEF onOffer, onSignal, callVars
  <2> QED  BY <2>1, <2>3, <2>5, Received
<1> QED  BY <1>1, <1>2

LEMMA TurnClean ==
    ASSUME TypeOK, NEW p \in Pages, NEW q \in Pages, q = other(p), PageInv(p), PageInv(q),
           NEW i \in Calls, turnDone(p, i)
    PROVE  PageInv(p)' /\ PageInv(q)'
<1>1. /\ i = 1 /\ 1 \in Calls /\ At(p) = "turn" /\ entry[p].here /\ p # q
  BY OneCall, PairFacts DEF turnDone
<1>2. /\ UNCHANGED <<online, inbox, out, pending, flush, after, mate, opened, deriving, session>>
      /\ entry'[p] = [entry[p] EXCEPT !.pcm = 1] /\ entry'[q] = entry[q]
      /\ pc'[p][1] = "new" /\ pc'[q] = pc[q] /\ stage'[q] = stage[q]
      /\ \A j \in Calls \ {1} : stage'[p][j] = stage[p][j] /\ pc'[p][j] = pc[p][j]
      /\ stage'[p][1] = IF isInitiator(p) THEN "offer" ELSE "keys"
  BY <1>1 DEF turnDone, sendVars, keyVars, TypeOK
<1>3. /\ entry'[p].pcm = 1 /\ entry'[p].here /\ entry'[p].key = entry[p].key
      /\ entry'[p].coord = entry[p].coord
  BY <1>1, <1>2 DEF TypeOK
<1>4. /\ At(p)' = (IF isInitiator(p) THEN "offer" ELSE "keys") /\ Flushing(p)' = Flushing(p)
      /\ ~Paired(p) /\ ~Paired(p)' /\ Ahead(p)' = Ahead(p)
  BY <1>1, <1>2 DEF At, Flushing, Paired, Ahead, PageInv, ConnectionInv
<1>5. WaitingInv(p)'
  BY <1>1, <1>2, <1>4 DEF PageInv, WaitingInv, Expected, Description, Key, isInitiator
<1>6. PeerInv(p)'
  BY <1>1, <1>2, <1>3, <1>4 DEF PageInv, PeerInv
<1>7. ConnectionInv(p)'
  BY <1>1, <1>2, <1>4 DEF PageInv, ConnectionInv, isInitiator
<1>8. OwnStep(p, q)
  BY <1>1, <1>2, <1>4 DEF OwnStep, PageInv, SingleInv
<1>9. KeyStep(p, q)
  BY <1>2, <1>3 DEF KeyStep
<1>10. TellStep(p, q)
  <2>1. Described(q)' <=> Described(q)
    BY <1>1, <1>4, DescribedFacts
  <2> QED  BY <1>2, <1>4, <2>1 DEF TellStep
<1> QED  BY <1>5, <1>6, <1>7, <1>8, <1>9, <1>10, Advanced

\* Both messages of a call reach the other's inbox.
LEMMA SentFacts ==
    ASSUME TypeOK, NEW p \in Pages, NEW q \in Pages, q = other(p), PageInv(p),
           At(p) # "unused", NEW m \in Expected(q), send(p, m)
    PROVE  /\ out' = out /\ inbox'[p] = inbox[p]
           /\ inbox'[q] = Append(inbox[q], m)
           /\ Items(inbox'[q]) = Items(inbox[q]) \union {m}
<1>1. m \in Message /\ inbox \in [Pages -> Seq(Message)] /\ inbox[q] \in Seq(Message)
  BY ExpectedType, PageTypes DEF TypeOK
<1>2. /\ out' = out /\ inbox'[p] = inbox[p]
      /\ inbox'[q] = Append(inbox[q], m)
  BY <1>1, SendFacts DEF send
<1> QED  BY <1>1, <1>2, ItemsAppend

LEMMA OfferClean ==
    ASSUME TypeOK, NEW p \in Pages, NEW q \in Pages, q = other(p), PageInv(p), PageInv(q),
           NEW i \in Calls, offerDone(p, i)
    PROVE  PageInv(p)' /\ PageInv(q)'
<1>1. /\ i = 1 /\ 1 \in Calls /\ At(p) = "offer" /\ entry[p].here /\ p # q
      /\ isInitiator(p) /\ pc[p][1] = "new" /\ ~isInitiator(q)
  BY OneCall, PairFacts DEF offerDone, PageInv, ConnectionInv
<1>2. /\ UNCHANGED <<online, entry, pending, flush, after, mate, opened, deriving, session>>
      /\ stage' = [stage EXCEPT ![p][1] = "keys"] /\ pc' = [pc EXCEPT ![p][1] = "offered"]
      /\ send(p, Msg("offer", 1))
  BY <1>1 DEF offerDone, keyVars
<1>3. /\ pc'[p][1] = "offered" /\ pc'[q] = pc[q] /\ stage'[p][1] = "keys" /\ stage'[q] = stage[q]
      /\ \A j \in Calls \ {1} : stage'[p][j] = stage[p][j] /\ pc'[p][j] = pc[p][j]
  BY <1>1, <1>2 DEF TypeOK
<1>4. Description(q) = Msg("offer", 1) /\ Description(q) \in Expected(q)
  BY <1>1 DEF Description, Expected
<1>5. /\ out' = out /\ inbox'[p] = inbox[p]
      /\ inbox'[q] = Append(inbox[q], Description(q)) /\ Description(q) \in Items(inbox'[q])
  <2>1. send(p, Description(q)) /\ At(p) # "unused"
    BY <1>1, <1>2, <1>4
  <2> QED  BY <1>4, <2>1, SentFacts
<1>6. /\ At(p)' = "keys" /\ Flushing(p)' = Flushing(p)
      /\ ~Paired(p) /\ ~Paired(p)' /\ Ahead(p)' = Ahead(p)
  BY <1>1, <1>2, <1>3, <1>5 DEF At, Flushing, Paired, Ahead
<1>7. WaitingInv(p)'
  BY <1>1, <1>2, <1>6 DEF PageInv, WaitingInv, Expected, Description, Key, isInitiator
<1>8. PeerInv(p)'
  BY <1>1, <1>2, <1>6 DEF PageInv, PeerInv
<1>9. ConnectionInv(p)'
  BY <1>1, <1>2, <1>3, <1>6 DEF PageInv, ConnectionInv, isInitiator
<1>10. OwnStep(p, q)
  BY <1>1, <1>2, <1>3, <1>5, <1>6 DEF OwnStep, PageInv, SingleInv
<1>11. KeyStep(p, q)
  BY <1>2 DEF KeyStep
<1>12. TellStep(p, q)
  <2>1. Described(q)'
    BY <1>1, <1>6, DescribedFacts
  <2> QED  BY <1>4, <1>5, <1>6, <2>1 DEF TellStep
<1> QED  BY <1>7, <1>8, <1>9, <1>10, <1>11, <1>12, Advanced

LEMMA KeysClean ==
    ASSUME TypeOK, NEW p \in Pages, NEW q \in Pages, q = other(p), PageInv(p), PageInv(q),
           NEW i \in Calls, keysDone(p, i)
    PROVE  PageInv(p)' /\ PageInv(q)'
<1>1. /\ i = 1 /\ 1 \in Calls /\ At(p) = "keys" /\ entry[p].here /\ p # q
      /\ after[p][1] = NoMsg /\ session[p] = 0 /\ Flushing(p) = <<>>
  BY OneCall, PairFacts DEF keysDone, PageInv, SingleInv, WaitingInv
<1>2. /\ UNCHANGED <<online, entry, after, pc, mate, opened, deriving, session>>
      /\ stage' = [stage EXCEPT ![p][1] = IF pending[p] = <<>> THEN "done" ELSE "flush"]
      /\ flush' = [flush EXCEPT ![p][1] = pending[p]]
      /\ pending' = [pending EXCEPT ![p] = <<>>] /\ send(p, Key)
  BY <1>1 DEF keysDone, takeQueue, pcVars, keyVars, Key
<1>3. /\ stage'[p][1] = (IF pending[p] = <<>> THEN "done" ELSE "flush")
      /\ stage'[q] = stage[q] /\ flush'[p][1] = pending[p] /\ flush'[q] = flush[q]
      /\ pending'[p] = <<>> /\ pending'[q] = pending[q]
      /\ \A j \in Calls \ {1} : stage'[p][j] = stage[p][j]
  BY <1>1, <1>2 DEF TypeOK
<1>4. /\ out' = out /\ inbox'[p] = inbox[p] /\ Key \in Expected(q)
      /\ inbox'[q] = Append(inbox[q], Key) /\ Items(inbox'[q]) = Items(inbox[q]) \union {Key}
  BY <1>1, <1>2, SentFacts DEF Expected
<1>5. /\ At(p)' = (IF pending[p] = <<>> THEN "done" ELSE "flush") /\ Flushing(p)' = pending[p]
      /\ Paired(p)' = Paired(p)
  BY <1>1, <1>2, <1>3 DEF At, Flushing, Paired
<1>6. Ahead(p)' = Ahead(p)
  BY <1>1, <1>3, <1>4, <1>5, ItemsEmpty DEF Ahead
<1>7. WaitingInv(p)'
  BY <1>1, <1>3, <1>5, ItemsEmpty
  DEF PageInv, WaitingInv, Expected, Description, Key, isInitiator
<1>8. PeerInv(p)'
  BY <1>1, <1>2, <1>5 DEF PageInv, PeerInv
<1>9. ConnectionInv(p)'
  BY <1>1, <1>2, <1>5 DEF PageInv, ConnectionInv, isInitiator, Paired
<1>10. OwnStep(p, q)
  BY <1>1, <1>2, <1>3, <1>4, <1>5, <1>6 DEF OwnStep, PageInv, SingleInv
<1>11. KeyStep(p, q)
  BY <1>2 DEF KeyStep
<1>12. TellStep(p, q)
  <2>1. (Described(q)' <=> Described(q)) /\ Description(q) # Key
    BY <1>1, <1>4, <1>5, DescribedFacts, ExpectedFacts
  <2> QED  BY <1>4, <2>1 DEF TellStep
<1> QED  BY <1>7, <1>8, <1>9, <1>10, <1>11, <1>12, Advanced

LEMMA FlushClean ==
    ASSUME TypeOK, NEW p \in Pages, NEW q \in Pages, q = other(p), PageInv(p), PageInv(q),
           NEW i \in Calls, flushStep(p, i)
    PROVE  PageInv(p)' /\ PageInv(q)'
<1> DEFINE m == Head(Flushing(p))
<1>1. /\ i = 1 /\ 1 \in Calls /\ At(p) = "flush" /\ p # q
      /\ Flushing(p) # <<>> /\ flush[p][1] = Flushing(p) /\ pending[p] = <<>>
  BY OneCall, PairFacts DEF flushStep, PageInv, WaitingInv
<1>2. /\ execute(inbox, p, m) /\ flush' = [flush EXCEPT ![p][1] = Tail(@)]
      /\ UNCHANGED <<online, entry, pending, stage, after>>
  BY <1>1 DEF flushStep
<1>3. /\ Items(Flushing(p)) = {m} \union Items(Tail(Flushing(p)))
      /\ Items(Flushing(p)) \subseteq Expected(p) /\ Items(Flushing(p)) \subseteq Ahead(p)
  BY <1>1, PageTypes, ItemsTail DEF Ahead, PageInv, WaitingInv
<1>4. /\ At(p)' = At(p) /\ Flushing(p)' = Tail(Flushing(p)) /\ flush'[q] = flush[q]
  BY <1>1, <1>2 DEF At, Flushing, TypeOK
<1> HIDE DEF m
<1>5. /\ m \in Ahead(p) /\ m \in Expected(p) /\ entry[p].pcm = 1
      /\ inbox \in [Pages -> Seq(Message)] /\ inbox[q] = inbox[q] /\ execute(inbox, p, m)
  BY <1>1, <1>2, <1>3 DEF PageInv, PeerInv, TypeOK
<1>6. inbox'[p] = inbox[p]
  BY <1>5, Executed
<1>7. Ahead(p) \subseteq Ahead(p)' \union {m} /\ Ahead(p)' \subseteq Ahead(p)
  BY <1>2, <1>3, <1>4, <1>6 DEF Ahead
<1>8. NoticeInv(p)' /\ WaitingInv(p)'
  BY <1>1, <1>2, <1>3, <1>4, <1>6
  DEF PageInv, NoticeInv, WaitingInv, Expected, Description, Key, isInitiator
<1>9. /\ UNCHANGED <<online, entry, pending, stage, after>> /\ flush'[q] = flush[q]
  BY <1>2, <1>4
<1> QED  BY <1>5, <1>7, <1>8, <1>9, Handled

LEMMA DoneClean ==
    ASSUME TypeOK, NEW p \in Pages, NEW q \in Pages, q = other(p), PageInv(p), PageInv(q),
           NEW i \in Calls, setupDone(p, i)
    PROVE  PageInv(p)' /\ PageInv(q)'
<1>1. /\ i = 1 /\ 1 \in Calls /\ At(p) = "flush" /\ p # q /\ Flushing(p) = <<>>
      /\ pending[p] = <<>> /\ after[p][1] = NoMsg
  BY OneCall, PairFacts DEF setupDone, PageInv, WaitingInv
<1>2. /\ stage' = [stage EXCEPT ![p][1] = "done"]
      /\ after' = [after EXCEPT ![p][1] = NoMsg]
      /\ UNCHANGED <<online, entry, flush, inbox, out, pending, pc, mate, opened, deriving, session>>
  BY <1>1 DEF setupDone, endCall, sendVars, pcVars, keyVars
<1>3. /\ stage'[p][1] = "done" /\ stage'[q] = stage[q] /\ after'[q] = after[q]
      /\ \A j \in Calls \ {1} : stage'[p][j] = stage[p][j]
      /\ \A j \in Calls : after'[p][j] = NoMsg
  BY <1>1, <1>2 DEF TypeOK, PageInv, SingleInv
<1>4. /\ At(p)' = "done" /\ Flushing(p)' = Flushing(p) /\ Paired(p)' = Paired(p)
      /\ Ahead(p)' = Ahead(p)
  BY <1>1, <1>2, <1>3 DEF At, Flushing, Paired, Ahead
<1>5. WaitingInv(p)'
  BY <1>1, <1>2, <1>4 DEF PageInv, WaitingInv, Expected, Description, Key, isInitiator
<1>6. PeerInv(p)'
  BY <1>1, <1>2, <1>4 DEF PageInv, PeerInv
<1>7. ConnectionInv(p)'
  BY <1>1, <1>2, <1>4 DEF PageInv, ConnectionInv, isInitiator, Paired
<1>8. OwnStep(p, q)
  BY <1>1, <1>2, <1>3, <1>4 DEF OwnStep
<1>9. KeyStep(p, q)
  BY <1>2 DEF KeyStep
<1>10. TellStep(p, q)
  <2>1. Described(q)' <=> Described(q)
    BY <1>1, <1>4, DescribedFacts
  <2> QED  BY <1>1, <1>2, <2>1 DEF TellStep
<1> QED  BY <1>5, <1>6, <1>7, <1>8, <1>9, <1>10, Advanced

\* Only the first connection is ever paired.
LEMMA PairedCall ==
    ASSUME NEW p \in Pages, PageInv(p), NEW i \in Calls, pc[p][i] = "paired"
    PROVE  /\ i = 1 /\ 1 \in Calls /\ Paired(p) /\ mate[p][1] = 1 /\ entry[p].pcm = 1
           /\ At(p) \notin {"unused", "turn", "offer"} /\ entry[p].here
<1>1. i = 1
  BY DEF PageInv, SingleInv
<1>2. 1 \in Calls /\ Paired(p)
  BY <1>1 DEF Paired
<1>3. At(p) \notin {"unused", "turn", "offer"}
  BY <1>1, <1>2 DEF PageInv, ConnectionInv
<1> QED  BY <1>1, <1>2, <1>3 DEF PageInv, ConnectionInv, PeerInv

LEMMA OpenClean ==
    ASSUME TypeOK, NEW p \in Pages, NEW q \in Pages, q = other(p), PageInv(p), PageInv(q),
           NEW i \in Calls, channelOpen(p, i)
    PROVE  PageInv(p)' /\ PageInv(q)'
<1>1. /\ i = 1 /\ 1 \in Calls /\ Paired(p) /\ Paired(q) /\ p # q /\ p = other(q)
      /\ At(p) # "unused" /\ session[p] = 0
  <2>1. pc[p][i] = "paired" /\ pc[q][mate[p][i]] = "paired"
    BY DEF channelOpen, Linked
  <2>2. i = 1 /\ 1 \in Calls /\ Paired(p) /\ mate[p][1] = 1 /\ At(p) # "unused"
    BY <2>1, PairedCall
  <2>3. Paired(q)
    BY <2>1, <2>2 DEF Paired
  <2> QED  BY <2>2, <2>3, PairFacts DEF PageInv, SingleInv
<1>2. /\ UNCHANGED <<online, entry, pending, stage, flush, after, pc, mate, session>>
      /\ opened' = [opened EXCEPT ![p] = @ \union {1}]
  BY <1>1 DEF channelOpen, callVars
<1>3. /\ opened'[p] = opened[p] \union {1} /\ opened'[q] = opened[q]
  BY <1>1, <1>2 DEF TypeOK
<1>4. /\ out' = out /\ inbox'[p] = inbox[p]
      /\ \/ inbox'[q] = inbox[q]
         \/ inbox'[q] = Append(inbox[q], Key) /\ Items(inbox'[q]) = Items(inbox[q]) \union {Key}
      /\ Key \in Expected(q)
  <2>1. CASE entry[p].here /\ entry[p].key = -1
    <3>1. send(p, Key) /\ Key \in Expected(q)
      BY <1>1, <2>1 DEF channelOpen, Key, Expected
    <3> QED  BY <1>1, <3>1, SentFacts
  <2>2. CASE ~(entry[p].here /\ entry[p].key = -1)
    BY <2>2 DEF channelOpen, sendVars, Expected
  <2> QED  BY <2>1, <2>2
<1>5. /\ deriving'[p] = deriving[p]
      /\ deriving'[q] = deriving[q] \/ deriving'[q] = deriving[q] \union {0}
  BY <1>1 DEF channelOpen, completeKeyExchange, TypeOK
<1>6. /\ At(p)' = At(p) /\ Flushing(p)' = Flushing(p) /\ Paired(p)' = Paired(p)
      /\ Paired(q)' = Paired(q) /\ Ahead(p)' = Ahead(p)
  BY <1>2, <1>4 DEF At, Flushing, Paired, Ahead
<1>7. WaitingInv(p)'
  BY <1>2, <1>6 DEF PageInv, WaitingInv, Expected, Description, Key, isInitiator
<1>8. PeerInv(p)'
  BY <1>2, <1>5, <1>6 DEF PageInv, PeerInv
<1>9. ConnectionInv(p)'
  BY <1>1, <1>2, <1>6 DEF PageInv, ConnectionInv, isInitiator
<1>10. OwnStep(p, q)
  BY <1>1, <1>2, <1>3, <1>4, <1>6 DEF OwnStep, PageInv, SingleInv
<1>11. KeyStep(p, q)
  BY <1>1, <1>2, <1>5 DEF KeyStep
<1>12. TellStep(p, q)
  <2>1. (Described(q)' <=> Described(q)) /\ Description(q) # Key
    <3>1. Described(q)' <=> Described(q)
      BY <1>6, DescribedFacts
    <3>2. Description(q) # Key
      BY <1>4, ExpectedFacts
    <3> QED  BY <3>1, <3>2
  <2> QED  BY <1>4, <1>6, <2>1 DEF TellStep
<1> QED  BY <1>7, <1>8, <1>9, <1>10, <1>11, <1>12, Advanced

LEMMA FinalizeClean ==
    ASSUME TypeOK, NEW p \in Pages, NEW q \in Pages, q = other(p), PageInv(p), PageInv(q),
           NEW s \in deriving[p], finalizeKeyExchange(p, s)
    PROVE  PageInv(p)' /\ PageInv(q)'
<1>1. /\ s = 0 /\ p # q /\ entry[p].pcm = 1 /\ 1 \in Calls
      /\ At(p) \notin {"unused", "turn"} /\ entry[p].here
  BY PairFacts DEF PageInv, SingleInv, PeerInv, At, None
<1>2. /\ deriving' = [deriving EXCEPT ![p] = @ \ {0}]
      /\ UNCHANGED <<online, inbox, out, pending, stage, flush, after, pc, mate, opened, session>>
      /\ entry' = [entry EXCEPT ![p].key = 0,
                                ![p].coord = IF @ = None THEN entry[p].pcm ELSE @]
  BY <1>1 DEF finalizeKeyExchange, sendVars, callVars, pcVars
<1>3. /\ deriving'[p] = deriving[p] \ {0} /\ deriving'[q] = deriving[q] /\ entry'[q] = entry[q]
      /\ entry'[p].here /\ entry'[p].pcm = 1 /\ entry'[p].key = 0 /\ entry'[p].coord = 1
  <2>1. deriving'[p] = deriving[p] \ {0} /\ deriving'[q] = deriving[q]
    BY <1>1, <1>2 DEF TypeOK
  <2>2. entry[p].coord = None \/ entry[p].coord = 1
    BY DEF PageInv, PeerInv
  <2>3. entry'[q] = entry[q]
    BY <1>1, <1>2 DEF TypeOK
  <2>4. /\ entry'[p].here = entry[p].here /\ entry'[p].pcm = entry[p].pcm /\ entry'[p].key = 0
        /\ entry'[p].coord = IF entry[p].coord = None THEN entry[p].pcm ELSE entry[p].coord
    BY <1>2 DEF TypeOK
  <2> QED  BY <1>1, <2>1, <2>2, <2>3, <2>4
<1>4. /\ At(p)' = At(p) /\ Flushing(p)' = Flushing(p) /\ Paired(p)' = Paired(p)
      /\ Ahead(p)' = Ahead(p) /\ Paired(q)' = Paired(q)
  BY <1>2 DEF At, Flushing, Paired, Ahead
<1>5. WaitingInv(p)'
  BY <1>2, <1>4 DEF PageInv, WaitingInv, Expected, Description, Key, isInitiator
<1>6. PeerInv(p)'
  BY <1>1, <1>3, <1>4 DEF PageInv, PeerInv
<1>7. ConnectionInv(p)'
  BY <1>2, <1>4 DEF PageInv, ConnectionInv, isInitiator, Paired, other
<1>8. OwnStep(p, q)
  BY <1>1, <1>2, <1>3, <1>4 DEF OwnStep, PageInv, SingleInv
<1>9. KeyStep(p, q)
  BY <1>3 DEF KeyStep
<1>10. TellStep(p, q)
  <2>1. Described(q)' <=> Described(q)
    BY <1>4, DescribedFacts
  <2> QED  BY <1>2, <1>4, <2>1 DEF TellStep
<1> QED  BY <1>5, <1>6, <1>7, <1>8, <1>9, <1>10, Advanced

LEMMA InitClean == Init => CleanInv
<1> SUFFICES ASSUME Init, NEW p \in Pages PROVE PageInv(p)
  BY DEF CleanInv
<1>1. other(p) \in Pages /\ Items(<<>>) = {} /\ None = 0
  BY PairFacts, ItemsEmpty DEF None
<1>2. /\ At(p) = "unused" /\ At(other(p)) = "unused" /\ Flushing(p) = <<>>
      /\ ~Paired(p) /\ ~Paired(other(p)) /\ Ahead(p) = {}
  BY <1>1 DEF Init, At, Flushing, Paired, Ahead
<1>3. SingleInv(p) /\ NoticeInv(p)
  BY <1>2 DEF Init, SingleInv, NoticeInv, Pages
<1>4. WaitingInv(p) /\ PeerInv(p)
  BY <1>1, <1>2 DEF Init, WaitingInv, PeerInv, NoEntry
<1>5. ConnectionInv(p)
  BY <1>2 DEF Init, ConnectionInv
<1>6. DescriptionInv(p) /\ KeyInv(p)
  BY <1>2 DEF DescriptionInv, Described, KeyInv
<1> QED  BY <1>3, <1>4, <1>5, <1>6 DEF PageInv

\* No fault, then no connection is lost and none fails.
LEMMA CalmStep ==
    ASSUME TypeOK, CleanInv, Next, faults' = 0
    PROVE  /\ faults = 0 /\ \A p \in Pages : PageInv(p)
           /\ \E p \in Pages :
                 \/ join(p) \/ onPeerThere(p) \/ onPeerLeft(p) \/ onOffer(p) \/ onSignal(p)
                 \/ \E i \in Calls : \/ turnDone(p, i) \/ offerDone(p, i) \/ keysDone(p, i)
                                      \/ flushStep(p, i) \/ setupDone(p, i) \/ channelOpen(p, i)
                 \/ \E s \in deriving[p] : finalizeKeyExchange(p, s)
<1>1. faults \in Nat
  BY PageTypes DEF Pages
<1>2. PICK p \in Pages : join(p) \/ pageStep(p) \/ drop(p) \/ reload(p)
  BY DEF Next
<1>3. ~drop(p) /\ ~reload(p)
  BY <1>1 DEF drop, reload
<1>4. faults = 0
  <2>1. CASE join(p)
    BY <2>1 DEF join
  <2>2. ASSUME onPeerThere(p) \/ onPeerLeft(p) \/ onOffer(p) \/ onSignal(p) PROVE faults' = faults
    BY <2>2 DEF onPeerThere, onPeerLeft, onOffer, onSignal, receive
  <2>3. ASSUME NEW i \in Calls, turnDone(p, i) \/ offerDone(p, i) \/ keysDone(p, i)
                                \/ flushStep(p, i) \/ setupDone(p, i)
        PROVE  faults' = faults
    BY <2>3 DEF turnDone, offerDone, keysDone, flushStep, setupDone
  <2>4. ASSUME NEW i \in Calls, channelOpen(p, i) \/ pcFailed(p, i) PROVE faults' = faults
    BY <2>4 DEF channelOpen, pcFailed
  <2>5. ASSUME NEW i \in Calls, pcDisconnected(p, i) PROVE faults = 0
    <3>1. faults' = faults \/ faults' = faults + 1
      BY <2>5 DEF pcDisconnected
    <3> QED  BY <1>1, <3>1
  <2>6. ASSUME NEW s \in deriving[p], finalizeKeyExchange(p, s) PROVE faults' = faults
    BY <2>6 DEF finalizeKeyExchange
  <2> QED  BY <1>2, <1>3, <2>1, <2>2, <2>3, <2>4, <2>5, <2>6 DEF pageStep
<1>5. \A r \in Pages : PageInv(r)
  BY <1>4 DEF CleanInv
<1>6. ASSUME NEW i \in Calls PROVE ~pcDisconnected(p, i) /\ ~pcFailed(p, i)
  <2>0. other(p) \in Pages /\ other(other(p)) = p
    BY PairFacts
  <2>1. \A r \in Pages : pc[r][1] \notin {"closed", "lost", "failed"} \/ 1 \notin Calls
    BY <1>5, PageTypes DEF PageInv, ConnectionInv, Stages
  <2>2. pc[p][i] # "lost" /\ (pc[p][i] = "paired" => i = 1)
    BY <1>5, <2>1 DEF PageInv, SingleInv
  <2>3. ~pcFailed(p, i)
    <3>1. pc[p][i] = "paired" => mate[p][i] = 1 /\ 1 \in Calls
      BY <1>5, PairedCall
    <3> QED  BY <2>0, <2>1, <2>2, <3>1 DEF pcFailed
  <2>4. pcDisconnected(p, i) => Linked(p, i)
    <3> SUFFICES ASSUME pcDisconnected(p, i) PROVE Linked(p, i)
      OBVIOUS
    <3>1. i \in opened[p] /\ pc[p][i] = "paired"
      BY DEF pcDisconnected
    <3>2. i = 1 /\ 1 \in Calls /\ Paired(p) /\ mate[p][1] = 1
      BY <1>5, <3>1, PairedCall
    <3>3. Paired(other(p))
      BY <1>5, <3>1, <3>2 DEF PageInv, ConnectionInv
    <3>4. pc[other(p)][1] = "paired" /\ mate[other(p)][1] = 1
      BY <1>5, <2>0, <3>3, PairedCall DEF Paired
    <3> QED  BY <3>1, <3>2, <3>4 DEF Linked, None
  <2>5. ~pcDisconnected(p, i)
    BY <1>1, <2>4 DEF pcDisconnected
  <2> QED  BY <2>3, <2>5
<1> QED  BY <1>2, <1>3, <1>4, <1>5, <1>6 DEF pageStep

LEMMA StepClean == TypeOK /\ CleanInv /\ [Next]_vars => CleanInv'
<1> SUFFICES ASSUME TypeOK, CleanInv, [Next]_vars, faults' = 0
             PROVE  \A r \in Pages : PageInv(r)'
  BY DEF CleanInv
<1>1. CASE UNCHANGED vars
  <2>1. ASSUME NEW r \in Pages PROVE PageInv(r)'
    <3>1. PageInv(r)
      BY <1>1 DEF CleanInv, vars
    <3>2. /\ UNCHANGED <<online, out, inbox, entry, pending, stage, flush, after, pc,
                         mate, opened, deriving, session>>
      BY <1>1 DEF vars
    <3> QED
      BY <3>1, <3>2
      DEF PageInv, SingleInv, NoticeInv, WaitingInv, PeerInv, ConnectionInv, DescriptionInv,
          KeyInv, At, Flushing, Paired, Ahead, Described, Expected, Description, Key, isInitiator
  <2> QED  BY <2>1
<1>2. CASE Next
  <2>1. /\ \A r \in Pages : PageInv(r)
        /\ \E p \in Pages :
              \/ join(p) \/ onPeerThere(p) \/ onPeerLeft(p) \/ onOffer(p) \/ onSignal(p)
              \/ \E i \in Calls : \/ turnDone(p, i) \/ offerDone(p, i) \/ keysDone(p, i)
                                   \/ flushStep(p, i) \/ setupDone(p, i) \/ channelOpen(p, i)
              \/ \E s \in deriving[p] : finalizeKeyExchange(p, s)
    BY <1>2, CalmStep
  <2>2. PICK p \in Pages :
              \/ join(p) \/ onPeerThere(p) \/ onPeerLeft(p) \/ onOffer(p) \/ onSignal(p)
              \/ \E i \in Calls : \/ turnDone(p, i) \/ offerDone(p, i) \/ keysDone(p, i)
                                   \/ flushStep(p, i) \/ setupDone(p, i) \/ channelOpen(p, i)
              \/ \E s \in deriving[p] : finalizeKeyExchange(p, s)
    BY <2>1
  <2> DEFINE q == other(p)
  <2>3. /\ q \in Pages /\ q = other(p) /\ PageInv(p) /\ PageInv(q)
        /\ \A r \in Pages : r = p \/ r = q
    BY <2>1, PairFacts
  <2> HIDE DEF q
  <2>4. PageInv(p)' /\ PageInv(q)'
    <3>1. CASE join(p)
      BY <2>3, <3>1, JoinClean
    <3>2. CASE onPeerThere(p) \/ onPeerLeft(p) \/ onOffer(p) \/ onSignal(p)
      BY <2>3, <3>2, ReceiveClean
    <3>3. ASSUME NEW i \in Calls, turnDone(p, i) PROVE PageInv(p)' /\ PageInv(q)'
      BY <2>3, <3>3, TurnClean
    <3>4. ASSUME NEW i \in Calls, offerDone(p, i) PROVE PageInv(p)' /\ PageInv(q)'
      BY <2>3, <3>4, OfferClean
    <3>5. ASSUME NEW i \in Calls, keysDone(p, i) PROVE PageInv(p)' /\ PageInv(q)'
      BY <2>3, <3>5, KeysClean
    <3>6. ASSUME NEW i \in Calls, flushStep(p, i) PROVE PageInv(p)' /\ PageInv(q)'
      BY <2>3, <3>6, FlushClean
    <3>7. ASSUME NEW i \in Calls, setupDone(p, i) PROVE PageInv(p)' /\ PageInv(q)'
      BY <2>3, <3>7, DoneClean
    <3>8. ASSUME NEW i \in Calls, channelOpen(p, i) PROVE PageInv(p)' /\ PageInv(q)'
      BY <2>3, <3>8, OpenClean
    <3>9. ASSUME NEW s \in deriving[p], finalizeKeyExchange(p, s)
          PROVE  PageInv(p)' /\ PageInv(q)'
      BY <2>3, <3>9, FinalizeClean
    <3> QED  BY <2>2, <3>1, <3>2, <3>3, <3>4, <3>5, <3>6, <3>7, <3>8, <3>9
  <2> QED  BY <2>3, <2>4
<1> QED  BY <1>1, <1>2

\* Both pages have each other, over the one connection.
SessionUp == \A p \in Pages : Paired(p) /\ entry[p].key = 0

LEMMA CleanSession == TypeOK /\ CleanInv /\ faults = 0 => (Established <=> SessionUp)
<1> SUFFICES ASSUME TypeOK, \A p \in Pages : PageInv(p) PROVE Established <=> SessionUp
  BY DEF CleanInv
<1>1. ASSUME SessionUp PROVE Established
  <2>1. ASSUME NEW p \in Pages
        PROVE  /\ 1 \in Calls /\ pc[p][1] = "paired" /\ mate[p][1] = 1 /\ entry[p].pcm = 1
               /\ entry[p].here /\ entry[p].coord = 1 /\ session[p] = 0
    <3>1. 1 \in Calls /\ pc[p][1] = "paired"
      BY <1>1 DEF SessionUp, Paired
    <3>2. mate[p][1] = 1 /\ entry[p].pcm = 1 /\ entry[p].here
      BY <3>1, PairedCall
    <3> QED  BY <1>1, <3>1, <3>2 DEF SessionUp, PageInv, PeerInv, SingleInv
  <2>2. \A p \in Pages : other(p) \in Pages
    BY PairFacts
  <2>3. \A p \in Pages : Linked(p, 1)
    BY <2>1, <2>2 DEF Linked, None
  <2>4. KeysAgree
    BY <1>1, <2>1, <2>2 DEF SessionUp, KeysAgree
  <2> QED  BY <2>1, <2>3, <2>4 DEF Established, Pages, None
<1>2. ASSUME Established, NEW p \in Pages PROVE Paired(p) /\ entry[p].key = 0
  <2>1. session[other(p)] = 0 /\ entry[p].pcm \in {None, 1}
    BY PairFacts DEF PageInv, SingleInv, PeerInv
  <2>2. entry[p].key = 0 /\ entry[p].pcm = 1 /\ pc[p][1] = "paired"
    BY <1>2, <2>1 DEF Established, KeysAgree, Linked
  <2>3. 1 \in Calls
    BY <2>2 DEF PageInv, PeerInv, At, None
  <2> QED  BY <2>2, <2>3 DEF Paired
<1> QED  BY <1>1, <1>2 DEF SessionUp

LEMMA CleanRests == TypeOK /\ CleanInv => RestingHasSession
<1> SUFFICES ASSUME TypeOK, CleanInv, Resting, faults = 0 PROVE Established
  BY DEF RestingHasSession
<1>1. \A p \in Pages : PageInv(p)
  BY DEF CleanInv
<1>2. ASSUME NEW p \in Pages
      PROVE  At(p) = "done" /\ Ahead(p) = {} /\ deriving[p] = {}
  <2>1. online["A"] /\ online["B"] /\ inbox[p] = <<>> /\ deriving[p] = {}
        /\ At(p) \in {"unused", "done"}
    BY DEF Resting, Pages, At
  <2>2. At(p) = "done"
    BY <1>1, <2>1 DEF PageInv, NoticeInv
  <2>3. pending[p] = <<>> /\ Flushing(p) = <<>>
    BY <1>1, <2>2 DEF PageInv, WaitingInv
  <2> QED  BY <2>1, <2>2, <2>3, ItemsEmpty DEF Ahead
<1>3. ASSUME NEW p \in Pages PROVE entry[p].key = 0
  <2>1. other(p) \in Pages
    BY PairFacts
  <2> QED  BY <1>1, <1>2, <2>1 DEF PageInv, KeyInv
<1>4. \A p \in Pages : Described(p) <=> Paired(p)
  BY <1>1, <1>2 DEF PageInv, DescriptionInv
<1>5. Paired("B") /\ Paired("A")
  <2>1. other("A") = "B" /\ other("B") = "A" /\ isInitiator("A") /\ ~isInitiator("B")
    BY DEF other, isInitiator
  <2>2. Described("B") /\ (Described("A") <=> Paired("B"))
    BY <1>2, <2>1 DEF Described, Pages
  <2> QED  BY <1>4, <2>2 DEF Pages
<1> QED  BY <1>3, <1>5, CleanSession DEF SessionUp, Pages

\* Two pages whose messages have all been handled have a session, if nothing
\* has failed: whatever the order in which they join and their messages come.
THEOREM RestsConnected == Spec => []RestingHasSession
<1>1. TypeOK /\ CleanInv /\ [Next]_vars => CleanInv'
  BY StepClean
<1>2. TypeOK /\ CleanInv => RestingHasSession
  BY CleanRests
<1> QED  BY InitClean, TypeCorrect, <1>1, <1>2, PTL DEF Spec

\* Executing a message takes no connection apart.
LEMMA NeverUnpaired ==
    ASSUME TypeOK, NEW p \in Pages, NEW m, NEW box,
           execute(box, p, m) \/ queueOrExecute(box, p, m)
    PROVE  \A r \in Pages, i \in Calls : pc[r][i] = "paired" => pc'[r][i] = "paired"
<1>1. ASSUME execute(box, p, m)
      PROVE  \A r \in Pages, i \in Calls : pc[r][i] = "paired" => pc'[r][i] = "paired"
  <2>1. pc' = pc \/ \E k : pc' = [pc EXCEPT ![p][k] = "paired"]
    BY <1>1 DEF execute, acceptDescription, pcVars
  <2>2. ASSUME NEW k, pc' = [pc EXCEPT ![p][k] = "paired"], NEW r \in Pages, NEW i \in Calls
        PROVE  pc'[r][i] = pc[r][i] \/ pc'[r][i] = "paired"
    BY <2>2 DEF TypeOK
  <2> QED  BY <2>1, <2>2
<1>2. queueOrExecute(box, p, m) => execute(box, p, m) \/ pc' = pc
  BY DEF queueOrExecute, pcVars
<1> QED  BY <1>1, <1>2

\* A session stays when a page handles a message.
LEMMA KeptByMessage ==
    ASSUME TypeOK, NEW p \in Pages, PageInv(p), Paired(p),
           onPeerThere(p) \/ onPeerLeft(p) \/ onOffer(p) \/ onSignal(p)
    PROVE  /\ entry' = entry
           /\ \A r \in Pages, i \in Calls : pc[r][i] = "paired" => pc'[r][i] = "paired"
<1>1. At(p) # "unused" /\ hasPeer(p)
  BY PairedCall DEF Paired, hasPeer
<1>2. ~onPeerLeft(p)
  <2> SUFFICES ASSUME onPeerLeft(p) PROVE FALSE
    OBVIOUS
  <2>1. inbox[p] # <<>> /\ Head(inbox[p]).type = "peer-left"
    BY DEF onPeerLeft, receive
  <2>2. Head(inbox[p]) \in Items(inbox[p])
    BY <2>1, PageTypes, ItemsTail
  <2>3. Head(inbox[p]) \in Expected(p)
    BY <1>1, <2>1, <2>2 DEF PageInv, NoticeInv
  <2> QED  BY <2>1, <2>3, ExpectedFacts
<1>3. CASE onPeerThere(p)
  BY <1>1, <1>3 DEF onPeerThere, pcVars
<1>4. CASE onOffer(p) \/ onSignal(p)
  <2>1. queueOrExecute(Taken(p), p, Head(inbox[p])) /\ entry' = entry
    BY <1>1, <1>4 DEF onOffer, onSignal
  <2> QED  BY <2>1, NeverUnpaired
<1> QED  BY <1>2, <1>3, <1>4

\* A session stays while a call goes on.
LEMMA KeptByCall ==
    ASSUME TypeOK, NEW p \in Pages, PageInv(p), Paired(p), NEW i \in Calls,
           \/ turnDone(p, i) \/ offerDone(p, i) \/ keysDone(p, i)
           \/ flushStep(p, i) \/ setupDone(p, i) \/ channelOpen(p, i)
    PROVE  /\ entry' = entry
           /\ \A r \in Pages, j \in Calls : pc[r][j] = "paired" => pc'[r][j] = "paired"
<1>1. ~turnDone(p, i) /\ ~offerDone(p, i)
  <2>1. At(p) \notin {"turn", "offer"}
    BY PairedCall DEF Paired
  <2>2. stage[p][i] # "unused" => At(p) = stage[p][i]
    BY OneCall
  <2> QED  BY <2>1, <2>2 DEF turnDone, offerDone
<1>2. CASE keysDone(p, i) \/ channelOpen(p, i)
  BY <1>2 DEF keysDone, channelOpen, pcVars
<1>3. CASE flushStep(p, i)
  <2>1. execute(inbox, p, Head(flush[p][i])) /\ entry' = entry
    BY <1>3 DEF flushStep
  <2> QED  BY <2>1, NeverUnpaired
<1>4. CASE setupDone(p, i)
  <2>1. entry' = entry /\ (pc' = pc \/ queueOrExecute(inbox, p, after[p][i]))
    BY <1>4 DEF setupDone, pcVars
  <2> QED  BY <2>1, NeverUnpaired
<1> QED  BY <1>1, <1>2, <1>3, <1>4

\* Without a fault no key is replaced and no connection is let go.
LEMMA SessionKept ==
    ASSUME TypeOK, CleanInv, [Next]_vars, faults' = 0
    PROVE  faults = 0 /\ (SessionUp => SessionUp')
<1>1. CASE UNCHANGED vars
  BY <1>1 DEF vars, SessionUp, Paired
<1> SUFFICES ASSUME Next PROVE faults = 0 /\ (SessionUp => SessionUp')
  BY <1>1
<1>2. faults = 0
  BY CalmStep
<1> SUFFICES ASSUME SessionUp PROVE SessionUp'
  BY <1>2
<1>3. /\ \A p \in Pages : PageInv(p)
      /\ \E p \in Pages :
            \/ join(p) \/ onPeerThere(p) \/ onPeerLeft(p) \/ onOffer(p) \/ onSignal(p)
            \/ \E i \in Calls : \/ turnDone(p, i) \/ offerDone(p, i) \/ keysDone(p, i)
                                 \/ flushStep(p, i) \/ setupDone(p, i) \/ channelOpen(p, i)
            \/ \E s \in deriving[p] : finalizeKeyExchange(p, s)
  BY CalmStep
<1>4. \A p \in Pages : Paired(p) /\ entry[p].key = 0
  BY DEF SessionUp
<1>5. PICK p \in Pages :
            \/ join(p) \/ onPeerThere(p) \/ onPeerLeft(p) \/ onOffer(p) \/ onSignal(p)
            \/ \E i \in Calls : \/ turnDone(p, i) \/ offerDone(p, i) \/ keysDone(p, i)
                                 \/ flushStep(p, i) \/ setupDone(p, i) \/ channelOpen(p, i)
            \/ \E s \in deriving[p] : finalizeKeyExchange(p, s)
  BY <1>3
<1>6. /\ \A r \in Pages : entry'[r].key = 0
      /\ \A r \in Pages, j \in Calls : pc[r][j] = "paired" => pc'[r][j] = "paired"
  <2>1. CASE join(p)
    BY <1>4, <2>1 DEF join, pcVars
  <2>2. CASE onPeerThere(p) \/ onPeerLeft(p) \/ onOffer(p) \/ onSignal(p)
    BY <1>3, <1>4, <2>2, KeptByMessage
  <2>3. ASSUME NEW i \in Calls,
               \/ turnDone(p, i) \/ offerDone(p, i) \/ keysDone(p, i)
               \/ flushStep(p, i) \/ setupDone(p, i) \/ channelOpen(p, i)
        PROVE  entry' = entry /\ \A r \in Pages, j \in Calls :
                                    pc[r][j] = "paired" => pc'[r][j] = "paired"
    BY <1>3, <1>4, <2>3, KeptByCall
  <2>4. ASSUME NEW s \in deriving[p], finalizeKeyExchange(p, s)
        PROVE  (\A r \in Pages : entry'[r].key = 0) /\ pc' = pc
    <3>1. s = 0 /\ p \in Pages
      BY <1>3 DEF PageInv, SingleInv
    <3> QED  BY <1>4, <2>4, <3>1 DEF finalizeKeyExchange, pcVars, TypeOK
  <2> QED  BY <1>4, <1>5, <2>1, <2>2, <2>3, <2>4
<1>7. \A r \in Pages : Paired(r)' /\ entry'[r].key = 0
  BY <1>4, <1>6 DEF Paired
<1> QED  BY <1>7 DEF SessionUp

\* Nothing that is still under way takes a session apart: a second notice, a
\* late answer or a repeated key packet.
THEOREM SessionStays == Spec => EstablishedStays
<1>1. TypeOK /\ CleanInv /\ [Next]_vars => (faults' = 0 => faults = 0 /\ (SessionUp => SessionUp'))
  BY SessionKept
<1>2. TypeOK /\ CleanInv /\ [Next]_vars => CleanInv'
  BY StepClean
<1>3. TypeOK /\ CleanInv /\ faults = 0 => (Established <=> SessionUp)
  BY CleanSession
<1>4. (faults = 0)' <=> faults' = 0
  OBVIOUS
<1> QED
  BY InitClean, TypeCorrect, <1>1, <1>2, <1>3, <1>4, PTL DEF Spec, EstablishedStays
=============================================================================
