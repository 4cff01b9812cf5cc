-------------------------- MODULE ClientPumpsProofs --------------------------
(***************************************************************************)
(* Proofs about ClientPumps, for every capacity of the Send channel and    *)
(* every number of messages: types, the two facts the goroutines rely on,  *)
(* and that a connection behaves as LossyFifo says.                        *)
(***************************************************************************)
EXTENDS ClientPumps, TLAPS, SequenceTheorems

-----------------------------------------------------------------------------
(* Sequences *)

\* A message that moves from the head of one queue to the end of another leaves
\* their concatenation as it is.
LEMMA MoveHead ==
    ASSUME NEW S, NEW f \in Seq(S), NEW s \in Seq(S), s # <<>>
    PROVE  Append(f, Head(s)) \o Tail(s) = f \o s
<1>1. Head(s) \in S /\ Tail(s) \in Seq(S)
  BY HeadTailProperties
<1>2. Append(f, Head(s)) = f \o <<Head(s)>>
  BY <1>1, AppendIsConcat
<1>3. <<Head(s)>> \in Seq(S)
  BY <1>1
<1>4. <<Head(s)>> \o Tail(s) = s
  <2>1. /\ Len(Tail(s)) = Len(s) - 1
        /\ \A i \in 1..Len(Tail(s)) : Tail(s)[i] = s[i + 1]
    BY HeadTailProperties
  <2>2. /\ <<Head(s)>> \o Tail(s) \in Seq(S)
        /\ Len(<<Head(s)>> \o Tail(s)) = Len(s)
    BY <1>1, <1>3, <2>1
  <2>3. ASSUME NEW i \in 1..Len(s) PROVE (<<Head(s)>> \o Tail(s))[i] = s[i]
    BY <1>1, <1>3, <2>1
  <2> QED  BY <2>2, <2>3, SeqEqual
<1>5. (f \o <<Head(s)>>) \o Tail(s) = f \o (<<Head(s)>> \o Tail(s))
  BY <1>1, <1>3, ConcatAssociative
<1> QED  BY <1>2, <1>4, <1>5

\* A message put at the end of the last of three queues is at the end of all.
LEMMA AppendToLast ==
    ASSUME NEW S, NEW r \in Seq(S), NEW s \in Seq(S), NEW m \in S
    PROVE  r \o Append(s, m) = Append(r \o s, m)
<1>1. <<m>> \in Seq(S) /\ r \o s \in Seq(S)
  BY ConcatProperties
<1>2. Append(s, m) = s \o <<m>> /\ Append(r \o s, m) = (r \o s) \o <<m>>
  BY <1>1, AppendIsConcat
<1>3. (r \o s) \o <<m>> = r \o (s \o <<m>>)
  BY <1>1, ConcatAssociative
<1> QED  BY <1>2, <1>3

\* The first part of a concatenation, and what is left behind it.
LEMMA SplitFirst ==
    ASSUME NEW S, NEW s \in Seq(S), NEW t \in Seq(S), NEW k \in 0..Len(s)
    PROVE  /\ SubSeq(s \o t, 1, k) = SubSeq(s, 1, k)
           /\ SubSeq(s \o t, k + 1, Len(s \o t)) = SubSeq(s, k + 1, Len(s)) \o t
<1>1. /\ s \o t \in Seq(S) /\ Len(s \o t) = Len(s) + Len(t)
      /\ \A i \in 1..Len(s) + Len(t) :
            (s \o t)[i] = IF i <= Len(s) THEN s[i] ELSE t[i - Len(s)]
  BY ConcatProperties
<1>2. Len(s) \in Nat /\ Len(t) \in Nat /\ k \in Nat /\ k <= Len(s)
  OBVIOUS
<1>3. SubSeq(s \o t, 1, k) = SubSeq(s, 1, k)
  <2>1. /\ SubSeq(s \o t, 1, k) \in Seq(S) /\ Len(SubSeq(s \o t, 1, k)) = k
        /\ \A i \in 1..k : SubSeq(s \o t, 1, k)[i] = (s \o t)[i]
    BY <1>1, <1>2
  <2>2. /\ SubSeq(s, 1, k) \in Seq(S) /\ Len(SubSeq(s, 1, k)) = k
        /\ \A i \in 1..k : SubSeq(s, 1, k)[i] = s[i]
    BY <1>2
  <2>3. \A i \in 1..k : SubSeq(s \o t, 1, k)[i] = SubSeq(s, 1, k)[i]
    BY <1>1, <1>2, <2>1, <2>2
  <2> QED  BY <2>1, <2>2, <2>3, SeqEqual
<1>4. SubSeq(s \o t, k + 1, Len(s \o t)) = SubSeq(s, k + 1, Len(s)) \o t
  <2> DEFINE rest == SubSeq(s, k + 1, Len(s))
             all == SubSeq(s \o t, k + 1, Len(s \o t))
  <2>1. /\ rest \in Seq(S) /\ Len(rest) = Len(s) - k
        /\ \A i \in 1..Len(s) - k : rest[i] = s[k + i]
    BY <1>2
  <2>2. /\ all \in Seq(S) /\ Len(all) = Len(s) + Len(t) - k
        /\ \A i \in 1..Len(s) + Len(t) - k : all[i] = (s \o t)[k + i]
    BY <1>1, <1>2
  <2>3. /\ rest \o t \in Seq(S) /\ Len(rest \o t) = Len(s) + Len(t) - k
        /\ \A i \in 1..Len(s) + Len(t) - k :
              (rest \o t)[i] = IF i <= Len(s) - k THEN rest[i] ELSE t[i - (Len(s) - k)]
    <3> HIDE DEF rest
    <3>1. /\ rest \o t \in Seq(S) /\ Len(rest \o t) = Len(rest) + Len(t)
          /\ \A i \in 1..Len(rest) + Len(t) :
                (rest \o t)[i] = IF i <= Len(rest) THEN rest[i] ELSE t[i - Len(rest)]
      BY <2>1, ConcatProperties
    <3>2. Len(rest) + Len(t) = Len(s) + Len(t) - k
      BY <1>2, <2>1
    <3> QED  BY <2>1, <3>1, <3>2
  <2> HIDE DEF rest, all
  <2>4. ASSUME NEW i \in 1..Len(s) + Len(t) - k PROVE all[i] = (rest \o t)[i]
    <3>1. /\ i \in Nat /\ all[i] = (s \o t)[k + i] /\ k + i \in 1..Len(s) + Len(t)
          /\ i <= Len(s) - k \/ i > Len(s) - k
      BY <1>2, <2>2
    <3>2. CASE i <= Len(s) - k
      BY <1>1, <1>2, <2>1, <2>3, <3>1, <3>2
    <3>3. CASE i > Len(s) - k
      BY <1>1, <1>2, <2>3, <3>1, <3>3
    <3> QED  BY <3>1, <3>2, <3>3
  <2>5. all = rest \o t
    BY <2>2, <2>3, <2>4, SeqEqual
  <2> QED  BY <2>5 DEF rest, all
<1> QED  BY <1>3, <1>4

-----------------------------------------------------------------------------
(* Types and the channel *)

\* What the pumps keep to besides the types: a frame exists while it is
\* written, and frames on their way end at messages on their way.
FrameInv ==
    IF writer = "drain"
    THEN frame # <<>> /\ 0 <= drain /\ drain <= Len(send)
    ELSE frame = <<>>

EndsInv == \A e \in ends : Len(got) < e /\ e <= Len(got) + Len(wire)

PumpsInv == FrameInv /\ EndsInv

\* The hub closes the channel of a client it has marked closed and whose
\* ReadPump has ended, and with nobody on the way to it.
ChannelInv ==
    sendClosed => /\ closed /\ reader \in {"close", "done"}
                  /\ \A g \in Goroutines : sender[g] \notin Messages



LEMMA InitInv == Init => TypeOK /\ PumpsInv /\ ChannelInv
<1> SUFFICES ASSUME Init PROVE TypeOK /\ PumpsInv /\ ChannelInv
  OBVIOUS
<1>1. <<>> \in Seq(Messages) /\ Len(<<>>) = 0
  OBVIOUS
<1>2. sender \in [Goroutines -> Messages \union {None, Elsewhere}]
  BY DEF Init
<1>3. /\ offered \in 0..MaxSends /\ drain \in Int /\ ends \subseteq Nat
      /\ Len(send) <= Capacity
  BY PumpsAssumption, <1>1 DEF Init
<1>4. TypeOK
  BY <1>1, <1>2, <1>3 DEF Init, TypeOK, Pcs
<1>5. PumpsInv /\ ChannelInv
  BY DEF Init, PumpsInv, FrameInv, EndsInv, ChannelInv
<1> QED  BY <1>4, <1>5

\* Handing a message to SendJSON.
LEMMA OfferType ==
    ASSUME TypeOK, NEW g \in Goroutines, offer(g)
    PROVE  /\ sender' \in [Goroutines -> Messages \union {None, Elsewhere}]
           /\ offered' \in 0..MaxSends
<1>1. offered + 1 \in Messages /\ offered' \in 0..MaxSends
  BY PumpsAssumption DEF TypeOK, offer, Messages
<1> QED  BY <1>1 DEF TypeOK, offer

\* The steps of the hub and of the goroutines that call SendJSON.
HubSide ==
    \/ register \/ registerRefused \/ unregister
    \/ workElsewhere \/ workDone \/ otherRegisters \/ otherUnregisters
    \/ \E g \in Goroutines : SendJSON(g) \/ queue(g)
    \/ shutdown \/ shutdownNotified \/ shutdownCloses

PumpSide == readerStep \/ writerStep \/ onmessage \/ clientLost

\* The hub's side leaves the network alone, and WritePump in its place but to
\* start it.
LEMMA HubSideFrame ==
    HubSide => /\ UNCHANGED <<frame, drain, wire, ends, got>>
               /\ \/ UNCHANGED writer
                  \/ reader = "register" /\ writer' = "select"
  BY DEF HubSide, register, registerRefused, unregister, workElsewhere, workDone,
     otherRegisters, otherUnregisters, SendJSON, queue, shutdown, shutdownNotified,
     shutdownCloses, pumpVars, netVars

\* WritePump has not been started before the registration.
StartInv == reader = "register" => writer = "register"

LEMMA HubSideType == TypeOK /\ HubSide => TypeOK'
<1> SUFFICES ASSUME TypeOK, HubSide PROVE TypeOK'
  OBVIOUS
<1> USE DEF TypeOK, Pcs
<1>1. CASE register
  BY <1>1 DEF register, netVars
<1>2. CASE registerRefused
  <2>1. offer("hub")
    BY <1>2 DEF registerRefused
  <2> QED  BY <1>2, <2>1, OfferType DEF registerRefused, netVars, Goroutines
<1>3. CASE unregister
  BY <1>3 DEF unregister, netVars
<1>4. CASE workElsewhere \/ workDone
  BY <1>4 DEF workElsewhere, workDone, pumpVars, netVars
<1>5. CASE otherRegisters \/ otherUnregisters
  BY <1>5 DEF otherRegisters, otherUnregisters, pumpVars, netVars
<1>6. ASSUME NEW g \in Goroutines, SendJSON(g) PROVE TypeOK'
  <2>1. offer(g)
    BY <1>6 DEF SendJSON
  <2> QED  BY <1>6, <2>1, OfferType DEF SendJSON, pumpVars, netVars
<1>7. ASSUME NEW g \in Goroutines, queue(g) PROVE TypeOK'
  <2>1. send' \in Seq(Messages) /\ Len(send') <= Capacity
    BY <1>7, PumpsAssumption DEF queue, full
  <2> QED  BY <1>7, <2>1 DEF queue, pumpVars, netVars
<1>8. CASE shutdown \/ shutdownNotified
  BY <1>8 DEF shutdown, shutdownNotified, pumpVars, netVars
<1>9. CASE shutdownCloses
  BY <1>9 DEF shutdownCloses, pumpVars
<1> QED  BY <1>1, <1>2, <1>3, <1>4, <1>5, <1>6, <1>7, <1>8, <1>9 DEF HubSide

LEMMA HubSideInv ==
    TypeOK /\ PumpsInv /\ StartInv /\ HubSide => PumpsInv' /\ StartInv'
<1> SUFFICES ASSUME TypeOK, PumpsInv, StartInv, HubSide PROVE PumpsInv' /\ StartInv'
  OBVIOUS
<1>1. EndsInv'
  BY HubSideFrame DEF PumpsInv, EndsInv
<1>2. Len(send) <= Len(send') /\ Len(send) \in Int /\ Len(send') \in Int
  <2>1. UNCHANGED send \/ \E g \in Goroutines : queue(g)
    BY DEF HubSide, register, registerRefused, unregister, workElsewhere, workDone,
       otherRegisters, otherUnregisters, SendJSON, shutdown, shutdownNotified,
       shutdownCloses
  <2>2. ASSUME NEW g \in Goroutines, queue(g)
        PROVE  Len(send) <= Len(send') /\ Len(send) \in Int /\ Len(send') \in Int
    BY <2>2 DEF queue, TypeOK
  <2>3. CASE UNCHANGED send
    BY <2>3 DEF TypeOK
  <2> QED  BY <2>1, <2>2, <2>3
<1>3. FrameInv'
  <2>1. drain \in Int
    BY DEF TypeOK
  <2> QED  BY <1>2, <2>1, HubSideFrame DEF PumpsInv, FrameInv, StartInv
<1>4. StartInv'
  BY DEF StartInv, HubSide, register, registerRefused, unregister, workElsewhere, workDone,
     otherRegisters, otherUnregisters, SendJSON, queue, shutdown, shutdownNotified,
     shutdownCloses, pumpVars, netVars
<1> QED  BY <1>1, <1>3, <1>4 DEF PumpsInv

\* What onmessage does to the queue of the network.
LEMMA OnMessageFacts ==
    ASSUME TypeOK, PumpsInv, onmessage
    PROVE  \E k \in 1..Len(wire) :
              /\ got' = got \o SubSeq(wire, 1, k)
              /\ wire' = SubSeq(wire, k + 1, Len(wire))
              /\ got' \in Seq(Messages) /\ wire' \in Seq(Messages)
              /\ Len(got') = Len(got) + k /\ Len(wire') = Len(wire) - k
              /\ ends' \subseteq ends
              /\ \A d \in ends' : Len(got) + k < d
<1>1. PICK e \in ends :
          /\ \A d \in ends : e <= d
          /\ got' = got \o SubSeq(wire, 1, e - Len(got))
          /\ wire' = SubSeq(wire, e - Len(got) + 1, Len(wire))
          /\ ends' = ends \ {e}
  BY DEF onmessage
<1> DEFINE k == e - Len(got)
<1>2. /\ Len(got) \in Nat /\ Len(wire) \in Nat /\ e \in Nat
      /\ k \in 1..Len(wire) /\ Len(got) + k = e
  BY DEF TypeOK, PumpsInv, EndsInv
<1>3. wire \in Seq(Messages) /\ got \in Seq(Messages) /\ ends \subseteq Nat
  BY DEF TypeOK
<1> HIDE DEF k
<1>4. SubSeq(wire, 1, k) \in Seq(Messages) /\ Len(SubSeq(wire, 1, k)) = k
  BY <1>2, <1>3
<1>5. /\ SubSeq(wire, k + 1, Len(wire)) \in Seq(Messages)
      /\ Len(SubSeq(wire, k + 1, Len(wire))) = Len(wire) - k
  BY <1>2, <1>3
<1>6. /\ got \o SubSeq(wire, 1, k) \in Seq(Messages)
      /\ Len(got \o SubSeq(wire, 1, k)) = Len(got) + k
  BY <1>3, <1>4, ConcatProperties
<1>7. \A d \in ends' : Len(got) + k < d
  BY <1>1, <1>2, <1>3
<1>8. got' = got \o SubSeq(wire, 1, k) /\ wire' = SubSeq(wire, k + 1, Len(wire))
  BY <1>1 DEF k
<1> QED  BY <1>1, <1>2, <1>4, <1>5, <1>6, <1>7, <1>8

\* Taking the next message out of the channel.
LEMMA TakeFacts ==
    ASSUME TypeOK, send # <<>>
    PROVE  /\ Head(send) \in Messages /\ Tail(send) \in Seq(Messages)
           /\ Len(Tail(send)) = Len(send) - 1 /\ Len(send) \in Nat /\ Len(send) > 0
  BY DEF TypeOK

LEMMA PumpSideInv ==
    TypeOK /\ PumpsInv /\ StartInv /\ PumpSide => TypeOK' /\ PumpsInv' /\ StartInv'
<1> SUFFICES ASSUME TypeOK, PumpsInv, StartInv, PumpSide
             PROVE  TypeOK' /\ PumpsInv' /\ StartInv'
  OBVIOUS
<1>1. CASE readerStep
  <2>1. TypeOK'
    BY <1>1 DEF readerStep, readFails, readerCloses, hubVars, netVars, TypeOK, Pcs
  <2>2. PumpsInv'
    BY <1>1 DEF readerStep, readFails, readerCloses, hubVars, netVars, PumpsInv,
       FrameInv, EndsInv
  <2>3. StartInv'
    BY <1>1 DEF readerStep, readFails, readerCloses, StartInv
  <2> QED  BY <2>1, <2>2, <2>3
<1>2. CASE receive
  <2>1. /\ Head(send) \in Messages /\ Tail(send) \in Seq(Messages)
        /\ Len(Tail(send)) = Len(send) - 1 /\ Len(send) \in Nat /\ Len(send) > 0
    BY <1>2, TakeFacts DEF receive
  <2>2. <<Head(send)>> \in Seq(Messages)
    BY <2>1
  <2>3. TypeOK'
    BY <1>2, <2>1, <2>2, PumpsAssumption DEF receive, waiting, netVars, TypeOK, Pcs
  <2>4. FrameInv'
    BY <1>2, <2>1 DEF receive, waiting, FrameInv
  <2>5. EndsInv' /\ StartInv'
    BY <1>2 DEF receive, netVars, PumpsInv, EndsInv, StartInv
  <2> QED  BY <2>3, <2>4, <2>5 DEF PumpsInv
<1>3. CASE drainOne
  <2>1. /\ Head(send) \in Messages /\ Tail(send) \in Seq(Messages)
        /\ Len(Tail(send)) = Len(send) - 1 /\ Len(send) \in Nat /\ Len(send) > 0
    BY <1>3, TakeFacts DEF drainOne
  <2>2. Append(frame, Head(send)) \in Seq(Messages) /\ Append(frame, Head(send)) # <<>>
    BY <2>1, AppendProperties DEF TypeOK
  <2>3. TypeOK'
    BY <1>3, <2>1, <2>2, PumpsAssumption DEF drainOne, written, netVars, TypeOK, Pcs
  <2>4. drain \in Int /\ drain > 0 /\ drain <= Len(send)
    BY <1>3 DEF drainOne, TypeOK, PumpsInv, FrameInv
  <2>5. FrameInv'
    BY <1>3, <2>1, <2>2, <2>4 DEF drainOne, written, FrameInv
  <2>6. EndsInv' /\ StartInv'
    BY <1>3 DEF drainOne, netVars, PumpsInv, EndsInv, StartInv
  <2> QED  BY <2>3, <2>5, <2>6 DEF PumpsInv
<1>4. CASE flush
  <2>1. /\ Len(got) \in Nat /\ Len(wire) \in Nat /\ Len(frame) \in Nat /\ Len(frame) > 0
        /\ wire \o frame \in Seq(Messages) /\ Len(wire \o frame) = Len(wire) + Len(frame)
    BY <1>4, ConcatProperties DEF flush, TypeOK, PumpsInv, FrameInv
  <2>2. wire' \in Seq(Messages) /\ ends' \subseteq Nat
    <3>1. wire \in Seq(Messages) /\ ends \subseteq Nat
      BY DEF TypeOK
    <3>2. Len(got) + Len(wire) + Len(frame) \in Nat
      BY <2>1
    <3>3. \/ wire' = wire \o frame /\ ends' = ends \union {Len(got) + Len(wire) + Len(frame)}
          \/ wire' = wire /\ ends' = ends
      BY <1>4 DEF flush
    <3> QED  BY <2>1, <3>1, <3>2, <3>3
  <2>3. TypeOK'
    BY <1>4, <2>2 DEF flush, hubVars, TypeOK, Pcs
  <2>4. \A e \in ends : e \in Nat /\ Len(got) < e /\ e <= Len(got) + Len(wire)
    BY DEF TypeOK, PumpsInv, EndsInv
  <2>5. EndsInv'
    BY <1>4, <2>1, <2>4 DEF flush, EndsInv
  <2>6. FrameInv' /\ StartInv'
    BY <1>4 DEF flush, hubVars, FrameInv, StartInv
  <2> QED  BY <2>3, <2>5, <2>6 DEF PumpsInv
<1>5. CASE sendChannelClosed \/ flushFails \/ pingFails
  <2>1. writerEnds /\ writer # "register"
    BY <1>5 DEF sendChannelClosed, flushFails, pingFails
  <2>2. TypeOK'
    BY <2>1 DEF writerEnds, hubVars, TypeOK, Pcs
  <2>3. PumpsInv' /\ StartInv'
    BY <2>1 DEF writerEnds, hubVars, PumpsInv, FrameInv, EndsInv, StartInv
  <2> QED  BY <2>2, <2>3
<1>6. CASE onmessage
  <2>1. PICK k \in 1..Len(wire) :
              /\ got' \in Seq(Messages) /\ wire' \in Seq(Messages)
              /\ Len(got') = Len(got) + k /\ Len(wire') = Len(wire) - k
              /\ ends' \subseteq ends
              /\ \A d \in ends' : Len(got) + k < d
    BY <1>6, OnMessageFacts
  <2>2. TypeOK'
    BY <1>6, <2>1 DEF onmessage, hubVars, pumpVars, TypeOK, Pcs
  <2>3. /\ Len(got) \in Nat /\ Len(wire) \in Nat
        /\ \A e \in ends : e \in Nat /\ e <= Len(got) + Len(wire)
    BY DEF TypeOK, PumpsInv, EndsInv
  <2>4. EndsInv'
    BY <2>1, <2>3 DEF EndsInv
  <2>5. FrameInv' /\ StartInv'
    BY <1>6 DEF onmessage, hubVars, pumpVars, PumpsInv, FrameInv, StartInv
  <2> QED  BY <2>2, <2>4, <2>5 DEF PumpsInv
<1>7. CASE clientLost
  <2>1. TypeOK'
    BY <1>7 DEF clientLost, hubVars, pumpVars, TypeOK, Pcs
  <2>2. PumpsInv' /\ StartInv'
    BY <1>7 DEF clientLost, hubVars, pumpVars, PumpsInv, FrameInv, EndsInv, StartInv
  <2> QED  BY <2>1, <2>2
<1> QED  BY <1>1, <1>2, <1>3, <1>4, <1>5, <1>6, <1>7 DEF PumpSide, writerStep

-----------------------------------------------------------------------------
(* Theorems about the goroutines *)

Inv == TypeOK /\ PumpsInv /\ StartInv

LEMMA InvInvariant == Spec => []Inv
<1>1. Init => Inv
  BY InitInv DEF Inv, Init, StartInv
<1>2. Inv /\ [Next]_vars => Inv'
  <2> SUFFICES ASSUME Inv, [Next]_vars PROVE Inv'
    OBVIOUS
  <2>1. CASE HubSide
    BY <2>1, HubSideType, HubSideInv DEF Inv
  <2>2. CASE PumpSide
    BY <2>2, PumpSideInv DEF Inv
  <2>3. CASE UNCHANGED vars
    BY <2>3 DEF vars, Inv, TypeOK, PumpsInv, FrameInv, EndsInv, StartInv, Pcs
  <2> QED  BY <2>1, <2>2, <2>3 DEF Next, HubSide, PumpSide
<1> QED  BY <1>1, <1>2, PTL DEF Spec

\* Every variable keeps its type, and the channel its capacity, whatever that is.
THEOREM TypeCorrect == Spec => []TypeOK
<1>1. Inv => TypeOK
  BY DEF Inv
<1> QED  BY <1>1, InvInvariant, PTL

\* WritePump counts the messages for a frame and then receives as many: it never
\* waits for one in the middle of a frame.
THEOREM FramesAreFinished == Spec => []DrainNeverBlocks
<1>1. Inv => DrainNeverBlocks
  BY DEF Inv, PumpsInv, FrameInv, DrainNeverBlocks
<1> QED  BY <1>1, InvInvariant, PTL

LEMMA NextChannelInv == TypeOK /\ ChannelInv /\ [Next]_vars => ChannelInv'
<1> SUFFICES ASSUME TypeOK, ChannelInv, [Next]_vars PROVE ChannelInv'
  OBVIOUS
<1> USE DEF ChannelInv
<1>1. CASE register \/ registerRefused
  <2>1. ~sendClosed /\ ~sendClosed'
    BY <1>1 DEF register, registerRefused
  <2> QED  BY <2>1
<1>2. CASE unregister
  <2>1. \A g \in Goroutines : sender[g] = None
    BY <1>2 DEF unregister, hubIdle, unlocked, Goroutines
  <2>2. reader' = "close" /\ UNCHANGED sender /\ (closed' \/ UNCHANGED sendClosed)
    BY <1>2 DEF unregister
  <2>3. None \notin Messages
    BY DEF None, Messages
  <2>4. ~sendClosed
    BY <1>2 DEF unregister
  <2> QED  BY <2>1, <2>2, <2>3, <2>4
<1>3. CASE workElsewhere \/ workDone
  <2>1. None \notin Messages /\ Elsewhere \notin Messages
    BY DEF None, Elsewhere, Messages
  <2>2. \A g \in Goroutines : sender'[g] \in {sender[g], None, Elsewhere}
    BY <1>3 DEF workElsewhere, workDone, TypeOK
  <2> QED  BY <1>3, <2>1, <2>2 DEF workElsewhere, workDone, pumpVars
<1>4. CASE otherRegisters \/ otherUnregisters
  BY <1>4 DEF otherRegisters, otherUnregisters, pumpVars
<1>5. ASSUME NEW g \in Goroutines, SendJSON(g) PROVE ChannelInv'
  <2>1. ~sendClosed /\ ~sendClosed'
    BY <1>5 DEF SendJSON
  <2> QED  BY <2>1
<1>6. ASSUME NEW g \in Goroutines, queue(g) PROVE ChannelInv'
  <2>1. None \notin Messages
    BY DEF None, Messages
  <2>2. \A h \in Goroutines : sender'[h] \in {sender[h], None}
    BY <1>6 DEF queue, TypeOK
  <2> QED  BY <1>6, <2>1, <2>2 DEF queue, pumpVars
<1>7. CASE shutdown \/ shutdownNotified
  BY <1>7 DEF shutdown, shutdownNotified, pumpVars
<1>8. CASE shutdownCloses
  BY <1>8 DEF shutdownCloses, pumpVars
<1>9. CASE readerStep
  BY <1>9 DEF readerStep, readFails, readerCloses, hubVars
<1>10. CASE writerStep
  BY <1>10 DEF writerStep, receive, drainOne, flush, sendChannelClosed, flushFails,
     pingFails, writerEnds, hubVars
<1>11. CASE onmessage \/ clientLost
  BY <1>11 DEF onmessage, clientLost, hubVars, pumpVars
<1>12. CASE UNCHANGED vars
  BY <1>12 DEF vars
<1> QED  BY <1>1, <1>2, <1>3, <1>4, <1>5, <1>6, <1>7, <1>8, <1>9, <1>10, <1>11, <1>12
         DEF Next

\* No goroutine sends on a closed channel, however the hub, the callback of the
\* subscription, Shutdown and other connections of the peer interleave.
THEOREM NeverPanics == Spec => []NoSendOnClosed
<1>1. Init => ChannelInv
  BY DEF Init, ChannelInv
<1>2. TypeOK /\ ChannelInv /\ [Next]_vars => ChannelInv'
  BY NextChannelInv
<1>3. ChannelInv => NoSendOnClosed
  BY DEF ChannelInv, NoSendOnClosed
<1> QED  BY <1>1, <1>2, <1>3, TypeCorrect, PTL DEF Spec

-----------------------------------------------------------------------------
(* Refinement *)

LEMMA QueuesAssociate ==
    \A r, s, t \in Seq(Messages) : (r \o s) \o t = r \o (s \o t)
  BY ConcatAssociative

\* The queues of a connection that is up, and how they can be taken together.
LEMMA UpQueue ==
    ASSUME TypeOK
    PROVE  /\ conn = "open" /\ client = "here" => undelivered = wire \o frame \o send
           /\ wire \o frame \o send = wire \o (frame \o send)
<1>1. wire \in Seq(Messages) /\ frame \in Seq(Messages) /\ send \in Seq(Messages)
  BY DEF TypeOK
<1>2. wire \o frame \o send = wire \o (frame \o send)
  BY <1>1, ConcatAssociative
<1> QED  BY <1>2 DEF undelivered

LEMMA InitRefines == Init => Fifo!Init
<1> SUFFICES ASSUME Init PROVE Fifo!Init
  OBVIOUS
<1>1. undelivered = <<>> \o <<>> \o <<>>
  BY DEF Init, undelivered
<1>2. <<>> \o <<>> \o <<>> = <<>>
  OBVIOUS
<1> QED  BY <1>1, <1>2 DEF Init, Fifo!Init

\* A message that SendJSON gets into the channel is accepted.
LEMMA QueueRefines ==
    ASSUME Inv, NEW g \in Goroutines, queue(g)
    PROVE  [Fifo!Next]_(Fifo!vars)
<1>1. sender[g] \in Messages /\ UNCHANGED <<conn, client, got, wire, frame>>
  BY DEF queue, pumpVars, netVars
<1>2. CASE full \/ ~(conn = "open" /\ client = "here")
  <2>1. undelivered' = undelivered
    <3>1. conn \in {"open", "closed"}
      BY DEF Inv, TypeOK
    <3> QED  BY <1>1, <1>2, <3>1 DEF queue, undelivered
  <2> QED  BY <1>1, <2>1 DEF Fifo!vars
<1>3. CASE ~full /\ conn = "open" /\ client = "here"
  <2>1. wire \o frame \in Seq(Messages) /\ send \in Seq(Messages)
    BY ConcatProperties DEF Inv, TypeOK
  <2>2. undelivered = wire \o frame \o send
    BY <1>3, UpQueue DEF Inv
  <2>3. undelivered' = wire \o frame \o Append(send, sender[g])
    BY <1>1, <1>3 DEF queue, undelivered
  <2>4. undelivered' = Append(undelivered, sender[g])
    BY <1>1, <2>1, <2>2, <2>3, AppendToLast
  <2>5. Fifo!Accept(sender[g])
    BY <1>1, <1>3, <2>4 DEF Fifo!Accept
  <2> QED  BY <1>1, <2>5 DEF Fifo!Next
<1> QED  BY <1>2, <1>3

\* Messages go from queue to queue on their way to the network.
LEMMA MovesRefine ==
    ASSUME Inv, receive \/ drainOne \/ flush
    PROVE  [Fifo!Next]_(Fifo!vars)
<1>1. /\ wire \in Seq(Messages) /\ frame \in Seq(Messages) /\ send \in Seq(Messages)
      /\ wire \o frame \in Seq(Messages)
  BY ConcatProperties DEF Inv, TypeOK
<1>2. UNCHANGED <<conn, client, got>>
  BY DEF receive, drainOne, flush, netVars
<1>3. CASE ~(conn = "open" /\ client = "here")
  <2>1. undelivered' = undelivered
    <3>1. conn \in {"open", "closed"}
      BY DEF Inv, TypeOK
    <3>2. CASE client # "here"
      BY <1>2, <3>2 DEF undelivered
    <3>3. CASE client = "here" /\ conn = "closed"
      <4>1. UNCHANGED wire
        BY <3>3 DEF receive, drainOne, flush, netVars
      <4> QED  BY <1>2, <3>3, <4>1 DEF undelivered
    <3> QED  BY <1>3, <3>1, <3>2, <3>3
  <2> QED  BY <1>2, <2>1 DEF Fifo!vars
<1>4. CASE conn = "open" /\ client = "here"
  <2>1. /\ undelivered = wire \o frame \o send
        /\ undelivered' = wire' \o frame' \o send'
    BY <1>2, <1>4 DEF undelivered
  <2>2. CASE receive \/ drainOne
    <3>1. send # <<>> /\ wire' = wire /\ send' = Tail(send)
      BY <2>2 DEF receive, drainOne, netVars
    <3>2. Head(send) \in Messages /\ Tail(send) \in Seq(Messages)
      BY <1>1, <3>1
    <3>3. frame' = Append(frame, Head(send))
      <4>1. CASE receive
        <5>1. frame = <<>> /\ frame' = <<Head(send)>>
          BY <4>1 DEF receive, Inv, PumpsInv, FrameInv
        <5> QED  BY <5>1
      <4>2. CASE drainOne
        BY <4>2 DEF drainOne, written
      <4> QED  BY <2>2, <4>1, <4>2
    <3>4. Append(frame, Head(send)) \in Seq(Messages)
      BY <1>1, <3>2
    <3>5. /\ wire \o Append(frame, Head(send)) \o Tail(send)
               = wire \o (Append(frame, Head(send)) \o Tail(send))
          /\ wire \o frame \o send = wire \o (frame \o send)
      <4>1. wire \o Append(frame, Head(send)) \o Tail(send)
               = wire \o (Append(frame, Head(send)) \o Tail(send))
        BY <1>1, <3>2, <3>4, QueuesAssociate, ZenonT(60)
      <4> QED  BY <4>1, UpQueue DEF Inv
    <3>6. Append(frame, Head(send)) \o Tail(send) = frame \o send
      BY <1>1, <3>1, MoveHead
    <3>7. undelivered' = undelivered
      BY <2>1, <3>1, <3>3, <3>5, <3>6
    <3> QED  BY <1>2, <3>7 DEF Fifo!vars
  <2>3. CASE flush
    <3>1. wire' = wire \o frame /\ frame' = <<>> /\ send' = send
      BY <1>4, <2>3 DEF flush, hubVars
    <3>2. (wire \o frame) \o <<>> = wire \o frame
      BY <1>1, ConcatEmptySeq
    <3>3. undelivered' = undelivered
      BY <2>1, <3>1, <3>2
    <3> QED  BY <1>2, <3>3 DEF Fifo!vars
  <2> QED  BY <2>2, <2>3
<1> QED  BY <1>3, <1>4

\* Closing the connection leaves the whole frames on their way, the first part
\* of what was undelivered.
LEMMA CloseRefines ==
    ASSUME Inv, conn' = "closed", UNCHANGED <<client, wire, got>>
    PROVE  [Fifo!Next]_(Fifo!vars)
<1>1. CASE ~(conn = "open" /\ client = "here")
  <2>1. undelivered' = undelivered
    BY <1>1 DEF undelivered, Inv, TypeOK
  <2> QED  BY <1>1, <2>1 DEF Fifo!vars
<1>2. CASE conn = "open" /\ client = "here"
  <2>1. /\ wire \in Seq(Messages) /\ frame \o send \in Seq(Messages)
        /\ frame \in Seq(Messages) /\ send \in Seq(Messages)
    BY ConcatProperties DEF Inv, TypeOK
  <2>2. undelivered = wire \o (frame \o send)
    BY <1>2, UpQueue DEF Inv
  <2>3. undelivered' = wire
    BY <1>2 DEF undelivered
  <2>4. Len(wire) \in 0..Len(wire) /\ SubSeq(wire, 1, Len(wire)) = wire
    BY <2>1
  <2>5. SubSeq(undelivered, 1, Len(wire)) = wire
    BY <2>1, <2>2, <2>4, SplitFirst
  <2>6. Len(wire) \in 0..Len(undelivered)
    BY <2>1, <2>2, ConcatProperties
  <2>7. Fifo!GiveUp(Len(wire))
    BY <2>3, <2>5 DEF Fifo!GiveUp
  <2> QED  BY <2>6, <2>7 DEF Fifo!Next
<1> QED  BY <1>1, <1>2

\* A frame that arrives is the first part of what was undelivered.
LEMMA OnMessageRefines ==
    ASSUME Inv, onmessage
    PROVE  [Fifo!Next]_(Fifo!vars)
<1>1. PICK k \in 1..Len(wire) :
          got' = got \o SubSeq(wire, 1, k) /\ wire' = SubSeq(wire, k + 1, Len(wire))
  BY OnMessageFacts DEF Inv
<1>2. /\ UNCHANGED <<conn, client, frame, send>> /\ client = "here"
  BY DEF onmessage, hubVars, pumpVars
<1>3. /\ wire \in Seq(Messages) /\ frame \in Seq(Messages) /\ send \in Seq(Messages)
      /\ frame \o send \in Seq(Messages)
      /\ Len(wire) \in Nat /\ k \in 0..Len(wire)
  BY ConcatProperties DEF Inv, TypeOK
<1>4. SubSeq(wire, k + 1, Len(wire)) \in Seq(Messages)
  BY <1>3
<1>5. /\ SubSeq(undelivered, 1, k) = SubSeq(wire, 1, k)
      /\ undelivered' = SubSeq(undelivered, k + 1, Len(undelivered))
      /\ k \in 1..Len(undelivered)
  <2>1. CASE conn = "closed"
    BY <1>1, <1>2, <2>1 DEF undelivered
  <2>2. CASE conn # "closed"
    <3>1. undelivered = wire \o (frame \o send)
      BY <1>2, <2>2, UpQueue DEF undelivered, Inv
    <3>2. undelivered' = wire' \o (frame \o send)
      <4>1. undelivered' = wire' \o frame \o send
        BY <1>2, <2>2 DEF undelivered
      <4>2. wire' \in Seq(Messages)
        BY <1>1, <1>4
      <4> QED  BY <1>3, <4>1, <4>2, QueuesAssociate
    <3>3. Len(undelivered) = Len(wire) + Len(frame \o send)
      BY <1>3, <3>1, ConcatProperties
    <3>4. k \in 1..Len(undelivered)
      BY <1>3, <3>3
    <3> QED  BY <1>1, <1>3, <3>1, <3>2, <3>4, SplitFirst
  <2> QED  BY <2>1, <2>2
<1>6. Fifo!Deliver(k)
  BY <1>1, <1>2, <1>5 DEF Fifo!Deliver
<1> QED  BY <1>5, <1>6 DEF Fifo!Next

LEMMA ClientLostRefines ==
    ASSUME Inv, clientLost
    PROVE  [Fifo!Next]_(Fifo!vars)
<1>1. undelivered \in Seq(Messages)
  BY ConcatProperties DEF Inv, TypeOK, undelivered
<1>2. undelivered' = <<>> /\ client' # "here" /\ UNCHANGED got
  BY DEF clientLost, undelivered
<1>3. SubSeq(undelivered, 1, 0) = <<>> /\ 0 \in 0..Len(undelivered)
  BY <1>1, SubSeqEmpty
<1>4. Fifo!GiveUp(0)
  BY <1>2, <1>3 DEF Fifo!GiveUp
<1> QED  BY <1>3, <1>4 DEF Fifo!Next

LEMMA NextRefines == Inv /\ [Next]_vars => [Fifo!Next]_(Fifo!vars)
<1> SUFFICES ASSUME Inv, [Next]_vars PROVE [Fifo!Next]_(Fifo!vars)
  OBVIOUS
<1>1. CASE UNCHANGED <<conn, client, send, frame, wire, got>>
  <2>1. undelivered' = undelivered
    BY <1>1 DEF undelivered
  <2> QED  BY <1>1, <2>1 DEF Fifo!vars
<1>2. CASE \E g \in Goroutines : queue(g)
  BY <1>2, QueueRefines
<1>3. CASE shutdownCloses
  <2>1. CASE entry = "me"
    BY <1>3, <2>1, CloseRefines DEF shutdownCloses
  <2>2. CASE entry # "me"
    BY <1>1, <1>3, <2>2 DEF shutdownCloses, pumpVars
  <2> QED  BY <2>1, <2>2
<1>4. CASE readerStep
  <2>1. CASE readFails
    BY <1>1, <2>1 DEF readFails, hubVars, netVars
  <2>2. CASE readerCloses
    BY <2>2, CloseRefines DEF readerCloses
  <2> QED  BY <1>4, <2>1, <2>2 DEF readerStep
<1>5. CASE writerStep
  <2>1. CASE receive \/ drainOne \/ flush
    BY <2>1, MovesRefine
  <2>2. CASE sendChannelClosed \/ flushFails \/ pingFails
    BY <2>2, CloseRefines DEF sendChannelClosed, flushFails, pingFails, writerEnds
  <2> QED  BY <1>5, <2>1, <2>2 DEF writerStep
<1>6. CASE onmessage
  BY <1>6, OnMessageRefines
<1>7. CASE clientLost
  BY <1>7, ClientLostRefines
<1>8. CASE \/ register \/ registerRefused \/ unregister
           \/ workElsewhere \/ workDone \/ otherRegisters \/ otherUnregisters
           \/ \E g \in Goroutines : SendJSON(g)
           \/ shutdown \/ shutdownNotified
  <2>1. UNCHANGED <<conn, client, send, frame, wire, got>>
    BY <1>8 DEF register, registerRefused, unregister, workElsewhere, workDone,
       otherRegisters, otherUnregisters, SendJSON, shutdown, shutdownNotified,
       pumpVars, netVars
  <2> QED  BY <1>1, <2>1
<1>9. CASE UNCHANGED vars
  BY <1>1, <1>9 DEF vars
<1> QED  BY <1>2, <1>3, <1>4, <1>5, <1>6, <1>7, <1>8, <1>9 DEF Next

\* Whatever the capacity and however the goroutines interleave, a connection
\* does nothing that LossyFifo does not allow: what the hub hands over and is
\* accepted arrives in order, once and without a gap.
THEOREM ImplementsLossyFifo == Spec => Fifo!Spec
<1>1. Init => Fifo!Init
  BY InitRefines
<1>2. Inv /\ [Next]_vars => [Fifo!Next]_(Fifo!vars)
  BY NextRefines
<1> QED  BY <1>1, <1>2, InvInvariant, PTL DEF Spec, Fifo!Spec
=============================================================================
