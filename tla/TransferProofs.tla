--------------------------- MODULE TransferProofs ---------------------------
(***************************************************************************)
(* Proofs about Transfer, for every file length, number of lanes, set of   *)
(* concurrent streams, number of pauses and environment.                   *)
(***************************************************************************)
EXTENDS Transfer, TLAPS, FiniteSetTheorems

\* What the actions of one suspended streamOutgoing call are.
StreamStep(s) ==
    \/ streamBegin(s) \/ streamSend(s) \/ streamReturn(s) \/ streamError(s)
    \/ streamProgress(s) \/ streamFinish(s) \/ streamFail(s)

-----------------------------------------------------------------------------
(* Type correctness *)

\* Appending and taking tails keep a queue of S a queue of S, and a queue of
\* S is a queue of every larger set.
LEMMA QueueFacts ==
    ASSUME NEW S, NEW q \in Seq(S)
    PROVE  /\ \A e \in S : Append(q, e) \in Seq(S)
           /\ q # <<>> => Head(q) \in S /\ Tail(q) \in Seq(S)
           /\ \A T : S \subseteq T => q \in Seq(T)
<1>1. \A e \in S : Append(q, e) \in Seq(S)
  OBVIOUS
<1>2. q # <<>> => Head(q) \in S /\ Tail(q) \in Seq(S)
  OBVIOUS
<1>3. \A T : S \subseteq T => q \in Seq(T)
  OBVIOUS
<1> QED  BY <1>1, <1>2, <1>3

\* A control frame that is sent or dropped leaves a queue of control frames.
LEMMA SendControlType ==
    ASSUME NEW S, NEW q \in Seq(S), NEW m \in S
    PROVE  sendControl(q, m) \in Seq(S)
  BY DEF sendControl

\* A control message is well formed.
LEMMA MsgType ==
    ASSUME NEW t \in {"metadata", "accept", "pause", "resume", "cancel"},
           NEW i \in 0..TotalChunks
    PROVE  Msg(t, i) \in ControlMsg
  BY DEF Msg, ControlMsg

\* Every control message but resume carries index 0, which is in range.
LEMMA ZeroIndex == 0 \in 0..TotalChunks
  BY TransferAssumption

\* TypeOK is not inductive alone: the index a stream is about to send is kept
\* in the file by the loop condition checked before the await.
StreamIndexOK ==
    \A s \in Streams :
        streams[s].pc \in {"drain", "saved"} => streams[s].index \in Chunk

\* The initial state is well typed.
LEMMA InitTypeOK == Init => TypeOK /\ StreamIndexOK
<1> SUFFICES ASSUME Init PROVE TypeOK /\ StreamIndexOK
  OBVIOUS
<1> USE TransferAssumption DEF Init
<1>1. out \in Outgoing
  BY DEF Outgoing
<1>2. inc \in Incoming
  BY DEF Incoming
<1>3. streams \in [Streams -> [pc : StreamPC, index : 0..TotalChunks]]
  BY ZeroIndex DEF StreamPC
<1>4. handler \in [Chunk -> HandlerPC]
  BY DEF HandlerPC
<1>5. stored \in [Chunk -> Nat]
  BY DEF NoChunks
<1>6. ui \in [sender : UIStatus, receiver : UIStatus]
  BY DEF UIStatus
<1>7. /\ lanes \in [Lane -> Seq(Chunk)]
      /\ toReceiver \in Seq(ControlMsg) /\ toSender \in Seq(ControlMsg)
  OBVIOUS
<1>8. StreamIndexOK
  BY DEF StreamIndexOK
<1> QED
  BY <1>1, <1>2, <1>3, <1>4, <1>5, <1>6, <1>7, <1>8 DEF TypeOK, OfferPhase

\* Every action keeps the types.  Only the conjuncts an action can disturb
\* are argued under it.
LEMMA NextTypeOK == TypeOK /\ StreamIndexOK /\ [Next]_vars => TypeOK'
<1> SUFFICES ASSUME TypeOK, StreamIndexOK, [Next]_vars PROVE TypeOK'
  OBVIOUS
<1> USE TransferAssumption
<1>a. \A t \in {"metadata", "accept", "pause", "resume", "cancel"} :
         \A i \in 0..TotalChunks : Msg(t, i) \in ControlMsg
  BY MsgType
<1>b. \A q \in Seq(ControlMsg) : \A m \in ControlMsg :
         sendControl(q, m) \in Seq(ControlMsg)
  BY SendControlType
<1>c. /\ \A t \in {"metadata", "accept", "pause", "cancel"} :
            /\ sendControl(toReceiver, Msg(t, 0)) \in Seq(ControlMsg)
            /\ sendControl(toSender, Msg(t, 0)) \in Seq(ControlMsg)
      /\ sendControl(toReceiver, Msg("resume", 0)) \in Seq(ControlMsg)
      /\ sendControl(toSender, Msg("resume", inc.contiguousIndex)) \in Seq(ControlMsg)
  BY <1>a, <1>b, ZeroIndex DEF TypeOK, Incoming
<1>d. /\ toSender # <<>> => /\ Tail(toSender) \in Seq(ControlMsg)
                             /\ Head(toSender) \in ControlMsg
      /\ toReceiver # <<>> => Tail(toReceiver) \in Seq(ControlMsg)
  BY QueueFacts DEF TypeOK
<1>e. ASSUME NEW i \in 0..TotalChunks, startStream(i)
      PROVE  streams' \in [Streams -> [pc : StreamPC, index : 0..TotalChunks]]
  BY <1>e DEF startStream, TypeOK, StreamPC
<1>1. CASE initiateFileTransfer
  <2>1. out' \in Outgoing /\ ui' \in [sender : UIStatus, receiver : UIStatus]
    BY <1>1 DEF TypeOK, initiateFileTransfer, sendFile, Outgoing, UIStatus
  <2>2. blob' \in [sender : BOOLEAN, receiver : BOOLEAN]
    BY <1>1, (TotalChunks > 0) \in BOOLEAN, Zenon DEF TypeOK, initiateFileTransfer, sendFile
  <2> QED
    BY <1>1, <1>c, <2>1, <2>2 DEF TypeOK, initiateFileTransfer, sendFile, OfferPhase
<1>2. CASE pauseSender
  <2>a. /\ ui \in [sender : UIStatus, receiver : UIStatus] /\ pauses \in Nat
        /\ ui' = [ui EXCEPT !.sender = "paused"] /\ pauses' = pauses + 1
    BY <1>2 DEF TypeOK, pauseSender
  <2>1. ui' \in [sender : UIStatus, receiver : UIStatus] /\ pauses' \in Nat
    BY <2>a DEF UIStatus
  <2>2. out' \in Outgoing /\ toReceiver' \in Seq(ControlMsg)
    BY <1>2, <1>c DEF TypeOK, pauseSender, Outgoing
  <2> QED
    BY <1>2, <2>1, <2>2 DEF TypeOK, pauseSender
<1>3. CASE resumeSender
  <2>1. resumePoint \in 0..TotalChunks
    BY DEF TypeOK, Outgoing, resumePoint
  <2> QED
    BY <1>3, <1>c, <1>e, <2>1 DEF TypeOK, resumeSender, Outgoing
<1>4. CASE cancelSender
  BY <1>4, <1>c DEF TypeOK, cancelSender, Outgoing
<1>5. CASE acceptPendingTransfer
  BY <1>5, <1>c DEF TypeOK, acceptPendingTransfer
<1>f. ASSUME cancelIncoming
      PROVE  /\ inc' \in Incoming /\ toSender' \in Seq(ControlMsg)
             /\ stored' \in [Chunk -> Nat]
  <2>1. inc' \in Incoming
    BY <1>f DEF TypeOK, cancelIncoming, Incoming
  <2>2. toSender' \in Seq(ControlMsg)
    BY <1>f, <1>c DEF TypeOK, cancelIncoming
  <2>3. stored' \in [Chunk -> Nat]
    BY <1>f DEF TypeOK, cancelIncoming, NoChunks
  <2> QED  BY <2>1, <2>2, <2>3
<1>6. CASE rejectPendingTransfer
  BY <1>6, <1>f DEF TypeOK, rejectPendingTransfer
<1>7. CASE pauseReceiver
  <2>a. /\ ui \in [sender : UIStatus, receiver : UIStatus] /\ pauses \in Nat
        /\ ui' = [ui EXCEPT !.receiver = "paused"] /\ pauses' = pauses + 1
    BY <1>7 DEF TypeOK, pauseReceiver
  <2>1. ui' \in [sender : UIStatus, receiver : UIStatus] /\ pauses' \in Nat
    BY <2>a DEF UIStatus
  <2>2. inc' \in Incoming
    BY <1>7 DEF TypeOK, pauseReceiver, Incoming
  <2>3. toSender' \in Seq(ControlMsg)
    BY <1>7, <1>c DEF TypeOK, pauseReceiver
  <2> QED
    BY <1>7, <2>1, <2>2, <2>3 DEF TypeOK, pauseReceiver
<1>8. CASE resumeReceiver
  BY <1>8, <1>c DEF TypeOK, resumeReceiver, Incoming
<1>9. CASE cancelReceiver
  BY <1>9, <1>f DEF TypeOK, cancelReceiver
<1>10. CASE handleAccept
  BY <1>10, <1>d, <1>e, ZeroIndex DEF TypeOK, handleAccept
<1>11. CASE handlePauseAtSender
  BY <1>11, <1>d DEF TypeOK, handlePauseAtSender, Outgoing
<1>12. CASE handleResumeAtSender
  <2>1. toSender # <<>> => resumeFrom(Head(toSender)) \in 0..TotalChunks
    BY <1>d DEF ControlMsg, resumeFrom
  <2> QED
    BY <1>12, <1>d, <1>e, <2>1 DEF TypeOK, handleResumeAtSender, Outgoing
<1>13. CASE handleCancelAtSender
  BY <1>13, <1>d DEF TypeOK, handleCancelAtSender, Outgoing, UIStatus
<1>14. ASSUME NEW s \in Streams, StreamStep(s) PROVE TypeOK'
  <2>1. \A i \in 0..TotalChunks : loopHead(i) \in StreamPC
    BY DEF loopHead, StreamPC
  <2>2. CASE streamBegin(s)
    BY <2>1, <2>2 DEF TypeOK, streamBegin, Outgoing
  <2>3. CASE streamSend(s)
    <3>1. streams[s].index \in Chunk
      BY <2>3 DEF streamSend, StreamIndexOK
    <3>2. lanes' \in [Lane -> Seq(Chunk)]
      <4> DEFINE i == streams[s].index
      <4>1. /\ lanes \in [Lane -> Seq(Chunk)] /\ i \in Chunk
            /\ lanes' = [lanes EXCEPT ![i % NumLanes] = Append(@, i)]
        BY <2>3, <3>1 DEF TypeOK, streamSend
      <4> HIDE DEF i
      <4>2. \A l \in Lane : Append(lanes[l], i) \in Seq(Chunk)
        BY <4>1, QueueFacts
      <4> QED  BY <4>1, <4>2
    <3>3. out' \in Outgoing
      <4>1. out \in Outgoing /\ out' = [out EXCEPT !.lastSentIndex = streams[s].index]
        BY <2>3 DEF TypeOK, streamSend
      <4>2. streams[s].index \in -1..(TotalChunks - 1)
        BY <3>1 DEF Chunk
      <4> QED  BY <4>1, <4>2 DEF Outgoing
    <3>4. /\ sent' \in SUBSET Chunk
          /\ streams' \in [Streams -> [pc : StreamPC, index : 0..TotalChunks]]
      BY <2>3, <3>1 DEF TypeOK, streamSend, StreamPC
    <3> QED
      BY <2>3, <3>2, <3>3, <3>4 DEF TypeOK, streamSend
  <2>4. CASE streamReturn(s)
    BY <2>4 DEF TypeOK, streamReturn, StreamPC
  <2>5. CASE streamError(s)
    BY <2>5 DEF TypeOK, streamError, Outgoing, StreamPC
  <2>6. CASE streamProgress(s)
    <3>1. streams[s].index + 1 \in 0..TotalChunks
      BY <2>6 DEF streamProgress, StreamIndexOK, Chunk
    <3>2. streams' \in [Streams -> [pc : StreamPC, index : 0..TotalChunks]]
      BY <2>1, <2>6, <3>1 DEF TypeOK, streamProgress
    <3>3. out' \in Outgoing /\ ui' \in [sender : UIStatus, receiver : UIStatus]
      BY <2>6 DEF TypeOK, streamProgress, Outgoing, UIStatus
    <3> QED
      BY <2>6, <3>2, <3>3 DEF TypeOK, streamProgress
  <2>7. CASE streamFinish(s)
    BY <2>7 DEF TypeOK, streamFinish, StreamPC, UIStatus
  <2>8. CASE streamFail(s)
    BY <2>8 DEF TypeOK, streamFail, StreamPC, UIStatus
  <2> QED
    BY <1>14, <2>2, <2>3, <2>4, <2>5, <2>6, <2>7, <2>8 DEF StreamStep
<1>15. CASE handleMetadata
  BY <1>15, <1>d DEF TypeOK, handleMetadata, OfferPhase
<1>16. CASE metadataDecrypted
  BY <1>16 DEF TypeOK, metadataDecrypted, OfferPhase, Incoming
<1>17. CASE metadataSaved
  BY <1>17 DEF TypeOK, metadataSaved, OfferPhase, UIStatus
<1>18. CASE handlePauseAtReceiver
  BY <1>18, <1>d DEF TypeOK, handlePauseAtReceiver, Incoming
<1>19. CASE handleResumeAtReceiver
  BY <1>19, <1>d DEF TypeOK, handleResumeAtReceiver
<1>20. CASE handleCancelAtReceiver
  <2>1. inc' \in Incoming /\ notice' \in BOOLEAN
    BY <1>20 DEF TypeOK, handleCancelAtReceiver, Incoming
  <2>2. stored' \in [Chunk -> Nat]
    BY <1>20 DEF TypeOK, handleCancelAtReceiver, NoChunks
  <2> QED
    BY <1>20, <1>d, <2>1, <2>2 DEF TypeOK, handleCancelAtReceiver
<1>21. CASE cancelNotice
  BY <1>21 DEF TypeOK, cancelNotice, UIStatus
<1>22. ASSUME NEW l \in Lane, handleDataMessage(l) PROVE TypeOK'
  <2>1. Head(lanes[l]) \in Chunk /\ Tail(lanes[l]) \in Seq(Chunk)
    BY <1>22, QueueFacts DEF TypeOK, handleDataMessage
  <2>2. lanes' \in [Lane -> Seq(Chunk)]
    BY <1>22, <2>1 DEF TypeOK, handleDataMessage
  <2>3. inc' \in Incoming
    <3>1. CASE acceptChunk(Head(lanes[l]))
      <4> DEFINE c == Head(lanes[l])
      <4>1. /\ inc \in Incoming /\ c \in Chunk
            /\ inc' = [inc EXCEPT !.receivedChunks = @ \union {c}]
        BY <1>22, <2>1, <3>1 DEF TypeOK, handleDataMessage
      <4> HIDE DEF c
      <4> QED  BY <4>1 DEF Incoming
    <3>2. CASE ~acceptChunk(Head(lanes[l]))
      BY <1>22, <3>2 DEF TypeOK, handleDataMessage
    <3> QED  BY <3>1, <3>2
  <2>4. handler' \in [Chunk -> HandlerPC] /\ stored' \in [Chunk -> Nat]
    <3>1. CASE acceptChunk(Head(lanes[l]))
      <4> DEFINE c == Head(lanes[l])
      <4>1. /\ handler \in [Chunk -> HandlerPC] /\ stored \in [Chunk -> Nat]
            /\ c \in Chunk
            /\ handler' = [handler EXCEPT ![c] = "saving"]
            /\ stored' = [stored EXCEPT ![c] = @ + 1] \/ stored' = stored
        BY <1>22, <2>1, <3>1 DEF TypeOK, handleDataMessage
      <4> HIDE DEF c
      <4> QED  BY <4>1 DEF HandlerPC
    <3>2. CASE ~acceptChunk(Head(lanes[l]))
      BY <1>22, <3>2 DEF TypeOK, handleDataMessage
    <3> QED  BY <3>1, <3>2
  <2> QED
    BY <1>22, <2>2, <2>3, <2>4 DEF TypeOK, handleDataMessage
<1>23. ASSUME NEW c \in Chunk, chunkSaved(c) PROVE TypeOK'
  <2>1. handler' \in [Chunk -> HandlerPC]
    BY <1>23 DEF TypeOK, chunkSaved, HandlerPC
  <2>2. inc' \in Incoming
    <3>1. PICK n \in 0..TotalChunks :
             inc' = [inc EXCEPT !.chunksReceivedCount = @ + 1,
                                !.contiguousIndex = n]
      BY <1>23 DEF chunkSaved
    <3>2. inc \in Incoming /\ inc.chunksReceivedCount + 1 \in Nat
      BY DEF TypeOK, Incoming
    <3> QED  BY <3>1, <3>2 DEF Incoming
  <2> QED
    BY <1>23, <2>1, <2>2 DEF TypeOK, chunkSaved
<1>24. ASSUME NEW c \in Chunk, chunkRecorded(c) PROVE TypeOK'
  BY <1>24 DEF TypeOK, chunkRecorded, HandlerPC, Incoming, UIStatus
<1>25. ASSUME NEW c \in Chunk, reassembleFile(c) PROVE TypeOK'
  <2>1. handler' \in [Chunk -> HandlerPC]
    BY <1>25 DEF TypeOK, reassembleFile, HandlerPC
  <2>2. stored' \in [Chunk -> Nat]
    BY <1>25 DEF TypeOK, reassembleFile, NoChunks
  <2> QED
    BY <1>25, <2>1, <2>2 DEF TypeOK, reassembleFile
<1>26. ASSUME NEW c \in Chunk, reassembled(c) PROVE TypeOK'
  BY <1>26 DEF TypeOK, reassembled, HandlerPC, NoChunks
<1>27. ASSUME NEW c \in Chunk, onComplete(c) PROVE TypeOK'
  BY <1>27 DEF TypeOK, onComplete, HandlerPC, UIStatus
<1>28. ASSUME NEW c \in Chunk, onFailed(c) PROVE TypeOK'
  BY <1>28 DEF TypeOK, onFailed, HandlerPC, UIStatus
<1>29. CASE connLoss
  <2>1. lanes' \in [Lane -> Seq(Chunk)]
    BY <1>29 DEF connLoss
  <2>2. toReceiver' \in Seq(ControlMsg) /\ toSender' \in Seq(ControlMsg)
    BY <1>29 DEF connLoss
  <2> QED
    BY <1>29, <2>1, <2>2 DEF TypeOK, connLoss
<1>30. CASE UNCHANGED vars
  BY <1>30 DEF TypeOK, vars
<1> QED
  BY <1>1, <1>2, <1>3, <1>4, <1>5, <1>6, <1>7, <1>8, <1>9, <1>10, <1>11,
     <1>12, <1>13, <1>14, <1>15, <1>16, <1>17, <1>18, <1>19, <1>20, <1>21,
     <1>22, <1>23, <1>24, <1>25, <1>26, <1>27, <1>28, <1>29, <1>30
     DEF Next, UserStep, LoopStep, StreamStep

\* A suspended stream stays at a chunk of the file, or past the last one.
LEMMA NextStreamIndexOK ==
    TypeOK /\ StreamIndexOK /\ [Next]_vars => StreamIndexOK'
<1> SUFFICES ASSUME TypeOK, StreamIndexOK, [Next]_vars PROVE StreamIndexOK'
  OBVIOUS
<1> USE TransferAssumption
<1>1. ASSUME NEW i \in 0..TotalChunks, loopHead(i) \in {"drain", "saved"}
      PROVE  i \in Chunk
  BY <1>1 DEF loopHead, Chunk
<1>2. ASSUME NEW i, startStream(i) PROVE StreamIndexOK'
  BY <1>2 DEF startStream, StreamIndexOK, TypeOK
<1>3. ASSUME NEW s \in Streams, StreamStep(s) PROVE StreamIndexOK'
  <2>1. CASE streamBegin(s)
    BY <2>1, <1>1 DEF streamBegin, StreamIndexOK, TypeOK
  <2>2. CASE streamSend(s)
    BY <2>2 DEF streamSend, StreamIndexOK, TypeOK
  <2>3. CASE streamProgress(s)
    <3>1. streams[s].index + 1 \in 0..TotalChunks
      BY <2>3 DEF streamProgress, StreamIndexOK, Chunk
    <3> QED
      BY <2>3, <3>1, <1>1 DEF streamProgress, StreamIndexOK, TypeOK
  <2>4. CASE streamReturn(s) \/ streamError(s) \/ streamFinish(s) \/ streamFail(s)
    <3>1. PICK p \in {"idle", "fail"} : streams' = [streams EXCEPT ![s].pc = p]
      BY <2>4 DEF streamReturn, streamError, streamFinish, streamFail
    <3> QED  BY <3>1 DEF StreamIndexOK, TypeOK
  <2> QED
    BY <1>3, <2>1, <2>2, <2>3, <2>4 DEF StreamStep
<1>4. CASE resumeSender \/ handleAccept \/ handleResumeAtSender
  BY <1>4, <1>2 DEF resumeSender, handleAccept, handleResumeAtSender, StreamIndexOK
<1>5. CASE UNCHANGED streams
  BY <1>5 DEF StreamIndexOK
<1> QED
  BY <1>3, <1>4, <1>5 DEF Next, UserStep, LoopStep, StreamStep, vars,
    initiateFileTransfer, sendFile,
     pauseSender, cancelSender, acceptPendingTransfer, rejectPendingTransfer,
     pauseReceiver, resumeReceiver, cancelReceiver, handlePauseAtSender,
     handleCancelAtSender, handleMetadata, metadataDecrypted, metadataSaved,
     handlePauseAtReceiver, handleResumeAtReceiver, handleCancelAtReceiver,
     cancelNotice, handleDataMessage, chunkSaved, chunkRecorded,
     reassembleFile, reassembled, onComplete, onFailed, connLoss

\* Every reachable state is well typed: indices, queues, program counters and
\* page statuses of the transfer stay in their domains.
THEOREM TypeCorrect == Spec => []TypeOK
  BY InitTypeOK, NextTypeOK, NextStreamIndexOK, PTL DEF Spec

-----------------------------------------------------------------------------
(* What was sent.  A stream that starts at index i needs every chunk below i *)
(* to have been sent; it starts at 0, behind lastSentIndex, or at an index   *)
(* the receiver has everything below of, and the receiver has only what was  *)
(* sent.  That ties the streams, lastSentIndex, the lanes, the receiver's    *)
(* set and the 'resume' frames on their way into one invariant.              *)

Prefix(i, S) == \A k \in 0..(i - 1) : k \in S

\* A control frame that may lawfully be on its way to the sender.
SoundMsg == {m \in ControlMsg : m.type = "resume" => Prefix(m.index, inc.receivedChunks)}

StreamSound(s) ==
    /\ streams[s].pc # "idle" => Prefix(streams[s].index, sent)
    /\ streams[s].pc = "saved" => streams[s].index \in sent
    /\ streams[s].pc = "finish" => streams[s].index = TotalChunks

SenderSound ==
    /\ \A s \in Streams : StreamSound(s)
    /\ Prefix(out.lastSentIndex + 1, sent)
    /\ ui.sender = "completed" => sent = Chunk

ReceiverSound ==
    /\ lanes \in [Lane -> Seq(sent)]
    /\ inc.receivedChunks \subseteq sent
    /\ Prefix(inc.contiguousIndex, inc.receivedChunks)
    /\ toSender \in Seq(SoundMsg)

\* Nothing is sent, received or counted at first.
LEMMA InitSound == Init => SenderSound /\ ReceiverSound
<1> SUFFICES ASSUME Init PROVE SenderSound /\ ReceiverSound
  OBVIOUS
<1> USE TransferAssumption DEF Init, Prefix
<1>1. SenderSound
  BY DEF SenderSound, StreamSound
<1>2. ReceiverSound
  BY DEF ReceiverSound
<1> QED  BY <1>1, <1>2

\* What is sent stays sent, what is received stays received.
LEMMA OnlyGrows ==
    ASSUME TypeOK, [Next]_vars
    PROVE  sent \subseteq sent' /\ inc.receivedChunks \subseteq inc'.receivedChunks
<1>1. sent \subseteq sent'
  <2>1. CASE \E s \in Streams : streamSend(s)
    BY <2>1 DEF streamSend
  <2>2. CASE UNCHANGED sent
    BY <2>2
  <2> QED
    BY <2>1, <2>2 DEF Next, UserStep, LoopStep, vars, initiateFileTransfer, sendFile,
     pauseSender, resumeSender, cancelSender, acceptPendingTransfer,
     rejectPendingTransfer, pauseReceiver, resumeReceiver, cancelReceiver,
     handleAccept, handlePauseAtSender, handleResumeAtSender,
     handleCancelAtSender, streamBegin, streamReturn, streamError,
     streamProgress, streamFinish, streamFail,
     handleMetadata, metadataDecrypted, metadataSaved,
     handlePauseAtReceiver, handleResumeAtReceiver, handleCancelAtReceiver,
     cancelNotice, handleDataMessage, chunkSaved, chunkRecorded,
     reassembleFile, reassembled, onComplete, onFailed, connLoss
<1>2. inc.receivedChunks \subseteq inc'.receivedChunks
  <2> USE DEF TypeOK, Incoming
  <2>1. CASE \E l \in Lane : handleDataMessage(l)
    BY <2>1 DEF handleDataMessage
  <2>2. CASE \E c \in Chunk : chunkSaved(c) \/ chunkRecorded(c)
    BY <2>2 DEF chunkSaved, chunkRecorded
  <2>3. CASE rejectPendingTransfer \/ cancelReceiver
    BY <2>3 DEF rejectPendingTransfer, cancelReceiver, cancelIncoming
  <2>4. CASE pauseReceiver \/ resumeReceiver \/ handlePauseAtReceiver
              \/ handleCancelAtReceiver \/ metadataDecrypted
    BY <2>4 DEF pauseReceiver, resumeReceiver, handlePauseAtReceiver,
                handleCancelAtReceiver, metadataDecrypted
  <2>5. CASE UNCHANGED inc
    BY <2>5
  <2> QED
    BY <2>1, <2>2, <2>3, <2>4, <2>5 DEF Next, UserStep, LoopStep, vars,
     initiateFileTransfer, sendFile, pauseSender, resumeSender, cancelSender, acceptPendingTransfer,
     handleAccept, handlePauseAtSender, handleResumeAtSender,
     handleCancelAtSender, streamBegin, streamSend, streamReturn, streamError,
     streamProgress, streamFinish, streamFail, handleMetadata, metadataSaved,
     handleResumeAtReceiver, cancelNotice,
     reassembleFile, reassembled, onComplete, onFailed, connLoss
<1> QED  BY <1>1, <1>2

\* Every step keeps the sender half of Sound: what lies behind a stream has been sent.
LEMMA NextSenderSound ==
    ASSUME TypeOK, TypeOK', StreamIndexOK, SenderSound, ReceiverSound, [Next]_vars
    PROVE  SenderSound'
<1> USE TransferAssumption
<1>g. sent \subseteq sent' /\ sent' \subseteq Chunk
  BY OnlyGrows DEF TypeOK
<1>1. ASSUME NEW i \in 0..TotalChunks, Prefix(i, sent), startStream(i)
      PROVE  \A s \in Streams : StreamSound(s)'
  BY <1>1, <1>g DEF startStream, SenderSound, StreamSound, Prefix, TypeOK
<1>2. ASSUME UNCHANGED <<streams>> PROVE \A s \in Streams : StreamSound(s)'
  BY <1>2, <1>g DEF SenderSound, StreamSound, Prefix
<1>3. ASSUME out'.lastSentIndex = out.lastSentIndex
      PROVE  Prefix(out.lastSentIndex + 1, sent)'
  BY <1>3, <1>g DEF SenderSound, Prefix
<1>4. ASSUME ui'.sender # "completed" \/ ui'.sender = ui.sender
      PROVE  (ui.sender = "completed" => sent = Chunk)'
  BY <1>4, <1>g DEF SenderSound, TypeOK
<1>5. ASSUME NEW s \in Streams, StreamStep(s) PROVE SenderSound'
  <2>t. /\ streams \in [Streams -> [pc : StreamPC, index : 0..TotalChunks]]
        /\ out \in Outgoing /\ ui \in [sender : UIStatus, receiver : UIStatus]
    BY DEF TypeOK
  <2>h. \A i \in 0..TotalChunks : /\ loopHead(i) # "saved"
                                  /\ loopHead(i) = "finish" => i = TotalChunks
    BY DEF loopHead
  <2>o. \A r \in Streams : StreamSound(r)
    BY DEF SenderSound
  <2>1. CASE streamBegin(s)
    <3>1. \A r \in Streams : StreamSound(r)'
      BY <2>1, <2>t, <2>h, <2>o, <1>g DEF streamBegin, StreamSound, Prefix
    <3> QED
      BY <2>1, <2>t, <3>1, <1>3, <1>4 DEF streamBegin, SenderSound, Outgoing
  <2>2. CASE streamSend(s)
    <3> DEFINE i == streams[s].index
    <3>1. i \in 0..TotalChunks /\ Prefix(i, sent) /\ sent' = sent \union {i}
      BY <2>2, <2>o, <2>t DEF streamSend, StreamSound
    <3>2. out'.lastSentIndex = i
      BY <2>2, <2>t DEF streamSend, Outgoing
    <3>3. streams' = [streams EXCEPT ![s].pc = "saved"]
      BY <2>2 DEF streamSend
    <3> HIDE DEF i
    <3>4. Prefix(i + 1, sent')
      BY <3>1 DEF Prefix
    <3>5. i = streams[s].index
      BY DEF i
    <3>6. \A r \in Streams : StreamSound(r)'
      BY <3>1, <3>3, <3>5, <2>t, <2>o DEF StreamSound, Prefix
    <3>7. ui' = ui
      BY <2>2 DEF streamSend
    <3> QED
      BY <3>2, <3>4, <3>6, <3>7, <1>4 DEF SenderSound
  <2>3. CASE streamReturn(s) \/ streamError(s) \/ streamFail(s)
    <3>1. PICK p \in {"idle", "fail"} : streams' = [streams EXCEPT ![s].pc = p]
      BY <2>3 DEF streamReturn, streamError, streamFail
    <3>2. \A r \in Streams : StreamSound(r)'
      <4> SUFFICES ASSUME NEW r \in Streams PROVE StreamSound(r)'
        OBVIOUS
      <4>1. streams[s].pc # "idle"
        BY <2>3 DEF streamReturn, streamError, streamFail
      <4> QED
        BY <3>1, <4>1, <2>t, <2>o, <1>g DEF StreamSound, Prefix
    <3>3. out'.lastSentIndex = out.lastSentIndex
      BY <2>3, <2>t DEF streamReturn, streamError, streamFail, Outgoing
    <3>4. ui'.sender # "completed" \/ ui'.sender = ui.sender
      BY <2>3, <2>t DEF streamReturn, streamError, streamFail
    <3> QED
      BY <3>2, <3>3, <3>4, <1>3, <1>4 DEF SenderSound
  <2>4. CASE streamProgress(s)
    <3> DEFINE i == streams[s].index
    <3>1. i \in Chunk /\ Prefix(i, sent) /\ i \in sent
      BY <2>4, <2>o DEF streamProgress, StreamSound, StreamIndexOK
    <3>2. /\ streams' = [streams EXCEPT ![s] = [pc |-> loopHead(i + 1), index |-> i + 1]]
          /\ sent' = sent
      BY <2>4 DEF streamProgress
    <3> HIDE DEF i
    <3>3. Prefix(i + 1, sent) /\ i + 1 \in 0..TotalChunks
      BY <3>1 DEF Prefix, Chunk
    <3>4. \A r \in Streams : StreamSound(r)'
      BY <3>2, <3>3, <2>t, <2>h, <2>o DEF StreamSound, Prefix
    <3>5. out'.lastSentIndex = out.lastSentIndex /\ ui'.sender = "transferring"
      BY <2>4, <2>t DEF streamProgress, Outgoing
    <3> QED
      BY <3>4, <3>5, <1>3, <1>4 DEF SenderSound
  <2>5. CASE streamFinish(s)
    <3>1. \A r \in Streams : StreamSound(r)'
      BY <2>5, <2>t, <2>o, <1>g DEF streamFinish, StreamSound, Prefix
    <3>2. Prefix(TotalChunks, sent)
      BY <2>5, <2>o DEF streamFinish, StreamSound
    <3>3. sent' = Chunk
      BY <2>5, <3>2, <1>g DEF streamFinish, Prefix, Chunk
    <3> QED
      BY <2>5, <3>1, <3>3, <1>3 DEF streamFinish, SenderSound
  <2> QED
    BY <1>5, <2>1, <2>2, <2>3, <2>4, <2>5 DEF StreamStep
<1>6. CASE resumeSender
  <2>1. Prefix(resumePoint, sent) /\ resumePoint \in 0..TotalChunks
    BY DEF SenderSound, resumePoint, TypeOK, Outgoing
  <2>2. out'.lastSentIndex = out.lastSentIndex /\ ui' = ui
    BY <1>6 DEF resumeSender, TypeOK, Outgoing
  <2> QED
    BY <1>6, <1>1, <1>3, <1>4, <2>1, <2>2 DEF resumeSender, SenderSound
<1>7. CASE handleAccept
  <2>1. Prefix(0, sent)
    BY DEF Prefix
  <2> QED
    BY <1>7, <1>1, <1>2, <1>3, <1>4, <2>1, ZeroIndex DEF handleAccept, SenderSound
<1>8. CASE handleResumeAtSender
  <2> DEFINE m == Head(toSender)
  <2>1. m \in SoundMsg /\ m.type = "resume"
    BY <1>8, QueueFacts DEF handleResumeAtSender, ReceiverSound
  <2>2. resumeFrom(m) \in 0..TotalChunks /\ Prefix(resumeFrom(m), sent)
    BY <2>1 DEF SoundMsg, ControlMsg, resumeFrom, Prefix, ReceiverSound
  <2>3. out'.lastSentIndex = out.lastSentIndex /\ ui' = ui
    BY <1>8 DEF handleResumeAtSender, TypeOK, Outgoing
  <2> QED
    BY <1>8, <1>1, <1>2, <1>3, <1>4, <2>2, <2>3 DEF handleResumeAtSender, SenderSound
<1>9. CASE UNCHANGED streams /\ out'.lastSentIndex = out.lastSentIndex
            /\ (ui'.sender # "completed" \/ ui'.sender = ui.sender)
  BY <1>9, <1>2, <1>3, <1>4 DEF SenderSound
<1>10. CASE initiateFileTransfer \/ pauseSender \/ cancelSender \/ acceptPendingTransfer
            \/ rejectPendingTransfer \/ pauseReceiver \/ resumeReceiver
            \/ cancelReceiver \/ handlePauseAtSender \/ handleCancelAtSender
  <2>1. out'.lastSentIndex = out.lastSentIndex
    BY <1>10 DEF TypeOK, Outgoing, initiateFileTransfer, sendFile, pauseSender, cancelSender,
       acceptPendingTransfer, rejectPendingTransfer, pauseReceiver,
       resumeReceiver, cancelReceiver, handlePauseAtSender, handleCancelAtSender
  <2>2. ui'.sender # "completed" \/ ui'.sender = ui.sender
    BY <1>10 DEF TypeOK, initiateFileTransfer, sendFile, pauseSender, cancelSender,
       acceptPendingTransfer, rejectPendingTransfer, pauseReceiver,
       resumeReceiver, cancelReceiver, handlePauseAtSender, handleCancelAtSender
  <2>3. UNCHANGED streams
    BY <1>10 DEF initiateFileTransfer, sendFile, pauseSender, cancelSender,
       acceptPendingTransfer, rejectPendingTransfer, pauseReceiver,
       resumeReceiver, cancelReceiver, handlePauseAtSender, handleCancelAtSender
  <2> QED  BY <2>1, <2>2, <2>3, <1>9
<1>11. ASSUME UNCHANGED <<out, streams>>, ui'.sender = ui.sender
       PROVE  SenderSound'
  BY <1>11, <1>9
<1>12. CASE handleMetadata \/ metadataDecrypted \/ metadataSaved
            \/ handlePauseAtReceiver \/ handleResumeAtReceiver
            \/ handleCancelAtReceiver \/ cancelNotice \/ connLoss
            \/ UNCHANGED vars
  BY <1>11, <1>12 DEF TypeOK, handleMetadata, metadataDecrypted, metadataSaved,
     handlePauseAtReceiver, handleResumeAtReceiver, handleCancelAtReceiver,
     cancelNotice, connLoss, vars
<1>13. ASSUME NEW l \in Lane, handleDataMessage(l) PROVE SenderSound'
  BY <1>11, <1>13 DEF handleDataMessage
<1>14. ASSUME NEW c \in Chunk,
              \/ chunkSaved(c) \/ chunkRecorded(c) \/ reassembleFile(c)
              \/ reassembled(c) \/ onComplete(c) \/ onFailed(c)
       PROVE  SenderSound'
  BY <1>11, <1>14 DEF TypeOK, chunkSaved, chunkRecorded, reassembleFile,
     reassembled, onComplete, onFailed
<1> QED
  BY <1>5, <1>6, <1>7, <1>8, <1>10, <1>12, <1>13, <1>14
     DEF Next, UserStep, LoopStep, StreamStep

\* Every step keeps the receiver half of Sound: what lies below a resume index
\* has been received.
LEMMA NextReceiverSound ==
    ASSUME TypeOK, TypeOK', StreamIndexOK, SenderSound, ReceiverSound, [Next]_vars
    PROVE  ReceiverSound'
<1> USE TransferAssumption
<1>g. sent \subseteq sent' /\ inc.receivedChunks \subseteq inc'.receivedChunks
  BY OnlyGrows
<1>s. SoundMsg \subseteq SoundMsg'
  BY <1>g DEF SoundMsg, Prefix
<1>q. toSender \in Seq(SoundMsg')
  BY <1>s, QueueFacts DEF ReceiverSound
<1>1. ASSUME toSender' = toSender \/ (toSender # <<>> /\ toSender' = Tail(toSender))
      PROVE  toSender' \in Seq(SoundMsg')
  BY <1>1, <1>q, QueueFacts
<1>2. ASSUME NEW t \in {"accept", "pause", "cancel"},
             toSender' = sendControl(toSender, Msg(t, 0))
      PROVE  toSender' \in Seq(SoundMsg')
  <2>1. Msg(t, 0) \in SoundMsg'
    BY MsgType, ZeroIndex DEF SoundMsg, Msg
  <2> QED  BY <1>2, <1>q, <2>1, SendControlType
<1>3. ASSUME inc'.contiguousIndex = inc.contiguousIndex
      PROVE  Prefix(inc.contiguousIndex, inc.receivedChunks)'
  BY <1>3, <1>g DEF ReceiverSound, Prefix
<1>4. ASSUME UNCHANGED lanes PROVE lanes' \in [Lane -> Seq(sent')]
  BY <1>4, <1>g, QueueFacts DEF ReceiverSound
<1>5. ASSUME inc'.receivedChunks = inc.receivedChunks
      PROVE  inc'.receivedChunks \subseteq sent'
  BY <1>5, <1>g DEF ReceiverSound
<1>6. ASSUME UNCHANGED <<lanes, inc>>,
             toSender' = toSender \/ (toSender # <<>> /\ toSender' = Tail(toSender))
      PROVE  ReceiverSound'
  BY <1>1, <1>3, <1>4, <1>5, <1>6 DEF ReceiverSound
<1>7. CASE initiateFileTransfer \/ pauseSender \/ resumeSender \/ cancelSender
           \/ handleAccept \/ handlePauseAtSender \/ handleResumeAtSender
           \/ handleCancelAtSender \/ handleMetadata \/ metadataSaved
           \/ handleResumeAtReceiver \/ cancelNotice \/ UNCHANGED vars
  BY <1>6, <1>7 DEF initiateFileTransfer, sendFile, pauseSender, resumeSender, cancelSender,
     handleAccept, handlePauseAtSender, handleResumeAtSender,
     handleCancelAtSender, handleMetadata, metadataSaved,
     handleResumeAtReceiver, cancelNotice, vars
<1>8. ASSUME NEW s \in Streams, StreamStep(s) PROVE ReceiverSound'
  <2>1. CASE streamSend(s)
    <3> DEFINE i == streams[s].index
    <3>1. /\ i \in sent' /\ UNCHANGED <<inc, toSender>>
          /\ lanes' = [lanes EXCEPT ![i % NumLanes] = Append(@, i)]
      BY <2>1 DEF streamSend
    <3> HIDE DEF i
    <3>2. \A l \in Lane : lanes[l] \in Seq(sent') /\ Append(lanes[l], i) \in Seq(sent')
      BY <3>1, <1>g, QueueFacts DEF ReceiverSound
    <3>3. lanes' \in [Lane -> Seq(sent')]
      BY <3>1, <3>2 DEF ReceiverSound
    <3> QED
      BY <3>1, <3>3, <1>1, <1>3, <1>5 DEF ReceiverSound
  <2>2. CASE ~streamSend(s)
    BY <1>6, <1>8, <2>2 DEF StreamStep, streamBegin, streamReturn, streamError,
       streamProgress, streamFinish, streamFail
  <2> QED  BY <2>1, <2>2
<1>9. ASSUME UNCHANGED lanes,
             inc'.receivedChunks = inc.receivedChunks,
             inc'.contiguousIndex = inc.contiguousIndex,
             toSender' \in Seq(SoundMsg')
      PROVE  ReceiverSound'
  BY <1>3, <1>4, <1>5, <1>9 DEF ReceiverSound
<1>10. CASE metadataDecrypted \/ handlePauseAtReceiver \/ handleCancelAtReceiver
            \/ acceptPendingTransfer
  <2>1. /\ UNCHANGED lanes /\ inc'.receivedChunks = inc.receivedChunks
        /\ inc'.contiguousIndex = inc.contiguousIndex
    BY <1>10, ZenonT(60) DEF TypeOK, Incoming, metadataDecrypted, handlePauseAtReceiver,
       handleCancelAtReceiver, acceptPendingTransfer
  <2>2. toSender' = toSender \/ toSender' = sendControl(toSender, Msg("accept", 0))
    BY <1>10 DEF metadataDecrypted, handlePauseAtReceiver,
       handleCancelAtReceiver, acceptPendingTransfer
  <2> QED  BY <2>1, <2>2, <1>1, <1>2, <1>9
<1>11. CASE rejectPendingTransfer \/ cancelReceiver
  <2>1. /\ UNCHANGED lanes /\ inc'.receivedChunks = inc.receivedChunks
        /\ inc'.contiguousIndex = inc.contiguousIndex
    BY <1>11 DEF TypeOK, Incoming, rejectPendingTransfer, cancelReceiver, cancelIncoming
  <2>2. toSender' = toSender \/ toSender' = sendControl(toSender, Msg("cancel", 0))
    BY <1>11 DEF rejectPendingTransfer, cancelReceiver, cancelIncoming
  <2> QED  BY <2>1, <2>2, <1>1, <1>2, <1>9
<1>12. CASE pauseReceiver
  <2>1. /\ UNCHANGED lanes /\ inc'.receivedChunks = inc.receivedChunks
        /\ inc'.contiguousIndex = inc.contiguousIndex
    BY <1>12 DEF TypeOK, Incoming, pauseReceiver
  <2>2. toSender' = toSender \/ toSender' = sendControl(toSender, Msg("pause", 0))
    BY <1>12 DEF pauseReceiver
  <2> QED  BY <2>1, <2>2, <1>1, <1>2, <1>9
<1>13. CASE resumeReceiver
  <2>1. /\ UNCHANGED lanes /\ inc'.receivedChunks = inc.receivedChunks
        /\ inc'.contiguousIndex = inc.contiguousIndex
    BY <1>13 DEF TypeOK, Incoming, resumeReceiver
  <2>2. Msg("resume", inc.contiguousIndex) \in SoundMsg'
    <3>1. Msg("resume", inc.contiguousIndex) \in ControlMsg
      BY MsgType DEF TypeOK, Incoming
    <3> QED
      BY <3>1, <2>1 DEF SoundMsg, Msg, ReceiverSound
  <2>3. toSender' \in Seq(SoundMsg')
    BY <1>13, <1>q, <2>2, SendControlType DEF resumeReceiver
  <2> QED  BY <2>1, <2>3, <1>9
<1>14. ASSUME NEW l \in Lane, handleDataMessage(l) PROVE ReceiverSound'
  <2> DEFINE c == Head(lanes[l])
  <2>1. /\ c \in sent /\ Tail(lanes[l]) \in Seq(sent)
        /\ lanes' = [lanes EXCEPT ![l] = Tail(@)]
        /\ UNCHANGED <<toSender, sent>>
    BY <1>14, QueueFacts DEF handleDataMessage, ReceiverSound
  <2>2. /\ inc'.contiguousIndex = inc.contiguousIndex
        /\ inc'.receivedChunks \subseteq inc.receivedChunks \union {c}
    BY <1>14 DEF handleDataMessage, TypeOK, Incoming
  <2> HIDE DEF c
  <2>3. lanes' \in [Lane -> Seq(sent')]
    BY <2>1 DEF ReceiverSound
  <2> QED
    BY <2>1, <2>2, <2>3, <1>1, <1>3 DEF ReceiverSound
<1>15. ASSUME NEW c \in Chunk, chunkSaved(c) PROVE ReceiverSound'
  <2>1. PICK n \in 0..TotalChunks :
           /\ advanceContiguous(n)
           /\ inc' = [inc EXCEPT !.chunksReceivedCount = @ + 1,
                                 !.contiguousIndex = n]
    BY <1>15 DEF chunkSaved
  <2>2. /\ inc'.contiguousIndex = n /\ inc'.receivedChunks = inc.receivedChunks
        /\ inc.contiguousIndex \in 0..TotalChunks
    BY <2>1 DEF TypeOK, Incoming
  <2>3. Prefix(n, inc.receivedChunks)
    BY <2>1, <2>2 DEF advanceContiguous, ReceiverSound, Prefix
  <2>4. UNCHANGED <<lanes, toSender>>
    BY <1>15 DEF chunkSaved
  <2> QED
    BY <2>2, <2>3, <2>4, <1>1, <1>4, <1>5 DEF ReceiverSound
<1>16. ASSUME NEW c \in Chunk,
              \/ chunkRecorded(c) \/ reassembleFile(c)
              \/ reassembled(c) \/ onComplete(c) \/ onFailed(c)
       PROVE  ReceiverSound'
  <2>1. /\ UNCHANGED <<lanes, toSender>> /\ inc'.receivedChunks = inc.receivedChunks
        /\ inc'.contiguousIndex = inc.contiguousIndex
    BY <1>16 DEF TypeOK, Incoming, chunkRecorded, reassembleFile, reassembled,
       onComplete, onFailed
  <2> QED  BY <2>1, <1>1, <1>9
<1>17. CASE connLoss
  <2>1. lanes' \in [Lane -> Seq(sent')] /\ toSender' \in Seq(SoundMsg') /\ inc' = inc
    BY <1>17 DEF connLoss
  <2> QED  BY <2>1, <1>3, <1>5 DEF ReceiverSound
<1> QED
  BY <1>7, <1>8, <1>10, <1>11, <1>12, <1>13, <1>14, <1>15, <1>16, <1>17
     DEF Next, UserStep, LoopStep, StreamStep

\* The invariant that carries both ends.
Sound == TypeOK /\ StreamIndexOK /\ SenderSound /\ ReceiverSound

\* Sound is an invariant.
LEMMA SoundInvariant == Spec => []Sound
<1>1. Init => Sound
  BY InitTypeOK, InitSound DEF Sound
<1>2. Sound /\ [Next]_vars => Sound'
  BY NextTypeOK, NextStreamIndexOK, NextSenderSound, NextReceiverSound DEF Sound
<1> QED  BY <1>1, <1>2, PTL DEF Spec

\* Whatever the pauses, resumes, restarts and interruptions, the sender's page
\* says 'completed' only after streamOutgoing has sent every chunk.
THEOREM SenderCompleteness == Spec => []CompletedMeansAllSent
<1>1. Sound => CompletedMeansAllSent
  BY DEF Sound, SenderSound, CompletedMeansAllSent
<1> QED  BY <1>1, SoundInvariant, PTL

\* resumeTransfer never asks the sender to skip a chunk the receiver lacks.
THEOREM ResumeNeverSkips == Spec => []ResumePointSound
<1>1. Sound => ResumePointSound
  <2> SUFFICES ASSUME Sound PROVE ResumePointSound
    OBVIOUS
  <2>1. \A m \in 1..Len(toSender) : toSender[m] \in SoundMsg
    BY DEF Sound, ReceiverSound
  <2>2. \A k \in 0..(inc.contiguousIndex - 1) : k \in inc.receivedChunks
    BY DEF Sound, ReceiverSound, Prefix
  <2> QED
    BY <2>1, <2>2 DEF ResumePointSound, SoundMsg, Prefix
<1> QED  BY <1>1, SoundInvariant, PTL

-----------------------------------------------------------------------------
(* Counting.  chunksReceivedCount is the number of chunks whose save has     *)
(* returned, so it reaches totalChunks only when every chunk is saved.       *)

Counted == {c \in Chunk : c \in inc.receivedChunks /\ handler[c] # "saving"}

CountSound ==
    /\ \A c \in Chunk : handler[c] # "idle" => c \in inc.receivedChunks
    /\ inc.chunksReceivedCount = Cardinality(Counted)
    /\ ReassembleOnlyWhenAllSaved

\* The chunks are counted by TotalChunks.
LEMMA ChunkFinite == IsFiniteSet(Chunk) /\ Cardinality(Chunk) = TotalChunks
  BY FS_Interval, TransferAssumption DEF Chunk

\* CountSound holds at first.
LEMMA InitCountSound == Init => CountSound
<1> SUFFICES ASSUME Init PROVE CountSound
  OBVIOUS
<1>1. Counted = {}
  BY DEF Init, Counted
<1> QED
  BY <1>1, FS_EmptySet DEF Init, CountSound, ReassembleOnlyWhenAllSaved

\* Every step keeps CountSound: chunksReceivedCount counts the saves that have
\* returned.
LEMMA NextCountSound ==
    ASSUME TypeOK, TypeOK', Sound, CountSound, [Next]_vars
    PROVE  CountSound'
<1> USE TransferAssumption
<1>1. ASSUME UNCHANGED handler, inc'.receivedChunks = inc.receivedChunks,
             inc'.chunksReceivedCount = inc.chunksReceivedCount
      PROVE  CountSound'
  BY <1>1 DEF CountSound, Counted, ReassembleOnlyWhenAllSaved
<1>2. CASE UNCHANGED <<handler, inc>>
  BY <1>1, <1>2
<1>3. CASE rejectPendingTransfer \/ cancelReceiver \/ pauseReceiver
           \/ resumeReceiver \/ metadataDecrypted \/ handlePauseAtReceiver
           \/ handleCancelAtReceiver
  BY <1>1, <1>3 DEF rejectPendingTransfer, cancelReceiver, cancelIncoming,
     pauseReceiver, resumeReceiver, metadataDecrypted, handlePauseAtReceiver,
     handleCancelAtReceiver, TypeOK, Incoming
<1>4. ASSUME NEW l \in Lane, handleDataMessage(l) PROVE CountSound'
  <2> DEFINE c == Head(lanes[l])
  <2>1. CASE ~acceptChunk(c)
    BY <1>2, <1>4, <2>1 DEF handleDataMessage
  <2>2. CASE acceptChunk(c)
    <3>1. /\ c \in Chunk /\ c \notin inc.receivedChunks
          /\ handler' = [handler EXCEPT ![c] = "saving"]
      BY <1>4, <2>2, QueueFacts DEF handleDataMessage, acceptChunk, TypeOK
    <3>2. /\ inc'.receivedChunks = inc.receivedChunks \union {c}
          /\ inc'.chunksReceivedCount = inc.chunksReceivedCount
      BY <1>4, <2>2 DEF handleDataMessage, TypeOK, Incoming
    <3> HIDE DEF c
    <3>3. Counted' = Counted
      BY <3>1, <3>2 DEF Counted, TypeOK
    <3>4. \A d \in Chunk : handler'[d] # "idle" => d \in inc'.receivedChunks
      BY <3>1, <3>2 DEF CountSound, TypeOK
    <3>5. \A d \in Chunk : handler'[d] \notin {"verify", "hash", "complete", "abort"}
      BY <3>1 DEF CountSound, ReassembleOnlyWhenAllSaved, TypeOK
    <3> QED
      BY <3>2, <3>3, <3>4, <3>5 DEF CountSound, ReassembleOnlyWhenAllSaved
  <2> QED  BY <2>1, <2>2
<1>5. ASSUME NEW c \in Chunk, chunkSaved(c) PROVE CountSound'
  <2>1. /\ handler[c] = "saving" /\ handler' = [handler EXCEPT ![c] = "saved"]
        /\ inc'.receivedChunks = inc.receivedChunks
        /\ inc'.chunksReceivedCount = inc.chunksReceivedCount + 1
    BY <1>5 DEF chunkSaved, TypeOK, Incoming
  <2>2. c \in inc.receivedChunks /\ c \notin Counted
    BY <2>1 DEF CountSound, Counted
  <2>3. Counted' = Counted \union {c}
    BY <2>1, <2>2 DEF Counted, TypeOK
  <2>4. IsFiniteSet(Counted)
    BY ChunkFinite, FS_Subset DEF Counted
  <2>5. Cardinality(Counted') = Cardinality(Counted) + 1
    BY <2>2, <2>3, <2>4, FS_AddElement
  <2> QED
    BY <2>1, <2>2, <2>5 DEF CountSound, ReassembleOnlyWhenAllSaved, TypeOK
<1>6. ASSUME NEW c \in Chunk, chunkRecorded(c) PROVE CountSound'
  <2>1. /\ handler[c] = "saved"
        /\ handler' = [handler EXCEPT ![c] = IF allCounted THEN "verify" ELSE "idle"]
        /\ inc'.receivedChunks = inc.receivedChunks
        /\ inc'.chunksReceivedCount = inc.chunksReceivedCount
    BY <1>6 DEF chunkRecorded, TypeOK, Incoming
  <2>2. Counted' = Counted
    BY <2>1 DEF Counted, TypeOK
  <2>3. \A d \in Chunk : handler'[d] # "idle" => d \in inc'.receivedChunks
    BY <2>1 DEF CountSound, TypeOK
  <2>4. allCounted => Counted = Chunk
    <3>1. Cardinality(Counted) <= TotalChunks
          /\ (Cardinality(Counted) = TotalChunks => Counted = Chunk)
      BY ChunkFinite, FS_Subset DEF Counted
    <3>2. IsFiniteSet(Counted)
      BY ChunkFinite, FS_Subset DEF Counted
    <3>3. Cardinality(Counted) \in Nat
      BY <3>2, FS_CardinalityType
    <3> QED
      BY <3>1, <3>3 DEF allCounted, CountSound
  <2>5. ReassembleOnlyWhenAllSaved'
    <3>1. CASE allCounted
      BY <2>1, <2>4, <3>1 DEF ReassembleOnlyWhenAllSaved, Counted, TypeOK
    <3>2. CASE ~allCounted
      BY <2>1, <3>2 DEF ReassembleOnlyWhenAllSaved, CountSound, TypeOK
    <3> QED  BY <3>1, <3>2
  <2> QED
    BY <2>1, <2>2, <2>3, <2>5 DEF CountSound
<1>7. ASSUME NEW c \in Chunk,
             reassembleFile(c) \/ reassembled(c) \/ onComplete(c) \/ onFailed(c)
      PROVE  CountSound'
  <2>1. PICK p \in {"hash", "abort", "complete", "idle"} :
           handler' = [handler EXCEPT ![c] = p]
    BY <1>7 DEF reassembleFile, reassembled, onComplete, onFailed
  <2>2. /\ handler[c] \in {"verify", "hash", "complete", "abort"} /\ inc' = inc
    BY <1>7 DEF reassembleFile, reassembled, onComplete, onFailed
  <2>3. Counted' = Counted
    BY <2>1, <2>2 DEF Counted, TypeOK
  <2> QED
    BY <2>1, <2>2, <2>3 DEF CountSound, ReassembleOnlyWhenAllSaved, TypeOK
<1> QED
  BY <1>2, <1>3, <1>4, <1>5, <1>6, <1>7 DEF Next, UserStep, LoopStep, vars,
     initiateFileTransfer, sendFile, pauseSender, resumeSender, cancelSender, acceptPendingTransfer,
     handleAccept, handlePauseAtSender, handleResumeAtSender,
     handleCancelAtSender, streamBegin, streamSend, streamReturn, streamError,
     streamProgress, streamFinish, streamFail, handleMetadata, metadataSaved,
     handleResumeAtReceiver, cancelNotice, connLoss

\* reassembleFile runs only when every chunk of the file has arrived and has
\* been saved, in whatever order the lanes delivered them.
THEOREM ReassemblySeesWholeFile == Spec => []ReassembleOnlyWhenAllSaved
<1>1. Init => CountSound
  BY InitCountSound
<1>2. Sound /\ Sound' /\ CountSound /\ [Next]_vars => CountSound'
  BY NextCountSound DEF Sound
<1>3. CountSound => ReassembleOnlyWhenAllSaved
  BY DEF CountSound
<1> QED  BY <1>1, <1>2, <1>3, SoundInvariant, PTL DEF Spec

-----------------------------------------------------------------------------
(* Storage.  Chunks lie in IndexedDB only while the transfer is active or a  *)
(* reassembly has still to read or clear them.                               *)

StoredHeld ==
    stored # NoChunks =>
        inc.active \/ \E c \in Chunk : handler[c] \in {"verify", "hash"}

\* Every step keeps StoredHeld: a stored chunk has a transfer or a suspended
\* handler that will clear it.
LEMMA NextStoredHeld ==
    ASSUME TypeOK, StoredHeld, [Next]_vars
    PROVE  StoredHeld'
<1>1. ASSUME UNCHANGED <<stored, handler>>, inc.active => inc'.active
      PROVE  StoredHeld'
  BY <1>1 DEF StoredHeld, NoChunks
<1>2. ASSUME stored' = NoChunks PROVE StoredHeld'
  BY <1>2 DEF StoredHeld, NoChunks
<1>3. CASE UNCHANGED <<stored, handler, inc>>
  BY <1>1, <1>3
<1>4. CASE pauseReceiver \/ resumeReceiver \/ metadataDecrypted \/ handlePauseAtReceiver
  BY <1>1, <1>4 DEF pauseReceiver, resumeReceiver, metadataDecrypted,
     handlePauseAtReceiver, TypeOK, Incoming
<1>5. CASE rejectPendingTransfer \/ cancelReceiver \/ handleCancelAtReceiver
  BY <1>2, <1>3, <1>5 DEF rejectPendingTransfer, cancelReceiver, cancelIncoming,
     handleCancelAtReceiver
<1>6. ASSUME NEW l \in Lane, handleDataMessage(l) PROVE StoredHeld'
  <2>1. CASE acceptChunk(Head(lanes[l]))
    <3>1. inc'.active
      BY <1>6, <2>1 DEF handleDataMessage, acceptChunk, TypeOK, Incoming
    <3> QED  BY <3>1 DEF StoredHeld
  <2>2. CASE ~acceptChunk(Head(lanes[l]))
    BY <1>3, <1>6, <2>2 DEF handleDataMessage
  <2> QED  BY <2>1, <2>2
<1>7. ASSUME NEW c \in Chunk, chunkSaved(c) PROVE StoredHeld'
  <2>1. /\ handler[c] = "saving" /\ handler' = [handler EXCEPT ![c] = "saved"]
        /\ inc'.active = inc.active /\ stored' = stored
    BY <1>7 DEF chunkSaved, TypeOK, Incoming
  <2> QED  BY <2>1 DEF StoredHeld, NoChunks, TypeOK
<1>8. ASSUME NEW c \in Chunk, chunkRecorded(c) PROVE StoredHeld'
  <2>1. /\ handler[c] = "saved"
        /\ handler' = [handler EXCEPT ![c] = IF allCounted THEN "verify" ELSE "idle"]
        /\ inc'.active = (inc.active /\ ~allCounted) /\ stored' = stored
    BY <1>8 DEF chunkRecorded, TypeOK, Incoming
  <2>2. CASE allCounted
    BY <2>1, <2>2 DEF StoredHeld, TypeOK
  <2>3. CASE ~allCounted
    BY <2>1, <2>3 DEF StoredHeld, NoChunks, TypeOK
  <2> QED  BY <2>2, <2>3
<1>9. ASSUME NEW c \in Chunk, reassembleFile(c) \/ reassembled(c) PROVE StoredHeld'
  <2>1. CASE stored' = NoChunks
    BY <1>2, <2>1
  <2>2. CASE stored' # NoChunks
    BY <1>9, <2>2 DEF reassembleFile, reassembled, StoredHeld, TypeOK
  <2> QED  BY <2>1, <2>2
<1>10. ASSUME NEW c \in Chunk, onComplete(c) \/ onFailed(c) PROVE StoredHeld'
  <2>1. /\ handler[c] \in {"complete", "abort"}
        /\ handler' = [handler EXCEPT ![c] = "idle"]
        /\ UNCHANGED <<inc, stored>>
    BY <1>10 DEF onComplete, onFailed
  <2> QED  BY <2>1 DEF StoredHeld, NoChunks, TypeOK
<1> QED
  BY <1>3, <1>4, <1>5, <1>6, <1>7, <1>8, <1>9, <1>10
     DEF Next, UserStep, LoopStep, vars,
     initiateFileTransfer, sendFile, pauseSender, resumeSender, cancelSender, acceptPendingTransfer,
     handleAccept, handlePauseAtSender, handleResumeAtSender,
     handleCancelAtSender, streamBegin, streamSend, streamReturn, streamError,
     streamProgress, streamFinish, streamFail, handleMetadata, metadataSaved,
     handleResumeAtReceiver, cancelNotice, connLoss

\* A transfer that has ended, by completion, failure, rejection or a cancel
\* from either side, leaves no encrypted chunk in IndexedDB.
THEOREM StorageReleased == Spec => []NoOrphanChunks
<1>1. Init => StoredHeld
  BY DEF Init, StoredHeld
<1>2. TypeOK /\ StoredHeld /\ [Next]_vars => StoredHeld'
  BY NextStoredHeld
<1>3. StoredHeld => NoOrphanChunks
  BY DEF StoredHeld, NoOrphanChunks
<1> QED  BY <1>1, <1>2, <1>3, TypeCorrect, PTL DEF Spec

-----------------------------------------------------------------------------
(* Sending under the flags *)

\* After a pause or a cancel has set its flag no stream, suspended wherever it
\* may be, puts another chunk on a lane.
THEOREM StoppedSenderIsSilent == Spec => NoSendWhenStopped
<1> DEFINE Silent == stopped => \A l \in Lane : Len(lanes'[l]) <= Len(lanes[l])
<1>1. ASSUME TypeOK, [Next]_vars PROVE [Silent]_vars
  <2> SUFFICES ASSUME Next, stopped, NEW l \in Lane
               PROVE  Len(lanes'[l]) <= Len(lanes[l])
    BY <1>1 DEF vars
  <2>t. lanes[l] \in Seq(Chunk)
    BY <1>1 DEF TypeOK
  <2>1. CASE lanes' = lanes
    BY <2>1, <2>t
  <2>2. ASSUME NEW k \in Lane, handleDataMessage(k)
        PROVE  Len(lanes'[l]) <= Len(lanes[l])
    <3>1. lanes[k] # <<>> /\ lanes' = [lanes EXCEPT ![k] = Tail(@)]
      BY <2>2 DEF handleDataMessage
    <3>2. lanes \in [Lane -> Seq(Chunk)]
      BY <1>1 DEF TypeOK
    <3> QED  BY <3>1, <3>2, <2>t
  <2>3. CASE connLoss
    BY <2>3, <2>t DEF connLoss
  <2>4. \A s \in Streams : ~streamSend(s)
    BY DEF streamSend
  <2> QED
    BY <2>1, <2>2, <2>3, <2>4 DEF Next, UserStep, LoopStep, initiateFileTransfer, sendFile,
     pauseSender, resumeSender, cancelSender, acceptPendingTransfer,
     rejectPendingTransfer, pauseReceiver, resumeReceiver, cancelReceiver,
     handleAccept, handlePauseAtSender, handleResumeAtSender,
     handleCancelAtSender, streamBegin, streamReturn, streamError,
     streamProgress, streamFinish, streamFail,
     handleMetadata, metadataDecrypted, metadataSaved,
     handlePauseAtReceiver, handleResumeAtReceiver, handleCancelAtReceiver,
     cancelNotice, chunkSaved, chunkRecorded,
     reassembleFile, reassembled, onComplete, onFailed
<1>2. [Silent]_vars =>
        [out.paused \/ out.cancelled
           => \A l \in Lane : Len(lanes'[l]) <= Len(lanes[l])]_vars
  BY DEF stopped
<1> QED  BY <1>1, <1>2, TypeCorrect, PTL DEF Spec, NoSendWhenStopped
=============================================================================
