------------------------------ MODULE Transfer ------------------------------
(***************************************************************************)
(* One file transfer between two FileTransferCoordinators (transfer.ts)    *)
(* with the roomStore callbacks and the buttons of the room page that      *)
(* drive it.                                                               *)
(*                                                                         *)
(* JavaScript runs to the next await, so an action is the code between two *)
(* awaits and a suspended function is a program counter: streams holds the *)
(* suspended streamOutgoing calls, handler[c] the suspended                *)
(* handleDataMessage call of chunk c.  A resumed call keeps the state      *)
(* object it captured: out and inc outlive their deletion from the maps    *)
(* (active = FALSE).  IndexedDB requests on one table take effect in the   *)
(* order they are issued.  The data channels are ordered and reliable      *)
(* until the connection is lost.                                           *)
(***************************************************************************)
EXTENDS Integers, Sequences, FiniteSets

CONSTANTS
    TotalChunks,  \* Math.ceil(file.size / CHUNK_SIZE); 0 for an empty file
    NumLanes,     \* data channels data-0 .. data-(NumLanes-1); 4 in the code
    Streams,      \* identities of concurrent streamOutgoing calls (a bound)
    MaxPauses,    \* how many times the users press Pause (a bound)
    Env           \* what users and the environment may do in this instance

EnvEvents == {"pauseSender", "pauseReceiver", "cancelSender",
              "cancelReceiver", "reject", "connLoss", "storageFault"}

ASSUME TransferAssumption ==
    /\ TotalChunks \in Nat
    /\ NumLanes \in Nat \ {0}
    /\ MaxPauses \in Nat
    /\ Env \subseteq EnvEvents

Chunk == 0..(TotalChunks - 1)
Lane == 0..(NumLanes - 1)

VARIABLES
    out,         \* the sender's OutgoingTransferState
    inc,         \* the receiver's IncomingTransferState
    offer,       \* how far the 'metadata' announcement has got
    streams,     \* suspended streamOutgoing calls
    handler,     \* suspended handleDataMessage / reassembleFile calls
    notice,      \* a 'cancel' handler at the receiver awaits its clear
    lanes,       \* chunk packets in flight, per data channel
    toReceiver,  \* control messages in flight to the receiver
    toSender,    \* control messages in flight to the sender
    open,        \* the data channels and the control channel are open
    stored,      \* records of each chunk index in the receiver's IndexedDB
    ui,          \* activeTransfers[tid].status on both pages
    request,     \* the receiver's pendingTransfers holds the transfer
    blob,        \* getTransferBlob(tid) finds a blob, on both pages
    pauses,      \* Pause clicks so far
    sent         \* history: the chunk indices handed to dc.send

vars == <<out, inc, offer, streams, handler, notice, lanes, toReceiver,
          toSender, open, stored, ui, request, blob, pauses, sent>>

UIStatus == {"none", "pending", "transferring", "paused", "completed", "failed"}
StreamPC == {"idle", "meta", "drain", "saved", "finish", "fail"}
HandlerPC == {"idle", "saving", "saved", "verify", "hash", "complete", "abort"}
OfferPhase == {"none", "sent", "decrypting", "saving", "shown"}
ControlMsg == [type : {"metadata", "accept", "pause", "resume", "cancel"},
               index : 0..TotalChunks]
Outgoing == [active : BOOLEAN, paused : BOOLEAN, cancelled : BOOLEAN,
             lastSentIndex : -1..(TotalChunks - 1)]
Incoming == [active : BOOLEAN, paused : BOOLEAN, cancelled : BOOLEAN,
             receivedChunks : SUBSET Chunk, chunksReceivedCount : Nat,
             contiguousIndex : 0..TotalChunks]

NoChunks == [c \in Chunk |-> 0]

Init ==
    /\ out = [active |-> FALSE, paused |-> FALSE, cancelled |-> FALSE,
              lastSentIndex |-> -1]
    /\ inc = [active |-> FALSE, paused |-> FALSE, cancelled |-> FALSE,
              receivedChunks |-> {}, chunksReceivedCount |-> 0,
              contiguousIndex |-> 0]
    /\ offer = "none"
    /\ streams = [s \in Streams |-> [pc |-> "idle", index |-> 0]]
    /\ handler = [c \in Chunk |-> "idle"]
    /\ notice = FALSE
    /\ lanes = [l \in Lane |-> <<>>]
    /\ toReceiver = <<>>
    /\ toSender = <<>>
    /\ open = TRUE
    /\ stored = NoChunks
    /\ ui = [sender |-> "none", receiver |-> "none"]
    /\ request = FALSE
    /\ blob = [sender |-> FALSE, receiver |-> FALSE]
    /\ pauses = 0
    /\ sent = {}

-----------------------------------------------------------------------------
(* Helpers *)

Msg(type, index) == [type |-> type, index |-> index]

\* A control frame is dropped silently when the channel is not open.
sendControl(queue, msg) == IF open THEN Append(queue, msg) ELSE queue

\* streamOutgoing up to its first await; without an active outgoing transfer
\* the call returns at once.  The caller has already written out'.
startStream(index) ==
    \E s \in Streams :
        /\ streams[s].pc = "idle"
        /\ streams' = [streams EXCEPT ![s] = [pc |-> "meta", index |-> index]]

\* The page shows its Cancel button.
cancelShown(status) == status \in {"transferring", "paused", "pending"}

\* A paused or cancelled transfer makes a stream return.
BugStopsOnPauseOnly == out.paused
stopped == out.paused \/ out.cancelled

\* The head of the loop for chunk i: past the last chunk the transfer is
\* finished.
loopHead(i) ==
    IF i >= TotalChunks THEN "finish" ELSE IF stopped THEN "idle" ELSE "drain"

\* Where the sender's own Resume restarts the stream.
BugSkipsAChunk == out.lastSentIndex + 2
resumePoint == out.lastSentIndex + 1

\* Where a 'resume' of the receiver restarts it.
BugSkipsContiguous(msg) == IF msg.index < TotalChunks THEN msg.index + 1 ELSE msg.index
resumeFrom(msg) == msg.index

\* The while loop that moves contiguousIndex over the received prefix.
BugContiguousIsCount(n) == n = inc.chunksReceivedCount + 1
advanceContiguous(n) ==
    /\ n \in inc.contiguousIndex..TotalChunks
    /\ n \notin inc.receivedChunks
    /\ \A k \in inc.contiguousIndex..(n - 1) : k \in inc.receivedChunks

-----------------------------------------------------------------------------
(* The sender's page *)

\* From the point where the key, the ciphertexts and the hash are ready.
sendFile ==
    /\ offer' = "sent"
    /\ out' = [out EXCEPT !.active = TRUE]
    /\ toReceiver' = sendControl(toReceiver, Msg("metadata", 0))

initiateFileTransfer ==
    /\ offer = "none"
    /\ sendFile
    /\ ui' = [ui EXCEPT !.sender = "pending"]
    /\ blob' = [blob EXCEPT !.sender = TotalChunks > 0]
    /\ UNCHANGED <<inc, streams, handler, notice, lanes, toSender, open,
                   stored, request, pauses, sent>>

\* The Pause button is shown while the status is 'transferring'.
pauseSender ==
    /\ "pauseSender" \in Env
    /\ ui.sender = "transferring"
    /\ pauses < MaxPauses
    /\ pauses' = pauses + 1
    /\ ui' = [ui EXCEPT !.sender = "paused"]
    /\ IF out.active
       THEN /\ out' = [out EXCEPT !.paused = TRUE]
            /\ toReceiver' = sendControl(toReceiver, Msg("pause", 0))
       ELSE UNCHANGED <<out, toReceiver>>
    /\ UNCHANGED <<inc, offer, streams, handler, notice, lanes, toSender, open,
                   stored, request, blob, sent>>

\* The Resume button is shown while the status is 'paused'; it restarts the
\* stream behind the last chunk sent.
resumeSender ==
    /\ ui.sender = "paused"
    /\ out.active /\ out.paused
    /\ out' = [out EXCEPT !.paused = FALSE]
    /\ toReceiver' = sendControl(toReceiver, Msg("resume", 0))
    /\ startStream(resumePoint)
    /\ UNCHANGED <<inc, offer, handler, notice, lanes, toSender, open, stored,
                   ui, request, blob, pauses, sent>>

\* The Cancel button; the page's own status is left as it is.
cancelSender ==
    /\ "cancelSender" \in Env
    /\ cancelShown(ui.sender)
    /\ blob' = [blob EXCEPT !.sender = FALSE]
    /\ IF out.active
       THEN /\ out' = [out EXCEPT !.active = FALSE, !.cancelled = TRUE]
            /\ toReceiver' = sendControl(toReceiver, Msg("cancel", 0))
       ELSE UNCHANGED <<out, toReceiver>>
    /\ UNCHANGED <<inc, offer, streams, handler, notice, lanes, toSender, open,
                   stored, ui, request, pauses, sent>>

-----------------------------------------------------------------------------
(* handleControlMessage at the sender *)

handleAccept ==
    /\ toSender # <<>> /\ Head(toSender).type = "accept"
    /\ toSender' = Tail(toSender)
    /\ IF out.active THEN startStream(0) ELSE UNCHANGED streams
    /\ UNCHANGED <<out, inc, offer, handler, notice, lanes, toReceiver, open,
                   stored, ui, request, blob, pauses, sent>>

handlePauseAtSender ==
    /\ toSender # <<>> /\ Head(toSender).type = "pause"
    /\ toSender' = Tail(toSender)
    /\ out' = [out EXCEPT !.paused = out.active \/ @]
    /\ UNCHANGED <<inc, offer, streams, handler, notice, lanes, toReceiver,
                   open, stored, ui, request, blob, pauses, sent>>

\* The receiver's 'resume' carries its contiguousIndex.
handleResumeAtSender ==
    /\ toSender # <<>> /\ Head(toSender).type = "resume"
    /\ toSender' = Tail(toSender)
    /\ IF out.active
       THEN /\ out' = [out EXCEPT !.paused = FALSE]
            /\ startStream(resumeFrom(Head(toSender)))
       ELSE UNCHANGED <<out, streams>>
    /\ UNCHANGED <<inc, offer, handler, notice, lanes, toReceiver, open,
                   stored, ui, request, blob, pauses, sent>>

handleCancelAtSender ==
    /\ toSender # <<>> /\ Head(toSender).type = "cancel"
    /\ toSender' = Tail(toSender)
    /\ IF out.active
       THEN /\ out' = [out EXCEPT !.active = FALSE, !.cancelled = TRUE]
            /\ ui' = [ui EXCEPT !.sender = "failed"]
       ELSE UNCHANGED <<out, ui>>
    /\ UNCHANGED <<inc, offer, streams, handler, notice, lanes, toReceiver,
                   open, stored, request, blob, pauses, sent>>

-----------------------------------------------------------------------------
(* streamOutgoing *)

\* The file record has been fetched and marked 'transferring'.
streamBegin(s) ==
    /\ streams[s].pc = "meta"
    /\ streams' = [streams EXCEPT ![s].pc = loopHead(streams[s].index)]
    /\ out' = [out EXCEPT !.active = @ /\ streams[s].index < TotalChunks]
    /\ UNCHANGED <<inc, offer, handler, notice, lanes, toReceiver, toSender,
                   open, stored, ui, request, blob, pauses, sent>>

\* The chunk is encrypted and its channel has drained: a closed channel makes
\* the call fail; the pause and cancel flags are read again before the send.
streamSend(s) ==
    LET i == streams[s].index IN
    /\ streams[s].pc = "drain"
    /\ open
    /\ ~stopped
    /\ lanes' = [lanes EXCEPT ![i % NumLanes] = Append(@, i)]
    /\ sent' = sent \union {i}
    /\ out' = [out EXCEPT !.lastSentIndex = i]
    /\ streams' = [streams EXCEPT ![s].pc = "saved"]
    /\ UNCHANGED <<inc, offer, handler, notice, toReceiver, toSender, open,
                   stored, ui, request, blob, pauses>>

streamReturn(s) ==
    /\ streams[s].pc = "drain"
    /\ stopped
    /\ streams' = [streams EXCEPT ![s].pc = "idle"]
    /\ UNCHANGED <<out, inc, offer, handler, notice, lanes, toReceiver,
                   toSender, open, stored, ui, request, blob, pauses, sent>>

streamError(s) ==
    /\ streams[s].pc = "drain"
    /\ ~open
    /\ streams' = [streams EXCEPT ![s].pc = "fail"]
    /\ out' = [out EXCEPT !.active = FALSE]
    /\ UNCHANGED <<inc, offer, handler, notice, lanes, toReceiver, toSender,
                   open, stored, ui, request, blob, pauses, sent>>

\* The record is saved: onProgress, then the loop head for the next chunk.
streamProgress(s) ==
    LET i == streams[s].index + 1 IN
    /\ streams[s].pc = "saved"
    /\ ui' = [ui EXCEPT !.sender = "transferring"]
    /\ streams' = [streams EXCEPT ![s] = [pc |-> loopHead(i), index |-> i]]
    /\ out' = [out EXCEPT !.active = @ /\ i < TotalChunks]
    /\ UNCHANGED <<inc, offer, handler, notice, lanes, toReceiver, toSender,
                   open, stored, request, blob, pauses, sent>>

\* onProgress with progress = 100.
streamFinish(s) ==
    /\ streams[s].pc = "finish"
    /\ streams' = [streams EXCEPT ![s].pc = "idle"]
    /\ ui' = [ui EXCEPT !.sender = "completed"]
    /\ UNCHANGED <<out, inc, offer, handler, notice, lanes, toReceiver,
                   toSender, open, stored, request, blob, pauses, sent>>

\* onFailed.
streamFail(s) ==
    /\ streams[s].pc = "fail"
    /\ streams' = [streams EXCEPT ![s].pc = "idle"]
    /\ ui' = [ui EXCEPT !.sender = "failed"]
    /\ UNCHANGED <<out, inc, offer, handler, notice, lanes, toReceiver,
                   toSender, open, stored, request, blob, pauses, sent>>

-----------------------------------------------------------------------------
(* The receiver's page *)

\* handleControlMessage 'metadata', up to the first decryption.
handleMetadata ==
    /\ toReceiver # <<>> /\ Head(toReceiver).type = "metadata"
    /\ toReceiver' = Tail(toReceiver)
    /\ offer' = "decrypting"
    /\ UNCHANGED <<out, inc, streams, handler, notice, lanes, toSender, open,
                   stored, ui, request, blob, pauses, sent>>

\* Name, type and file key are decrypted: the transfer becomes active.
metadataDecrypted ==
    /\ offer = "decrypting"
    /\ offer' = "saving"
    /\ inc' = [inc EXCEPT !.active = TRUE]
    /\ UNCHANGED <<out, streams, handler, notice, lanes, toReceiver, toSender,
                   open, stored, ui, request, blob, pauses, sent>>

\* The file record is saved: onIncomingTransfer, onIncomingTransferRequest.
metadataSaved ==
    /\ offer = "saving"
    /\ offer' = "shown"
    /\ ui' = [ui EXCEPT !.receiver = "pending"]
    /\ request' = TRUE
    /\ UNCHANGED <<out, inc, streams, handler, notice, lanes, toReceiver,
                   toSender, open, stored, blob, pauses, sent>>

acceptPendingTransfer ==
    /\ request
    /\ request' = FALSE
    /\ toSender' = IF inc.active THEN sendControl(toSender, Msg("accept", 0))
                   ELSE toSender
    /\ UNCHANGED <<out, inc, offer, streams, handler, notice, lanes,
                   toReceiver, open, stored, ui, blob, pauses, sent>>

\* cancelTransfer on the receiving side: drop the transfer, tell the sender,
\* clear the stored chunks.
BugCancelKeepsChunks ==
    IF inc.active
    THEN /\ inc' = [inc EXCEPT !.active = FALSE, !.cancelled = TRUE]
         /\ toSender' = sendControl(toSender, Msg("cancel", 0))
         /\ UNCHANGED stored
    ELSE UNCHANGED <<inc, toSender, stored>>

cancelIncoming ==
    IF inc.active
    THEN /\ inc' = [inc EXCEPT !.active = FALSE, !.cancelled = TRUE]
         /\ toSender' = sendControl(toSender, Msg("cancel", 0))
         /\ stored' = NoChunks
    ELSE UNCHANGED <<inc, toSender, stored>>

rejectPendingTransfer ==
    /\ "reject" \in Env
    /\ request
    /\ request' = FALSE
    /\ cancelIncoming
    /\ UNCHANGED <<out, offer, streams, handler, notice, lanes, toReceiver,
                   open, ui, blob, pauses, sent>>

cancelReceiver ==
    /\ "cancelReceiver" \in Env
    /\ cancelShown(ui.receiver)
    /\ cancelIncoming
    /\ blob' = [blob EXCEPT !.receiver = FALSE]
    /\ UNCHANGED <<out, offer, streams, handler, notice, lanes, toReceiver,
                   open, ui, request, pauses, sent>>

pauseReceiver ==
    /\ "pauseReceiver" \in Env
    /\ ui.receiver = "transferring"
    /\ pauses < MaxPauses
    /\ pauses' = pauses + 1
    /\ ui' = [ui EXCEPT !.receiver = "paused"]
    /\ IF inc.active
       THEN /\ inc' = [inc EXCEPT !.paused = TRUE]
            /\ toSender' = sendControl(toSender, Msg("pause", 0))
       ELSE UNCHANGED <<inc, toSender>>
    /\ UNCHANGED <<out, offer, streams, handler, notice, lanes, toReceiver,
                   open, stored, request, blob, sent>>

resumeReceiver ==
    /\ ui.receiver = "paused"
    /\ inc.active /\ inc.paused
    /\ inc' = [inc EXCEPT !.paused = FALSE]
    /\ toSender' = sendControl(toSender, Msg("resume", inc.contiguousIndex))
    /\ UNCHANGED <<out, offer, streams, handler, notice, lanes, toReceiver,
                   open, stored, ui, request, blob, pauses, sent>>

-----------------------------------------------------------------------------
(* handleControlMessage at the receiver *)

handlePauseAtReceiver ==
    /\ toReceiver # <<>> /\ Head(toReceiver).type = "pause"
    /\ toReceiver' = Tail(toReceiver)
    /\ inc' = [inc EXCEPT !.paused = inc.active \/ @]
    /\ UNCHANGED <<out, offer, streams, handler, notice, lanes, toSender, open,
                   stored, ui, request, blob, pauses, sent>>

\* 'resume' looks for an outgoing transfer only: nothing happens here.
handleResumeAtReceiver ==
    /\ toReceiver # <<>> /\ Head(toReceiver).type = "resume"
    /\ toReceiver' = Tail(toReceiver)
    /\ UNCHANGED <<out, inc, offer, streams, handler, notice, lanes, toSender,
                   open, stored, ui, request, blob, pauses, sent>>

handleCancelAtReceiver ==
    /\ toReceiver # <<>> /\ Head(toReceiver).type = "cancel"
    /\ toReceiver' = Tail(toReceiver)
    /\ IF inc.active
       THEN /\ inc' = [inc EXCEPT !.active = FALSE, !.cancelled = TRUE]
            /\ stored' = NoChunks
            /\ notice' = TRUE
       ELSE UNCHANGED <<inc, stored, notice>>
    /\ UNCHANGED <<out, offer, streams, handler, lanes, toSender, open, ui,
                   request, blob, pauses, sent>>

\* onFailed once the clear has finished; a page without the entry ignores it.
cancelNotice ==
    /\ notice
    /\ notice' = FALSE
    /\ ui' = [ui EXCEPT !.receiver = IF @ = "none" THEN @ ELSE "failed"]
    /\ UNCHANGED <<out, inc, offer, streams, handler, lanes, toReceiver,
                   toSender, open, stored, request, blob, pauses, sent>>

-----------------------------------------------------------------------------
(* handleDataMessage and reassembleFile *)

\* A packet of lane l arrives.  saveChunk swallows a storage error.
BugNoDedup(c) == inc.active /\ ~inc.paused /\ ~inc.cancelled

acceptChunk(c) ==
    /\ inc.active /\ ~inc.paused /\ ~inc.cancelled
    /\ c \notin inc.receivedChunks

handleDataMessage(l) ==
    LET c == Head(lanes[l]) IN
    /\ lanes[l] # <<>>
    /\ lanes' = [lanes EXCEPT ![l] = Tail(@)]
    /\ IF acceptChunk(c)
       THEN /\ inc' = [inc EXCEPT !.receivedChunks = @ \union {c}]
            /\ handler' = [handler EXCEPT ![c] = "saving"]
            /\ \/ stored' = [stored EXCEPT ![c] = @ + 1]
               \/ "storageFault" \in Env /\ UNCHANGED stored
       ELSE UNCHANGED <<inc, handler, stored>>
    /\ UNCHANGED <<out, offer, streams, notice, toReceiver, toSender, open, ui,
                   request, blob, pauses, sent>>

\* saveChunk returned: count the chunk, advance the contiguous prefix.
chunkSaved(c) ==
    /\ handler[c] = "saving"
    /\ handler' = [handler EXCEPT ![c] = "saved"]
    /\ \E n \in 0..TotalChunks :
          /\ advanceContiguous(n)
          /\ inc' = [inc EXCEPT !.chunksReceivedCount = @ + 1,
                                !.contiguousIndex = n]
    /\ UNCHANGED <<out, offer, streams, notice, lanes, toReceiver, toSender,
                   open, stored, ui, request, blob, pauses, sent>>

BugWaitsForOneMore == inc.chunksReceivedCount > TotalChunks

allCounted == inc.chunksReceivedCount >= TotalChunks

\* The file record is updated: onProgress; the call that finds the count
\* complete drops the transfer and reassembles.
chunkRecorded(c) ==
    /\ handler[c] = "saved"
    /\ handler' = [handler EXCEPT ![c] = IF allCounted THEN "verify" ELSE "idle"]
    /\ inc' = [inc EXCEPT !.active = @ /\ ~allCounted]
    /\ ui' = [ui EXCEPT !.receiver = "transferring"]
    /\ UNCHANGED <<out, offer, streams, notice, lanes, toReceiver, toSender,
                   open, stored, request, blob, pauses, sent>>

\* getTransferChunks: one record of every index, or the reassembly fails
\* (wrong length, or a hash mismatch) and clears the chunks.
reassembleFile(c) ==
    /\ handler[c] = "verify"
    /\ IF \A k \in Chunk : stored[k] = 1
       THEN /\ handler' = [handler EXCEPT ![c] = "hash"]
            /\ UNCHANGED stored
       ELSE /\ handler' = [handler EXCEPT ![c] = "abort"]
            /\ stored' = NoChunks
    /\ UNCHANGED <<out, inc, offer, streams, notice, lanes, toReceiver,
                   toSender, open, ui, request, blob, pauses, sent>>

\* Decryption and the hash comparison are done: clear the chunks.
reassembled(c) ==
    /\ handler[c] = "hash"
    /\ handler' = [handler EXCEPT ![c] = "complete"]
    /\ stored' = NoChunks
    /\ UNCHANGED <<out, inc, offer, streams, notice, lanes, toReceiver,
                   toSender, open, ui, request, blob, pauses, sent>>

\* onComplete.
onComplete(c) ==
    /\ handler[c] = "complete"
    /\ handler' = [handler EXCEPT ![c] = "idle"]
    /\ ui' = [ui EXCEPT !.receiver = "completed"]
    /\ blob' = [blob EXCEPT !.receiver = TRUE]
    /\ UNCHANGED <<out, inc, offer, streams, notice, lanes, toReceiver,
                   toSender, open, stored, request, pauses, sent>>

\* onFailed.
onFailed(c) ==
    /\ handler[c] = "abort"
    /\ handler' = [handler EXCEPT ![c] = "idle"]
    /\ ui' = [ui EXCEPT !.receiver = "failed"]
    /\ UNCHANGED <<out, inc, offer, streams, notice, lanes, toReceiver,
                   toSender, open, stored, request, blob, pauses, sent>>

-----------------------------------------------------------------------------
(* The connection closes: whatever is in flight is lost. *)
connLoss ==
    /\ "connLoss" \in Env
    /\ open
    /\ open' = FALSE
    /\ lanes' = [l \in Lane |-> <<>>]
    /\ toReceiver' = <<>>
    /\ toSender' = <<>>
    /\ UNCHANGED <<out, inc, offer, streams, handler, notice, stored, ui,
                   request, blob, pauses, sent>>

\* What the users decide.
UserStep ==
    \/ initiateFileTransfer \/ pauseSender \/ resumeSender \/ cancelSender
    \/ acceptPendingTransfer \/ rejectPendingTransfer
    \/ pauseReceiver \/ resumeReceiver \/ cancelReceiver

\* What the event loops of the two pages run once it is ready.
LoopStep ==
    \/ handleAccept \/ handlePauseAtSender \/ handleResumeAtSender
    \/ handleCancelAtSender
    \/ \E s \in Streams : \/ streamBegin(s) \/ streamSend(s)
                          \/ streamReturn(s) \/ streamError(s)
                          \/ streamProgress(s) \/ streamFinish(s)
                          \/ streamFail(s)
    \/ handleMetadata \/ metadataDecrypted \/ metadataSaved
    \/ handlePauseAtReceiver \/ handleResumeAtReceiver
    \/ handleCancelAtReceiver \/ cancelNotice
    \/ \E l \in Lane : handleDataMessage(l)
    \/ \E c \in Chunk : \/ chunkSaved(c) \/ chunkRecorded(c)
                        \/ reassembleFile(c) \/ reassembled(c)
                        \/ onComplete(c) \/ onFailed(c)

Next == UserStep \/ LoopStep \/ connLoss

Spec == Init /\ [][Next]_vars

\* An event loop never stops while it has a task ready to run.
FairSpec == Spec /\ WF_vars(LoopStep)

-----------------------------------------------------------------------------
(* Properties *)

\* Every variable keeps its type; indices never leave the range of the file.
TypeOK ==
    /\ out \in Outgoing
    /\ inc \in Incoming
    /\ offer \in OfferPhase
    /\ streams \in [Streams -> [pc : StreamPC, index : 0..TotalChunks]]
    /\ handler \in [Chunk -> HandlerPC]
    /\ notice \in BOOLEAN
    /\ lanes \in [Lane -> Seq(Chunk)]
    /\ toReceiver \in Seq(ControlMsg)
    /\ toSender \in Seq(ControlMsg)
    /\ open \in BOOLEAN
    /\ stored \in [Chunk -> Nat]
    /\ ui \in [sender : UIStatus, receiver : UIStatus]
    /\ request \in BOOLEAN
    /\ blob \in [sender : BOOLEAN, receiver : BOOLEAN]
    /\ pauses \in Nat
    /\ sent \in SUBSET Chunk

\* The sender's page shows 'completed' only after every chunk of the file has
\* been handed to a data channel, however the stream was paused, resumed and
\* restarted (streamOutgoing starts at lastSentIndex + 1 or at the receiver's
\* contiguousIndex, and several calls can run at once).
CompletedMeansAllSent == ui.sender = "completed" => sent = Chunk

\* The receiver asks to resume behind chunks it really has: nothing below
\* contiguousIndex, nor below the index of a 'resume' on its way, is missing.
ResumePointSound ==
    /\ \A k \in 0..(inc.contiguousIndex - 1) : k \in inc.receivedChunks
    /\ \A m \in 1..Len(toSender) : toSender[m].type = "resume" =>
          \A k \in 0..(toSender[m].index - 1) : k \in inc.receivedChunks

\* A file is reassembled only when all of its chunks have come in and every
\* saveChunk has returned (chunksReceivedCount counts returned saves).
ReassembleOnlyWhenAllSaved ==
    (\E c \in Chunk : handler[c] \in {"verify", "hash", "complete", "abort"})
        => \A c \in Chunk : c \in inc.receivedChunks /\ handler[c] # "saving"

\* Once the receiver has let go of a transfer and no handler is suspended, no
\* encrypted chunk of it stays behind in IndexedDB.
NoOrphanChunks ==
    (~inc.active /\ \A c \in Chunk : handler[c] = "idle") => stored = NoChunks

\* A paused or cancelled sender hands no further chunk to a channel, although
\* streamOutgoing awaits between its first check and dc.send.
NoSendWhenStopped ==
    [][out.paused \/ out.cancelled
        => \A l \in Lane : Len(lanes'[l]) <= Len(lanes[l])]_vars

\* What excuses a transfer from arriving: somebody cancelled it, the connection
\* closed, or IndexedDB lost the record of a chunk being saved.
excused == \/ out.cancelled \/ inc.cancelled \/ ~open
           \/ \E c \in Chunk : handler[c] = "saving" /\ stored[c] = 0

\* A transfer whose acceptance is on its way to the sender is delivered, unless
\* somebody pauses or cancels it, the connection closes or the storage loses a
\* chunk.
AcceptedTransferArrives ==
    (toSender # <<>> /\ Head(toSender).type = "accept")
        ~> (blob.receiver \/ pauses > 0 \/ excused)

\* A 'resume' of the receiver that finds the sender's streams stopped and the
\* transfer unfinished brings in everything that was dropped during the pause,
\* unless the receiver pauses again or the transfer is interrupted.
ReceiverResumeRecovers ==
    (/\ Len(toSender) = 1 /\ Head(toSender).type = "resume"
     /\ out.active /\ \A s \in Streams : streams[s].pc = "idle"
     /\ \A c \in inc.receivedChunks : stored[c] = 1
     /\ ~inc.paused) ~> (blob.receiver \/ inc.paused \/ excused)

\* transfer.ts: "Resumes a paused transfer."  A file the sender has paused,
\* resumed and completed reaches the receiver.
SenderResumeDelivers == (ui.sender = "completed") ~> blob.receiver
=============================================================================
