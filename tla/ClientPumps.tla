----------------------------- MODULE ClientPumps -----------------------------
(***************************************************************************)
(* One connection of the hub (client.go): its Send channel, ReadPump and   *)
(* WritePump, and the goroutines of hub.go that call SendJSON, unregister  *)
(* the client and shut the hub down.  Signaling messages are numbered in   *)
(* the order they are handed to SendJSON.  What ReadPump reads goes to the *)
(* hub, which is Hub's subject; here it is what notices that the           *)
(* connection is gone.  A frame holds several messages, one a line, which  *)
(* signaling.ts splits again (the JSON of a message has no line break).    *)
(***************************************************************************)
EXTENDS Integers, Sequences

CONSTANTS
    Capacity,  \* of the Send channel (256 in the code)
    MaxSends   \* messages handed to SendJSON (a bound)

ASSUME PumpsAssumption == Capacity \in Nat \ {0} /\ MaxSends \in Nat

\* Who calls SendJSON: the hub goroutine, the callback of the NATS
\* subscription, Shutdown.  The last two hold the room's read lock meanwhile.
Goroutines == {"hub", "nats", "shutdown"}
Messages == 1..MaxSends
None == 0
Elsewhere == -1

VARIABLES
    entry,    \* whose connection LocalRoom.Clients has for the peer
    sender,   \* the message a goroutine is between SendJSON's two checks with;
              \* Elsewhere when the hub goroutine handles something else
    offered,  \* messages handed to SendJSON
    down,     \* progress of Shutdown
    closed,   \* Client.closed
    send,     \* Client.Send
    sendClosed,
    reader,   \* where ReadPump is
    writer,   \* where WritePump is
    frame,    \* what WritePump has written to its NextWriter
    drain,    \* how many messages it still takes from the channel for this frame
    conn,     \* the server's end of the connection
    client,   \* the other end: "here", "gone", or "silent" behind a dead network
    wire,     \* messages of whole frames on their way
    ends,     \* where those frames end, counted in messages received
    got       \* messages handled by the browser

vars == <<entry, sender, offered, down, closed, send, sendClosed, reader, writer,
          frame, drain, conn, client, wire, ends, got>>
hubVars == <<entry, sender, offered, down, closed, send, sendClosed>>
pumpVars == <<reader, writer, frame, drain>>
netVars == <<conn, client, wire, ends, got>>

Init ==
    /\ entry = "nobody" /\ sender = [g \in Goroutines |-> None] /\ offered = 0
    /\ down = "running" /\ closed = FALSE
    /\ send = <<>> /\ sendClosed = FALSE
    /\ reader = "register" /\ writer = "register" /\ frame = <<>> /\ drain = 0
    /\ conn = "open" /\ client = "here" /\ wire = <<>> /\ ends = {} /\ got = <<>>

-----------------------------------------------------------------------------
(* Helpers *)

\* The hub goroutine handles one thing at a time.
hubIdle == sender["hub"] = None

\* LocalRoom.mu can be taken for writing.
BugNoLock == TRUE
unlocked == sender["nats"] = None /\ sender["shutdown"] = None

full == Len(send) >= Capacity

\* Messages WritePump puts into the frame of one it has just received.
waiting(queue) == Len(queue) - 1

BugWritesInFront(f, m) == <<m>> \o f
written(f, m) == Append(f, m)

\* A ping or a write fails once the connection has been closed here.
BugNeverFails == FALSE
writeFails == conn = "closed"

offer(g) ==
    /\ offered < MaxSends
    /\ offered' = offered + 1
    /\ sender' = [sender EXCEPT ![g] = offered + 1]

-----------------------------------------------------------------------------
(* The hub *)

\* handleRegister puts the client into the room, in the place of whoever had
\* it, and the pumps start; when shutting down it only sends an error.
register ==
    /\ reader = "register" /\ down = "running" /\ hubIdle /\ unlocked
    /\ entry' = "me"
    /\ reader' = "read" /\ writer' = "select"
    /\ UNCHANGED <<sender, offered, down, closed, send, sendClosed, frame, drain, netVars>>

registerRefused ==
    /\ reader = "register" /\ down # "running" /\ hubIdle
    /\ offer("hub")
    /\ reader' = "read" /\ writer' = "select"
    /\ UNCHANGED <<entry, down, closed, send, sendClosed, frame, drain, netVars>>

\* SendJSON: a look at closed, and then the channel, or nothing if it is full.
SendJSON(g) ==
    /\ sender[g] = None /\ entry = "me" /\ ~closed
    /\ g = "shutdown" => down = "notifying"
    /\ offer(g)
    /\ UNCHANGED <<entry, down, closed, send, sendClosed, pumpVars, netVars>>

queue(g) ==
    /\ sender[g] \in Messages
    /\ send' = IF full THEN send ELSE Append(send, sender[g])
    /\ sender' = [sender EXCEPT ![g] = None]
    /\ UNCHANGED <<entry, offered, down, closed, sendClosed, pumpVars, netVars>>

\* handleUnregister goes by the peer's id: it closes this client's channel if
\* the room has any connection of the peer.
unregister ==
    /\ reader = "unregister" /\ hubIdle /\ unlocked
    /\ IF entry = "nobody" THEN UNCHANGED <<entry, closed, sendClosed>>
       ELSE entry' = "nobody" /\ closed' = TRUE /\ sendClosed' = TRUE
    /\ reader' = "close"
    /\ UNCHANGED <<sender, offered, down, send, writer, frame, drain, netVars>>

\* The hub goroutine handles what concerns other connections.
workElsewhere ==
    /\ hubIdle /\ sender' = [sender EXCEPT !["hub"] = Elsewhere]
    /\ UNCHANGED <<entry, offered, down, closed, send, sendClosed, pumpVars, netVars>>

workDone ==
    /\ sender["hub"] = Elsewhere /\ sender' = [sender EXCEPT !["hub"] = None]
    /\ UNCHANGED <<entry, offered, down, closed, send, sendClosed, pumpVars, netVars>>

\* Another connection of the same peer registers, or unregisters.
otherRegisters ==
    /\ down = "running" /\ hubIdle /\ unlocked
    /\ entry # "other" /\ entry' = "other"
    /\ UNCHANGED <<sender, offered, down, closed, send, sendClosed, pumpVars, netVars>>

otherUnregisters ==
    /\ hubIdle /\ unlocked
    /\ entry # "nobody" /\ entry' = "nobody"
    /\ UNCHANGED <<sender, offered, down, closed, send, sendClosed, pumpVars, netVars>>

-----------------------------------------------------------------------------
(* Shutdown *)

shutdown ==
    /\ down = "running" /\ down' = "notifying"
    /\ UNCHANGED <<entry, sender, offered, closed, send, sendClosed, pumpVars, netVars>>

shutdownNotified ==
    /\ down = "notifying" /\ sender["shutdown"] = None /\ down' = "sleeping"
    /\ UNCHANGED <<entry, sender, offered, closed, send, sendClosed, pumpVars, netVars>>

shutdownCloses ==
    /\ down = "sleeping" /\ unlocked /\ down' = "down"
    /\ IF entry = "me" THEN closed' = TRUE /\ conn' = "closed" ELSE UNCHANGED <<closed, conn>>
    /\ UNCHANGED <<entry, sender, offered, send, sendClosed, pumpVars, client, wire, ends, got>>

-----------------------------------------------------------------------------
(* ReadPump *)

\* A closed connection, a client that is gone, or no pong for a minute.
readFails ==
    /\ reader = "read" /\ (conn = "closed" \/ client # "here")
    /\ reader' = "unregister"
    /\ UNCHANGED <<hubVars, writer, frame, drain, netVars>>

readerCloses ==
    /\ reader = "close" /\ reader' = "done" /\ conn' = "closed"
    /\ UNCHANGED <<hubVars, writer, frame, drain, client, wire, ends, got>>

-----------------------------------------------------------------------------
(* WritePump *)

receive ==
    /\ writer = "select" /\ send # <<>>
    /\ frame' = <<Head(send)>> /\ send' = Tail(send) /\ drain' = waiting(send)
    /\ writer' = "drain"
    /\ UNCHANGED <<entry, sender, offered, down, closed, sendClosed, reader, netVars>>

drainOne ==
    /\ writer = "drain" /\ drain > 0 /\ send # <<>>
    /\ frame' = written(frame, Head(send)) /\ send' = Tail(send)
    /\ drain' = drain - 1
    /\ UNCHANGED <<entry, sender, offered, down, closed, sendClosed, reader, writer, netVars>>

\* A frame for a client that is gone gets lost.
flush ==
    /\ writer = "drain" /\ drain = 0 /\ conn = "open"
    /\ writer' = "select" /\ frame' = <<>>
    /\ IF client = "here"
       THEN /\ wire' = wire \o frame
            /\ ends' = ends \union {Len(got) + Len(wire) + Len(frame)}
       ELSE UNCHANGED <<wire, ends>>
    /\ UNCHANGED <<hubVars, reader, drain, conn, client, got>>

writerEnds ==
    /\ writer' = "done" /\ conn' = "closed" /\ frame' = <<>> /\ drain' = 0
    /\ UNCHANGED <<hubVars, reader, client, wire, ends, got>>

\* The hub has closed the channel and it is drained.
sendChannelClosed == writer = "select" /\ send = <<>> /\ sendClosed /\ writerEnds

\* A write may fail when the client is gone, and does on a closed connection.
flushFails ==
    /\ writer = "drain" /\ drain = 0
    /\ conn = "closed" \/ client # "here"
    /\ writerEnds

pingFails == writer = "select" /\ writeFails /\ writerEnds

-----------------------------------------------------------------------------
(* The browser and the network *)

\* signaling.ts, onmessage: a frame is split and its messages handled in turn.
onmessage ==
    /\ client = "here"
    /\ \E e \in ends :
          /\ \A d \in ends : e <= d
          /\ got' = got \o SubSeq(wire, 1, e - Len(got))
          /\ wire' = SubSeq(wire, e - Len(got) + 1, Len(wire))
          /\ ends' = ends \ {e}
    /\ UNCHANGED <<hubVars, pumpVars, conn, client>>

clientLost ==
    /\ client = "here" /\ client' \in {"gone", "silent"}
    /\ wire' = <<>> /\ ends' = {}
    /\ UNCHANGED <<hubVars, pumpVars, conn, got>>

-----------------------------------------------------------------------------
readerStep == readFails \/ readerCloses
writerStep ==
    receive \/ drainOne \/ flush \/ sendChannelClosed \/ flushFails \/ pingFails

Next ==
    \/ register \/ registerRefused \/ unregister
    \/ workElsewhere \/ workDone \/ otherRegisters \/ otherUnregisters
    \/ \E g \in Goroutines : SendJSON(g) \/ queue(g)
    \/ shutdown \/ shutdownNotified \/ shutdownCloses
    \/ readerStep \/ writerStep
    \/ onmessage \/ clientLost

Spec == Init /\ [][Next]_vars

\* Goroutines that can go on do: the ticker and the read deadline fire, a frame
\* that has been written arrives.  Go's select takes a random ready case and
\* its RWMutex lets no reader overtake a writer that waits, so that a busy hub
\* gets to unregister all the same.
FairSpec ==
    /\ Spec
    /\ \A g \in Goroutines : WF_vars(queue(g))
    /\ SF_vars(unregister) /\ WF_vars(workDone)
    /\ WF_vars(readerStep) /\ WF_vars(writerStep)
    /\ WF_vars(onmessage)

-----------------------------------------------------------------------------
(* Properties *)

Pcs == {"register", "read", "unregister", "close", "done"}

\* Every variable keeps its type; the channel holds no more than its capacity.
TypeOK ==
    /\ entry \in {"nobody", "me", "other"}
    /\ sender \in [Goroutines -> Messages \union {None, Elsewhere}]
    /\ offered \in 0..MaxSends
    /\ down \in {"running", "notifying", "sleeping", "down"}
    /\ closed \in BOOLEAN /\ sendClosed \in BOOLEAN
    /\ send \in Seq(Messages) /\ Len(send) <= Capacity
    /\ reader \in Pcs /\ writer \in {"register", "select", "drain", "done"}
    /\ frame \in Seq(Messages) /\ drain \in Int
    /\ conn \in {"open", "closed"} /\ client \in {"here", "gone", "silent"}
    /\ wire \in Seq(Messages) /\ got \in Seq(Messages) /\ ends \subseteq Nat

\* No goroutine that has looked at closed meets a closed channel, which would
\* panic and end the server: the hub goroutine closes channels itself, the
\* others hold the room's lock from the look to the send.
NoSendOnClosed == \A g \in Goroutines : sender[g] \in Messages => ~sendClosed

\* WritePump never blocks in the middle of a frame: what it counted is there.
DrainNeverBlocks == writer = "drain" => 0 <= drain /\ drain <= Len(send)

\* Once ReadPump has failed the hub unregisters the client and both pumps end,
\* however busy the hub is and although another connection of the peer may have
\* taken the place in the room, so that the channel stays open.
PumpsEnd == (reader = "unregister") ~> (reader = "done" /\ writer = "done")

\* Behind a connection that is given up only whole frames still arrive.
undelivered ==
    IF client # "here" THEN <<>>
    ELSE IF conn = "closed" THEN wire
    ELSE wire \o frame \o send

Fifo == INSTANCE LossyFifo WITH
            pending <- undelivered, up <- (conn = "open" /\ client = "here")

\* The connection keeps the promise of LossyFifo.
KeepsThePromise == Fifo!FairSpec
=============================================================================
