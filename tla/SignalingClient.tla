--------------------------- MODULE SignalingClient --------------------------
(***************************************************************************)
(* The page's WebSocket client (signaling.ts) with the two calls of the    *)
(* room page that own it (connectSignaling and disconnectRoom of           *)
(* roomStore.ts): sockets, reconnect timers, heartbeat and send queue.     *)
(*                                                                         *)
(* The browser runs one callback at a time, so every callback is one       *)
(* action.  All sockets ever created share the same handlers: an event of  *)
(* an old socket changes the state of the client whatever this.socket has  *)
(* become.  The promise of connect() and its timeout only log, so they are *)
(* left out; destroy() has no caller.                                      *)
(***************************************************************************)
EXTENDS Integers, FiniteSets

CONSTANTS
    MaxAttempts,  \* maxReconnectAttempts
    MaxQueue,     \* capacity of sendQueue
    MaxSockets,   \* sockets that exist at a time (a bound)
    MaxFaults,    \* broken and slow connections and silences (a bound)
    MaxSends      \* messages handed to send (a bound)

ASSUME SignalingAssumption ==
    /\ MaxAttempts \in Nat /\ MaxQueue \in Nat /\ MaxSockets \in Nat
    /\ MaxFaults \in Nat /\ MaxSends \in Nat

Sockets == 1..MaxSockets
Null == 0

VARIABLES
    sock,       \* readyState of every socket; one that is closed is reused
    authed,     \* sockets whose auth answer has arrived
    socket,     \* this.socket
    timer,      \* the timer in reconnectTimer is pending
    orphans,    \* pending timers that reconnectTimer no longer names
    attempts,   \* reconnectAttempts
    ping,       \* pingTimer is running
    stale,      \* the last pong is more than 35 seconds old
    pinged,     \* sockets with a ping that has not been answered
    isDisconnecting,
    page,       \* the room page: "new", "mounted" or "left"
    stored,     \* the store's signaling is this client
    signalingState,
    sendQueue,  \* number of queued messages
    sends, faults

vars == <<sock, authed, socket, timer, orphans, attempts, ping, stale,
          pinged, isDisconnecting, page, stored, signalingState, sendQueue,
          sends, faults>>

\* What the handlers of page and client share.
netVars == <<authed, stale, pinged>>
pageVars == <<page, stored>>
countVars == <<sends, faults>>

Init ==
    /\ sock = [s \in Sockets |-> "closed"]
    /\ authed = {} /\ socket = Null
    /\ timer = FALSE /\ orphans = 0 /\ attempts = 0
    /\ ping = FALSE /\ stale = FALSE /\ pinged = {}
    /\ isDisconnecting = FALSE
    /\ page = "new" /\ stored = FALSE /\ signalingState = "disconnected"
    /\ sendQueue = 0 /\ sends = 0 /\ faults = 0

-----------------------------------------------------------------------------
(* Helpers *)

Free == {s \in Sockets : sock[s] = "closed"}

IsOpen == socket # Null /\ sock[socket] = "open"

\* Both connect() from the page and from a timer: nothing if there is a socket.
connect ==
    IF socket # Null
    THEN UNCHANGED <<sock, socket, isDisconnecting>>
    ELSE /\ Free # {}
         /\ socket' = CHOOSE s \in Free : TRUE
         /\ sock' = [sock EXCEPT ![socket'] = "connecting"]
         /\ isDisconnecting' = FALSE

\* setTimeout overwrites reconnectTimer; the timer it named stays pending.
BugLeavesOneAttempt == ~isDisconnecting /\ attempts + 1 < MaxAttempts
canRetry == ~isDisconnecting /\ attempts < MaxAttempts
BugOnlyAfterConnect ==
    IF canRetry /\ signalingState = "connected"
    THEN attempts' = attempts + 1 /\ timer' = TRUE /\ UNCHANGED orphans
    ELSE UNCHANGED <<attempts, timer, orphans>>
scheduleReconnect ==
    IF canRetry
    THEN /\ attempts' = attempts + 1
         /\ timer' = TRUE
         /\ orphans' = IF timer THEN orphans + 1 ELSE orphans
    ELSE UNCHANGED <<attempts, timer, orphans>>

\* this.socket?.close()
closeSocket ==
    IF socket # Null /\ sock[socket] \in {"connecting", "open"}
    THEN [sock EXCEPT ![socket] = "closing"] ELSE sock

\* What onclose of socket s leaves in this.socket: null, even if it is the
\* socket of a later connect().
BugClearsOwnSocket(s) == IF socket = s THEN Null ELSE socket
afterClose(s) == Null

onclose(s) ==
    /\ sock' = [sock EXCEPT ![s] = "closed"]
    /\ authed' = authed \ {s} /\ pinged' = pinged \ {s}
    /\ ping' = FALSE
    /\ socket' = afterClose(s)
    /\ signalingState' = "disconnected"
    /\ scheduleReconnect

\* flushQueue sends until the queue is empty, if the socket is open.
BugFlushesOne == IF IsOpen /\ sendQueue > 0 THEN sendQueue - 1 ELSE sendQueue
flushQueue == IF IsOpen THEN 0 ELSE sendQueue

-----------------------------------------------------------------------------
(* The page *)

connectSignaling ==
    /\ page = "new"
    /\ page' = "mounted"
    /\ signalingState' = "connecting"
    /\ connect
    /\ UNCHANGED <<netVars, countVars, timer, orphans, attempts, ping, stored,
                   sendQueue>>

\* Only a client that has connected once is in the store and gets disconnected.
disconnectRoom ==
    /\ page = "mounted"
    /\ page' = "left"
    /\ stored' = FALSE
    /\ signalingState' = "disconnected"
    /\ IF stored
       THEN /\ isDisconnecting' = TRUE /\ ping' = FALSE /\ timer' = FALSE
            /\ sock' = closeSocket /\ socket' = Null
       ELSE UNCHANGED <<isDisconnecting, ping, timer, sock, socket>>
    /\ UNCHANGED <<netVars, countVars, orphans, attempts, sendQueue>>

\* Callers got the client from the store and may keep it after leaving; a full
\* queue drops the message.
send ==
    /\ stored \/ page = "left"
    /\ sends < MaxSends
    /\ sends' = sends + 1
    /\ sendQueue' = IF ~IsOpen /\ sendQueue < MaxQueue THEN sendQueue + 1
                    ELSE sendQueue
    /\ UNCHANGED <<netVars, pageVars, sock, socket, timer, orphans,
                   attempts, ping, isDisconnecting, signalingState, faults>>

-----------------------------------------------------------------------------
(* Socket events *)

\* The auth message onopen sends is ignored by the hub.
onopen(s) ==
    /\ sock[s] = "connecting"
    /\ sock' = [sock EXCEPT ![s] = "open"]
    /\ stale' = FALSE
    /\ UNCHANGED <<pageVars, countVars, authed, pinged, socket, timer,
                   orphans, attempts, ping, isDisconnecting, signalingState,
                   sendQueue>>

\* The connection is refused or breaks.
broken(s) ==
    /\ sock[s] \in {"connecting", "open"}
    /\ faults < MaxFaults
    /\ faults' = faults + 1
    /\ onclose(s)
    /\ UNCHANGED <<stale, pageVars, isDisconnecting, sendQueue, sends>>

\* A close() of ours completes, after the closing handshake or its timeout.
closed(s) ==
    /\ sock[s] = "closing"
    /\ onclose(s)
    /\ UNCHANGED <<stale, pageVars, isDisconnecting, sendQueue, countVars>>

\* The hub's auth answer; it is always a success, an invalid token is refused
\* before the upgrade.
handleAuth(s) ==
    /\ sock[s] = "open" /\ s \notin authed
    /\ authed' = authed \union {s}
    /\ attempts' = 0
    /\ signalingState' = "connected" /\ stored' = TRUE
    /\ ping' = TRUE
    /\ sendQueue' = flushQueue
    /\ UNCHANGED <<sock, socket, timer, orphans, stale, pinged,
                   isDisconnecting, page, countVars>>

handlePong(s) ==
    /\ sock[s] = "open" /\ s \in pinged
    /\ pinged' = pinged \ {s}
    /\ stale' = FALSE
    /\ UNCHANGED <<pageVars, countVars, sock, authed, socket, timer,
                   orphans, attempts, ping, isDisconnecting, signalingState,
                   sendQueue>>

-----------------------------------------------------------------------------
(* Timers *)

reconnectTimer ==
    /\ timer
    /\ timer' = FALSE
    /\ connect
    /\ UNCHANGED <<netVars, pageVars, countVars, orphans, attempts, ping,
                   signalingState, sendQueue>>

orphanTimer ==
    /\ orphans > 0
    /\ orphans' = orphans - 1
    /\ connect
    /\ UNCHANGED <<netVars, pageVars, countVars, timer, attempts, ping,
                   signalingState, sendQueue>>

\* 35 seconds pass without a pong: by themselves when there is no socket and
\* no timer to make one, otherwise as a fault.
silence ==
    /\ ~stale /\ ping
    /\ IF socket = Null /\ ~timer /\ orphans = 0 THEN UNCHANGED faults
       ELSE faults < MaxFaults /\ faults' = faults + 1
    /\ stale' = TRUE
    /\ UNCHANGED <<pageVars, sock, authed, pinged, socket, timer, orphans,
                   attempts, ping, isDisconnecting, signalingState, sendQueue,
                   sends>>

\* The interval keeps running after a timeout, until some onclose stops it.  A
\* reconnect timer is at most 15 seconds and is set either by a tick or by an
\* onclose, which stops the ticks: none is pending at a tick, 30 seconds later.
\* A socket still connecting by then is slow and counts as a fault.
tick == ping /\ ~timer /\ orphans = 0

heartbeatTimeout ==
    /\ tick /\ stale
    /\ IF socket # Null /\ sock[socket] = "connecting"
       THEN faults < MaxFaults /\ faults' = faults + 1 ELSE UNCHANGED faults
    /\ sock' = closeSocket
    /\ socket' = Null
    /\ scheduleReconnect
    /\ UNCHANGED <<netVars, pageVars, ping, isDisconnecting, signalingState,
                   sendQueue, sends>>

heartbeatPing ==
    /\ tick /\ ~stale /\ IsOpen
    /\ pinged' = pinged \union {socket}
    /\ UNCHANGED <<pageVars, countVars, sock, authed, socket, timer,
                   orphans, attempts, ping, stale, isDisconnecting,
                   signalingState, sendQueue>>

-----------------------------------------------------------------------------
Next ==
    \/ connectSignaling \/ disconnectRoom \/ send
    \/ \E s \in Sockets :
          onopen(s) \/ broken(s) \/ closed(s) \/ handleAuth(s) \/ handlePong(s)
    \/ reconnectTimer \/ orphanTimer
    \/ silence \/ heartbeatTimeout \/ heartbeatPing

Spec == Init /\ [][Next]_vars

\* Timers fire, a connection attempt and a close() end, the hub answers an
\* open connection, time passes.
FairSpec ==
    /\ Spec
    /\ WF_vars(reconnectTimer) /\ WF_vars(orphanTimer)
    /\ WF_vars(\E s \in Sockets : onopen(s) \/ closed(s) \/ handleAuth(s))
    /\ WF_vars(silence) /\ WF_vars(heartbeatTimeout)

-----------------------------------------------------------------------------
(* Properties *)

\* Every variable keeps its type; attempts stay within maxReconnectAttempts.
TypeOK ==
    /\ sock \in [Sockets -> {"connecting", "open", "closing", "closed"}]
    /\ authed \in SUBSET Sockets /\ pinged \in SUBSET Sockets
    /\ socket \in Sockets \union {Null}
    /\ timer \in BOOLEAN /\ orphans \in Nat /\ attempts \in 0..MaxAttempts
    /\ ping \in BOOLEAN /\ stale \in BOOLEAN /\ isDisconnecting \in BOOLEAN
    /\ page \in {"new", "mounted", "left"} /\ stored \in BOOLEAN
    /\ signalingState \in {"disconnected", "connecting", "connected"}
    /\ sendQueue \in 0..MaxQueue
    /\ sends \in 0..MaxSends /\ faults \in 0..MaxFaults

\* A connection in use is watched: while this.socket is authenticated the
\* heartbeat runs, although the onclose of any older socket stops it.
ConnectionIsWatched ==
    socket # Null /\ socket \in authed => ping

\* No message is left in the queue while an authenticated connection is open.
QueueDrained ==
    IsOpen /\ socket \in authed => sendQueue = 0

\* A client without a socket that has not been told to disconnect still has
\* something that will bring it back, unless its attempts are used up.
NeverStranded ==
    page # "new" /\ socket = Null /\ ~isDisconnecting
        => timer \/ orphans > 0 \/ ping \/ attempts = MaxAttempts

\* Nothing will happen any more: the attempts are used up.
GaveUp == attempts = MaxAttempts /\ socket = Null /\ ~timer /\ orphans = 0

\* A message that had to wait is sent after the reconnect, unless the page is
\* left or the attempts are used up.
QueuedIsSent ==
    sendQueue > 0 ~> sendQueue = 0 \/ GaveUp \/ page = "left"
=============================================================================
