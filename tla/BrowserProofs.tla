---------------------------- MODULE BrowserProofs ----------------------------
(***************************************************************************)
(* Proofs about the two hooks of a page that talk to the browser:          *)
(* SignalingClient, for every number of attempts, sockets, faults and      *)
(* messages and every capacity of the queue, and VoiceRecorder, for every  *)
(* number of presses.                                                      *)
(***************************************************************************)
EXTENDS SignalingClient, VoiceRecorder, TLAPS

-----------------------------------------------------------------------------
(* SignalingClient *)

\* What happens to one of the sockets.
SocketEvent(s) == onopen(s) \/ broken(s) \/ closed(s) \/ handleAuth(s) \/ handlePong(s)

\* An auth answer belongs to a connection that has been opened and not closed.
AuthedInv == \A s \in authed : sock[s] \in {"open", "closing"}

Inv == /\ TypeOK /\ AuthedInv
       /\ ConnectionIsWatched /\ QueueDrained /\ NeverStranded

-----------------------------------------------------------------------------
(* Helpers *)

\* connect gives the client a socket that was closed, or leaves it the one it
\* has.
LEMMA ConnectFacts ==
    ASSUME TypeOK, connect
    PROVE  /\ socket' \in Sockets /\ socket' # Null
           /\ sock' \in [Sockets -> {"connecting", "open", "closing", "closed"}]
           /\ isDisconnecting' \in BOOLEAN
           /\ \/ UNCHANGED <<sock, socket, isDisconnecting>>
              \/ /\ sock[socket'] = "closed" /\ sock'[socket'] = "connecting"
                 /\ \A s \in Sockets \ {socket'} : sock'[s] = sock[s]
<1>1. CASE socket # Null
  BY <1>1 DEF connect, TypeOK
<1>2. CASE socket = Null
  <2>1. Free # {} /\ socket' = CHOOSE s \in Free : TRUE
    BY <1>2 DEF connect
  <2>2. socket' \in Free
    BY <2>1
  <2>3. socket' \in Sockets /\ sock[socket'] = "closed" /\ socket' # Null
    BY <2>2 DEF Free, Sockets, Null
  <2>4. sock' = [sock EXCEPT ![socket'] = "connecting"] /\ isDisconnecting' = FALSE
    BY <1>2 DEF connect
  <2> QED  BY <2>3, <2>4 DEF TypeOK
<1> QED  BY <1>1, <1>2

\* A reconnect is scheduled unless the page has disconnected the client or the
\* attempts are used up.
LEMMA ScheduleFacts ==
    ASSUME TypeOK, scheduleReconnect
    PROVE  /\ attempts' \in 0..MaxAttempts /\ timer' \in BOOLEAN /\ orphans' \in Nat
           /\ isDisconnecting \/ timer' \/ attempts' = MaxAttempts
<1>1. attempts \in 0..MaxAttempts /\ orphans \in Nat /\ timer \in BOOLEAN
  BY DEF TypeOK
<1>2. CASE canRetry
  BY <1>1, <1>2, SignalingAssumption DEF scheduleReconnect, canRetry
<1>3. CASE ~canRetry
  BY <1>1, <1>3, SignalingAssumption DEF scheduleReconnect, canRetry
<1> QED  BY <1>2, <1>3

LEMMA CloseSocketFacts ==
    ASSUME TypeOK, sock' = closeSocket
    PROVE  /\ sock' \in [Sockets -> {"connecting", "open", "closing", "closed"}]
           /\ \A s \in Sockets : sock'[s] \in {sock[s], "closing"}
           /\ \A s \in Sockets : sock[s] = "open" => sock'[s] \in {"open", "closing"}
  BY DEF TypeOK, closeSocket

\* Whatever the socket, onclose leaves the client without one.
LEMMA OncloseFacts ==
    ASSUME TypeOK, NEW s \in Sockets, onclose(s)
    PROVE  /\ sock' \in [Sockets -> {"connecting", "open", "closing", "closed"}]
           /\ \A t \in Sockets \ {s} : sock'[t] = sock[t]
           /\ authed' = authed \ {s} /\ pinged' \in SUBSET Sockets
           /\ ping' = FALSE /\ socket' = Null /\ signalingState' = "disconnected"
           /\ scheduleReconnect
  BY DEF TypeOK, onclose, afterClose

LEMMA InitInv == Init => Inv
<1> SUFFICES ASSUME Init PROVE Inv
  OBVIOUS
<1>1. TypeOK
  <2>1. sock \in [Sockets -> {"connecting", "open", "closing", "closed"}]
    BY DEF Init
  <2>2. /\ attempts \in 0..MaxAttempts /\ sendQueue \in 0..MaxQueue
        /\ sends \in 0..MaxSends /\ faults \in 0..MaxFaults /\ orphans \in Nat
    BY SignalingAssumption DEF Init
  <2> QED  BY <2>1, <2>2 DEF Init, TypeOK
<1>2. AuthedInv /\ ConnectionIsWatched /\ QueueDrained /\ NeverStranded
  BY DEF Init, AuthedInv, ConnectionIsWatched, QueueDrained, NeverStranded
<1> QED  BY <1>1, <1>2 DEF Inv

-----------------------------------------------------------------------------
(* The page *)

LEMMA ConnectSignalingInv == Inv /\ connectSignaling => Inv'
<1> SUFFICES ASSUME Inv, connectSignaling PROVE Inv'
  OBVIOUS
<1>1. connect
  BY DEF connectSignaling
<1>2. TypeOK'
  BY <1>1, ConnectFacts DEF Inv, connectSignaling, netVars, countVars, TypeOK
<1>3. authed \subseteq Sockets
  BY DEF Inv, TypeOK
<1>4. AuthedInv'
  BY <1>1, <1>3, ConnectFacts DEF Inv, connectSignaling, netVars, AuthedInv
<1>5. ConnectionIsWatched' /\ QueueDrained'
  BY <1>1, <1>3, ConnectFacts
     DEF Inv, connectSignaling, netVars, AuthedInv, ConnectionIsWatched, QueueDrained, IsOpen
<1>6. NeverStranded'
  BY <1>1, ConnectFacts DEF Inv, NeverStranded
<1> QED  BY <1>2, <1>4, <1>5, <1>6 DEF Inv

LEMMA DisconnectRoomInv == Inv /\ disconnectRoom => Inv'
<1> SUFFICES ASSUME Inv, disconnectRoom PROVE Inv'
  OBVIOUS
<1> USE DEF Inv
<1>1. CASE stored
  <2>1. sock' = closeSocket /\ socket' = Null /\ isDisconnecting'
    BY <1>1 DEF disconnectRoom
  <2>2. TypeOK'
    BY <1>1, <2>1, CloseSocketFacts DEF disconnectRoom, netVars, countVars, TypeOK
  <2>3. AuthedInv'
    BY <2>1, CloseSocketFacts DEF disconnectRoom, netVars, AuthedInv, TypeOK
  <2>4. ConnectionIsWatched' /\ QueueDrained' /\ NeverStranded'
    BY <2>1 DEF ConnectionIsWatched, QueueDrained, NeverStranded, IsOpen
  <2> QED  BY <2>2, <2>3, <2>4
<1>2. CASE ~stored
  <2>1. UNCHANGED <<isDisconnecting, ping, timer, sock, socket, authed, stale, pinged,
                    sends, faults, orphans, attempts, sendQueue>>
    BY <1>2 DEF disconnectRoom, netVars, countVars
  <2>2. TypeOK'
    BY <2>1 DEF disconnectRoom, TypeOK
  <2>3. AuthedInv' /\ ConnectionIsWatched' /\ QueueDrained'
    BY <2>1 DEF AuthedInv, ConnectionIsWatched, QueueDrained, IsOpen
  <2>4. NeverStranded'
    BY <2>1 DEF disconnectRoom, NeverStranded
  <2> QED  BY <2>2, <2>3, <2>4
<1> QED  BY <1>1, <1>2

LEMMA SendInv == Inv /\ send => Inv'
<1> SUFFICES ASSUME Inv, send PROVE Inv'
  OBVIOUS
<1> USE DEF Inv
<1>1. sendQueue' \in 0..MaxQueue /\ sends' \in 0..MaxSends
  BY SignalingAssumption DEF send, TypeOK
<1>2. TypeOK'
  BY <1>1 DEF send, netVars, pageVars, TypeOK
<1>3. QueueDrained'
  BY DEF send, netVars, QueueDrained, IsOpen
<1>4. AuthedInv' /\ ConnectionIsWatched' /\ NeverStranded'
  BY DEF send, netVars, pageVars, AuthedInv, ConnectionIsWatched, NeverStranded
<1> QED  BY <1>2, <1>3, <1>4

-----------------------------------------------------------------------------
(* Socket events *)

LEMMA OncloseInv ==
    ASSUME Inv, NEW s \in Sockets, onclose(s), faults' \in 0..MaxFaults,
           UNCHANGED <<stale, page, stored, isDisconnecting, sendQueue, sends>>
    PROVE  Inv'
<1>1. TypeOK'
  BY OncloseFacts, ScheduleFacts DEF Inv, TypeOK
<1>2. AuthedInv'
  BY OncloseFacts DEF Inv, AuthedInv, TypeOK
<1>3. ConnectionIsWatched' /\ QueueDrained'
  BY OncloseFacts DEF Inv, ConnectionIsWatched, QueueDrained, IsOpen
<1>4. NeverStranded'
  BY OncloseFacts, ScheduleFacts DEF Inv, NeverStranded
<1> QED  BY <1>1, <1>2, <1>3, <1>4 DEF Inv

LEMMA SocketEventInv ==
    ASSUME Inv, NEW s \in Sockets, SocketEvent(s)
    PROVE  Inv'
<1> USE DEF Inv
<1>1. CASE onopen(s)
  <2>1. s \notin authed
    BY <1>1 DEF onopen, AuthedInv
  <2>2. TypeOK'
    BY <1>1 DEF onopen, pageVars, countVars, TypeOK
  <2>3. AuthedInv'
    BY <1>1, <2>1 DEF onopen, AuthedInv, TypeOK
  <2>4. ConnectionIsWatched' /\ NeverStranded'
    BY <1>1 DEF onopen, pageVars, ConnectionIsWatched, NeverStranded
  <2>5. QueueDrained'
    BY <1>1, <2>1 DEF onopen, QueueDrained, IsOpen, TypeOK
  <2> QED  BY <2>2, <2>3, <2>4, <2>5
<1>2. CASE broken(s)
  <2>1. faults' \in 0..MaxFaults
    BY <1>2, SignalingAssumption DEF broken, TypeOK
  <2> QED  BY <1>2, <2>1, OncloseInv DEF broken, pageVars
<1>3. CASE closed(s)
  <2>1. faults' \in 0..MaxFaults
    BY <1>3 DEF closed, countVars, TypeOK
  <2> QED  BY <1>3, <2>1, OncloseInv DEF closed, pageVars, countVars
<1>4. CASE handleAuth(s)
  <2>1. TypeOK'
    BY <1>4, SignalingAssumption DEF handleAuth, countVars, flushQueue, TypeOK
  <2>2. AuthedInv'
    BY <1>4 DEF handleAuth, AuthedInv
  <2>3. ConnectionIsWatched' /\ NeverStranded'
    BY <1>4 DEF handleAuth, ConnectionIsWatched, NeverStranded
  <2>4. QueueDrained'
    BY <1>4 DEF handleAuth, QueueDrained, IsOpen, flushQueue
  <2> QED  BY <2>1, <2>2, <2>3, <2>4
<1>5. CASE handlePong(s)
  <2>1. TypeOK'
    BY <1>5 DEF handlePong, pageVars, countVars, TypeOK
  <2>2. AuthedInv' /\ ConnectionIsWatched' /\ QueueDrained' /\ NeverStranded'
    BY <1>5 DEF handlePong, pageVars, AuthedInv, ConnectionIsWatched, QueueDrained,
       IsOpen, NeverStranded
  <2> QED  BY <2>1, <2>2
<1> QED  BY <1>1, <1>2, <1>3, <1>4, <1>5 DEF SocketEvent

-----------------------------------------------------------------------------
(* Timers *)

LEMMA TimerConnectInv ==
    ASSUME Inv, connect, timer' \in BOOLEAN, orphans' \in Nat,
           UNCHANGED <<authed, stale, pinged, page, stored, sends, faults, attempts,
                       ping, signalingState, sendQueue>>
    PROVE  Inv'
<1>1. TypeOK'
  BY ConnectFacts DEF Inv, TypeOK
<1>2. authed \subseteq Sockets
  BY DEF Inv, TypeOK
<1>3. AuthedInv'
  BY <1>2, ConnectFacts DEF Inv, AuthedInv
<1>4. ConnectionIsWatched' /\ QueueDrained'
  BY <1>2, ConnectFacts DEF Inv, AuthedInv, ConnectionIsWatched, QueueDrained, IsOpen
<1>5. NeverStranded'
  BY ConnectFacts DEF Inv, NeverStranded
<1> QED  BY <1>1, <1>3, <1>4, <1>5 DEF Inv

LEMMA TimerInv ==
    Inv /\ (reconnectTimer \/ orphanTimer) => Inv'
<1> SUFFICES ASSUME Inv, reconnectTimer \/ orphanTimer PROVE Inv'
  OBVIOUS
<1>1. timer' \in BOOLEAN /\ orphans' \in Nat
  <2>1. timer \in BOOLEAN /\ orphans \in Nat
    BY DEF Inv, TypeOK
  <2>2. CASE reconnectTimer
    BY <2>1, <2>2 DEF reconnectTimer
  <2>3. CASE orphanTimer
    BY <2>1, <2>3 DEF orphanTimer
  <2> QED  BY <2>2, <2>3
<1> QED  BY <1>1, TimerConnectInv DEF reconnectTimer, orphanTimer, netVars, pageVars, countVars

LEMMA HeartbeatInv ==
    Inv /\ (silence \/ heartbeatTimeout \/ heartbeatPing) => Inv'
<1> SUFFICES ASSUME Inv, silence \/ heartbeatTimeout \/ heartbeatPing PROVE Inv'
  OBVIOUS
<1> USE DEF Inv
<1>1. CASE silence
  <2>1. faults' \in 0..MaxFaults
    BY <1>1, SignalingAssumption DEF silence, TypeOK
  <2>2. TypeOK'
    BY <1>1, <2>1 DEF silence, pageVars, TypeOK
  <2>3. AuthedInv' /\ ConnectionIsWatched' /\ QueueDrained' /\ NeverStranded'
    BY <1>1 DEF silence, pageVars, AuthedInv, ConnectionIsWatched, QueueDrained,
       IsOpen, NeverStranded
  <2> QED  BY <2>2, <2>3
<1>2. CASE heartbeatTimeout
  <2>1. faults' \in 0..MaxFaults
    BY <1>2, SignalingAssumption DEF heartbeatTimeout, TypeOK
  <2>2. sock' = closeSocket /\ socket' = Null /\ scheduleReconnect
    BY <1>2 DEF heartbeatTimeout
  <2>3. TypeOK'
    BY <1>2, <2>1, <2>2, CloseSocketFacts, ScheduleFacts
       DEF heartbeatTimeout, netVars, pageVars, TypeOK
  <2>4. AuthedInv'
    BY <1>2, <2>2, CloseSocketFacts DEF heartbeatTimeout, netVars, AuthedInv, TypeOK
  <2>5. ConnectionIsWatched' /\ QueueDrained'
    BY <2>2 DEF ConnectionIsWatched, QueueDrained, IsOpen
  <2>6. NeverStranded'
    BY <1>2, <2>2, ScheduleFacts DEF heartbeatTimeout, NeverStranded
  <2> QED  BY <2>3, <2>4, <2>5, <2>6
<1>3. CASE heartbeatPing
  <2>1. TypeOK'
    BY <1>3 DEF heartbeatPing, IsOpen, pageVars, countVars, TypeOK
  <2>2. AuthedInv' /\ ConnectionIsWatched' /\ QueueDrained' /\ NeverStranded'
    BY <1>3 DEF heartbeatPing, pageVars, AuthedInv, ConnectionIsWatched, QueueDrained,
       IsOpen, NeverStranded
  <2> QED  BY <2>1, <2>2
<1> QED  BY <1>1, <1>2, <1>3

-----------------------------------------------------------------------------
(* Theorems *)

LEMMA InvInvariant == Spec => []Inv
<1>1. Inv /\ [Next]_vars => Inv'
  <2> SUFFICES ASSUME Inv, [Next]_vars PROVE Inv'
    OBVIOUS
  <2>1. CASE UNCHANGED vars
    BY <2>1 DEF vars, Inv, TypeOK, AuthedInv, ConnectionIsWatched, QueueDrained, IsOpen,
       NeverStranded
  <2>2. ASSUME NEW s \in Sockets, SocketEvent(s) PROVE Inv'
    BY <2>2, SocketEventInv
  <2>3. CASE connectSignaling \/ disconnectRoom \/ send
    BY <2>3, ConnectSignalingInv, DisconnectRoomInv, SendInv
  <2>4. CASE reconnectTimer \/ orphanTimer \/ silence \/ heartbeatTimeout \/ heartbeatPing
    BY <2>4, TimerInv, HeartbeatInv
  <2> QED  BY <2>1, <2>2, <2>3, <2>4 DEF Next, SocketEvent
<1> QED  BY <1>1, InitInv, PTL DEF Spec

\* Every variable keeps its type, and the attempts their limit.
THEOREM ClientTypeCorrect == Spec => []TypeOK
<1>1. Inv => TypeOK
  BY DEF Inv
<1> QED  BY <1>1, InvInvariant, PTL

\* However many sockets have come and gone, the heartbeat of the one in use runs.
THEOREM HeartbeatRuns == Spec => []ConnectionIsWatched
<1>1. Inv => ConnectionIsWatched
  BY DEF Inv
<1> QED  BY <1>1, InvInvariant, PTL

\* An authenticated open connection has emptied the queue, whatever its size.
THEOREM QueueIsFlushed == Spec => []QueueDrained
<1>1. Inv => QueueDrained
  BY DEF Inv
<1> QED  BY <1>1, InvInvariant, PTL

\* A client without a socket has something that brings it back, or has used up
\* its attempts, or has been disconnected.
THEOREM AlwaysComesBack == Spec => []NeverStranded
<1>1. Inv => NeverStranded
  BY DEF Inv
<1> QED  BY <1>1, InvInvariant, PTL

-----------------------------------------------------------------------------
(* VoiceRecorder *)

Engine == [state : {"idle", "recording", "stopped"}, asking : {"no", "mouse", "touch"},
           mic : BOOLEAN, recorder : BOOLEAN, media : {"inactive", "active", "ending"}]

\* A press waits for the microphone only when the button is idle, and only one
\* does.
AskInv ==
    ~Impatient =>
        /\ \A r \in Recorders : engine[r].asking # "no" => ui = "idle" /\ ~holdTimer
        /\ \A r, s \in Recorders : engine[r].asking # "no" /\ engine[s].asking # "no" => r = s
        /\ holdTimer => ui = "idle"

VoiceInv == RecorderTypeOK /\ AskInv /\ (~Impatient => MicShown)

-----------------------------------------------------------------------------
(* What becomes of an engine *)

LEMMA EngineFacts ==
    ASSUME NEW e \in Engine
    PROVE  /\ cleanup(e) \in Engine /\ ~cleanup(e).mic /\ cleanup(e).asking = e.asking
           /\ cancel(e) \in Engine /\ ~cancel(e).mic /\ cancel(e).asking = e.asking
           /\ started(e) \in Engine /\ started(e).asking = "no"
           /\ stop(e) \in Engine /\ stop(e).mic = e.mic /\ stop(e).asking = e.asking
           /\ [cleanup(e) EXCEPT !.media = "inactive"] \in Engine
           /\ ~[cleanup(e) EXCEPT !.media = "inactive"].mic
           /\ [cleanup(e) EXCEPT !.media = "inactive"].asking = e.asking
           /\ [cleanup(e) EXCEPT !.asking = "no", !.state = "stopped"] \in Engine
           /\ ~[cleanup(e) EXCEPT !.asking = "no", !.state = "stopped"].mic
           /\ [cleanup(e) EXCEPT !.asking = "no", !.state = "stopped"].asking = "no"
  BY DEF Engine, cleanup, cancel, started, stop

\* cleanupRecording turns off the microphone of the current recorder.
LEMMA CleanedUp ==
    ASSUME NEW es \in [Recorders -> Engine]
    PROVE  /\ cleanedUp(es) \in [Recorders -> Engine]
           /\ \A r \in Recorders : /\ cleanedUp(es)[r].asking = es[r].asking
                                   /\ cleanedUp(es)[r].mic => es[r].mic /\ r # recorderRef
  BY EngineFacts DEF cleanedUp, toCancel

LEMMA NoneIsNoRecorder == None \notin Recorders
  BY VoiceAssumption DEF None, Recorders

LEMMA TypeEngine == RecorderTypeOK => engine \in [Recorders -> Engine]
  BY DEF RecorderTypeOK, Engine

-----------------------------------------------------------------------------
(* Steps *)

LEMMA InitVoice == VoiceInit => VoiceInv
<1> SUFFICES ASSUME VoiceInit PROVE VoiceInv
  OBVIOUS
<1>1. NewEngine \in Engine /\ NewEngine.asking = "no" /\ ~NewEngine.mic
  BY DEF NewEngine, Engine
<1>2. engine \in [Recorders -> Engine]
  BY <1>1 DEF VoiceInit
<1>3. RecorderTypeOK
  BY <1>2 DEF VoiceInit, RecorderTypeOK, Engine
<1>4. AskInv /\ MicShown
  BY <1>1 DEF VoiceInit, AskInv, MicShown
<1> QED  BY <1>3, <1>4 DEF VoiceInv

\* Types that a step which ends in cleanupRecording leaves to be shown.
OthersTyped ==
    /\ finger \in {"up", "down", "out"} /\ holdActive \in BOOLEAN
    /\ call \in [Recorders -> {"none", "stop", "send"}]

\* A step that ends in cleanupRecording.
LEMMA CleanupStep ==
    ASSUME VoiceInv, NEW es \in [Recorders -> Engine],
           \A r \in Recorders : es[r].asking = engine[r].asking,
           \A r \in Recorders : es[r].mic =>
              engine[r].mic /\ (call[r] = "stop" => call'[r] = "stop"),
           engine' = cleanedUp(es), cleanupRecording, OthersTyped'
    PROVE  VoiceInv'
<1>1. RecorderTypeOK'
  <2>1. engine' \in [Recorders -> Engine]
    BY CleanedUp
  <2> QED  BY <2>1 DEF cleanupRecording, OthersTyped, RecorderTypeOK, Engine
<1>2. AskInv'
  BY CleanedUp DEF VoiceInv, AskInv, cleanupRecording
<1>3. ~Impatient => MicShown'
  BY CleanedUp DEF VoiceInv, MicShown
<1> QED  BY <1>1, <1>2, <1>3 DEF VoiceInv

\* A step that only turns microphones off.
LEMMA SilentStep ==
    ASSUME VoiceInv, NEW es \in [Recorders -> Engine],
           \A r \in Recorders : es[r].asking = engine[r].asking,
           \A r \in Recorders : es[r].mic =>
              engine[r].mic /\ (call[r] = "stop" => call'[r] = "stop"),
           engine' = es, UNCHANGED <<uiVars, holdTimer>>, OthersTyped'
    PROVE  VoiceInv'
<1>1. RecorderTypeOK'
  BY DEF VoiceInv, RecorderTypeOK, OthersTyped, uiVars, Engine
<1>2. AskInv'
  BY DEF VoiceInv, AskInv, uiVars
<1>3. ~Impatient => MicShown'
  BY DEF VoiceInv, MicShown, uiVars
<1> QED  BY <1>1, <1>2, <1>3 DEF VoiceInv

LEMMA StopAndSendStep ==
    ASSUME VoiceInv, ui # "idle", NEW pending \in {FALSE, holdTimer}, stopAndSend(pending),
           finger' \in {"up", "down", "out"}, holdActive' \in BOOLEAN
    PROVE  VoiceInv'
<1> DEFINE r == recorderRef
<1>1. engine \in [Recorders -> Engine] /\ r \in Recorders \union {None}
  BY TypeEngine DEF VoiceInv, RecorderTypeOK
<1>2. CASE r = None
  <2>1. UNCHANGED <<engine, call, uiVars>> /\ holdTimer' = pending
    BY <1>2 DEF stopAndSend
  <2>2. RecorderTypeOK'
    BY <2>1 DEF VoiceInv, RecorderTypeOK, uiVars
  <2>3. AskInv'
    BY <2>1 DEF VoiceInv, AskInv, uiVars
  <2>4. ~Impatient => MicShown'
    BY <2>1 DEF VoiceInv, MicShown, uiVars
  <2> QED  BY <2>2, <2>3, <2>4 DEF VoiceInv
<1>3. CASE r # None /\ mayStop(engine[r])
  <2>1. /\ engine' = [engine EXCEPT ![r] = stop(@)] /\ call' = [call EXCEPT ![r] = "stop"]
        /\ holdTimer' = pending /\ UNCHANGED uiVars
    BY <1>3 DEF stopAndSend
  <2>2. /\ engine' \in [Recorders -> Engine]
        /\ \A q \in Recorders : /\ engine'[q].asking = engine[q].asking
                                /\ engine'[q].mic = engine[q].mic
    BY <1>1, <2>1, EngineFacts
  <2>3. RecorderTypeOK'
    BY <1>1, <2>1, <2>2 DEF VoiceInv, RecorderTypeOK, uiVars, Engine
  <2>4. \A q \in Recorders : call[q] = "stop" => call'[q] = "stop"
    BY <1>1, <2>1 DEF VoiceInv, RecorderTypeOK
  <2>5. AskInv'
    BY <2>1, <2>2 DEF VoiceInv, AskInv, uiVars
  <2>6. ~Impatient => MicShown'
    BY <2>1, <2>2, <2>4 DEF VoiceInv, MicShown, uiVars
  <2> QED  BY <2>3, <2>5, <2>6 DEF VoiceInv
<1>4. CASE r # None /\ ~mayStop(engine[r])
  <2>1. engine' = cleanedUp(engine) /\ cleanupRecording /\ call' = call
    BY <1>4 DEF stopAndSend
  <2>2. OthersTyped'
    BY <2>1 DEF VoiceInv, RecorderTypeOK, OthersTyped
  <2> QED  BY <1>1, <2>1, <2>2, CleanupStep
<1> QED  BY <1>2, <1>3, <1>4

LEMMA ReleaseStep ==
    ASSUME VoiceInv, release, finger' \in {"up", "down", "out"}, holdActive' \in BOOLEAN
    PROVE  VoiceInv'
<1>1. CASE ui # "live"
  <2>1. holdTimer' = FALSE /\ UNCHANGED <<ui, slide, recorderRef, active, engine, call>>
    BY <1>1 DEF release
  <2>2. RecorderTypeOK'
    BY <2>1 DEF VoiceInv, RecorderTypeOK
  <2>3. AskInv'
    BY <2>1 DEF VoiceInv, AskInv
  <2>4. ~Impatient => MicShown'
    BY <2>1 DEF VoiceInv, MicShown
  <2> QED  BY <2>2, <2>3, <2>4 DEF VoiceInv
<1>2. CASE ui = "live" /\ slide = "cancel"
  <2>1. engine' = cleanedUp(engine) /\ cleanupRecording /\ call' = call
    BY <1>2 DEF release
  <2>2. OthersTyped'
    BY <2>1 DEF VoiceInv, RecorderTypeOK, OthersTyped
  <2> QED  BY <2>1, <2>2, CleanupStep, TypeEngine DEF VoiceInv
<1>3. CASE ui = "live" /\ slide = "lock"
  BY <1>3 DEF release, VoiceInv, RecorderTypeOK, AskInv, MicShown
<1>4. CASE ui = "live" /\ slide \notin {"cancel", "lock"}
  <2>1. stopAndSend(FALSE)
    BY <1>4 DEF release
  <2> QED  BY <1>4, <2>1, StopAndSendStep
<1> QED  BY <1>1, <1>2, <1>3, <1>4

\* Both ways of asking begin at an idle button.
LEMMA StartStep ==
    ASSUME VoiceInv, NEW by \in {"mouse", "touch"}, startRecording(by),
           ~Impatient => ui = "idle" /\ \A r \in Recorders : engine[r].asking = "no",
           ~Impatient => ~holdTimer', holdTimer' \in BOOLEAN,
           UNCHANGED <<uiVars, holdActive, finger, call>>
    PROVE  VoiceInv'
<1>1. PICK r \in Recorders : engine' = [engine EXCEPT ![r].asking = by]
  BY DEF startRecording
<1>2. engine \in [Recorders -> Engine]
  BY TypeEngine DEF VoiceInv
<1>3. /\ engine' \in [Recorders -> Engine]
      /\ \A q \in Recorders : engine'[q].mic = engine[q].mic
      /\ \A q \in Recorders \ {r} : engine'[q] = engine[q]
  BY <1>1, <1>2 DEF Engine
<1>4. RecorderTypeOK'
  BY <1>3 DEF VoiceInv, RecorderTypeOK, uiVars, Engine
<1>5. AskInv'
  BY <1>3 DEF VoiceInv, AskInv, uiVars
<1>6. ~Impatient => MicShown'
  BY <1>3 DEF VoiceInv, MicShown, uiVars
<1> QED  BY <1>4, <1>5, <1>6 DEF VoiceInv

LEMMA UserStep ==
    ASSUME VoiceInv,
           \/ pointerDownMouse \/ pointerDownTouch \/ holdTimeout
           \/ \E target \in {"none", "lock", "cancel"} : handlePointerMove(target)
           \/ handlePointerUp \/ pointerLeave \/ clickStop \/ clickCancel
    PROVE  VoiceInv'
<1>0. RecorderTypeOK
  BY DEF VoiceInv
<1>1. CASE pointerDownMouse
  <2>1. holdTimer \in BOOLEAN
    BY <1>0 DEF RecorderTypeOK
  <2> QED  BY <1>1, <2>1, StartStep DEF pointerDownMouse, mayStart, uiVars
<1>2. CASE pointerDownTouch
  BY <1>2 DEF pointerDownTouch, mayStart, VoiceInv, RecorderTypeOK, AskInv, MicShown
<1>3. CASE holdTimeout
  <2>1. CASE holdActive
    BY <1>3, <2>1, StartStep DEF holdTimeout, uiVars, VoiceInv, AskInv
  <2>2. CASE ~holdActive
    BY <1>3, <2>2 DEF holdTimeout, VoiceInv, RecorderTypeOK, AskInv, MicShown
  <2> QED  BY <2>1, <2>2
<1>4. ASSUME NEW target \in {"none", "lock", "cancel"}, handlePointerMove(target)
      PROVE  VoiceInv'
  BY <1>4 DEF handlePointerMove, VoiceInv, RecorderTypeOK, AskInv, MicShown
<1>5. CASE handlePointerUp
  BY <1>5, ReleaseStep DEF handlePointerUp
<1>6. CASE pointerLeave
  BY <1>0, <1>6, ReleaseStep DEF pointerLeave, RecorderTypeOK
<1>7. CASE clickStop
  BY <1>0, <1>7, StopAndSendStep DEF clickStop, RecorderTypeOK
<1>8. CASE clickCancel
  <2>1. OthersTyped'
    BY <1>0, <1>8 DEF clickCancel, RecorderTypeOK, OthersTyped
  <2> QED  BY <1>0, <1>8, <2>1, CleanupStep, TypeEngine DEF clickCancel
<1> QED  BY <1>1, <1>2, <1>3, <1>4, <1>5, <1>6, <1>7, <1>8

\* The engine of r after its MediaRecorder has ended, with or without the end of its call.
LEMMA EndedFacts ==
    ASSUME VoiceInv, NEW r \in Recorders
    PROVE  LET es == [engine EXCEPT ![r] = [cleanup(@) EXCEPT !.media = "inactive"]] IN
           /\ es \in [Recorders -> Engine]
           /\ \A q \in Recorders : es[q].asking = engine[q].asking
           /\ \A q \in Recorders : es[q].mic => engine[q].mic /\ q # r
  BY EngineFacts, TypeEngine DEF VoiceInv

LEMMA CallTyped ==
    ASSUME VoiceInv, NEW r \in Recorders, NEW v \in {"none", "stop", "send"},
           call' = [call EXCEPT ![r] = v], UNCHANGED <<holdActive, finger>>
    PROVE  /\ OthersTyped'
           /\ \A q \in Recorders \ {r} : call'[q] = call[q]
  BY DEF VoiceInv, RecorderTypeOK, OthersTyped

LEMMA BrowserStep ==
    ASSUME VoiceInv, NEW r \in Recorders, browser(r) \/ onerror(r) \/ unplug(r)
    PROVE  VoiceInv'
<1> DEFINE es == [engine EXCEPT ![r] = [cleanup(@) EXCEPT !.media = "inactive"]]
<1>0. RecorderTypeOK /\ engine \in [Recorders -> Engine]
  BY TypeEngine DEF VoiceInv
<1>es. /\ es \in [Recorders -> Engine]
       /\ \A q \in Recorders : es[q].asking = engine[q].asking
       /\ \A q \in Recorders : es[q].mic => engine[q].mic /\ q # r
  BY EndedFacts
<1>1. CASE granted(r)
  <2>1. /\ engine' \in [Recorders -> Engine] /\ engine'[r].asking = "no"
        /\ \A q \in Recorders \ {r} : engine'[q] = engine[q]
    BY <1>0, <1>1, EngineFacts DEF granted
  <2>2. RecorderTypeOK'
    BY <1>0, <1>1, <2>1 DEF granted, RecorderTypeOK, Engine
  <2>3. AskInv' /\ (~Impatient => MicShown')
    BY <1>1, <2>1 DEF granted, VoiceInv, AskInv, MicShown
  <2> QED  BY <2>2, <2>3 DEF VoiceInv
<1>2. CASE denied(r)
  <2>1. /\ engine' \in [Recorders -> Engine] /\ engine'[r].asking = "no" /\ ~engine'[r].mic
        /\ \A q \in Recorders \ {r} : engine'[q] = engine[q]
    BY <1>0, <1>2, EngineFacts DEF denied
  <2>2. RecorderTypeOK'
    BY <1>0, <1>2, <2>1 DEF denied, RecorderTypeOK, Engine
  <2>3. AskInv' /\ (~Impatient => MicShown')
    BY <1>2, <2>1 DEF denied, VoiceInv, AskInv, MicShown
  <2> QED  BY <2>2, <2>3 DEF VoiceInv
<1>3. CASE onstop(r)
  <2>1. UNCHANGED <<holdActive, finger>>
    BY <1>3 DEF onstop
  <2>2. CASE tooShort(r, es)
    <3>1. engine' = cleanedUp(es) /\ cleanupRecording /\ call' = [call EXCEPT ![r] = "none"]
      BY <2>2 DEF tooShort, endCall
    <3>2. OthersTyped' /\ \A q \in Recorders \ {r} : call'[q] = call[q]
      BY <2>1, <3>1, CallTyped
    <3> HIDE DEF es
    <3> QED  BY <1>es, <3>1, <3>2, CleanupStep
  <2>3. CASE /\ call' = [call EXCEPT ![r] = "send"] /\ engine' = es
             /\ UNCHANGED <<uiVars, holdTimer>>
    <3>1. OthersTyped' /\ \A q \in Recorders \ {r} : call'[q] = call[q]
      BY <2>1, <2>3, CallTyped
    <3> HIDE DEF es
    <3> QED  BY <1>es, <2>3, <3>1, SilentStep
  <2> QED  BY <1>3, <2>2, <2>3 DEF onstop
<1>4. CASE fileSent(r)
  <2>1. /\ engine' = cleanedUp(engine) /\ cleanupRecording /\ call' = [call EXCEPT ![r] = "none"]
        /\ call[r] = "send" /\ UNCHANGED <<holdActive, finger>>
    BY <1>4 DEF fileSent, endCall
  <2> QED  BY <1>0, <2>1, CallTyped, CleanupStep
<1>5. CASE onerror(r)
  <2>1. UNCHANGED <<holdActive, finger>>
    BY <1>5 DEF onerror
  <2>2. CASE call[r] = "stop"
    <3>1. engine' = cleanedUp(es) /\ cleanupRecording /\ call' = [call EXCEPT ![r] = "none"]
      BY <1>5, <2>2 DEF onerror, endCall
    <3>2. OthersTyped' /\ \A q \in Recorders \ {r} : call'[q] = call[q]
      BY <2>1, <3>1, CallTyped
    <3> HIDE DEF es
    <3> QED  BY <1>es, <3>1, <3>2, CleanupStep
  <2>3. CASE call[r] # "stop"
    <3>1. engine' = es /\ UNCHANGED <<call, uiVars, holdTimer>>
      BY <1>5, <2>3 DEF onerror
    <3>2. OthersTyped'
      BY <1>0, <2>1, <3>1 DEF RecorderTypeOK, OthersTyped
    <3> HIDE DEF es
    <3> QED  BY <1>es, <3>1, <3>2, SilentStep
  <2> QED  BY <2>2, <2>3
<1>6. CASE unplug(r)
  <2>1. /\ engine' \in [Recorders -> Engine] /\ UNCHANGED <<call, uiVars, holdTimer>>
        /\ \A q \in Recorders : /\ engine'[q].asking = engine[q].asking
                                /\ engine'[q].mic = engine[q].mic
    BY <1>0, <1>6 DEF unplug, Engine
  <2>2. OthersTyped'
    BY <1>0, <1>6 DEF unplug, RecorderTypeOK, OthersTyped
  <2> QED  BY <2>1, <2>2, SilentStep
<1> QED  BY <1>1, <1>2, <1>3, <1>4, <1>5, <1>6 DEF browser

LEMMA VoiceInvariant == VoiceSpec => []VoiceInv
<1>1. VoiceInit => VoiceInv
  BY InitVoice
<1>2. VoiceInv /\ [VoiceNext]_voiceVars => VoiceInv'
  <2> SUFFICES ASSUME VoiceInv, [VoiceNext]_voiceVars PROVE VoiceInv'
    OBVIOUS
  <2>1. CASE UNCHANGED voiceVars
    BY <2>1 DEF voiceVars, VoiceInv, RecorderTypeOK, AskInv, MicShown
  <2> QED  BY <2>1, UserStep, BrowserStep DEF VoiceNext
<1> QED  BY <1>1, <1>2, PTL DEF VoiceSpec

\* Every variable keeps its type, impatient user or not.
THEOREM RecorderTypeCorrect == VoiceSpec => []RecorderTypeOK
<1>1. VoiceInv => RecorderTypeOK
  BY DEF VoiceInv
<1> QED  BY <1>1, VoiceInvariant, PTL

\* With a user who waits for the microphone, the button shows whenever it is
\* on, however many recordings are made.
THEOREM MicrophoneIsShown == ~Impatient => (VoiceSpec => []MicShown)
<1> SUFFICES ASSUME ~Impatient PROVE VoiceSpec => []MicShown
  OBVIOUS
<1>1. VoiceInv => MicShown
  BY DEF VoiceInv
<1> QED  BY <1>1, VoiceInvariant, PTL
=============================================================================
