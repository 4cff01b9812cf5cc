---------------------------- MODULE VoiceRecorder ----------------------------
(***************************************************************************)
(* The voice message button of a room: VoiceRecorder.tsx over the recorder *)
(* of voice.ts, which wraps getUserMedia and MediaRecorder.                *)
(*                                                                         *)
(* A press makes a new recorder (numbered here) and asks for the           *)
(* microphone; the answer, the stop event of MediaRecorder and the end of  *)
(* onSendFile come later, in any order with what the user does meanwhile.  *)
(* The component lives as long as the page.  Amplitude and elapsed time    *)
(* are display only.                                                       *)
(***************************************************************************)
EXTENDS Naturals, FiniteSets

CONSTANTS
    MaxRecorders,  \* presses that ask for the microphone (a bound)
    Impatient,     \* whether the user presses again before the microphone is granted
    Unplugs        \* whether the microphone may be taken away

ASSUME VoiceAssumption ==
    MaxRecorders \in Nat \ {0} /\ Impatient \in BOOLEAN /\ Unplugs \in BOOLEAN

Recorders == 1..MaxRecorders
None == 0

VARIABLES
    ui,           \* uiState
    slide,        \* slideTarget
    recorderRef,  \* recorderRef.current
    active,       \* isRecordingActive.current
    holdActive,   \* holdActiveRef.current
    holdTimer,    \* whether the 200 ms timer is pending
    finger,       \* "up", "down" on the button, "out" between pointerup and pointerleave
    engine,       \* each recorder of voice.ts, with its MediaRecorder
    call,         \* the stopAndSend of each recorder that is under way
    stopped       \* recorders the user has stopped (observed)

voiceVars == <<ui, slide, recorderRef, active, holdActive, holdTimer, finger, engine, call,
          stopped>>
uiVars == <<ui, slide, recorderRef, active>>

\* asking says by which pointer until getUserMedia answers; mic is the stream;
\* media is MediaRecorder's own state, "ending" while its stop event is queued.
NewEngine == [state |-> "idle", asking |-> "no", mic |-> FALSE, recorder |-> FALSE,
              media |-> "inactive"]

VoiceInit ==
    /\ ui = "idle" /\ slide = "none" /\ recorderRef = None /\ active = FALSE
    /\ holdActive = FALSE /\ holdTimer = FALSE /\ finger = "up"
    /\ engine = [r \in Recorders |-> NewEngine]
    /\ call = [r \in Recorders |-> "none"]
    /\ stopped = {}

-----------------------------------------------------------------------------
(* voice.ts *)

\* cleanup: stopped tracks end the MediaRecorder, unless it is ending anyway.
cleanup(e) == [e EXCEPT !.recorder = FALSE, !.mic = FALSE,
                        !.media = IF @ = "active" THEN "inactive" ELSE @]

cancel(e) == cleanup([e EXCEPT !.state = "stopped"])

\* start, after the microphone has been granted.
started(e) ==
    [e EXCEPT !.state = "recording", !.asking = "no", !.mic = TRUE, !.recorder = TRUE,
              !.media = "active"]

mayStop(e) == e.recorder /\ e.state = "recording"

\* stop(): an inactive MediaRecorder fires no event.
stop(e) == [e EXCEPT !.state = "stopped", !.media = IF @ = "active" THEN "ending" ELSE @]

-----------------------------------------------------------------------------
(* cleanupRecording, startRecording, stopAndSend *)

\* The recorder cleanupRecording cancels.
BugForgetsTheRecorder(r) == None
toCancel(r) == r

\* What cleanupRecording makes of the engines es.
cleanedUp(es) ==
    [r \in Recorders |-> IF r = toCancel(recorderRef) THEN cancel(es[r]) ELSE es[r]]

cleanupRecording ==
    /\ holdTimer' = FALSE
    /\ recorderRef' = None /\ active' = FALSE
    /\ ui' = "idle" /\ slide' = "none"

\* startRecording up to its await: at most one press waits unless the user is
\* impatient.
mayStart == Impatient \/ (~holdTimer /\ \A r \in Recorders : engine[r].asking = "no")
startRecording(by) ==
    \E r \in Recorders :
        /\ r = Cardinality({s \in Recorders : engine[s] # NewEngine}) + 1
        /\ engine' = [engine EXCEPT ![r].asking = by]

\* stopAndSend up to its first await.  A recorder that is not recording rejects
\* at once, which ends in cleanupRecording.  timer is what becomes of the hold
\* timer otherwise.
stopAndSend(timer) ==
    LET r == recorderRef IN
    CASE r = None -> holdTimer' = timer /\ UNCHANGED <<engine, call, uiVars, stopped>>
      [] r # None /\ mayStop(engine[r]) ->
           /\ engine' = [engine EXCEPT ![r] = stop(@)]
           /\ call' = [call EXCEPT ![r] = "stop"]
           /\ stopped' = stopped \union {r}
           /\ holdTimer' = timer /\ UNCHANGED uiVars
      [] OTHER ->
           /\ engine' = cleanedUp(engine) /\ cleanupRecording
           /\ UNCHANGED <<call, stopped>>

\* getUserMedia answers; the state that is shown depends on the pointer.
granted(r) ==
    /\ engine[r].asking # "no"
    /\ engine' = [engine EXCEPT ![r] = started(@)]
    /\ recorderRef' = r /\ active' = TRUE /\ slide' = "none"
    /\ ui' = IF engine[r].asking = "mouse" THEN "bar" ELSE "live"
    /\ UNCHANGED <<holdActive, holdTimer, finger, call, stopped>>

\* The engine that has failed is not used again.
denied(r) ==
    /\ engine[r].asking # "no"
    /\ engine' = [engine EXCEPT ![r] = [cleanup(@) EXCEPT !.asking = "no", !.state = "stopped"]]
    /\ recorderRef' = None /\ active' = FALSE
    /\ UNCHANGED <<ui, slide, holdActive, holdTimer, finger, call, stopped>>

-----------------------------------------------------------------------------
(* The user *)

pointerDownMouse ==
    /\ ui = "idle" /\ mayStart
    /\ startRecording("mouse")
    /\ UNCHANGED <<uiVars, holdActive, holdTimer, finger, call, stopped>>

pointerDownTouch ==
    /\ ui = "idle" /\ finger = "up" /\ mayStart
    /\ finger' = "down" /\ holdActive' = TRUE /\ holdTimer' = TRUE
    /\ UNCHANGED <<ui, slide, recorderRef, active, engine, call, stopped>>

holdTimeout ==
    /\ holdTimer
    /\ holdTimer' = FALSE
    /\ IF holdActive THEN startRecording("touch") ELSE UNCHANGED engine
    /\ UNCHANGED <<ui, slide, recorderRef, active, holdActive, finger, call, stopped>>

handlePointerMove(target) ==
    /\ ui = "live" /\ active /\ finger = "down"
    /\ slide' = target
    /\ UNCHANGED <<ui, recorderRef, active, holdActive, holdTimer, finger, engine, call,
                   stopped>>

\* What pointerup and pointerleave have in common.
release ==
    IF ui # "live"
    THEN holdTimer' = FALSE /\ UNCHANGED <<ui, slide, recorderRef, active, engine, call, stopped>>
    ELSE CASE slide = "cancel" ->
                /\ engine' = cleanedUp(engine) /\ cleanupRecording
                /\ UNCHANGED <<call, stopped>>
           [] slide = "lock" ->
                /\ ui' = "bar" /\ slide' = "none" /\ holdTimer' = FALSE
                /\ UNCHANGED <<recorderRef, active, engine, call, stopped>>
           [] OTHER -> stopAndSend(FALSE)

handlePointerUp ==
    /\ finger = "down" /\ finger' = "out"
    /\ holdActive' = FALSE
    /\ release

pointerLeave ==
    /\ finger = "out" /\ finger' = "up"
    /\ release
    /\ UNCHANGED holdActive

clickStop ==
    /\ ui = "bar" /\ stopAndSend(holdTimer)
    /\ UNCHANGED <<holdActive, finger>>

clickCancel ==
    /\ ui = "bar"
    /\ engine' = cleanedUp(engine) /\ cleanupRecording
    /\ UNCHANGED <<holdActive, finger, call, stopped>>

-----------------------------------------------------------------------------
(* Events of MediaRecorder, and the end of stopAndSend *)

\* What the end of a call does: finally { cleanupRecording() }.
endCall(r, es) ==
    /\ call' = [call EXCEPT ![r] = "none"]
    /\ engine' = cleanedUp(es) /\ cleanupRecording

\* A recording shorter than a second is not sent.
BugShortKeepsTheBar(r, es) ==
    engine' = es /\ call' = [call EXCEPT ![r] = "none"] /\ UNCHANGED <<uiVars, holdTimer>>
tooShort(r, es) == endCall(r, es)

\* The stop event, after a last dataavailable.  Its handler is set by stop().
onstop(r) ==
    LET es == [engine EXCEPT ![r] = [cleanup(@) EXCEPT !.media = "inactive"]] IN
    /\ engine[r].media = "ending"
    /\ \/ call[r] = "stop" /\ tooShort(r, es)
       \/ /\ call[r] = "stop"
          /\ call' = [call EXCEPT ![r] = "send"] /\ engine' = es
          /\ UNCHANGED <<uiVars, holdTimer>>
    /\ UNCHANGED <<holdActive, finger, stopped>>

\* onSendFile has returned or thrown.
fileSent(r) ==
    /\ call[r] = "send" /\ endCall(r, engine)
    /\ UNCHANGED <<holdActive, finger, stopped>>

\* The recorder reports an error: a pending stop rejects.
onerror(r) ==
    LET es == [engine EXCEPT ![r] = [cleanup(@) EXCEPT !.media = "inactive"]] IN
    /\ engine[r].media \in {"active", "ending"}
    /\ IF call[r] = "stop" THEN endCall(r, es)
       ELSE engine' = es /\ UNCHANGED <<call, uiVars, holdTimer>>
    /\ UNCHANGED <<holdActive, finger, stopped>>

\* The track ends by itself: MediaRecorder stops and nobody handles it.
unplug(r) ==
    /\ Unplugs /\ engine[r].media = "active"
    /\ engine' = [engine EXCEPT ![r].media = "inactive"]
    /\ UNCHANGED <<uiVars, holdActive, holdTimer, finger, call, stopped>>

-----------------------------------------------------------------------------
browser(r) == granted(r) \/ denied(r) \/ onstop(r) \/ fileSent(r)

VoiceNext ==
    \/ pointerDownMouse \/ pointerDownTouch \/ holdTimeout
    \/ \E target \in {"none", "lock", "cancel"} : handlePointerMove(target)
    \/ handlePointerUp \/ pointerLeave
    \/ clickStop \/ clickCancel
    \/ \E r \in Recorders : browser(r) \/ onerror(r) \/ unplug(r)

VoiceSpec == VoiceInit /\ [][VoiceNext]_voiceVars

\* The browser answers and delivers its events.
FairVoiceSpec == VoiceSpec /\ \A r \in Recorders : WF_voiceVars(browser(r))

-----------------------------------------------------------------------------
(* Properties *)

\* Every variable keeps its type.
RecorderTypeOK ==
    /\ ui \in {"idle", "bar", "live"} /\ slide \in {"none", "lock", "cancel"}
    /\ recorderRef \in Recorders \union {None} /\ finger \in {"up", "down", "out"}
    /\ {active, holdActive, holdTimer} \subseteq BOOLEAN
    /\ engine \in [Recorders ->
          [state : {"idle", "recording", "stopped"}, asking : {"no", "mouse", "touch"},
           mic : BOOLEAN, recorder : BOOLEAN, media : {"inactive", "active", "ending"}]]
    /\ call \in [Recorders -> {"none", "stop", "send"}]

\* While the microphone is on the button shows it, or the recording is just
\* being stopped: no order of touches, answers, stop events and ends of calls
\* leaves it on behind an idle button, as long as one press waits at a time.
MicShown ==
    \A r \in Recorders :
        engine[r].mic => (r = recorderRef /\ ui # "idle") \/ call[r] = "stop"

\* stop() has been called on a MediaRecorder that had ended by itself, which
\* then has no event left to fire.
hangs(r) == call[r] = "stop" /\ engine[r].media = "inactive"

\* A recording the user has stopped lets go of the button, whether it is sent,
\* too short, fails to be sent or fails, unless the microphone had been taken
\* away.
StopEnds ==
    \A r \in Recorders : (r \in stopped) ~> (ui = "idle" \/ recorderRef # r \/ hangs(r))
=============================================================================
