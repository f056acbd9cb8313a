----------------------------- MODULE XrSession -----------------------------
(***************************************************************************)
(* The OpenXR session: how it is started and what a start that fails       *)
(* reports (nativeInit and XrRenderer.start), the frame loop's poll of the *)
(* runtime's events (xr_session.c), what it tells the activity of the      *)
(* headset's comings and goings (trackPresence), and its end. The events   *)
(* drive the bookkeeping of DisplayRate.                                   *)
(*                                                                         *)
(* The runtime moves between its states as OpenXR has it and is ahead of   *)
(* the loop by the events on their way. A session that comes up ends the   *)
(* study of the starts: nobody reads the report's slot before another one. *)
(* Synchronized and visible, which the code tells apart from nothing else  *)
(* and not from one another, are one state. Recentring, profiles and the   *)
(* clocks' notices are other modules' events.                              *)
(***************************************************************************)
EXTENDS DisplayRate, Sequences

CONSTANTS Starts,       \* bound: starts, one after another, as 1 .. Starts
          MaxMoves,     \* bound: moves of the display the runtime makes by itself
          MaxEvents     \* bound: events on their way to the frame loop

ASSUME SessionAssumption == /\ {Starts, MaxMoves, MaxEvents} \subseteq Nat
                            /\ Starts > 0

VARIABLES thread,       \* how far each start's render thread is in nativeInit,
          ended,        \*   and whether it is out of it, and not up
          waiting,      \* the start whose latch Java waits for, 0 for none
          slot,         \* failedStart while failedStartSet, NoReport
          report,       \* what Java was told of each start
          beside,       \* history: a start ran beside one already given up
          runtime,      \* the runtime: state, begun, and the display: actual, moves
          events,       \* the runtime's events, to be polled
          sess,         \* sessionState, sessionRunning, everFocused, exitReason
          loop,         \* the frame loop
          awayTold      \* XrRenderer.sessionAway

starting == <<thread, ended, waiting, slot, report, beside>>
xr == <<sess, loop, awayTold>>
vars == <<scene, rate, starting, runtime, events, xr>>

NoReport == [of |-> 0, step |-> "none"]
TimedOut == [of |-> 0, step |-> "timed out"]
Untold == [of |-> 0, step |-> "untold"]
Id == 1 .. Starts

SessionInit == [state |-> "unknown", running |-> FALSE, focusedOnce |-> FALSE,
                reason |-> "none"]

Init ==
  /\ thread = [k \in Id |-> "none"] /\ ended = [k \in Id |-> FALSE]
  /\ waiting = 0 /\ slot = NoReport
  /\ report = [k \in Id |-> Untold] /\ beside = [k \in Id |-> FALSE]
  /\ \E now \in Rates :
       /\ runtime = [state |-> "idle", begun |-> FALSE, actual |-> now, moves |-> 0]
       /\ RateInit(now)
  /\ events = <<>> /\ sess = SessionInit
  /\ loop = "none" /\ awayTold = FALSE

-----------------------------------------------------------------------------
(* Starts. Each is a render thread's nativeInit, which clears the slot,    *)
(* goes through its steps, and has its report in the slot before the latch *)
(* is counted down.                                                        *)

Unchanged == UNCHANGED <<scene, rate, runtime, events, xr>>
Under(k) == thread[k] # "none" /\ ~ended[k]

Start(k) ==
  /\ loop = "none" /\ waiting = 0 /\ thread[k] = "none"
  /\ \A j \in Id : j < k => thread[j] # "none"
  /\ thread' = [thread EXCEPT ![k] = "made"] /\ waiting' = k
  /\ beside' = [beside EXCEPT ![k] = \E j \in Id : Under(j)]
  /\ UNCHANGED <<ended, slot, report>> /\ Unchanged

\* The report of an earlier start is not this one's.
Uncleared == slot    \* mutant
Cleared == NoReport
Clear(k) ==
  /\ Under(k) /\ thread[k] = "made" /\ thread' = [thread EXCEPT ![k] = "loader"]
  /\ slot' = Cleared
  /\ UNCHANGED <<ended, waiting, report, beside>> /\ Unchanged

\* The steps: what each goes on to, and what it may have noted where it stopped.
\* publishStartFailure writes "unknown" for one that noted nothing, and with no
\* memory for a report there is none.
Steps == {"loader", "instance", "graphics", "egl", "session", "swapchain", "gl"}
Publishes(k, notes) ==
  /\ ended' = [ended EXCEPT ![k] = TRUE] /\ UNCHANGED thread
  /\ slot' \in {slot} \cup {[of |-> k, step |-> s] : s \in notes}
Step(k, this, next, notes) ==
  /\ Under(k) /\ thread[k] = this
  /\ \/ thread' = [thread EXCEPT ![k] = next] /\ UNCHANGED <<ended, slot>>
     \/ Publishes(k, notes)
  /\ UNCHANGED <<waiting, report, beside>> /\ Unchanged

\* initXrInstance in three parts, initEgl, initXrSession, initSwapchain, initGl
LoaderNotes == {"loader", "runtime", "extensions", "unknown"}
Loader(k) == Step(k, "loader", "instance", LoaderNotes)
InstanceNotes == {"instance", "system"}
Instance(k) == Step(k, "instance", "graphics", InstanceNotes)
Graphics(k) == Step(k, "graphics", "egl", {"graphics"})
Egl(k) == Step(k, "egl", "session", {"egl"})
SessionNotes == {"graphics", "session", "space"}
CreateSession(k) == Step(k, "session", "swapchain", SessionNotes)
Swapchain(k) == Step(k, "swapchain", "gl", {"swapchain"})
Gl(k) == Step(k, "gl", "up", {"gl"})
Notes(step) == CASE step = "loader" -> LoaderNotes [] step = "instance" -> InstanceNotes
                 [] step = "session" -> SessionNotes [] OTHER -> {step}

\* The latch is down, and the report is taken.
Take(k) ==
  /\ waiting = k /\ ended[k] /\ waiting' = 0
  /\ report' = [report EXCEPT ![k] = slot] /\ slot' = NoReport
  /\ UNCHANGED <<thread, ended, beside>> /\ Unchanged

\* INIT_WAIT_SECONDS
GiveUp(k) ==
  /\ waiting = k /\ ~ended[k] /\ waiting' = 0
  /\ report' = [report EXCEPT ![k] = TimedOut]
  /\ UNCHANGED <<thread, ended, slot, beside>> /\ Unchanged

\* runFrameLoop looks for a stop at the top of every turn, and prepareForStop
\* may have asked for one, from another thread, by any of them.
Turn == {"poll", "over"}

ComeUp(k) ==
  /\ Under(k) /\ thread[k] = "up" /\ waiting = k /\ waiting' = 0
  /\ loop' \in Turn
  /\ thread' = [j \in Id |-> "up"] /\ ended' = [j \in Id |-> TRUE] /\ slot' = NoReport
  /\ report' = [j \in Id |-> Untold] /\ beside' = [j \in Id |-> FALSE]
  /\ UNCHANGED <<scene, rate, runtime, events, sess, awayTold>>

\* One given up finds the stop asked for, and nothing else.
ComeUpLate(k) ==
  /\ Under(k) /\ thread[k] = "up" /\ waiting # k
  /\ ended' = [ended EXCEPT ![k] = TRUE]
  /\ UNCHANGED <<thread, waiting, slot, report, beside>> /\ Unchanged

-----------------------------------------------------------------------------
(* The frame loop: nativeWaitBeginFrame polls until there are no events,   *)
(* each one handled whole.                                                 *)

\* runtimeEnded, whose first reason is the one kept.
EndsFor(s, why) == IF s.reason = "none" THEN [s EXCEPT !.reason = why] ELSE s
Exiting == sess.reason # "none"

Polls == loop = "poll" /\ events # <<>> /\ events' = Tail(events)
Polled(what) == Polls /\ Head(events).what = "session" /\ Head(events).to = what
Quiet == UNCHANGED <<scene, starting, loop, awayTold>>
To(what) == [sess EXCEPT !.state = what]

\* xrBeginSession may fail; the runtime moves on only when it has not.
OnReady ==
  /\ Polled("ready")
  /\ \/ /\ sess' = [To("ready") EXCEPT !.running = TRUE]
        /\ runtime' = [runtime EXCEPT !.begun = TRUE]
        /\ \E r \in Refusals : rate' = ApplyRate(rate, knob, r)
     \/ sess' = To("ready") /\ UNCHANGED <<runtime, rate>>
  /\ Quiet

OnFocused ==
  /\ Polled("focused") /\ sess' = [To("focused") EXCEPT !.focusedOnce = TRUE]
  /\ \E r \in Refusals, now \in {0, runtime.actual} : rate' = Focused(rate, now, r)
  /\ UNCHANGED runtime /\ Quiet

StoppedOnly == To("stopping")    \* mutant
StoppedFor == [To("stopping") EXCEPT !.running = FALSE]
OnStopping ==
  /\ Polled("stopping") /\ sess' = StoppedFor
  /\ runtime' = [runtime EXCEPT !.begun = FALSE]
  /\ UNCHANGED rate /\ Quiet

EndedAs(what) == EndsFor([To(what) EXCEPT !.running = FALSE], what)
OnEnded(what) ==
  /\ what \in {"exiting", "loss pending"} /\ Polled(what)
  /\ sess' = EndedAs(what)
  /\ UNCHANGED <<runtime, rate>> /\ Quiet

OnOther(what) ==
  /\ what \in {"idle", "visible"} /\ Polled(what)
  /\ sess' = To(what)
  /\ UNCHANGED <<runtime, rate>> /\ Quiet

OnInstanceLoss ==
  /\ Polls /\ Head(events).what = "instance"
  /\ sess' = EndsFor(sess, "instance loss pending")
  /\ UNCHANGED <<runtime, rate>> /\ Quiet

OnRateChanged ==
  /\ Polls /\ Head(events).what = "rate"
  /\ rate' = Moved(rate, Head(events).hz, sess.state = "focused")
  /\ UNCHANGED <<sess, runtime>> /\ Quiet

\* nativeGetPresence, read by trackPresence after every turn but the last:
\* away only after a first focus.
Presence == IF sess.state = "focused" THEN "focused"
            ELSE IF sess.focusedOnce /\ sess.state \in {"stopping", "idle"} THEN "away"
            ELSE "other"
TrackPresence == awayTold' = IF Presence = "other" THEN awayTold ELSE Presence = "away"

PollEnds == loop = "poll" /\ events = <<>>
AfterPoll == UNCHANGED <<scene, rate, starting, runtime, events>>

\* FRAME_EXIT
Exit ==
  /\ PollEnds /\ Exiting /\ loop' = "exit"
  /\ UNCHANGED <<sess, awayTold>> /\ AfterPoll

\* FRAME_IDLE
TrackNothing == UNCHANGED awayTold    \* mutant
TrackIdle == TrackPresence
Idle ==
  /\ PollEnds /\ ~Exiting /\ ~sess.running /\ loop' \in Turn
  /\ TrackIdle
  /\ UNCHANGED sess /\ AfterPoll

\* FRAME_RENDER
BeginFrame ==
  /\ PollEnds /\ ~Exiting /\ sess.running /\ loop' = "frame"
  /\ TrackPresence
  /\ UNCHANGED sess /\ AfterPoll

\* xrWaitFrame or xrBeginFrame fails.
BeginFrameFails ==
  /\ PollEnds /\ ~Exiting /\ sess.running /\ loop' = "exit"
  /\ sess' = EndsFor(sess, "no frame")
  /\ UNCHANGED awayTold /\ AfterPoll

\* nativeEndFrame, and displayFrameEnded.
FrameEnds == loop = "frame" /\ loop' \in Turn
EndFrame ==
  /\ FrameEnds
  /\ \E late, paused, over \in BOOLEAN, now \in {0, runtime.actual}, r \in Refusals,
        f \in Fits :
       rate' = Frame(rate, sess.state = "focused", late, paused, over, f, now, r)
  /\ UNCHANGED <<scene, starting, runtime, events, sess, awayTold>>

\* The panel's 3D row, and setRefreshKnob.
InFrame == loop = "frame"
           /\ UNCHANGED <<fps, starting, runtime, events, xr>>
StereoSwitched == InFrame /\ warp' = ~warp /\ UNCHANGED <<knob, rate>>
KnobSet(hz) ==
  /\ InFrame /\ knob # hz /\ knob' = hz /\ UNCHANGED warp
  /\ \E r \in Refusals : rate' = IF sess.running THEN ApplyRate(rate, hz, r) ELSE rate

\* destroyCtx: the session and the instance go, and all that was kept of them.
DestroyCtx ==
  /\ runtime' = [runtime EXCEPT !.state = "destroyed", !.begun = FALSE] /\ events' = <<>>
  /\ sess' = SessionInit /\ rate' = NoRate(runtime.actual)

\* The rest of runSession: the activity is told of an end that was not a stop
\* asked for, by now or earlier.
Destroy ==
  /\ loop \in {"over", "exit"}
  /\ loop' \in {"stopped"} \cup IF loop = "exit" THEN {"told"} ELSE {}
  /\ DestroyCtx
  /\ UNCHANGED <<scene, starting, awayTold>>

-----------------------------------------------------------------------------
(* The runtime.                                                            *)

Final == {"exiting", "loss pending", "instance loss", "destroyed"}
Follows(from) ==
  CASE from = "idle" -> {"ready", "exiting"}
    [] from = "ready" -> IF runtime.begun THEN {"visible"} ELSE {}
    [] from = "visible" -> {"focused", "stopping"}
    [] from = "focused" -> {"visible"}
    [] from = "stopping" -> IF runtime.begun THEN {} ELSE {"idle"}
    [] OTHER -> {}

Says(e) == Len(events) < MaxEvents /\ events' = Append(events, e)
Gone == loop \in {"stopped", "told"}
FromRuntime == loop # "none" /\ ~Gone /\ UNCHANGED <<scene, starting, xr>>

RuntimeMoves(to) ==
  /\ FromRuntime
  /\ to \in Follows(runtime.state) \cup
            IF runtime.state \in Final THEN {} ELSE {"loss pending"}
  /\ runtime' = [runtime EXCEPT !.state = to]
  /\ Says([what |-> "session", to |-> to])
  /\ UNCHANGED rate

RuntimeLost ==
  /\ FromRuntime /\ runtime.state \notin Final
  /\ runtime' = [runtime EXCEPT !.state = "instance loss"]
  /\ Says([what |-> "instance"])
  /\ UNCHANGED rate

DisplayOn(hz) == runtime' = [runtime EXCEPT !.actual = hz]
DisplayMoved(hz) == Says([what |-> "rate", hz |-> hz])

\* A request is acted on, or dropped without a word.
Granted ==
  /\ FromRuntime /\ rate.sent # 0 /\ rate' = [rate EXCEPT !.sent = 0]
  /\ DisplayOn(rate.sent)
  /\ IF runtime.actual = rate.sent THEN UNCHANGED events ELSE DisplayMoved(rate.sent)
Dropped ==
  /\ FromRuntime /\ rate.sent # 0 /\ rate' = [rate EXCEPT !.sent = 0]
  /\ UNCHANGED <<runtime, events>>

DisplayMoves(hz) ==
  /\ FromRuntime /\ runtime.moves < MaxMoves /\ hz # runtime.actual
  /\ runtime' = [runtime EXCEPT !.actual = hz, !.moves = @ + 1]
  /\ DisplayMoved(hz) /\ UNCHANGED rate

-----------------------------------------------------------------------------
States == {"idle", "ready", "visible", "focused", "stopping",
           "exiting", "loss pending"}

NativeInit(k) == Loader(k) \/ Instance(k) \/ Graphics(k) \/ Egl(k) \/ CreateSession(k)
            \/ Swapchain(k) \/ Gl(k)
Starting == \E k \in Id : \/ Start(k) \/ Clear(k) \/ NativeInit(k) \/ Take(k) \/ GiveUp(k)
                         \/ ComeUp(k) \/ ComeUpLate(k)
Event == \/ OnReady \/ OnFocused \/ OnStopping
         \/ \E s \in States : OnEnded(s) \/ OnOther(s)
         \/ OnInstanceLoss \/ OnRateChanged
AfterEvents == Exit \/ Idle \/ BeginFrame \/ BeginFrameFails
Loop == Event \/ AfterEvents \/ EndFrame \/ Destroy
Scene == StereoSwitched \/ \E hz \in Knobs \cup {0} : KnobSet(hz)
Runtime == \/ \E s \in States : RuntimeMoves(s)
           \/ RuntimeLost \/ Granted \/ Dropped \/ \E hz \in Rates : DisplayMoves(hz)

Next == Starting \/ Loop \/ Scene \/ Runtime
Spec == Init /\ [][Next]_vars

\* The render thread runs, xrWaitFrame returns, and the runtime is not always
\* one event ahead of the poll. Nothing says that a stop is ever asked for.
Fairness == /\ WF_events(Polls) /\ WF_loop(FrameEnds) /\ WF_vars(Destroy)
            /\ SF_vars(AfterEvents /\ loop' # "over")
FairSpec == Spec /\ Fairness

-----------------------------------------------------------------------------
Noted == UNION {Notes(s) : s \in Steps}
Reports == {NoReport, TimedOut, Untold} \cup [of : Id, step : Noted]

TypeOK ==
  /\ RateTypeOK
  /\ thread \in [Id -> {"none", "made", "up"} \cup Steps] /\ ended \in [Id -> BOOLEAN]
  /\ waiting \in 0 .. Starts
  /\ slot \in Reports /\ report \in [Id -> Reports] /\ beside \in [Id -> BOOLEAN]
  /\ runtime \in [state : States \cup Final, begun : BOOLEAN, actual : Rates,
                  moves : 0 .. MaxMoves]
  /\ Len(events) <= MaxEvents
  /\ sess \in [state : States \cup {"unknown"}, running : BOOLEAN,
               focusedOnce : BOOLEAN,
               reason : {"none", "exiting", "loss pending", "instance loss pending",
                         "no frame"}]
  /\ loop \in {"none", "poll", "frame", "exit", "over", "stopped", "told"}
  /\ awayTold \in BOOLEAN

\* A start that fails is told why, by its own report of the step it stopped at,
\* however an earlier one ended; but one that ran beside a start already given up
\* may be told that one's, since both write to the one slot ("a start Java gave
\* up waiting for can still be finishing").
ReportIsOwn ==
  \A k \in Id : report[k].of > 0 /\ ~beside[k] =>
    report[k].of = k /\ report[k].step \in Notes(thread[k])

\* The types, and: frames are only asked for of a session the runtime knows to have begun, and
\* a session that has begun is always fed, unless it was lost.
FramesInSession ==
  ~Gone =>
    /\ sess.running => runtime.begun
    /\ loop = "frame" => sess.running
    /\ runtime.begun =>
         sess.running \/ sess.state \in {"exiting", "loss pending"}

SessionInv == TypeOK /\ FramesInSession

\* "A step down is never undone a few seconds later": while the 3D runs and no
\* rate is forced, the rate asked for stays at or below the one stepped down
\* to, across moves of the runtime, focus, new sessions and the 3D off and on.
StepDownSticks ==
  sess.running /\ rate.warpOn /\ knob = 0 /\ rate.held > 0 /\ ~rate.refused =>
    rate.asked <= rate.held

\* A display known to be off the rate asked for while the session has focus is
\* always being seen to: the request is on its way, or will be made again, or
\* the tries are used up.
OffIsSeenTo ==
  sess.state = "focused" /\ rate.asked > 0 /\ rate.display # rate.asked /\ ~rate.refused =>
    ~rate.confirmed \/ rate.moved \/ rate.reasks = MaxReasks

\* The activity hears of a headset taken off and put back on even while there
\* are no frames, unless the session has moved on by then; and a session the
\* runtime has ended for good is destroyed, and said to have ended unless a stop
\* was asked for as well: nobody waits for one that will not run.
Away == sess.focusedOnce /\ sess.state \in {"stopping", "idle"}
Back == sess.state = "focused"
Out == loop \in {"exit", "over"} \/ Gone
ComingsAreTold ==
  /\ Away ~> awayTold \/ ~Away \/ Out
  /\ Back /\ awayTold ~> ~awayTold \/ ~Back \/ Out
  /\ runtime.state \in Final ~> Gone
=============================================================================
