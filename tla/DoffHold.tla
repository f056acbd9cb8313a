------------------------------ MODULE DoffHold ------------------------------
(***************************************************************************)
(* A headset taken off under a stream: XrDoffGrace's decisions, run by     *)
(* XrDoffHold on the main thread, with the activity (Game, as GameXR on a  *)
(* headset) whose callbacks drive them, the launch that is waited for      *)
(* before the first focus, and the frame loop that posts the session's     *)
(* comings and goings (XrRenderer.trackPresence).                          *)
(*                                                                         *)
(* Time passes in units a mark is made of: awake it also brings the        *)
(* handler's runnables nearer, asleep it does not. A runnable that is due  *)
(* may be late. What Android orders (no surface for a stopped activity, no *)
(* onStart of a finishing one, onDestroy after onStop) is in the guards.   *)
(***************************************************************************)
EXTENDS Integers, Sequences

CONSTANTS Grace,        \* GRACE_MS
          Mark,         \* MARK_MS
          LaunchWait,   \* HEADSET_HOLD_MS
          MaxPosts      \* bound: presence changes on their way to the main thread

ASSUME DoffAssumption == /\ Grace \in Nat \ {0} /\ Mark \in Nat \ {0}
                         /\ LaunchWait \in Nat /\ MaxPosts \in Nat \ {0}

NotPosted == -1

VARIABLES activity,     \* the activity between its callbacks
          finishing,    \* isFinishing()
          window,       \* the surface is there
          conn,         \* the stream: on its way, `connected', or over
          early,        \* history: it was to be stopped before it had connected
          displayed,    \* displayedFailureDialog
          notice,       \* an error is up on the toast, stopConnection posted
          renderer,     \* MediaCodecDecoderRenderer.getXrRenderer()
          session,      \* the OpenXR session's state
          known,        \* XrRenderer.focusedOnce
          sessionAway,  \* XrRenderer.sessionAway
          posted,       \* onVrSessionAway and onVrSessionBack on their way
          enabled,      \* prefs.vrDoffGrace, as the session found it
          focusedOnce,  \* XrDoffGrace: the fields of that name,
          stopped, away, holding,
          held,         \* and now - heldSinceMs, up to Grace
          due,          \* when the hold's tick runs, in time awake
          launchHeld,   \* stoppedForHeadset
          launchDue,    \* when headsetHoldOver runs, in time awake
          muted,        \* vrInputHeld, and the audio renderer's muted
          mutedFor,     \* history: time since the sound went, up to Grace
          toldAway,     \* history: the last presence told, and whether
          unheard       \*   the hold did not listen to it

android == <<activity, window>>
ending == <<conn, early, finishing>>
errors == <<displayed, notice>>
stream == <<ending, errors>>
runtime == <<renderer, session, known, sessionAway>>
grace == <<focusedOnce, stopped, away>>
hold == <<holding, held, due, muted, mutedFor>>
launch == <<launchHeld, launchDue>>
told == <<toldAway, unheard>>
vars == <<enabled, android, stream, runtime, posted, grace, hold, launch, told>>

\* The connection has been started, from the first surfaceChanged.
Init ==
  /\ activity = "started" /\ window = TRUE
  /\ conn = "connecting" /\ early = FALSE /\ finishing = FALSE
  /\ displayed = FALSE /\ notice = FALSE
  /\ renderer = "none" /\ session = "launch"
  /\ known = FALSE /\ sessionAway = FALSE /\ posted = <<>>
  /\ enabled \in BOOLEAN
  /\ focusedOnce = FALSE /\ stopped = FALSE /\ away = FALSE
  /\ holding = FALSE /\ held = 0 /\ due = NotPosted
  /\ muted = FALSE /\ mutedFor = 0
  /\ launchHeld = FALSE /\ launchDue = NotPosted
  /\ toldAway = FALSE /\ unheard = FALSE

\* waitingForHeadset and doffMayHold
WaitingForHeadset == ~finishing /\ (renderer # "up" \/ ~known)
DoffMayHold == ~finishing /\ conn = "connected" /\ renderer = "up" /\ known

-----------------------------------------------------------------------------
(* The steps of XrDoffGrace and XrDoffHold.                                *)

\* nextTickInMs
NextTick(h) == LET mark == (h \div Mark + 1) * Mark
               IN (IF mark < Grace THEN mark ELSE Grace) - h

\* Another stop during a hold changes nothing.
StartsAfresh == TRUE    \* mutant
StartsHold == ~holding
StartHold ==
  IF StartsHold
  THEN /\ holding' = TRUE /\ held' = 0 /\ due' = NextTick(0)
       /\ muted' = TRUE
       /\ UNCHANGED mutedFor
  ELSE UNCHANGED hold

\* stopConnection does nothing to a stream that has yet to connect: the flag
\* `connecting' it asks about is never set.
StopConnection == /\ conn' = IF conn = "connected" THEN "over" ELSE conn
                  /\ early' = (early \/ conn = "connecting")

\* onDoffExpired
Expire == StopConnection /\ finishing' = TRUE

\* resumeIfBack and back, which see the flags as the caller has set them: the
\* hold goes on until both are clear, and found run out it ends the stream.
IsBack == ~stopped' /\ ~away'
Unmute == muted' = FALSE /\ mutedFor' = 0
ResumeIfBack ==
  IF ~(holding /\ IsBack) THEN UNCHANGED <<hold, ending>>
  ELSE /\ holding' = FALSE /\ due' = NotPosted
       /\ UNCHANGED held
       /\ IF held < Grace
          THEN Unmute /\ UNCHANGED ending
          ELSE Expire /\ UNCHANGED <<muted, mutedFor>>

\* cancel
Cancel ==
  /\ due' = NotPosted /\ holding' = FALSE
  /\ stopped' = FALSE /\ away' = FALSE
  /\ UNCHANGED <<held, muted, mutedFor, focusedOnce>>

\* XrDoffHold.activityStopped, by which the stop is held or not
HoldsStop == DoffMayHold /\ enabled
HoldStop == focusedOnce' = TRUE /\ stopped' = TRUE /\ UNCHANGED away /\ StartHold

\* A grace not enabled still remembers nothing: END is all it says.
ActivityStarted == stopped' = FALSE /\ UNCHANGED <<away, focusedOnce>> /\ ResumeIfBack

-----------------------------------------------------------------------------
(* The activity's callbacks.                                               *)

OnStopLaunch ==
  /\ activity = "started" /\ activity' = "stopped"
  /\ WaitingForHeadset
  /\ launchHeld' = TRUE /\ launchDue' = LaunchWait
  /\ UNCHANGED <<window, stream, runtime, posted, grace, hold, told>>

OnStopHeld ==
  /\ activity = "started" /\ activity' = "stopped"
  /\ ~WaitingForHeadset /\ HoldsStop
  /\ HoldStop
  /\ UNCHANGED <<window, stream, runtime, posted, launch, told>>

OnStopEnds ==
  /\ activity = "started" /\ activity' = "stopped"
  /\ ~WaitingForHeadset /\ ~HoldsStop
  /\ Cancel
  /\ Expire /\ displayed' = TRUE
  /\ UNCHANGED <<window, notice, runtime, posted, launch, told>>

OnStart ==
  /\ activity = "stopped" /\ ~finishing /\ activity' = "started"
  /\ launchHeld' = FALSE
  /\ launchDue' = IF launchHeld THEN NotPosted ELSE launchDue
  /\ ActivityStarted
  /\ UNCHANGED <<window, errors, runtime, posted, told>>

SurfaceCreated ==
  /\ ~window /\ activity = "started" /\ ~finishing /\ window' = TRUE
  /\ ActivityStarted
  /\ UNCHANGED <<activity, errors, runtime, posted, launch, told>>

SurfaceDestroyedKept ==
  /\ window /\ window' = FALSE
  /\ WaitingForHeadset
  /\ UNCHANGED <<activity, stream, runtime, posted, grace, hold, launch, told>>

SurfaceDestroyedHeld ==
  /\ window /\ window' = FALSE
  /\ ~WaitingForHeadset /\ HoldsStop
  /\ HoldStop
  /\ UNCHANGED <<activity, stream, runtime, posted, launch, told>>

\* prepareForStop, and stopConnection once connected
SurfaceDestroyedEnds ==
  /\ window /\ window' = FALSE
  /\ ~WaitingForHeadset /\ ~HoldsStop
  /\ conn' = IF conn = "connected" THEN "over" ELSE conn
  /\ UNCHANGED <<activity, early, finishing, errors, runtime, posted, grace,
                 hold, launch, told>>

OnlyDoff == holding    \* mutant
HeldAtDestroy == launchHeld \/ holding

OnDestroy ==
  /\ activity = "stopped" /\ activity' = "destroyed"
  /\ launchDue' = NotPosted
  /\ Cancel
  /\ IF HeldAtDestroy THEN StopConnection ELSE UNCHANGED <<conn, early>>
  /\ window' = FALSE
  /\ UNCHANGED <<finishing, errors, runtime, posted, launchHeld, told>>

\* onVrExit, onVrSessionEnded, onVrUnavailable and the quit shortcut finish
\* the activity; its stop ends the stream.
Finish ==
  /\ ~finishing /\ activity # "destroyed" /\ finishing' = TRUE
  /\ UNCHANGED <<android, conn, early, errors, runtime, posted, grace, hold,
                 launch, told>>

-----------------------------------------------------------------------------
(* The main thread's runnables.                                            *)

\* A mark is only a line in the log, after which the tick is posted again.
AgainNot == NotPosted    \* mutant
Again == NextTick(held)

Tick ==
  /\ due = 0
  /\ IF ~holding THEN due' = NotPosted /\ UNCHANGED <<holding, ending>>
     ELSE IF held >= Grace
     THEN due' = NotPosted /\ holding' = FALSE /\ Expire
     ELSE due' = Again /\ UNCHANGED <<holding, ending>>
  /\ UNCHANGED <<android, errors, runtime, posted, grace, held, muted, mutedFor,
                 launch, told>>

HeadsetHoldOver ==
  /\ launchDue = 0 /\ launchDue' = NotPosted
  /\ IF launchHeld /\ ~finishing
     THEN launchHeld' = FALSE /\ Expire
     ELSE UNCHANGED <<launchHeld, ending>>
  /\ UNCHANGED <<android, errors, runtime, posted, grace, hold, told>>

\* onVrSessionAway and sessionAway
ToldAway ==
  /\ posted # <<>> /\ Head(posted) = "away" /\ posted' = Tail(posted)
  /\ IF DoffMayHold /\ focusedOnce /\ enabled
     THEN away' = TRUE /\ StartHold /\ unheard' = FALSE
     ELSE UNCHANGED <<away, hold>> /\ unheard' = TRUE
  /\ toldAway' = TRUE
  /\ UNCHANGED <<android, stream, runtime, focusedOnce, stopped, launch>>

\* onVrSessionBack and focused
ToldBack ==
  /\ posted # <<>> /\ Head(posted) = "back" /\ posted' = Tail(posted)
  /\ focusedOnce' = TRUE /\ away' = FALSE /\ UNCHANGED stopped
  /\ ResumeIfBack
  /\ toldAway' = FALSE /\ unheard' = FALSE
  /\ UNCHANGED <<android, errors, runtime, launch>>

\* connectionStarted, which a finishing activity still hears; or stageFailed
Connected ==
  /\ conn = "connecting" /\ conn' = "connected"
  /\ UNCHANGED <<android, early, finishing, errors, runtime, posted, grace, hold,
                 launch, told>>

ConnectFails ==
  /\ conn = "connecting" /\ conn' = "over"
  /\ displayed' = TRUE
  /\ UNCHANGED <<android, early, finishing, notice, runtime, posted, grace, hold,
                 launch, told>>

\* connectionTerminated: ended by the host it finishes; an error waits on the
\* toast of a session that is up. Neither, once a failure has been told or the
\* activity has stopped.
TerminatedQuietly ==
  /\ conn = "connected" /\ ~displayed /\ displayed' = TRUE
  /\ Expire
  /\ UNCHANGED <<android, notice, runtime, posted, grace, hold, launch, told>>

TerminatedWithError ==
  /\ conn = "connected" /\ ~displayed /\ displayed' = TRUE
  /\ IF renderer = "up" THEN notice' = TRUE /\ UNCHANGED <<conn, early>>
     ELSE StopConnection /\ UNCHANGED notice
  /\ UNCHANGED <<android, finishing, runtime, posted, grace, hold, launch, told>>

NoticeOver ==
  /\ notice /\ notice' = FALSE
  /\ StopConnection
  /\ UNCHANGED <<android, finishing, displayed, runtime, posted, grace, hold,
                 launch, told>>

-----------------------------------------------------------------------------
(* The other threads and the runtime.                                      *)

\* The decoder is set up on the way to being connected. A start under way when
\* the activity is destroyed is not called off.
RendererUp ==
  /\ renderer = "none" /\ conn = "connecting" /\ renderer' = "up"
  /\ UNCHANGED <<android, stream, session, known, sessionAway, posted, grace,
                 hold, launch, told>>

\* The teardown of the decoder lets the renderer go.
RendererGone ==
  /\ renderer = "up" /\ conn = "over" /\ renderer' = "gone"
  /\ UNCHANGED <<android, stream, session, known, sessionAway, posted, grace,
                 hold, launch, told>>

SessionMoves ==
  /\ renderer = "up"
  /\ session' \in IF session = "launch" THEN {"focused"}
                  ELSE {"focused", "other", "away"} \ {session}
  /\ UNCHANGED <<android, stream, renderer, known, sessionAway, posted, grace,
                 hold, launch, told>>

\* One turn of the frame loop: trackPresence, and the first focus.
Posts(w) == Len(posted) < MaxPosts /\ posted' = Append(posted, w)
TrackPresence ==
  /\ renderer = "up"
  /\ CASE session = "away" /\ ~sessionAway -> sessionAway' = TRUE /\ Posts("away")
       [] session = "focused" /\ sessionAway -> sessionAway' = FALSE /\ Posts("back")
       [] OTHER -> UNCHANGED <<sessionAway, posted>>
  /\ known' = (known \/ session = "focused")
  /\ UNCHANGED <<android, stream, renderer, session, grace, hold, launch, told>>

-----------------------------------------------------------------------------
Sooner(d) == IF d > 0 THEN d - 1 ELSE d
Later(t) == IF t < Grace THEN t + 1 ELSE t
Elapse == /\ held' = IF holding THEN Later(held) ELSE held
          /\ mutedFor' = IF muted THEN Later(mutedFor) ELSE 0

Awake ==
  /\ Elapse
  /\ due' = Sooner(due) /\ launchDue' = Sooner(launchDue)
  /\ UNCHANGED <<android, stream, runtime, posted, grace, holding, muted,
                 launchHeld, told>>

Asleep ==
  /\ Elapse
  /\ UNCHANGED <<android, stream, runtime, posted, grace, holding, due, muted,
                 launch, told>>

Callback == \/ OnStopLaunch \/ OnStopHeld \/ OnStopEnds \/ OnStart \/ OnDestroy
            \/ SurfaceCreated \/ SurfaceDestroyedKept \/ SurfaceDestroyedHeld
            \/ SurfaceDestroyedEnds \/ Finish
Runnable == Tick \/ HeadsetHoldOver \/ ToldAway \/ ToldBack \/ NoticeOver
Stream == Connected \/ ConnectFails \/ TerminatedQuietly \/ TerminatedWithError
Headset == RendererUp \/ RendererGone \/ SessionMoves \/ TrackPresence

SettingKept == enabled' = enabled
Next == /\ SettingKept
        /\ Callback \/ Runnable \/ Stream \/ Headset \/ Awake \/ Asleep
Spec == Init /\ [][Next]_vars

\* The main thread runs what is due, and the headset is not asleep for good.
\* Nothing says that it is ever put on again.
Fairness == /\ WF_vars(SettingKept /\ Awake)
            /\ WF_vars(SettingKept /\ Tick)
            /\ WF_vars(SettingKept /\ HeadsetHoldOver)
FairSpec == Spec /\ Fairness

-----------------------------------------------------------------------------
\* The types, and that a hold that runs has its tick posted.
TypeOK ==
  /\ holding => due # NotPosted
  /\ activity \in {"started", "stopped", "destroyed"}
  /\ {finishing, early, displayed, window, notice, known, sessionAway, focusedOnce, stopped, away,
      holding, launchHeld, muted, enabled, toldAway, unheard} \subseteq BOOLEAN
  /\ conn \in {"connecting", "connected", "over"}
  /\ renderer \in {"none", "up", "gone"}
  /\ session \in {"launch", "focused", "other", "away"}
  /\ posted \in Seq({"away", "back"}) /\ Len(posted) <= MaxPosts
  /\ held \in 0 .. Grace /\ mutedFor \in 0 .. Grace
  /\ due \in {NotPosted} \cup 0 .. Mark
  /\ launchDue \in {NotPosted} \cup 0 .. LaunchWait

\* The stream is muted and sends nothing exactly while a hold runs, for as
\* long as there is a stream.
MutedWhileHeld == conn # "over" => (muted <=> holding)

\* No connected stream goes on behind a stopped activity but one that is held
\* for the headset, and none is left by a destroyed one, unless the activity
\* went before the stream had connected (StreamLifecycle shows that one).
StoppedIsHeld ==
  conn = "connected" /\ ~early => /\ activity = "stopped" => holding \/ launchHeld
                   /\ activity # "destroyed"

\* What a stream and its hold owe one another, at every step.
HoldInv == TypeOK /\ MutedWhileHeld /\ StoppedIsHeld

\* The sound never comes back to a stream that has been muted for a minute of
\* wall clock, however much of it was slept through and however often the
\* headset was half on again.
NeverResumesLate == muted /\ ~muted' => mutedFor < Grace

\* Nor before the activity is started, unless its stop was the launch's to wait
\* out, and the last the session was heard to do is come back.
HoldsUntilBack ==
  muted /\ ~muted' /\ conn # "over" =>
    /\ activity' = "started" \/ launchHeld
    /\ toldAway' => unheard'

\* The sound comes back in time, and to someone who is there.
ResumesRightly == [][NeverResumesLate /\ HoldsUntilBack]_vars

\* A hold ends, and so does the wait for a launch: resumed, expired or
\* cancelled, no stream is kept for good for a headset nobody puts on.
HoldEnds == /\ holding ~> ~holding
            /\ launchHeld ~> ~launchHeld \/ finishing \/ activity = "destroyed"
=============================================================================
