-------------------------- MODULE StreamLifecycle --------------------------
(***************************************************************************)
(* A stream from the window's first surface to conn.stop(), around the     *)
(* renderer of RendererLifecycle: Game's lifecycle callbacks, the start    *)
(* and stop threads of NvConnection with their permit and the monitor of   *)
(* MoonBridge, the bridge's static renderers, and the start thread of the  *)
(* stream that comes next. LiStartConnection and LiStopConnection are not  *)
(* in the repository; they are taken from how callbacks.c uses them.       *)
(*                                                                         *)
(* Whether a stop is held for the headset is DoffHold's to say, so here it *)
(* may be or may not.                                                      *)
(***************************************************************************)
EXTENDS RendererLifecycle

VARIABLES start,      \* the thread of NvConnection.start
          stop,       \* the thread that calls conn.stop()
          permit,     \* connectionAllowed has its permit
          monitor,    \* who is inside synchronized (MoonBridge.class)
          bridge,     \* whose renderers the bridge's statics are
          line,       \* whose connection LiStartConnection has brought up
          posted,     \* the runnable of connectionStarted is queued
          connected,  \* Game.connected
          kept,       \* stopped, with the stream held for the headset
          left,       \* onStop was met and not held
          surface,    \* the window has its surface
          next        \* the start thread of the next stream

conn == <<start, stop, permit, monitor, bridge, line>>
game == <<posted, connected, kept, left, surface>>
svars == <<vars, conn, game, next>>

StreamInit ==
  /\ Init
  /\ start = "no" /\ stop = "no" /\ permit = TRUE
  /\ monitor = "free" /\ bridge = "none" /\ line = "none"
  /\ posted = FALSE /\ connected = FALSE /\ kept = FALSE /\ left = FALSE
  /\ surface = TRUE
  /\ next = "no"

Gone == left \/ ui = "destroyed"

\* stopConnection: only a stream known to be connected is stopped, on a
\* thread of its own. Nothing ever sets connecting.
StopConnection ==
  /\ connected' = FALSE
  /\ stop' = IF connected THEN "enter" ELSE stop
  /\ UNCHANGED <<start, permit, monitor, bridge, line>>

-----------------------------------------------------------------------------
(* The start thread                                                        *)

SurfaceChanged ==
  /\ start = "no" /\ surface /\ ~Gone
  /\ start' = "app"
  /\ UNCHANGED <<vars, stop, permit, monitor, bridge, line, game, next>>

\* The host is asked to launch or resume.
StartApp ==
  /\ start = "app"
  /\ start' \in {"acquire", "failed"}
  /\ UNCHANGED <<vars, stop, permit, monitor, bridge, line, game, next>>

AcquireAnyway ==    \* mutant
  /\ start = "acquire"
  /\ permit' = FALSE /\ start' = "enter"
  /\ UNCHANGED <<vars, stop, monitor, bridge, line, game, next>>

Acquire ==
  /\ start = "acquire" /\ permit
  /\ permit' = FALSE /\ start' = "enter"
  /\ UNCHANGED <<vars, stop, monitor, bridge, line, game, next>>

SetupBridge ==
  /\ start = "enter" /\ monitor = "free"
  /\ monitor' = "start" /\ bridge' = "this" /\ start' = "connect"
  /\ UNCHANGED <<vars, stop, permit, line, game, next>>

\* The stages before the video's fail, or the decoder is to be set up.
Stages ==
  /\ start = "connect"
  /\ start' \in {"setup", "return"}
  /\ UNCHANGED <<vars, stop, permit, monitor, bridge, line, game, next>>

\* bridgeDrSetup: a window without a surface has no flat picture.
SetupOk ==
  /\ start = "setup" /\ bridge = "this"
  /\ \/ conf = "held"
     \/ conf = "flat" /\ surface
  /\ start' = "rest"
  /\ UNCHANGED <<vars, stop, permit, monitor, bridge, line, game, next>>

\* The codec is let go, the renderer is not.
SetupFails ==
  /\ start = "setup"
  /\ conf \in {"held", "flat"} \/ bridge # "this"
  /\ codec' = IF codec = "none" THEN "none" ELSE "released"
  /\ start' = "return"
  /\ UNCHANGED <<conf, held, refused, loop, surf, outer, sound, stats, stopping,
                 stop, permit, monitor, bridge, line, game, next>>

\* A later stage fails, bridgeArInit's say: what is up is taken down again.
RestFails ==
  /\ start = "rest"
  /\ start' = "undo"
  /\ UNCHANGED <<vars, stop, permit, monitor, bridge, line, game, next>>

Undone ==
  /\ start = "undo" /\ teardown = "done"
  /\ start' = "return"
  /\ UNCHANGED <<vars, stop, permit, monitor, bridge, line, game, next>>

\* The permit is released inside the monitor, and the bridge left as it is.
ReleaseForgotten == UNCHANGED permit    \* mutant
ReleaseFailed == permit' = TRUE
ReturnFailed ==
  /\ start = "return"
  /\ ReleaseFailed
  /\ start' = "exit"
  /\ UNCHANGED <<vars, stop, monitor, bridge, line, game, next>>

ExitFailed ==
  /\ start = "exit"
  /\ start' = "failed" /\ monitor' = "free"
  /\ UNCHANGED <<vars, stop, permit, bridge, line, game, next>>

\* connectionStarted is called from inside LiStartConnection.
ConnectionStarted ==
  /\ start = "rest"
  /\ start' = "up" /\ line' = "this" /\ posted' = TRUE
  /\ UNCHANGED <<vars, stop, permit, monitor, bridge, connected, kept, left,
                 surface, next>>

ReturnOk ==
  /\ start = "up"
  /\ start' = "ended" /\ monitor' = "free"
  /\ UNCHANGED <<vars, stop, permit, bridge, line, game, next>>

-----------------------------------------------------------------------------
(* conn.stop()                                                             *)

EnterStopUnbridged ==    \* mutant
  /\ stop = "enter" /\ monitor = "free"
  /\ monitor' = "stop" /\ stop' = "native" /\ bridge' = "none"
  /\ UNCHANGED <<vars, start, permit, line, game, next>>

EnterStop ==
  /\ stop = "enter" /\ monitor = "free"
  /\ monitor' = "stop" /\ stop' = "native"
  /\ UNCHANGED <<vars, start, permit, bridge, line, game, next>>

\* stopConnection returns once the decoder's stop and cleanup have, which
\* only reach it through the bridge.
StopNative ==
  /\ stop = "native" /\ (bridge = "this" => teardown = "done")
  /\ stop' = "bridge" /\ line' = "none"
  /\ UNCHANGED <<vars, start, permit, monitor, bridge, game, next>>

CleanupBridge ==
  /\ stop = "bridge"
  /\ bridge' = "none" /\ monitor' = "free" /\ stop' = "release"
  /\ UNCHANGED <<vars, start, permit, line, game, next>>

Release ==
  /\ stop = "release"
  /\ permit' = TRUE /\ stop' = "done"
  /\ UNCHANGED <<vars, start, monitor, bridge, line, game, next>>

-----------------------------------------------------------------------------
(* The activity                                                            *)

\* The runnable runs whatever has become of the activity.
Started ==
  /\ posted /\ ui # "flag"
  /\ posted' = FALSE /\ connected' = TRUE
  /\ UNCHANGED <<vars, conn, kept, left, surface, next>>

\* A termination reported by the connection, or the disconnect of the menu.
EndStream ==
  /\ connected /\ ui = "alive"
  /\ StopConnection
  /\ UNCHANGED <<vars, posted, kept, left, surface, next>>

BackOut ==
  /\ FinishActivity
  /\ UNCHANGED <<conn, game, next>>

\* Not held: prepareForStop at once, stopConnection if connected.
SurfaceDestroyed ==
  /\ surface /\ start # "no" /\ ui \in {"alive", "finishing"}
  /\ surface' = FALSE
  /\ stopping' = Stopped
  /\ StopConnection
  /\ UNCHANGED <<owner, loop, surf, outer, sound, stats, posted, kept, left, next>>

\* Held, or nothing attempted yet.
SurfaceKept ==
  /\ surface
  /\ \/ ui = "alive"
     \/ start = "no" /\ ui = "finishing"
  /\ surface' = FALSE
  /\ UNCHANGED <<vars, conn, posted, connected, kept, left, next>>

\* onStop, not held, and the end of a hold nobody came back from.
EndFor(wasKept) ==
  /\ ui \in {"alive", "finishing"} /\ kept = wasKept /\ ~left
  /\ left' = TRUE /\ kept' = FALSE /\ ui' = "finishing"
  /\ StopConnection
  /\ UNCHANGED <<owner, loop, surf, missed, teardown, sound, stats, stopping,
                 posted, surface, next>>
OnStop == EndFor(FALSE)
HoldOver == ui = "alive" /\ EndFor(TRUE)

OnStopHeld ==
  /\ ui = "alive" /\ ~kept /\ ~left
  /\ kept' = TRUE
  /\ UNCHANGED <<vars, conn, posted, connected, left, surface, next>>

OnStart ==
  /\ kept /\ ui = "alive"
  /\ kept' = FALSE /\ surface' = TRUE
  /\ UNCHANGED <<vars, conn, posted, connected, left, next>>

\* The window is stopped by then, its surface gone with it.
OnDestroy ==
  /\ ~surface
  /\ left \/ kept
  /\ DestroyActivity
  /\ UNCHANGED <<conn, game, next>>

\* stopXrRenderer, and stopConnection for a stream that was held.
Destroyed ==
  /\ StopXrRenderer
  /\ IF kept THEN StopConnection ELSE UNCHANGED <<conn, connected>>
  /\ UNCHANGED <<posted, kept, left, surface, next>>

-----------------------------------------------------------------------------
(* The next stream                                                         *)

NextAsks ==
  /\ next = "no" /\ Gone
  /\ next' = "acquire"
  /\ UNCHANGED <<vars, conn, game>>

NextAcquires ==
  /\ next = "acquire" /\ permit
  /\ permit' = FALSE /\ next' = "enter"
  /\ UNCHANGED <<vars, start, stop, monitor, bridge, line, game>>

NextEnters ==
  /\ next = "enter" /\ monitor = "free"
  /\ monitor' = "next" /\ bridge' = "next" /\ next' = "connect"
  /\ UNCHANGED <<vars, start, stop, permit, line, game>>

NextUp ==
  /\ next = "connect"
  /\ line' = "next" /\ monitor' = "free" /\ next' = "up"
  /\ UNCHANGED <<vars, start, stop, permit, bridge, game>>
-----------------------------------------------------------------------------
(* The renderer's steps: set up and torn down through the bridge            *)

Bridged(A) == bridge = "this" /\ A /\ UNCHANGED <<conn, game, next>>
Free(A) == A /\ UNCHANGED <<conn, game, next>>

SetupRenderer == start = "setup" /\ Bridged(Connection)
StopDecoder == (start = "undo" \/ stop = "native") /\ Bridged(TeardownStop)
Cleanups == Bridged(Teardown)

StartThread == \/ StartApp \/ Acquire \/ SetupBridge \/ Stages \/ SetupOk
               \/ SetupFails \/ RestFails \/ Undone \/ ReturnFailed
               \/ ExitFailed \/ ConnectionStarted \/ ReturnOk
StopThread == EnterStop \/ StopNative \/ CleanupBridge \/ Release
NextStart == NextAcquires \/ NextEnters \/ NextUp

StreamNext ==
  \/ SurfaceChanged \/ StartThread \/ StopThread
  \/ Started \/ EndStream \/ BackOut \/ SurfaceDestroyed \/ SurfaceKept
  \/ OnStop \/ HoldOver \/ OnStopHeld \/ OnStart \/ OnDestroy \/ Destroyed
  \/ NextAsks \/ NextStart
  \/ SetupRenderer \/ StopDecoder \/ Cleanups
  \/ Free(Setup) \/ Free(LoopStops) \/ Free(LoopExits) \/ Free(Leave)
  \/ Free(ClickStarts) \/ Free(Click) \/ Free(StatsEnter) \/ Free(StatsLeave)

StreamSpec == StreamInit /\ [][StreamNext]_svars

\* Threads run on and what is posted is run. Nothing says that a connection
\* ends, an activity is left or a hold is over.
StreamFairness ==
  /\ WF_svars(StartThread) /\ WF_svars(StopThread)
  /\ WF_svars(NextStart) /\ WF_svars(Started) /\ WF_svars(Destroyed)
  /\ WF_svars(SetupRenderer) /\ WF_svars(StopDecoder) /\ WF_svars(Cleanups)
  /\ WF_svars(Free(Setup)) /\ WF_svars(Free(LoopStops))
  /\ SF_svars(Free(ClearCtx)) /\ WF_svars(Free(Leave))
  /\ WF_svars(Free(Click)) /\ WF_svars(Free(StatsLeave))
StreamFairSpec == StreamSpec /\ StreamFairness

-----------------------------------------------------------------------------
StreamTypeOK ==
  /\ start \in {"no", "app", "acquire", "enter", "connect", "setup", "rest",
                "undo", "return", "exit", "failed", "up", "ended"}
  /\ stop \in {"no", "enter", "native", "bridge", "release", "done"}
  /\ monitor \in {"free", "start", "stop", "next"}
  /\ {bridge, line} \subseteq {"none", "this", "next"}
  /\ {permit, posted, connected, kept, left, surface} \subseteq BOOLEAN
  /\ next \in {"no", "acquire", "enter", "connect", "up"}

\* The native library has one connection at a time, coming up, running or
\* going down, and its callbacks reach that connection's own renderers.
InLibrary == start \in {"connect", "setup", "rest", "undo", "up"} \/ stop = "native"
OneConnection ==
  /\ InLibrary \/ line = "this" => bridge = "this" /\ next \notin {"enter", "connect", "up"}
  /\ next \in {"connect", "up"} => bridge = "next" /\ line # "this"

\* A stream that was stopped has had its decoder stopped and let go, and the
\* permit is given back by the one stop there is.
StopReachesDecoder == stop \in {"bridge", "release", "done"} => teardown = "done"

ConnectionInv == StreamTypeOK /\ OneConnection

\* The next stream gets its turn, unless it waits for one nobody stopped
\* because it was only known to be up once its activity had been left.
Unstopped == Gone /\ connected /\ stop = "no"
NextGetsItsTurn == next = "acquire" ~> next = "up" \/ Unstopped

\* The same of the stream itself: once its activity is left it does not stay
\* connected, which NvConnection.stop ("Interrupt any pending connection") and
\* headsetHoldOver ("ending the stream") set out to see to.
StreamEnds == Gone ~> line # "this"
=============================================================================
