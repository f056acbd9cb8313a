----------------------- MODULE StreamLifecycleProofs -----------------------
(***************************************************************************)
(* Proofs about the life of the VR renderer, alone and inside a stream.    *)
(*                                                                         *)
(* The renderer's surfaces have two users, the codec and the frame loop,   *)
(* and one cleanup that anybody asks for: the argument is that it is asked *)
(* for once, by whoever was last to know of the renderer, and carried out  *)
(* by the last of the two to be through. A stream adds who holds the       *)
(* permit, who is inside the monitor, and whose renderers the bridge has:  *)
(* the permit decides the bridge, and the monitor the order.               *)
(***************************************************************************)
EXTENDS StreamLifecycle, TLAPS

Before == {"off", "init", "build"}
InSession == {"build", "ready", "loop", "click", "clear"}
Through == {"click", "clear", "destroy", "tell", "finish", "gone"}

(* A surface was asked for at most once, and what came of it.              *)
Asked ==
  /\ conf = "no" => render = "off"
  /\ conf \in {"await", "failed", "held"} => render # "off"
  /\ teardown # "no" => conf \in {"held", "flat"}
  /\ held <=> conf = "held" /\ teardown # "done"
  /\ codec = "on" => conf = "held" /\ teardown \in {"no", "stopped"}

(* The cleanup has been asked for: by the failed start, or the teardown.   *)
CleanedUp == (conf = "flat" /\ render # "off") \/ (conf = "held" /\ ~held)

(* The latch goes down once the surfaces are there, or never.              *)
Latched ==
  /\ latch = "up" <=> render \in Before \cup {"ready"}
  /\ latch = "failed" => render \in {"finish", "gone"}
  /\ conf = "held" => latch = "ok"
  /\ surfaces = "none" <=> render \in Before \/ latch = "failed"

(* The surfaces go after the render thread, for the one who asked.         *)
Released ==
  /\ done <=> render = "gone"
  /\ ~CleanedUp => ~onExit /\ releases = 0
  /\ ~done => releases = 0
  /\ surfaces = "released" => releases = 1

(* The context lives as long as the session, the field a little shorter.   *)
Contexts ==
  /\ nativeCtx <=> render \in InSession
  /\ native = "live" <=> render \in InSession \cup {"destroy"}
  /\ stats => nativeCtx

RendererInv == TypeOK /\ Asked /\ Latched /\ Released /\ Contexts /\ NoClickAfterSession

-----------------------------------------------------------------------------
(* The stream holds the permit from its start's acquire to that start's    *)
(* failure, or to its stop's release.                                      *)
StreamHolds == \/ start \in {"enter", "connect", "setup", "rest", "undo", "return"}
               \/ start \in {"up", "ended"} /\ stop # "done"
NextHolds == next \in {"enter", "connect", "up"}

PermitInv ==
  /\ permit <=> ~StreamHolds /\ ~NextHolds
  /\ ~(StreamHolds /\ NextHolds)

MonitorInv ==
  /\ monitor = "start" <=>
       start \in {"connect", "setup", "rest", "undo", "return", "exit", "up"}
  /\ monitor = "stop" <=> stop \in {"native", "bridge"}
  /\ monitor = "next" <=> next = "connect"

(* Only a stream that came up is stopped, and only once.                   *)
StopsOnce ==
  /\ stop # "no" => start \in {"up", "ended"} /\ ~posted /\ ~connected
  /\ stop \notin {"no", "enter"} => start = "ended"
  /\ posted \/ connected => start \in {"up", "ended"}
  /\ ~(posted /\ connected)

(* Whoever has the permit and has been through the monitor has the bridge. *)
BridgeInv ==
  /\ StreamHolds /\ start # "enter" /\ stop # "release" => bridge = "this"
  /\ next \in {"connect", "up"} => bridge = "next"
  /\ line = "this" => start \in {"up", "ended"} /\ stop \in {"no", "enter", "native"}

StreamInv ==
  /\ StreamTypeOK /\ PermitInv /\ MonitorInv /\ StopsOnce /\ BridgeInv
  /\ StopReachesDecoder

IInv == RendererInv /\ StreamInv

-----------------------------------------------------------------------------
LEMMA RendererInitially == Init => RendererInv
<1> SUFFICES ASSUME Init PROVE RendererInv
  OBVIOUS
<1>b. {nativeCtx, held, refused, stopping, done, onExit, ended, told, missed,
         stats, clickOver} \subseteq BOOLEAN
  BY Zenon DEF Init
<1>1. TypeOK
  BY <1>b DEF Init, TypeOK
<1>2. Asked
  BY DEF Init, Asked
<1>3. Latched
  BY DEF Init, Latched, Before
<1>4. Released
  BY DEF Init, Released, CleanedUp
<1>5. Contexts
  BY DEF Init, Contexts, InSession
<1>6. NoClickAfterSession
  BY DEF Init, NoClickAfterSession
<1> QED BY <1>1, <1>2, <1>3, <1>4, <1>5, <1>6 DEF RendererInv

(* A cleanup asked for once keeps the types.                               *)
LEMMA CleanupTypes ==
  ASSUME TypeOK, Cleanup, releases = 0
  PROVE  /\ surfaces' \in {"none", "live", "released"} /\ releases' \in 0 .. 1
         /\ {done', onExit'} \subseteq BOOLEAN
<1>1. {done, onExit} \subseteq BOOLEAN
  BY DEF TypeOK
<1>2. {done', onExit'} \subseteq BOOLEAN
  <2>1. CASE done
    BY <1>1, <2>1 DEF Cleanup
  <2>2. CASE ~done
    BY <1>1, <2>2 DEF Cleanup
  <2> QED BY <2>1, <2>2
<1>3. surfaces' \in {"none", "live", "released"} /\ releases' \in 0 .. 1
  BY DEF Cleanup, ReleaseSurfaces, TypeOK
<1> QED BY <1>2, <1>3

LEMMA FailedCleanupKeeps == ASSUME RendererInv, FailedCleanup PROVE RendererInv'
<1>0. TypeOK /\ Asked /\ Latched /\ Released /\ Contexts /\ NoClickAfterSession
  BY DEF RendererInv
<1>a. releases = 0
  BY <1>0 DEF FailedCleanup, Released, CleanedUp
<1>1. TypeOK'
  BY <1>0, <1>a, CleanupTypes DEF FailedCleanup, owner, loop, outer, sound, TypeOK
<1>2. Asked'
  BY <1>0 DEF FailedCleanup, owner, loop, surf, outer, sound, Cleanup, ReleaseSurfaces, Asked
<1>3. Latched'
  BY <1>0 DEF FailedCleanup, owner, loop, surf, outer, sound, Cleanup, ReleaseSurfaces, Latched, Before
<1>4. Released'
  BY <1>0 DEF FailedCleanup, owner, loop, surf, outer, sound, Cleanup, ReleaseSurfaces, Released, CleanedUp, Asked, TypeOK
<1>5. Contexts'
  BY <1>0 DEF FailedCleanup, owner, loop, surf, outer, sound, Cleanup, ReleaseSurfaces, Contexts, InSession
<1>6. NoClickAfterSession'
  BY <1>0 DEF FailedCleanup, owner, loop, surf, outer, sound, Cleanup, ReleaseSurfaces, NoClickAfterSession
<1> QED BY <1>1, <1>2, <1>3, <1>4, <1>5, <1>6 DEF RendererInv

LEMMA ClearCtxKeeps == ASSUME RendererInv, ClearCtx PROVE RendererInv'
<1>0. TypeOK /\ Asked /\ Latched /\ Released /\ Contexts /\ NoClickAfterSession
  BY DEF RendererInv
<1>b. nativeCtx' \in BOOLEAN
  BY Zenon DEF ClearCtx
<1>1. TypeOK'
  BY <1>0, <1>b DEF ClearCtx, owner, loop, surf, outer, sound, NativeLockFree, TypeOK
<1>2. Asked'
  BY <1>0 DEF ClearCtx, owner, loop, surf, outer, sound, NativeLockFree, Asked
<1>3. Latched'
  BY <1>0 DEF ClearCtx, owner, loop, surf, outer, sound, NativeLockFree, Latched, Before
<1>4. Released'
  BY <1>0 DEF ClearCtx, owner, loop, surf, outer, sound, NativeLockFree, Released, CleanedUp
<1>5. Contexts'
  BY <1>0 DEF ClearCtx, owner, loop, surf, outer, sound, NativeLockFree, Contexts, InSession, TypeOK
<1>6. NoClickAfterSession'
  BY <1>0 DEF ClearCtx, owner, loop, surf, outer, sound, NativeLockFree, NoClickAfterSession
<1> QED BY <1>1, <1>2, <1>3, <1>4, <1>5, <1>6 DEF RendererInv

LEMMA StatsLeaveKeeps == ASSUME RendererInv, StatsLeave PROVE RendererInv'
<1>0. TypeOK /\ Asked /\ Latched /\ Released /\ Contexts /\ NoClickAfterSession
  BY DEF RendererInv
<1>b. stats' \in BOOLEAN
  BY Zenon DEF StatsLeave
<1>1. TypeOK'
  BY <1>0, <1>b DEF StatsLeave, owner, loop, surf, outer, sound, TypeOK
<1>2. Asked'
  BY <1>0 DEF StatsLeave, owner, loop, surf, outer, sound, Asked
<1>3. Latched'
  BY <1>0 DEF StatsLeave, owner, loop, surf, outer, sound, Latched, Before
<1>4. Released'
  BY <1>0 DEF StatsLeave, owner, loop, surf, outer, sound, Released, CleanedUp
<1>5. Contexts'
  BY <1>0 DEF StatsLeave, owner, loop, surf, outer, sound, Contexts, InSession
<1>6. NoClickAfterSession'
  BY <1>0 DEF StatsLeave, owner, loop, surf, outer, sound, NoClickAfterSession
<1> QED BY <1>1, <1>2, <1>3, <1>4, <1>5, <1>6 DEF RendererInv

LEMMA TeardownRendererKeeps == ASSUME RendererInv, TeardownRenderer PROVE RendererInv'
<1>0. TypeOK /\ Asked /\ Latched /\ Released /\ Contexts /\ NoClickAfterSession
  BY DEF RendererInv
<1>b. held' \in BOOLEAN
  BY Zenon DEF TeardownRenderer
<1>1. TypeOK'
  <2>1. CASE held
    <3>1. releases = 0
      BY <1>0, <2>1 DEF Asked, Released, CleanedUp
    <3> QED BY <1>0, <1>b, <2>1, <3>1, CleanupTypes DEF TeardownRenderer, loop, outer, sound, TypeOK
  <2>2. CASE ~held
    BY <1>0, <1>b, <2>2 DEF TeardownRenderer, loop, surf, outer, sound, TypeOK
  <2> QED BY <2>1, <2>2
<1>2. Asked'
  BY <1>0 DEF TeardownRenderer, owner, loop, surf, outer, sound, Cleanup, ReleaseSurfaces, Asked
<1>3. Latched'
  BY <1>0 DEF TeardownRenderer, owner, loop, surf, outer, sound, Cleanup, ReleaseSurfaces, Latched, Before, Asked
<1>4. Released'
  BY <1>0 DEF TeardownRenderer, owner, loop, surf, outer, sound, Cleanup, ReleaseSurfaces, Released, CleanedUp, Asked, TypeOK
<1>5. Contexts'
  BY <1>0 DEF TeardownRenderer, owner, loop, surf, outer, sound, Cleanup, ReleaseSurfaces, Contexts, InSession
<1>6. NoClickAfterSession'
  BY <1>0 DEF TeardownRenderer, owner, loop, surf, outer, sound, Cleanup, ReleaseSurfaces, NoClickAfterSession
<1> QED BY <1>1, <1>2, <1>3, <1>4, <1>5, <1>6 DEF RendererInv

(* The connection thread. *)
LEMMA ConnectionKeeps == ASSUME RendererInv, Connection PROVE RendererInv'
<1> USE DEF RendererInv, TypeOK, Asked, Latched, Released, Contexts,
            NoClickAfterSession, CleanedUp, Before, InSession
<1>1. CASE StartRenderer
  BY <1>1 DEF StartRenderer, surf, outer, sound
<1>2. CASE RefuseStart
  BY <1>2 DEF RefuseStart, loop, surf, outer, sound
<1>3. CASE StartOk
  BY <1>3 DEF StartOk, loop, surf, outer, sound
<1>4. CASE StartFails
  BY <1>4 DEF StartFails, loop, surf, outer, sound
<1>5. CASE FailedCleanup
  BY <1>5, FailedCleanupKeeps
<1> QED BY <1>1, <1>2, <1>3, <1>4, <1>5 DEF Connection

(* The render thread. *)
LEMMA RenderThreadKeeps == ASSUME RendererInv, Setup \/ LoopStops \/ LoopExits \/ Leave PROVE RendererInv'
<1> USE DEF RendererInv, TypeOK, Asked, Latched, Released, Contexts,
            NoClickAfterSession, CleanedUp, Before, InSession
<1>1. CASE InitFails
  BY <1>1 DEF InitFails, owner, surf, outer, sound
<1>2. CASE InitOk
  BY <1>2 DEF InitOk, owner, surf, outer, sound
<1>3. CASE BuildSurfaces
  BY <1>3 DEF BuildSurfaces, owner, outer, sound
<1>4. CASE LatchDown
  BY <1>4 DEF LatchDown, owner, loop, surf, outer, sound
<1>5. CASE LoopStops
  BY <1>5 DEF LoopStops, owner, loop, surf, outer, sound
<1>6. CASE LoopExits
  BY <1>6 DEF LoopExits, owner, loop, surf, outer, sound
<1>7. CASE ClickOver
  BY <1>7 DEF ClickOver, owner, surf, outer, LetClickGo
<1>8. CASE ClearCtx
  BY <1>8, ClearCtxKeeps
<1>9. CASE DestroyCtx
  BY <1>9 DEF DestroyCtx, owner, surf, outer, sound
<1>10. CASE TellEnded
  BY <1>10 DEF TellEnded, owner, surf, outer, sound
<1>11. CASE Finish
  BY <1>11 DEF Finish, owner, outer, sound, FinishReleases, ReleaseSurfaces
<1> QED BY <1>1, <1>2, <1>3, <1>4, <1>5, <1>6, <1>7, <1>8, <1>9, <1>10, <1>11 DEF Setup, Leave

(* The click and the stats. *)
LEMMA OthersKeep == ASSUME RendererInv, ClickStarts \/ Click \/ StatsEnter \/ StatsLeave PROVE RendererInv'
<1> USE DEF RendererInv, TypeOK, Asked, Latched, Released, Contexts,
            NoClickAfterSession, CleanedUp, Before, InSession
<1>1. CASE ClickStarts
  BY <1>1 DEF ClickStarts, owner, loop, surf, outer
<1>2. CASE ClickBuilt
  BY <1>2 DEF ClickBuilt, owner, loop, surf, outer
<1>3. CASE ClickHanded
  BY <1>3 DEF ClickHanded, owner, loop, surf, outer, Handed
<1>4. CASE StatsEnter
  BY <1>4 DEF StatsEnter, owner, loop, surf, outer, sound
<1>5. CASE StatsLeave
  BY <1>5, StatsLeaveKeeps
<1> QED BY <1>1, <1>2, <1>3, <1>4, <1>5 DEF Click

(* The activity. *)
LEMMA ActivityKeeps == ASSUME RendererInv, FinishActivity \/ DestroyActivity \/ StopXrRenderer PROVE RendererInv'
<1> USE DEF RendererInv, TypeOK, Asked, Latched, Released, Contexts,
            NoClickAfterSession, CleanedUp, Before, InSession
<1>1. CASE FinishActivity
  BY <1>1 DEF FinishActivity, owner, loop, surf, sound
<1>2. CASE DestroyActivity
  BY <1>2 DEF DestroyActivity, loop, surf, sound
<1>3. CASE StopXrRenderer
  BY <1>3 DEF StopXrRenderer, owner, loop, surf, sound, Stopped
<1> QED BY <1>1, <1>2, <1>3

(* The decoder's teardown. *)
LEMMA TeardownKeeps == ASSUME RendererInv, TeardownStop \/ Teardown PROVE RendererInv'
<1> USE DEF RendererInv, TypeOK, Asked, Latched, Released, Contexts,
            NoClickAfterSession, CleanedUp, Before, InSession
<1>1. CASE TeardownStop
  BY <1>1 DEF TeardownStop, owner, loop, surf, sound, Stopped
<1>2. CASE TeardownCodec
  BY <1>2 DEF TeardownCodec, loop, surf, sound
<1>3. CASE TeardownRenderer
  BY <1>3, TeardownRendererKeeps
<1> QED BY <1>1, <1>2, <1>3 DEF Teardown

LEMMA RendererKeeps == ASSUME RendererInv, Next PROVE RendererInv'
BY ConnectionKeeps, RenderThreadKeeps, OthersKeep, ActivityKeeps, TeardownKeeps DEF Next

(* Steps of the stream that touch the renderer in one place only.          *)
LEMMA RendererRests ==
  ASSUME RendererInv, UNCHANGED <<conf, held, refused, loop, surf, sound, stats>>,
         UNCHANGED <<missed, teardown>>,
         codec' = codec \/ codec' \in {"none", "released"},
         ui' = ui \/ ui' = "finishing",
         stopping' = stopping \/ stopping' = (stopping \/ held)
  PROVE  RendererInv'
<1> USE DEF RendererInv
<1>1. stopping' \in BOOLEAN
  BY DEF TypeOK
<1>2. TypeOK'
  BY <1>1 DEF TypeOK, loop, surf, sound
<1>3. Asked' /\ Latched' /\ Released' /\ Contexts'
  BY DEF Asked, Latched, Released, Contexts, CleanedUp, Before, InSession, loop, surf
<1>4. NoClickAfterSession'
  BY DEF NoClickAfterSession, sound
<1> QED BY <1>2, <1>3, <1>4

LEMMA RendererSafe == RendererInv => NothingOutlivesSession
<1> SUFFICES ASSUME RendererInv PROVE NothingOutlivesSession
  OBVIOUS
<1>1. SurfacesHeld
  BY DEF RendererInv, TypeOK, Asked, Latched, Released, CleanedUp, Before, SurfacesHeld
<1>2. StatsOnLiveCtx
  BY DEF RendererInv, Contexts, StatsOnLiveCtx
<1> QED BY <1>1, <1>2 DEF RendererInv, NothingOutlivesSession

(* The renderer on its own, torn down whenever its owner likes: what other *)
(* threads hold of it is gone with the session.                            *)
THEOREM RendererIsSound == Spec => []NothingOutlivesSession
<1>1. RendererInv /\ UNCHANGED vars => RendererInv'
  BY RendererRests DEF vars, owner, outer
<1>2. RendererInv /\ [Next]_vars => RendererInv'
  BY <1>1, RendererKeeps
<1> QED BY RendererInitially, <1>2, RendererSafe, PTL DEF Spec

-----------------------------------------------------------------------------
LEMMA StreamInitially == StreamInit => StreamInv
<1> SUFFICES ASSUME StreamInit PROVE StreamInv
  OBVIOUS
<1>1. {permit, posted, connected, kept, left, surface} \subseteq BOOLEAN
  BY Zenon DEF StreamInit
<1>2. StreamTypeOK
  BY <1>1 DEF StreamInit, StreamTypeOK
<1> QED BY <1>2 DEF StreamInit, StreamInv, PermitInv, MonitorInv, StopsOnce, BridgeInv,
                    StopReachesDecoder, StreamHolds, NextHolds

(* The start thread. *)
LEMMA StartThreadKeeps ==
  ASSUME StreamInv, StartThread
  PROVE  StreamInv'
<1> USE DEF StreamInv, StreamTypeOK, PermitInv, MonitorInv, StopsOnce, BridgeInv,
            StopReachesDecoder, StreamHolds, NextHolds
<1>1. CASE StartApp
  BY <1>1 DEF StartApp, vars, outer, game
<1>2. CASE Acquire
  <2>1. permit' \in BOOLEAN
    BY <1>2, Zenon DEF Acquire
  <2> QED BY <1>2, <2>1 DEF Acquire, vars, outer, game
<1>3. CASE SetupBridge
  BY <1>3 DEF SetupBridge, vars, outer, game
<1>4. CASE Stages
  BY <1>4 DEF Stages, vars, outer, game
<1>5. CASE SetupOk
  BY <1>5 DEF SetupOk, vars, outer, game
<1>6. CASE SetupFails
  BY <1>6 DEF SetupFails, game, outer
<1>7. CASE RestFails
  BY <1>7 DEF RestFails, vars, outer, game
<1>8. CASE Undone
  BY <1>8 DEF Undone, vars, outer, game
<1>9. CASE ReturnFailed
  BY <1>9 DEF ReturnFailed, ReleaseFailed, vars, outer, game
<1>10. CASE ExitFailed
  BY <1>10 DEF ExitFailed, vars, outer, game
<1>11. CASE ConnectionStarted
  BY <1>11 DEF ConnectionStarted, vars, outer
<1>12. CASE ReturnOk
  BY <1>12 DEF ReturnOk, vars, outer, game
<1> QED BY <1>1, <1>2, <1>3, <1>4, <1>5, <1>6, <1>7, <1>8, <1>9, <1>10, <1>11, <1>12 DEF StartThread

(* conn.stop(). *)
LEMMA StopThreadKeeps ==
  ASSUME StreamInv, StopThread
  PROVE  StreamInv'
<1> USE DEF StreamInv, StreamTypeOK, PermitInv, MonitorInv, StopsOnce, BridgeInv,
            StopReachesDecoder, StreamHolds, NextHolds
<1>1. CASE EnterStop
  BY <1>1 DEF EnterStop, vars, outer, game
<1>2. CASE StopNative
  BY <1>2 DEF StopNative, vars, outer, game
<1>3. CASE CleanupBridge
  BY <1>3 DEF CleanupBridge, vars, outer, game
<1>4. CASE Release
  BY <1>4 DEF Release, vars, outer, game
<1> QED BY <1>1, <1>2, <1>3, <1>4 DEF StopThread

(* The activity. *)
LEMMA GameKeeps ==
  ASSUME StreamInv, SurfaceChanged \/ Started \/ EndStream \/ BackOut \/ SurfaceDestroyed
         \/ SurfaceKept \/ OnStop \/ HoldOver \/ OnStopHeld \/ OnStart
         \/ OnDestroy \/ Destroyed
  PROVE  StreamInv'
<1> USE DEF StreamInv, StreamTypeOK, PermitInv, MonitorInv, StopsOnce, BridgeInv,
            StopReachesDecoder, StreamHolds, NextHolds
<1>1. CASE SurfaceChanged
  BY <1>1 DEF SurfaceChanged, vars, outer, game
<1>2. CASE Started
  <2>1. posted' \in BOOLEAN
    BY <1>2, Zenon DEF Started
  <2> QED BY <1>2, <2>1 DEF Started, vars, outer, conn
<1>3. CASE EndStream
  <2>1. connected' \in BOOLEAN
    BY <1>3, Zenon DEF EndStream, StopConnection
  <2> QED BY <1>3, <2>1 DEF EndStream, StopConnection, vars, outer
<1>4. CASE BackOut
  BY <1>4 DEF BackOut, FinishActivity, outer, conn, game
<1>5. CASE SurfaceDestroyed
  <2>1. surface' \in BOOLEAN
    BY <1>5, Zenon DEF SurfaceDestroyed, StopConnection
  <2>2. connected' \in BOOLEAN
    BY <1>5, Zenon DEF SurfaceDestroyed, StopConnection
  <2> QED BY <1>5, <2>1, <2>2 DEF SurfaceDestroyed, StopConnection, outer
<1>6. CASE SurfaceKept
  <2>1. surface' \in BOOLEAN
    BY <1>6, Zenon DEF SurfaceKept
  <2> QED BY <1>6, <2>1 DEF SurfaceKept, vars, outer, conn
<1>7. CASE OnStop
  <2>1. kept' \in BOOLEAN
    BY <1>7, Zenon DEF OnStop, EndFor, StopConnection
  <2>2. connected' \in BOOLEAN
    BY <1>7, Zenon DEF OnStop, EndFor, StopConnection
  <2> QED BY <1>7, <2>1, <2>2 DEF OnStop, EndFor, StopConnection
<1>8. CASE HoldOver
  <2>1. kept' \in BOOLEAN
    BY <1>8, Zenon DEF HoldOver, EndFor, StopConnection
  <2>2. connected' \in BOOLEAN
    BY <1>8, Zenon DEF HoldOver, EndFor, StopConnection
  <2> QED BY <1>8, <2>1, <2>2 DEF HoldOver, EndFor, StopConnection
<1>9. CASE OnStopHeld
  BY <1>9 DEF OnStopHeld, vars, outer, conn
<1>10. CASE OnStart
  <2>1. kept' \in BOOLEAN
    BY <1>10, Zenon DEF OnStart
  <2> QED BY <1>10, <2>1 DEF OnStart, vars, outer, conn
<1>11. CASE OnDestroy
  BY <1>11 DEF OnDestroy, DestroyActivity, outer, conn, game
<1>12. CASE Destroyed
  <2>1. connected' \in BOOLEAN
    BY <1>12, Zenon DEF Destroyed, StopConnection, StopXrRenderer
  <2> QED BY <1>12, <2>1 DEF Destroyed, StopConnection, StopXrRenderer, outer,
         conn
<1> QED BY <1>1, <1>2, <1>3, <1>4, <1>5, <1>6, <1>7, <1>8, <1>9, <1>10, <1>11, <1>12

(* The next stream. *)
LEMMA NextKeeps ==
  ASSUME StreamInv, NextAsks \/ NextStart
  PROVE  StreamInv'
<1> USE DEF StreamInv, StreamTypeOK, PermitInv, MonitorInv, StopsOnce, BridgeInv,
            StopReachesDecoder, StreamHolds, NextHolds
<1>1. CASE NextAsks
  BY <1>1 DEF NextAsks, vars, outer, conn, game
<1>2. CASE NextAcquires
  <2>1. permit' \in BOOLEAN
    BY <1>2, Zenon DEF NextAcquires
  <2> QED BY <1>2, <2>1 DEF NextAcquires, vars, outer, game
<1>3. CASE NextEnters
  BY <1>3 DEF NextEnters, vars, outer, game
<1>4. CASE NextUp
  BY <1>4 DEF NextUp, vars, outer, game
<1> QED BY <1>1, <1>2, <1>3, <1>4 DEF NextStart

(* A renderer's step takes no teardown back.                               *)
LEMMA RendererStepKeeps ==
  ASSUME StreamInv, Next \/ UNCHANGED vars, UNCHANGED <<conn, game, next>>
  PROVE  StreamInv'
<1>1. teardown = "done" => teardown' = "done"
  BY DEF Next, Connection, Setup, Leave, Click, Teardown, StartRenderer, RefuseStart,
         StartOk, StartFails, FailedCleanup, InitFails, InitOk, BuildSurfaces, LatchDown,
         LoopStops, LoopExits, ClickOver, ClearCtx, DestroyCtx, TellEnded, Finish,
         ClickStarts, ClickBuilt, ClickHanded, StatsEnter, StatsLeave, FinishActivity,
         DestroyActivity, StopXrRenderer, TeardownStop, TeardownCodec, TeardownRenderer,
         vars, outer
<1> QED BY <1>1 DEF StreamInv, StreamTypeOK, PermitInv, MonitorInv, StopsOnce, BridgeInv,
                    StopReachesDecoder, StreamHolds, NextHolds, conn, game

(* The steps of the renderer as the stream takes them.                     *)
RendererSteps ==
  \/ SetupRenderer \/ StopDecoder \/ Cleanups
  \/ Free(Setup) \/ Free(LoopStops) \/ Free(LoopExits) \/ Free(Leave)
  \/ Free(ClickStarts) \/ Free(Click) \/ Free(StatsEnter) \/ Free(StatsLeave)

LEMMA StreamKeeps == ASSUME IInv, [StreamNext]_svars PROVE IInv'
<1> USE DEF IInv
<1>1. CASE RendererSteps
  <2>1. Next /\ UNCHANGED <<conn, game, next>>
    BY <1>1 DEF RendererSteps, SetupRenderer, StopDecoder, Cleanups, Free, Bridged, Next,
                Teardown
  <2> QED BY <2>1, RendererKeeps, RendererStepKeeps
<1>2. CASE StartThread
  <2>1. CASE SetupFails
    <3>1. RendererInv'
      BY <2>1, RendererRests DEF SetupFails, outer
    <3> QED BY <1>2, <3>1, StartThreadKeeps
  <2>2. CASE ~SetupFails
    <3>1. UNCHANGED vars
      BY <1>2, <2>2 DEF StartThread, StartApp, Acquire, SetupBridge, Stages, SetupOk, RestFails,
           Undone, ReturnFailed, ExitFailed, ConnectionStarted, ReturnOk
    <3>2. RendererInv'
      BY <3>1, RendererRests DEF vars, owner, outer
    <3> QED BY <1>2, <3>2, StartThreadKeeps
  <2> QED BY <2>1, <2>2
<1>3. CASE StopThread
  <2>1. UNCHANGED vars
    BY <1>3 DEF StopThread, EnterStop, StopNative, CleanupBridge, Release
  <2>2. RendererInv'
    BY <2>1, RendererRests DEF vars, owner, outer
  <2> QED BY <1>3, <2>2, StopThreadKeeps
<1>4. CASE SurfaceChanged \/ Started \/ EndStream \/ SurfaceKept \/ OnStopHeld \/ OnStart
  <2>1. UNCHANGED vars
    BY <1>4 DEF SurfaceChanged, Started, EndStream, SurfaceKept, OnStopHeld, OnStart
  <2>2. RendererInv'
    BY <2>1, RendererRests DEF vars, owner, outer
  <2> QED BY <1>4, <2>2, GameKeeps
<1>5. CASE BackOut \/ OnDestroy \/ Destroyed
  <2>1. FinishActivity \/ DestroyActivity \/ StopXrRenderer
    BY <1>5 DEF BackOut, OnDestroy, Destroyed
  <2> QED BY <1>5, <2>1, ActivityKeeps, GameKeeps
<1>6. CASE SurfaceDestroyed
  <2>1. RendererInv'
    BY <1>6, RendererRests DEF SurfaceDestroyed, Stopped, owner, outer
  <2> QED BY <1>6, <2>1, GameKeeps
<1>7. CASE OnStop \/ HoldOver
  <2>1. RendererInv'
    BY <1>7, RendererRests DEF OnStop, HoldOver, EndFor, owner
  <2> QED BY <1>7, <2>1, GameKeeps
<1>8. CASE NextAsks \/ NextStart
  <2>1. UNCHANGED vars
    BY <1>8 DEF NextAsks, NextStart, NextAcquires, NextEnters, NextUp
  <2>2. RendererInv'
    BY <2>1, RendererRests DEF vars, owner, outer
  <2> QED BY <1>8, <2>2, NextKeeps
<1>9. CASE UNCHANGED svars
  <2>1. RendererInv'
    BY <1>9, RendererRests DEF svars, vars, owner, outer
  <2> QED BY <1>9, <2>1, RendererStepKeeps DEF svars
<1> QED BY <1>1, <1>2, <1>3, <1>4, <1>5, <1>6, <1>7, <1>8, <1>9 DEF StreamNext, RendererSteps

-----------------------------------------------------------------------------
(* Permit, monitor and bridge go together, whatever the renderer does.      *)
THEOREM StreamInvariant == StreamSpec => []IInv
<1>1. StreamInit => IInv
  BY RendererInitially, StreamInitially DEF StreamInit, IInv
<1>2. IInv /\ [StreamNext]_svars => IInv'
  BY StreamKeeps
<1> QED BY <1>1, <1>2, PTL DEF StreamSpec

(* However start, stop and the activity interleave around the renderer, its *)
(* surfaces, context and click are held as long as somebody uses them and   *)
(* let go by one thread.                                                    *)
THEOREM StreamOutlivesNothing == StreamSpec => []NothingOutlivesSession
<1>1. IInv => NothingOutlivesSession
  BY RendererSafe DEF IInv
<1> QED BY StreamInvariant, <1>1, PTL

(* The native library has one connection at a time, whose callbacks reach   *)
(* its own renderers.                                                       *)
THEOREM LibraryHasOneConnection == StreamSpec => []ConnectionInv
<1>1. IInv => ConnectionInv
  BY DEF IInv, StreamInv, ConnectionInv, OneConnection, InLibrary, PermitInv, MonitorInv,
         StopsOnce, BridgeInv, StreamHolds, NextHolds
<1> QED BY StreamInvariant, <1>1, PTL

(* A stop that has returned has torn its decoder down.                      *)
THEOREM StopTearsDown == StreamSpec => []StopReachesDecoder
<1>1. IInv => StopReachesDecoder
  BY DEF IInv, StreamInv
<1> QED BY StreamInvariant, <1>1, PTL

=============================================================================
