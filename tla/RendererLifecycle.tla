------------------------- MODULE RendererLifecycle -------------------------
(***************************************************************************)
(* The life of the VR renderer, XrRenderer.java, seen from the threads     *)
(* that share it: the connection thread that starts it when the codec asks *)
(* for a surface (MediaCodecDecoderRenderer.getRenderSurface), its own     *)
(* render thread, the activity's onDestroy (stopXrRenderer), the teardown  *)
(* of the decoder, a thread reporting stats, and the one building the      *)
(* click sound.                                                            *)
(*                                                                         *)
(* A join waits at most two seconds and goes on either way, so it is no    *)
(* step: what follows it may happen whether the thread has ended or not.   *)
(***************************************************************************)
EXTENDS Naturals

VARIABLES conf,        \* getRenderSurface and XrRenderer.start
          render,      \* renderThread, runSession
          latch,       \* initLatch and initOk
          nativeCtx,   \* the field nativeCtx is not 0
          native,      \* the context, its OpenXR session and its GL objects
          surfaces,    \* inputSurface and surfaceTexture
          releases,    \* history: calls of releaseSurfaces
          codec,       \* the MediaCodec and the surface it renders into
          held,        \* MediaCodecDecoderRenderer.xrRenderer is set
          refused,     \* xrRendererStopped
          stopping,    \* XrRenderer.stopping
          done,        \* renderThreadDone
          onExit,      \* releaseOnExit
          ended,       \* endedFor: the runtime ended the loop
          told,        \* onVrSessionEnded was called
          ui,          \* the activity: finish(), onDestroy
          missed,      \* history: onDestroy came while start was under way
          teardown,    \* stop() and cleanup() of the decoder
          stats,       \* rendererStats, inside nativeLock
          click,       \* the click's track
          clickOver    \* clickSessionOver

owner == <<conf, held, refused, codec>>
loop == <<render, latch, nativeCtx, native, ended, told>>
surf == <<surfaces, releases, done, onExit>>
outer == <<ui, missed, teardown>>
sound == <<click, clickOver>>
vars == <<owner, loop, surf, outer, sound, stats, stopping>>

Init ==
  /\ conf = "no" /\ held = FALSE /\ refused = FALSE /\ codec = "none"
  /\ render = "off" /\ latch = "up" /\ nativeCtx = FALSE /\ native = "none"
  /\ ended = FALSE /\ told = FALSE
  /\ surfaces = "none" /\ releases = 0 /\ done = FALSE /\ onExit = FALSE
  /\ ui = "alive" /\ missed = FALSE /\ teardown = "no"
  /\ click = "no" /\ clickOver = FALSE
  /\ stats = FALSE /\ stopping = FALSE

\* releaseSurfaces
ReleaseSurfaces ==
  /\ releases' = releases + 1
  /\ surfaces' = IF surfaces = "live" THEN "released" ELSE surfaces

\* XrRenderer.cleanup, under teardownLock: now if the thread is through,
\* left to it otherwise.
CleanupAnyhow == ReleaseSurfaces /\ UNCHANGED <<done, onExit>>    \* mutant
Cleanup ==
  IF done THEN ReleaseSurfaces /\ UNCHANGED <<done, onExit>>
  ELSE onExit' = TRUE /\ UNCHANGED <<surfaces, releases, done>>

\* MediaCodecDecoderRenderer hands a stop on to the renderer it has.
StoppedNone == stopping    \* mutant
Stopped == stopping \/ held

-----------------------------------------------------------------------------
(* The connection thread                                                   *)

\* The codec asks for a surface: nothing is started for an activity that is
\* gone, or again after a failure.
StartRenderer ==
  /\ conf = "no" /\ ~refused /\ ui = "alive"
  /\ conf' = "await" /\ render' = "init"
  /\ UNCHANGED <<held, refused, codec, latch, nativeCtx, native, ended, told,
                 surf, outer, sound, stats, stopping>>

RefuseStart ==
  /\ conf = "no" /\ (refused \/ ui # "alive")
  /\ conf' = "flat" /\ codec' = "flat"
  /\ UNCHANGED <<held, refused, loop, surf, outer, sound, stats, stopping>>

StartOk ==
  /\ conf = "await" /\ latch = "ok"
  /\ conf' = "held" /\ held' = TRUE /\ codec' = "on"
  /\ UNCHANGED <<refused, loop, surf, outer, sound, stats, stopping>>

\* nativeInit failed, or INIT_WAIT_SECONDS passed: prepareForStop, then
\* cleanup, then the flat surface.
StartFails ==
  /\ conf = "await" /\ latch # "ok"
  /\ conf' = "failed" /\ stopping' = TRUE
  /\ UNCHANGED <<held, refused, codec, loop, surf, outer, sound, stats>>

FailedCleanup ==
  /\ conf = "failed"
  /\ Cleanup
  /\ conf' = "flat" /\ refused' = TRUE /\ codec' = "flat"
  /\ UNCHANGED <<held, loop, outer, sound, stats, stopping>>

-----------------------------------------------------------------------------
(* The render thread                                                       *)

InitFails ==
  /\ render = "init"
  /\ render' = "finish" /\ latch' = "failed"
  /\ UNCHANGED <<owner, nativeCtx, native, ended, told, surf, outer, sound,
                 stats, stopping>>

InitOk ==
  /\ render = "init"
  /\ render' = "build" /\ nativeCtx' = TRUE /\ native' = "live"
  /\ UNCHANGED <<owner, latch, ended, told, surf, outer, sound, stats, stopping>>

\* The SurfaceTexture and its Surface, then the latch.
BuildSurfaces ==
  /\ render = "build" /\ surfaces = "none"
  /\ surfaces' = "live" /\ render' = "ready"
  /\ UNCHANGED <<owner, latch, nativeCtx, native, ended, told, releases, done,
                 onExit, outer, sound, stats, stopping>>

LatchDown ==
  /\ render = "ready"
  /\ render' = "loop" /\ latch' = "ok"
  /\ UNCHANGED <<owner, nativeCtx, native, ended, told, surf, outer, sound,
                 stats, stopping>>

\* The loop ends for a stop, or because the runtime says so (FRAME_EXIT),
\* which counts only while no stop was asked for.
LoopStops ==
  /\ render = "loop" /\ stopping
  /\ render' = "click"
  /\ UNCHANGED <<owner, latch, nativeCtx, native, ended, told, surf, outer,
                 sound, stats, stopping>>

LoopExits ==
  /\ render = "loop"
  /\ render' = "click" /\ ended' = ~stopping
  /\ UNCHANGED <<owner, latch, nativeCtx, native, told, surf, outer, sound,
                 stats, stopping>>

\* Under clickLock.
LetClickGo == click' = IF click = "kept" THEN "released" ELSE click
ClickOver ==
  /\ render = "click"
  /\ clickOver' = TRUE /\ LetClickGo
  /\ render' = "clear"
  /\ UNCHANGED <<owner, latch, nativeCtx, native, ended, told, surf, outer,
                 stats, stopping>>

\* Under nativeLock: the field is cleared, then the context is freed.
NoLock == TRUE    \* mutant
NativeLockFree == ~stats
ClearCtx ==
  /\ render = "clear" /\ NativeLockFree
  /\ nativeCtx' = FALSE /\ render' = "destroy"
  /\ UNCHANGED <<owner, latch, native, ended, told, surf, outer, sound, stats,
                 stopping>>

DestroyCtx ==
  /\ render = "destroy"
  /\ native' = "destroyed" /\ render' = "tell"
  /\ UNCHANGED <<owner, latch, nativeCtx, ended, told, surf, outer, sound,
                 stats, stopping>>

TellEnded ==
  /\ render = "tell"
  /\ told' = ended /\ render' = "finish"
  /\ UNCHANGED <<owner, latch, nativeCtx, native, ended, surf, outer, sound,
                 stats, stopping>>

\* finishRenderThread, under teardownLock, however the session ended.
FinishForgets == UNCHANGED <<surfaces, releases>>    \* mutant
FinishReleases == IF onExit THEN ReleaseSurfaces ELSE UNCHANGED <<surfaces, releases>>
Finish ==
  /\ render = "finish"
  /\ done' = TRUE /\ FinishReleases
  /\ render' = "gone"
  /\ UNCHANGED <<owner, latch, nativeCtx, native, ended, told, onExit, outer,
                 sound, stats, stopping>>

-----------------------------------------------------------------------------
(* The other threads                                                       *)

\* Built once, by the environment's loader or when the setting is switched
\* on in the loop.
ClickStarts ==
  /\ click = "no" /\ render \in {"build", "loop"}
  /\ click' = "starting"
  /\ UNCHANGED <<owner, loop, surf, outer, clickOver, stats, stopping>>

ClickBuilt ==
  /\ click = "starting"
  /\ click' \in {"built", "none"}
  /\ UNCHANGED <<owner, loop, surf, outer, clickOver, stats, stopping>>

\* Under clickLock: a session already over lets the track go.
Handed == IF clickOver THEN "released" ELSE "kept"
ClickHanded ==
  /\ click = "built"
  /\ click' = Handed
  /\ UNCHANGED <<owner, loop, surf, outer, clickOver, stats, stopping>>

\* rendererStats holds nativeLock from its look at nativeCtx to the end of
\* its native calls.
StatsEnter ==
  /\ ~stats /\ render # "destroy" /\ nativeCtx
  /\ stats' = TRUE
  /\ UNCHANGED <<owner, loop, surf, outer, sound, stopping>>

StatsLeave ==
  /\ stats /\ stats' = FALSE
  /\ UNCHANGED <<owner, loop, surf, outer, sound, stopping>>

\* finish(): isFinishing from here on.
FinishActivity ==
  /\ ui = "alive" /\ ui' = "finishing"
  /\ UNCHANGED <<owner, loop, surf, missed, teardown, sound, stats, stopping>>

\* onDestroy: stopXrRenderer.
DestroyActivity ==
  /\ ui \in {"alive", "finishing"} /\ ui' = "flag"
  /\ refused' = TRUE
  /\ UNCHANGED <<conf, held, codec, loop, surf, missed, teardown, sound, stats,
                 stopping>>

StopXrRenderer ==
  /\ ui = "flag" /\ ui' = "destroyed"
  /\ stopping' = Stopped
  /\ missed' = (conf = "await")
  /\ UNCHANGED <<owner, loop, surf, teardown, sound, stats>>

\* The decoder's teardown, which a connection that never came up does not
\* have: stop() stops the loop, cleanup() releases the codec, then the rest.
TeardownStop ==
  /\ teardown = "no" /\ conf \in {"held", "flat"} /\ teardown' = "stopped"
  /\ stopping' = Stopped
  /\ UNCHANGED <<owner, loop, surf, ui, missed, sound, stats>>

TeardownCodec ==
  /\ teardown = "stopped" /\ teardown' = "codec"
  /\ codec' = "released"
  /\ UNCHANGED <<conf, held, refused, loop, surf, ui, missed, sound, stats,
                 stopping>>

TeardownRenderer ==
  /\ teardown = "codec" /\ teardown' = "done"
  /\ IF held THEN Cleanup ELSE UNCHANGED surf
  /\ held' = FALSE
  /\ UNCHANGED <<conf, refused, codec, loop, ui, missed, sound, stats, stopping>>

-----------------------------------------------------------------------------
Connection == StartRenderer \/ RefuseStart \/ StartOk \/ StartFails \/ FailedCleanup
Setup == InitFails \/ InitOk \/ BuildSurfaces \/ LatchDown
Leave == ClickOver \/ ClearCtx \/ DestroyCtx \/ TellEnded \/ Finish
Click == ClickBuilt \/ ClickHanded
Teardown == TeardownCodec \/ TeardownRenderer

Next == \/ Connection \/ Setup \/ LoopStops \/ LoopExits \/ Leave
        \/ ClickStarts \/ Click \/ StatsEnter \/ StatsLeave
        \/ FinishActivity \/ DestroyActivity \/ StopXrRenderer \/ TeardownStop \/ Teardown

Spec == Init /\ [][Next]_vars

\* Threads run on, and a wait for a frame returns so the loop sees a stop.
\* Nothing says that a session ends by itself, that an activity is destroyed
\* or that a teardown comes. nativeInit returns, if late.
Fairness == /\ WF_vars(Connection) /\ WF_vars(Setup)
            /\ WF_vars(LoopStops) /\ SF_vars(ClearCtx) /\ WF_vars(Leave)
            /\ WF_vars(Click) /\ WF_vars(StatsLeave)
            /\ WF_vars(StopXrRenderer) /\ WF_vars(Teardown)
FairSpec == Spec /\ Fairness

-----------------------------------------------------------------------------
\* The types, and that only one thread ever comes to release the surfaces.
TypeOK ==
  /\ conf \in {"no", "await", "failed", "flat", "held"}
  /\ render \in {"off", "init", "build", "ready", "loop", "click", "clear",
                 "destroy", "tell", "finish", "gone"}
  /\ latch \in {"up", "ok", "failed"}
  /\ native \in {"none", "live", "destroyed"}
  /\ surfaces \in {"none", "live", "released"} /\ releases \in 0 .. 1
  /\ codec \in {"none", "on", "flat", "released"}
  /\ {nativeCtx, held, refused, stopping, done, onExit, ended, told, missed,
      stats, clickOver} \subseteq BOOLEAN
  /\ ui \in {"alive", "finishing", "flag", "destroyed"}
  /\ teardown \in {"no", "stopped", "codec", "done"}
  /\ click \in {"no", "none", "starting", "built", "kept", "released"}

\* The surfaces are never released under the codec that renders into them nor
\* under the frame loop that reads them, whichever of the two is the last.
SurfacesHeld == codec = "on" \/ render \in {"ready", "loop"} => surfaces = "live"

\* A stats report never finds itself inside a context that is freed.
StatsOnLiveCtx == stats => native = "live"

\* A session that is over keeps no click track, however late it was built.
NoClickAfterSession == clickOver => click # "kept"

\* What another thread holds is gone with the session, and the surfaces are
\* let go by one thread only.
NothingOutlivesSession == TypeOK /\ SurfacesHeld /\ StatsOnLiveCtx /\ NoClickAfterSession

\* The surfaces go in the end, once the decoder is torn down or the start has
\* failed, even where the render thread outlived both joins; and the session
\* does not outlive the activity even if the decoder is never torn down, unless
\* onDestroy came while the start was under way.
SurfacesGo == teardown = "done" \/ conf = "flat" ~> surfaces # "live"
SessionEnds == SurfacesGo /\ (ui = "destroyed" /\ ~missed ~> native # "live")
=============================================================================
