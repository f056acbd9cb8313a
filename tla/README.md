# Moonlight XR in TLA+

Moonlight XR streams a PC desktop or game to an Android headset and shows it on
a screen in a virtual room, with a depth map estimated on the device so that a
flat picture can be warped into two eyes. The application is a fork of Moonlight
for Android: Java under `src/app/src/main/java/com/limelight/` (about 40 000
lines), a native OpenXR renderer under `src/app/src/main/jni/xr-renderer/` (about
22 000), a small audio renderer and JNI glue next to it, and the streaming
protocol itself in moonlight-common-c, which is a git submodule and not part of
the repository's files.

This directory holds specifications of the parts of it whose behaviour is decided
by order: threads that share a codec, a texture or a native context; activity
callbacks against a headset's presence; retries and backoffs; a pointer shared by
two hands and nine panels. Paths below are relative to those two roots unless
they are given in full.

Contents: [the system](#the-system) · [plan](#plan) ·
[modules](#the-modules-and-the-code) · [runs](#the-runs) · [bounds](#bounds) ·
[fairness](#fairness) · [proofs](#proofs) ·
[what the code does otherwise](#what-the-code-does-otherwise) ·
[assumptions](#assumptions-about-the-environment) ·
[not modelled](#not-modelled)

## The system

### Threads

| thread | started by | what it owns |
| --- | --- | --- |
| main | Android | activity callbacks, `XrDoffHold`'s handler, pad and key events |
| connection | `NvConnection.start` | starting the host's app, then `MoonBridge.startConnection` |
| common-c's own | moonlight-common-c | `submitDecodeUnit`, audio, the control stream (`setHdrMode`, termination, rumble) |
| codec renderer, choreographer | `MediaCodecDecoderRenderer.start` | output buffers of the codec |
| render (frame loop) | `XrRenderer.start` | the OpenXR session, GL, the input pass |
| depth, stage | the frame loop | the model; reading back and uploading maps |
| loaders | the frame loop | one thread for each room, picture or sound read |
| pollers, pairing, art | `ComputerManagerService`, the screens before a stream | the hosts |

### Components

| component | state it keeps | operations | correct means |
| --- | --- | --- | --- |
| **Depth staging pairs** `binding/video/DepthPairs.java` | a state and a capture count for each pair | `forCapture`, `captured`, `toFinish`, `finished`, `toRun`, `ran`, `toUpload`, `freed`, all under `depthLock` | one capture waits at most; maps go up in the order of their frames |
| **Depth pipeline** `XrRenderer` (`runDepthModel`, `runDepthStage`, `startDepthCapture`, `stopDepthThread`), `xr_depth.c`, `xr_depthmap.c`, `xr_gl.c` | three texture slots with fences, the staged index, cut resets | capture, read back, run, upload, publish, adopt, draw, stop | no slot is written while it is drawn from; a cut resets its own map; a stop ends |
| **Depth rate governor** `xr_rate.c`, `xr_display.c` | target, failed target, hold, backoff | a window's verdict, throttle, setting, 3D switch | climbs only after calm, cuts before the display does, climbs back |
| **Display refresh rate** `xr_rate.c`, `xr_display.c` | the rate asked for, the one held after a step down, pending confirmation | ask, confirm, give up, ask again, step down | a step down sticks; an off display is seen to |
| **Video decoder** `MediaCodecDecoderRenderer.java` | the codec, its buffers, quiesced flags, the recovery asked for | submit, render, pace, fail, recover, HDR change, stop | no thread inside a codec taken down; no buffer of the one before; a stop ends |
| **VR renderer lifecycle** `XrRenderer.java`, `MediaCodecDecoderRenderer.java`, `Game.java` | native context, surfaces, latch, click track | start, fail, stop, clean up, destroy | everything is released once and under nobody |
| **Rooms** `XrRenderer.java`, `xr_room.c`, `xr_assets.c` | ticket, parked room, resident model and atlas, built buffers | pick, read, upload, build | the last pick shows, and nothing of another room in it |
| **Headset removal hold** `XrDoffGrace.java`, `XrDoffHold.java`, `Game.java` | away/stopped/holding, ticks, mute, the launch's wait | activity callbacks, presence posts, tick, expiry | no stream unheld behind a stopped activity; no sound to an empty room |
| **Pointer, panels, placement** `xr_input.c`, `xr_pinch.c`, `xr_ui.c` | presses, swallowed presses, hand lock, panels, grabbed screen, dragged slider | one pass a frame | a panel's press is its own; a locked hand reaches nothing; every hold ends kept |
| **OpenXR session** `xr_session.c`, `XrRenderer.java` | session state, exit reason, the slot of the start report | start, event poll, begin, frame, end | the start report belongs to its start; frames only in a running session; comings and goings are told |
| **Frame layers, fades, splash** `xr_layers.c`, `xr_ui.c`, `xr_notice.c` | a fade for each panel, the splash's phase, the wait of the 3D | build, shed, fade, switch the 3D | a frame fits; panels do not stack; the splash covers; the 3D switched back on waits for another map |
| **VR gamepad** `xr_gamepad.c`, `xr_input.c` | the mode, the chord, what is held back | read, chord, switch, settle, rest | a press for the panels or the switch is not the game's, nor the other way round |
| **Notices, gates, head aim** `xr_notice.c`, `xr_gate.c`, `xr_headaim.c` | a queue, clocks, a filter | push, step | one notice at a time |
| **Controllers** `ControllerHandler.java`, `AttachedPads.java` | slots, per-device contexts, mouse emulation | attach, event, remove | a slot has one owner; nothing is left held |
| **USB driver** `driver/*.java` | claimed devices, receive threads | attach, permission, start, stop | a stopped device reports once |
| **Touch** `touch/*.java` | tap and drag timers | down, move, up, cancel | every press is released |
| **Streaming connection** `NvConnection.java`, `MoonBridge.java`, `callbacks.c`, `Game.java` | the permit for one connection, the bridge's renderers | start, stages, terminate, stop | one at a time; nothing reaches a renderer that is gone |
| **Hosts and polling** `ComputerManagerService.java`, `discovery/`, `NvHTTP.java` | tuples, poll threads, the database | discover, add, remove, poll, network change | no update for a removed host |
| **Pairing** `PairingManager.java` | salt, challenge, certificates | five exchanges | paired only after both have proved the PIN |
| **Audio** `AndroidAudioRenderer`, `BinauralRenderer`, `xr_audio.c`, `XrClickSound` | track, mute, queue | write, mute, teardown | no write to a released track |
| **Box art** `CachedAppAssetLoader.java` | load tasks bound to recycled views | load, cancel | a view shows its own app's art |
| **Logs, reports, updates** `FileLog`, `BugReport`, `UpdateCheck` | writer thread, files | write, rotate, send | nothing lost at a rotation |
| **Evdev reader** `evdev_reader.c` | device threads, grab state | enumerate, grab, stop | a grab is undone |
| **Preferences and menus** | stored settings, Android screens | — | sequential |
| **Drawing** `xr_shaders.c`, `xr_model.c`, `xr_ambilight.c`, `xr_glow.c` | meshes, programs | — | numbers and pixels |

### How they interact

- Java and native meet in a few calls a frame, all on the frame loop:
  `nativeWaitBeginFrame`, `nativeUpdateInput`, `nativeEndFrame`. What happened in a frame comes back as slots of one array (`IN_SETTING`,
  `IN_PICKER_PICK`, ...), read once and gone the next frame.
- The depth thread and the stage thread have GL contexts of their own that share
  textures with the frame loop's; order between them is fences and one atomic
  index (`stagedIdx`), not a lock. The staging pairs are under `depthLock`.
- The decoder's threads agree in `codecRecoveryMonitor`; the stop tells them
  through a volatile flag, interrupts and joins.
- The renderer is started on the connection's thread, stopped from the main
  thread, and torn down by whichever of the render thread and the decoder's
  teardown comes last (`teardownLock`); `nativeLock` and `clickLock` guard the
  context and the click track against threads that only pass by.
- `XrRenderer.trackPresence` posts the session's comings and goings to the main
  thread, where `XrDoffHold` weighs them against the activity's callbacks.
- The frame loop's budget (`rateBudgetTick`) feeds the depth governor, and the
  governor, when it has nothing left to give, has the display step down.

### What is hard here

Interleavings of threads that meet in lock-free state (slots, flags, latches);
operations split by a released lock (claim and mark of a pair; check and request
of a recovery); stale reads used after a wait (the recovery type, the ticket of a
room); failing calls half way through a sequence (one of two uploads, nativeInit,
a codec's restart); timers against sleep and late callbacks; a held press whose
target changes under it. `PROJECT.json` lists the hazards by line.


## Plan

The order was chosen by how much of the program's behaviour hangs on an order
nobody tests. In the order written:

1. `DepthPairs`, `DepthMaps`, `DepthPipeline`: the three threads of the depth
   pipeline over the pairs' automaton, and what it promises the picture.
2. `DepthGovernor`: the closed loop that decides how often the model runs.
3. `CodecRecovery`: the decoder's threads around a codec that fails.
4. `RendererLifecycle`, `StreamLifecycle`: the renderer, and around it the
   connection and the activity.
5. `RoomLoader`, `DoffHold`, `XrInput`.
6. `XrSession` over `DisplayRate`: the session from its start to its end, and the
   display's requests driven by the events it polls.
7. `FrameLayers`: what a frame carries.
8. `PadMode`: the controllers as a pad, against the pointer.

[Proved](#proofs) is the safety of all of these: every invariant and every action
property of the runs. Liveness stays with TLC. No module uses a `RECURSIVE`
operator. What is left without a module, and why, is under
[not modelled](#not-modelled).

## The modules and the code

`MC_*.tla` only give constants their values. The map from every definition to its
lines is in `PROJECT.json`.

**DepthMaps** is the abstract specification: captures are taken in order, settled
in order, each by its map shown or by none. **DepthPairs** is `DepthPairs.java`
method by method; each action is one region under `depthLock`, and `claim` is the
frame loop's local between `forCapture` and `captured`, where the lock is open.
`MapsSpec` is the refinement, with the pairs in flight as what is taken and not
settled.

**DepthPipeline** extends it with the threads. `frame`, `depth` and `stage` are
program counters; a wait under `depthLock` is `"wait"`, and only a `notifyAll`
moves it (`Woken`). `staged`, `fence`, `synced`, `writeIdx` and `readIdx` are the
slots' fields of `xr_depth.c`; `drawing` remembers how many captures were queued
before a slot's last draw, which is how a draw is known to be over: a capture is
queued behind it on the same context, and its read back fences it. `resets`,
`carry` are the flags a cut leaves on a pair and on the next; `asked` is history.
Every frame, warped or flat, waits for the fence of the slot it reads and binds
it; the switch of the 3D only decides whether captures are made.

**DepthGovernor** is `depthGovernor*` of `xr_rate.c` with `budgetWindow` and the
frame loop's side in `xr_display.c`. A window is one step with a verdict (fits,
slips, misses) drawn from what the load (`light`) allows; clock readings are kept
as ages and saturate where the code stops telling them apart, so the state is
finite without a bound. `calm` and `misses` are history for the properties.

**CodecRecovery** is `doCodecRecoveryIfRequired`, `handleDecoderException` and
everything that calls them in `MediaCodecDecoderRenderer`. Each thread's `pc` is
split where another may run: between a failing call and its handling, between
reading `stopping` and setting the request, between its compareAndSets (`Ask`,
`Promote`, `Verify`, which throws), inside and outside the monitor. The
codec is whether its buffers are live or stale, the generation of HDR metadata it
was configured with, and what it does next: succeed, fail transiently, fail for
good, die. The stop is `surfaceDestroyed`/`prepareForStop`, `stop`, `cleanup`.

**RendererLifecycle** is `XrRenderer.start`, `runSession`, `prepareForStop`,
`cleanup`, `finishRenderThread`, `rendererStats` and the click sound with the
decoder's `getRenderSurface`, `stopXrRenderer`, `stop` and `cleanup`. A join of
two seconds is no step: what follows it may find the thread ended or not.

**StreamLifecycle** extends it with the connection: `start` and `stop` are the
program counters of the two threads `NvConnection` runs on, `permit` its
semaphore, `monitor` the class lock of `MoonBridge`, `bridge` the owner of its
static renderers, `line` the connection the native library has, `next` the start
thread of the stream that follows. The renderer's start and the decoder's teardown
become what they are in the code: callbacks, made from inside
`LiStartConnection` and `LiStopConnection`, that reach their decoder only through
the bridge. The activity's part is `Game`'s `surfaceChanged`, `surfaceDestroyed`,
`onStart`, `onStop`, `onDestroy`, `headsetHoldOver` and the runnable of
`connectionStarted`.

**RoomLoader** is the way of a room from the grid to the screen: `chooseEnvironment`,
`requestRoom` and `loadRoomAssets` in Java, the two uploads, `roomAssetsReady` and
`prepareRoom` in native code. `ticket` and the loaders' tickets are the code's.

**DoffHold** is `XrDoffGrace` and `XrDoffHold` with the activity callbacks, the
launch's own wait, the presence posts of `XrRenderer.trackPresence` and the error
notice. Time is in units of which a mark is made; awake it also brings runnables
nearer, asleep only the clock moves.

**DisplayRate** is `xr_rate.c`'s choice of a rate and `xr_display.c`'s requests, as
functions over one record (`ApplyRate`, `Frame`, `Moved`, `Focused`). It has no
steps of its own: the code's are calls too, from the session.

**XrSession** extends it with who calls them. `thread` is how far each start's
render thread is in `nativeInit`, `slot` is `failedStart`, and Java waits for one
latch at a time and may give up on it. Once one is up, `events` is the queue
between the runtime and `pollEvents`, `sess` the session's fields, `loop` where a
turn of `runFrameLoop` is, and `awayTold` the away `trackPresence` posted. The
runtime moves through OpenXR's states ahead of the loop, grants, refuses or drops
a request for a rate, and moves the display by itself.

**VrPanels** names the panels that the next two share: those that claim the ray,
and the keyboard.

**FrameLayers** is the frame in two steps: `Input`, of `nativeUpdateInput` only
what it opens, closes and hovers, and `EndFrame`, which is `nativeEndFrame`: the
wait of the 3D, `stepPanelFades`, the splash, and a set of layers from each
builder, with those shed that go over the limit. `level` is how far each panel is
faded in, `splash` the phase and its clock, `stereo` the switch with the index it
waits to see change. `maps` keeps of the depth pipeline only whether the picture a
map is of was taken before or after the 3D came back. A layer is a name; the
panels whose slot is shared (`hoverRing`) share it here.

**PadMode** is a frame of the pad: `updatePad` (the chord, the toggle, the switch,
`settlePad`), then the rest of the pass as far as it reads the same controllers.
`world` is what drives each hand and how far its controls are pressed, which may
change at will from frame to frame; `chord`, `toggle`, `pad`, `rumble` are
`PadChord`, `PadToggle`, the fields of `settlePad` and `PadRumble`. `past` is
history: which presses the pad may not send and the pointer may not click with.

**XrInput** is `nativeUpdateInput` as one action a frame: a chain of stages over a
record, in the code's order, with where each ray lands and which hand presses as
the frame's input. What a frame says happened is `out`, with one slot for a setting
as in the code: a drag that ends and a press may both want it, and the later one
has it. A track of the settings panel is a `slider`, whose end writes a setting, or
a `placement`, whose end goes back with the pose. `closers` is
history: the hands still holding a press that put a panel away.
It is abstracted most. There is no eye tracking, no gamepad mode (that is
`PadMode`), no 3D room, so no room goes from under a slider or has its screen's
size to write (`emitRoomScreen`); one of trigger and grip at a time for a hand;
pinches counted elsewhere (a `"triple"` event); the left button only; sheets drawn
over the picture; whatever writes a setting at the press (a cell, a step button, a
reset) is a `cell`; the hint's and the card's art ready.

## The runs

| run | states | what it asks | what it shows |
| --- | --- | --- | --- |
| `depth_pipeline` | 194 244 | may two captures of one session overtake each other, share a slot with a draw, or be lost? | `PairsInv`, `PipelineInv` (no slot written while drawn, none sampled before its fence by a warped frame or a flat one, no context used after it is freed), `ResetsLandInTurn`, `MapsSpec`, and that captures settle and stops end (`NoWakeupLost`) |
| `depth_governor` | 125 903 | does the loop hunt or starve? | `GovernorInv`, `ClimbsAfterCalm`, `ClimbsBack` |
| `codec_recovery` | 1.92 M | three threads, two failures, one codec: who takes it down, and under whom? | `QuiescedWhileStreaming`, `RecoverySound` (no buffer of the codec before, the tries bounded, no request gone from under a thread), `IdrBeforeFrames`, `ResetNotWeakened` |
| `codec_stop` | 395 955 | does a stop end in the middle of all that? | `StopCompletes` |
| `stream_lifecycle` | 112 944 | a stream and its renderer left, failed, stopped and followed by another at any point | `NothingOutlivesSession` (surfaces, context, click), `ConnectionInv`, `StopReachesDecoder`, `SessionEnds`, `NextGetsItsTurn` |
| `stream_orphan` | violation | does a stream that was left end? | not if it was left while connecting |
| `room_loader` | 8 127 | picks faster than rooms are read | `LoaderInv` (what is parked is coming, what is built is of one room), `ParksOnlyChosen`, `LastPickShows` |
| `doff_hold` | 88 244 | a headset off and on against activity callbacks, sleep and errors | `HoldInv`, `ResumesRightly`, `HoldEnds` |
| `xr_session` | 267 584 | starts that fail, time out or end late; then a session stopped, begun again and lost, on a display that undoes and loses requests | `SessionInv` (frames only in a running session), `ReportIsOwn`, `StepDownSticks`, `OffIsSeenTo`, `ComingsAreTold` |
| `xr_input` | 10 505 | two hands over the panels, for any number of frames | `PanelsInv`, `ClosingPressStaysTaken`, `OutOfReach` (a panel shields the picture, a locked hand reaches nothing), `HoldsEndKept` |
| `frame_layers` | 1.10 M | everything up at once, fading in and out, under the splash and with the 3D switched | `LayersFit`, `PanelsApart`, `SplashCovers`, `WaitsForAnotherMap` |
| `pad_mode` | 49 576 | shortcuts half made, held and let go in any order, with controllers put down and frames unread | `PadInv` (rest, rumble), `PressesStayOut`, `NoSwitchClicks` |

Each property of a passing run has a mutant in `PROJECT.json`: a definition
changed the way a slip in the code would change it, with which the run fails.

## Bounds

- `depth_pipeline`: the build's own two pairs and three slots. Three captures
  bring the rotation back to the slot the session began on, which is the first
  time one can be overwritten, and put one capture behind a settled one and a
  waiting one, which is all the pairs ever hold. Any capture may be a jump; the
  resets of a confirmed cut differ from a jump's in name only, and are left out.
- `depth_governor`: the real range 5 to 45 with settings below it, inside it and
  above it. Windows are counted; a hold of 5, waits of 6 to 20 and a raise held 9
  keep the order of the code's times (hold < recover < raise < longest wait) and
  let the wait double twice.
- `codec_recovery`: two failures are what it takes for one thread to fail while
  another recovers. `CR_MAX_TRIES` is 1 rather than 10, so that the bound is met.
  `codec_stop` has one change of the metadata on top and no choreographer.
- `stream_lifecycle`: one stream and the next. The permit, the monitor and the
  statics are shared by two at most: a third could only wait behind the second.
- `room_loader`: two rooms, a place without one, four picks: a room picked, left,
  picked again, and left for the other one.
- `doff_hold`: a minute is four units and a mark two, so a hold meets its mark in
  the middle and its end; three posts may be on their way.
- `xr_session`: two starts, so that one can meet what the other left; one event on
  its way, which already puts the runtime a state ahead of the loop; two rates of
  which the stream's is the higher, so a step down has somewhere to go; a rate
  forced by the debug knob that the display does not offer; one request asked for
  again, and one move of the display by itself.
- `frame_layers`: a fade of four frames is long enough for a keyboard to come up, be
  put away and be going itself while the settings panel is still going, which is
  when a frame is fullest; a fade of two is not. The splash's floor, ceiling and the
  wait of the 3D are a frame or two, and each can end first. The limit is the
  runtime's 16 layers and the array the build's 24. Five sessions: the fullest one
  in each kind of environment, one that cannot fade a layer, one whose 3D is
  switched. The number of frames is not bounded.
- `pad_mode`: a frame is a tick; the chord's window and hold are one, so a chord can
  be late, early and in time, and the toggle's hold is two. Each shortcut comes
  with its own controls and one or two others; both controllers may be put down.
  The number of frames is not bounded.
- `xr_input`: one controller and one tracked hand; ten places to press, chosen
  so that every panel but the grid and the card is reached; no grip is closed and
  the pointer stays awake, both to keep the run short. Grips and the sleep are
  covered by the proofs, which are for any of them. The number of frames is not bounded.

## Fairness

Weak fairness on a thread's steps says that a runnable thread runs and a call
into the system returns; it is assumed for the three depth threads, the windows
of the governor (frames keep coming), the codec's threads while the process
lives, the threads of a stream, the loaders of a room and the frames that draw
it, the main thread's due runnables, and time. Strong fairness is assumed
for taking `nativeLock` in the render thread's teardown: stats come once a second
and cannot hold the lock against it for ever. No fairness is assumed for what
users, hosts and the runtime do: nothing says a failing codec stops failing, a
session ends, an activity is left, a setting changes or a headset comes back. In
`LastPickShows` the picks end because the bound ends them, in `ClimbsBack` the
calm is the premise. `StreamFairness` does not include a hold's end (`HoldEnds` is
`DoffHold`'s): the next stream only asks once the one before has been left.

`XrSession` assumes that the render thread's steps happen once they can: it polls
what is there (`WF` on `Polls`), a frame begun ends, `xrWaitFrame` returns, and
the context is destroyed. Strong fairness is only for the turn after the events: the
runtime is not for ever one event ahead, so a loop that keeps finding events still
gets past them now and then. Nothing makes the runtime move, grant or lose
anything.

`XrInput`, `FrameLayers` and `PadMode` state safety only.

## Proofs

The theorems are checked by TLAPS with Z3, Zenon and LS4. Each component has a
proof module; the pointer, the layers and the rooms, which the frame loop runs one
after the other, share `VrFrameProofs`. In every theorem the constants are free: it
holds for any number of pairs, captures, slots, tries, rooms, picks, starts and
events, for any session, hands and panels opened, for rates, holds, fades and
windows of any length, and whatever the bounds of the runs are set to.

| module | theorem | says | from |
| --- | --- | --- | --- |
| `DepthPipelineProofs` | `PairsInvariant`, `PairsTypes`, `PairsRules` | `PairsInv`, with the two rules of `DepthPairs.java`'s comment | `PairsAssumption` |
| | `LiveMonotone` | the live map never goes back to an older picture | `PairsInvariant` |
| | `PairsDense`, `PairsImplementMaps` | `PairsSpec => MapsSpec`: the pairs implement `DepthMaps` | `PairsInvariant` |
| | `PipelineInvariant`, `PipelineSafe` | `PipelineInv`: slots, fences and the context | `SlotsAssumption` (`NumSlots > NumPairs`) |
| | `ResetsLand` | `ResetsLandInTurn` | `PipelineInvariant`, `CutAssumption` |
| | `PipelineUsesPairs`, `PipelineImplementsMaps` | the threads use the pairs as `DepthPairs` specifies, and so implement `DepthMaps` | `PipelineInvariant` |
| `DepthGovernorProofs` | `GovernorInvariant` | `GovernorInv` | `RateAssumption` |
| | `NeverPastCeiling`, `FloorBeforeDisplay` | the target stays under its ceiling; the display pays at the floor only | `GovernorInvariant` |
| | `ClimbsOnlyAfterCalm`, `FailuresOnlyFall` | two action properties | `GovernorInvariant` |
| `CodecRecoveryProofs` | `RecoveryInvariant` | the inductive invariant | `CodecAssumption` |
| | `RecoveryIsSound`, `AloneWithTheCodec`, `AsksForIdr` | `RecoverySound`, `QuiescedWhileStreaming`, `IdrBeforeFrames` | `RecoveryInvariant` |
| | `ResetStands` | `ResetNotWeakened`, an action property | `RecoveryInvariant` |
| `StreamLifecycleProofs` | `RendererIsSound` | `NothingOutlivesSession` of the renderer alone | nothing: it has no constants |
| | `StreamInvariant`, `StreamOutlivesNothing` | the same inside a stream | `RendererInv` |
| | `LibraryHasOneConnection`, `StopTearsDown` | `ConnectionInv`, `StopReachesDecoder` | `StreamInvariant` |
| `VrFrameProofs` | `InputInvariant`, `PanelsAgree` | `InputInv`, `PanelsInv` | `InputAssumption` |
| | `ClosingPressTaken` | `ClosingPressStaysTaken` | `InputInvariant` |
| | `RaysKeptOut`, `HoldsKept` | `OutOfReach`, `HoldsEndKept`, two action properties | `InputInvariant` |
| | `LayersInvariant` | `LayersInv` | `LayersAssumption`, `LimitsAssumption` |
| | `FramesFit`, `PanelsKeptApart` | `LayersFit`, `PanelsApart` | `LayersInvariant` |
| | `SplashKeepsCover`, `StaleMapsWaitOut` | `SplashCovers`, `WaitsForAnotherMap` | `LayersInvariant` |
| | `RoomInvariant`, `RoomTypes` | `LoaderInv`, `RoomTypeOK` | `RoomAssumption` |
| | `ResidentIsNotReadAgain`, `BuffersOfOneRoom`, `OnlyChosenParked` | what `requestRoom` relies on, `BuiltFromOwn`, `ParksOnlyChosen` | `RoomInvariant` |
| `DoffHoldProofs` | `HoldInvariant`, `HoldIsSound` | `HoldInv` | `DoffAssumption` |
| | `SoundComesBackRightly` | `ResumesRightly`, an action property | `HoldInvariant` |
| `XrSessionProofs` | `SessionInvariant` | the inductive invariant | `SessionAssumption`, `RateAssumption` |
| | `SessionIsFed`, `ReportsAreOwn` | `SessionInv`, `ReportIsOwn` | `SessionInvariant` |
| | `StepDownStands`, `OffRateIsSeenTo` | `StepDownSticks`, `OffIsSeenTo` | `SessionInvariant` |
| `PadModeProofs` | `PadInvariant`, `PadIsSound` | `PadInv` | `PadAssumption` |
| | `PressesAreKeptOut`, `TheSwitchNeverClicks` | `PressesStayOut`, `NoSwitchClicks` | `PadInvariant` |

The assumptions are those of the modules: numbers are numbers, sets are of the
right kind, and where the code relies on more it is named. There are more slots
than pairs (three in `xr_renderer.h:317`, two in `DepthPairs`), a display offers a highest rate (a finite
list), the waits of the governor are in their order, a hold and its mark are not
zero, a runtime takes 16 layers at least (OpenXR's minimum, and the most
`xr_session.c:449` uses) and the array 24 (`xr_layers.c:71`).

The inductive invariants, which stand at the head of each proof module and were
checked by TLC on the run's instance before they were proved:

- *Pairs* (`PairsInv`): `UploadsOldest` is not inductive alone; a pair goes to the
  uploader only as the oldest in flight, and stays the oldest because later
  captures take larger counts, which needs the counts in flight distinct and newer
  than the live map (`OrdersDistinct`), which needs one capture waiting at a time
  (`OneCaptureWaits`), also across the open lock (the conjunct on `claim`). For the
  refinement `FlightDense` says that those in flight are the last captures, without
  a gap, so that their number tells what has been settled.
- *Pipeline* (`IInv`): that no slot is written while it is read rests on counting.
  Between an upload into a slot and the next one into it all the other slots are
  written, each by another capture's map, and whoever still reads the slot came
  after no more captures than there are pairs (`Behind`, `Rotation`): with more
  slots than pairs the two never meet. A draw is over when a later capture has been
  read back, since the capture was queued behind it.
- *Governor* (`GovernorInv`): a climb needs a hold as long as the wait, and the hold
  is only a measure of calm because everything that breaks the calm drops it, or
  has left `settle` above zero so that the next window drops it (`HoldIsCalm`).
- *Recovery* (`Monitor`): a quiesced flag stands for a thread that waits in the
  monitor (`FlagsHeld`), since the request it waits for is only taken back along
  with all the flags. A stop takes it back alone, and a choreographer counted
  before it was made does not wait: both are excepted by name (`stopping`,
  `early`), as in the properties. So the last thread in finds all the others
  waiting (`OthersWait`), and nobody fetches a buffer until it leaves (`Forgotten`);
  and none of them is between its compareAndSets as the request goes (`Requested`).
- *Stream* (`RendererInv`, `StreamInv`): the surfaces have two users, and one
  cleanup that is asked for once, by whoever was last to know of the renderer, and
  carried out by the last of the two to be through. The permit decides whose the
  bridge is, from a start's `acquire` to that start's failure or that stop's
  `release`; the monitor keeps the calls into the library in order.
- *Rooms* (`LoaderInv`): a room is parked only by the loader with the ticket of the
  moment, which reads the room chosen (`LoadersInTime`); so the room last parked is
  on its way or was the last offered (`ParkedIsComing`), and a build takes model and
  atlas of what was wanted (`BuiltAsWanted`).
- *Pointer* (`InputInv`): a pass is a chain of stages over a record, and each has a
  lemma of its own that says what it may change: the stages before the panels only
  let go of things (`Tightened`); what a panel closes it closes with the press taken,
  a slider let go of says so, and without a press nothing opens or closes
  (`Panelled`). Put together (`Passed`) they relate the record before a frame
  with the one after it, which is all that the action properties need.
- *Layers* (`LayersInv`): with a modal up every other panel is cut, and with none up
  nothing fades in but the keyboard, so one modal at most is on its way
  (`OneGoing`). Under the splash nothing is up, pointed at or said (`Covered`). The
  ray leaves a corner before a modal comes up (`HoverFollows`). A frame is then one
  of three: with the bar's row, with the settings panel and its room, or with one
  sheet; each is counted by what its builders can add at most (`Few`), without what
  is shed and with it (`BuiltFills`). Of the 3D, no capture under way is of before
  the switch (`MapsInOrder`).
- *Hold*: the clock of a hold is the sound's (`Clocks`), so whoever gives the sound
  back gives it back in time; and the flags `stopped` and `away` are cleared early
  only for a stream that is over, or one that finishes and starts no hold again
  (`EarlyEnds`, `StopsKnown`, `AwayKnown`).
- *Session* (`RateInv`, `EventInv`, `StartsInv`): the rate's properties are shown of
  each function of `DisplayRate` and carried through the steps that call it; no
  event follows the one that ends the session; while Java waits for a start that
  runs alone nobody else can write the slot.
- *Pad*: a chord forms only from all its parts at rest, so what it holds back was
  never down before (`Forms`, `LetAlone`). Hence what is owed stays among what the
  pad holds off (`OwedHeld`), and a trigger kept from before the mode went off stays
  swallowed: no chord hides it and lets it come up again as a new press
  (`KeptSwallowed`, `TakenIdle`).

What is only model-checked is every liveness property (`NoWakeupLost`, `ClimbsBack`,
`StopCompletes`, `SessionEnds`, `NextGetsItsTurn`, `LastPickShows`, `HoldEnds`,
`ComingsAreTold`): they rest on fairness and `ENABLED`, which the prover does not
have.

## What the code does otherwise

One run shows the code at odds with what it says of itself; `PROJECT.json` quotes
the lines.

- `stream_orphan`: `Game.connecting` is never set, so a stream left before the
  runnable of `connectionStarted` is never stopped; it keeps the permit, and the
  next stream waits in `acquire()`. `NextGetsItsTurn` shows that this is the only
  way for it to wait.

Others that a comment of the code speaks against. The modules have them; a
property that would forbid one leaves out exactly that case. The first five are also
written down as the formulas they break, next to the property that does hold: no
run or theorem has these formulas, since the specifications do not satisfy them.

- `StopEatsExceptions`: `prepareForStop` lets "the decoding code know to ignore codec
  exceptions now" (`MediaCodecDecoderRenderer.java:1273`), and then takes the request
  back (`:1292`). A thread that saw its call fail before, and found another thread's
  request pending, is between its compareAndSets (`:942` to `:994`) then, and throws
  `IllegalStateException`. `RequestStands` (in `RecoverySound`) shows that nothing
  else makes it throw, but for a request made before `start()` is through (`early`).
- `SliderEndWritten`: `xr_ui.c:1024` calls the drag's end "where the writing happens",
  but the frame has one slot for a setting. A slider one hand lets go of
  (`xr_input.c:2302`) in the frame in which the other presses a cell (`:2358`, `:2376`,
  `:2417`) is never written. `HoldsEndKept` shows that this is the only way to lose one.
- `DragSpendsItsPress`: "a trigger spent on the grid or a panel is out of the count"
  (`xr_input.c:2939`), but the press that drags a slider, or presses a cell of the
  settings panel, is not swallowed (`:2440`): it keeps down on the host a button the
  other hand has let go of. It cannot press one, since the panel shields the picture
  (`OutOfReach`).
- `NeverUpTogether`: "A panel opening takes any other still on its way out away at once,
  so two are never up together" (`xr_layers.c:1246`), but a keyboard left open under a
  modal comes back while that one fades out (`:1261`), and shares its frames.
  `PanelsApart` says what does hold: one modal to a frame, the bar's row with none,
  and no keyboard with a modal that is up but the report.
- `WarpsOnMapsOfNow`: the 3D back on "waits flat for a map of what is on screen now"
  (`xr_ui.c:345`; also `xr_layers.c:1433` and `XrRenderer.java:1149`), but any map staged
  since ends the wait (`xr_layers.c:1436`), one of a picture from before it went off
  among them, when its capture was still under way. `WaitsForAnotherMap` says no more
  than that it is another one, or that `STEREO_WAIT_NS` is over.
- "A press taken by the grid, the panel or the keyboard
  stays taken for as long as it is held" (`xr_input.c:1938`), but a press on a key of the
  keyboard, its hide key among them (`:2801`), is not swallowed outside the report: held
  and slid onto the picture it clicks on the host. So `ClosingPressStaysTaken` is
  said of the six modals and of a press on empty ground, which do swallow it.
- A thread that slept through a recovery (`wait(1000)`, flag cleared at
  `MediaCodecDecoderRenderer.java:892`) and meets the next request waits on
  without counting itself in, and the requester waits for it, until the stop
  (`:972`: "The recovery will take place when all threads reach
  doCodecRecoveryIfRequired()").
- With the pointer switched off the pass returns before the pick of the grid is
  handed back (`xr_input.c:3720` before `:3742`), though the grid can be picked
  from (`:3713`).
- With the screen locked to the head, everything on, and the Screen tab of the
  settings panel fading out, a keyboard left open under it coming back or going
  again, or the ray on a corner, makes 17 or 18 layers after all the shedding, over the 16 that
  `xr_layers.c:55` and `:63` reckon with (`Stacked` in `LayersFit`).
- After a chord has switched the mode, putting one controller down, or a frame not
  read, starts the chord over and forgets what it took: the part the other hand
  still holds reaches the game or clicks, where `xr_gamepad.h` says its parts stay
  held back until each is let go (`lost` in `Record` of `PadMode`).
- A part pressed as a chord forms while the pad goes live by the switch is not
  among what `settlePad` holds back, and goes through to the game when the chord
  is given up (`xr_input.c:3186` says anything held from before is kept off).
- The slot of the start report (`xr_session.c:108`): a start given up on, failing
  late, overwrites or is cleared by a later one's. `ReportIsOwn` leaves out a start
  that ran beside such a one.
- `stopXrRenderer` during `XrRenderer.start` stops nothing, and the session runs on
  (`missed` in `RendererLifecycle`, excluded by `SessionEnds`). `Game.onDestroy`
  calls it for just that case: "The stream may still have been starting up when
  this activity went away, in which case the normal decoder teardown never runs and
  the XR session outlives us" (`Game.java:1240`).
- The first away of a session is not held: `focusedOnce` of `XrDoffGrace` is set
  by a back, which is only posted after an away, or by a stopped activity, where
  `XrDoffGrace.java:4` says that "once the session has been focused" its going to
  stopping or idle starts a hold.

Others met on the way, which the modules allow and in which nothing we found in the
repository speaks against the code:

- A request for an HDR restart made while the codec is being configured is lost
  when the recovery ends (`MediaCodecDecoderRenderer.java:1381`). The
  choreographer counts as quiesced until `start()` has made it (`:787`; `early`).
  A stop that comes between the look at `stopping` and the request (`:941`)
  leaves threads waiting out a recovery nobody makes (`Requesting`).
- The launch's wait begins again when an activity stops after the renderer has been
  torn down (`Game.java:1312`).
- In the pointer: a press of the three buttons under the screen that open the grid,
  the settings panel or the keyboard is not swallowed, so held and slid onto the
  picture (for the grid and the panel, once they are away again) it becomes a click. A hand locked in between
  forgets what it had swallowed. A hint put away by a triple pinch leaves the other
  hand its press. A screen in the hand when the session loses focus is only written
  when it comes back.

What the properties leave to the code: that a held stream sends nothing to the host
is the code's flag for held input (`MutedWhileHeld` and `StoppedIsHeld` are about
the flag, not about what is sent); that the first reason an OpenXR session ends for
is the one kept is a guard at the assignment (`EndsFor`), which no property repeats.

## Assumptions about the environment

- GL: commands of one context complete in the order they were queued; a fence
  waited for in another context orders what came before it. The one-second wait
  for a capture's fence does not time out. Nobody interrupts the depth threads.
- MediaCodec: calls return or throw; buffers die with the codec that gave them.
  The flush recovery is left out because nothing requests it.
- moonlight-common-c: `LiStartConnection` calls back on its own thread, reports
  success last, and takes down on failure what it had brought up;
  `LiStopConnection` returns after the decoder's `stop` and `cleanup`. A decoder
  whose `setup` fails gets neither.
- Android: an activity's callbacks come in their documented order on one thread;
  its surface is gone before it is destroyed; a posted runnable runs, and late.
- OpenXR: refresh rates are whole numbers here, and a request lands, is refused,
  or is dropped without a word.

## Not modelled

- **Host discovery and polling, pairing, box art, menus**: what runs before a
  stream. It has races of its own (a poll answered after its host was removed, an
  exchange that throws half way through pairing, both listed as hazards), but
  shares no thread and no state with the streaming core, and half of each protocol
  is the host's server, mDNS or Android's views, which the repository does not
  contain. A model would state its assumptions about those rather than this code.
- **USB driver, controllers, touch, evdev reader**: translation of input events,
  inherited from upstream, whose order is Android's; a VR session plays through
  the pad of `PadMode`.
- **Audio**: filters and samples on one thread. The mute of a hold is in
  `DoffHold`, the life of the click's track in `RendererLifecycle`, and the audio
  callbacks of a connection come and go with those of the decoder
  (`StreamLifecycle`).
- **Notices, gates, head aim**: functions of one frame, which the host tests
  under `src/app/src/test/cpp` run directly.
- **Shaders, meshes, ambient light, glow**: numbers and pixels.
- **Vendored code and generated tables; moonlight-common-c**, which is not in the
  repository.

Within the modelled components: the arithmetic of depth maps, the choice of a
model route, format negotiation and capability tables of the decoder, where layers
hang and what they are drawn from, sticks and the strength of a rumble, eye
tracking, the OpenXR extensions a headset offers, statistics, and logging.
