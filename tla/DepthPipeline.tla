--------------------------- MODULE DepthPipeline ----------------------------
(***************************************************************************)
(* The depth pipeline of XrRenderer.java and xr_depth.c: the frame loop,   *)
(* the depth thread (the model) and the stage thread around the staging    *)
(* pairs of DepthPairs, the depth texture slots the stage thread rotates   *)
(* through, the resets a scene cut asks of its map, and the shutdown that  *)
(* joins both threads before the native context is freed.                  *)
(*                                                                         *)
(* A thread's pc names what it does next; every region under depthLock is  *)
(* one step.  A thread in depthLock.wait() has pc "wait" and only notifyAll*)
(* moves it.  Nobody interrupts these threads, so the InterruptedException *)
(* exits are left out.                                                     *)
(***************************************************************************)
EXTENDS DepthPairs

CONSTANTS
    NumSlots,      \* DEPTH_TEX_COUNT
    CutChecks      \* bound: what the scene cut check may find, a subset of CutResets

ASSUME SlotsAssumption == NumSlots \in Nat /\ NumSlots > NumPairs

Slots == 0 .. NumSlots - 1
Past == MaxCaptures + 1      \* no draw from the slot can still be in flight
ResetTexel == "TEXEL"       \* DEPTH_RESET_TEXEL
ResetRange == "RANGE"       \* DEPTH_RESET_RANGE
(* depthCutResets of a step: a jump, or the capture that confirms a cut, which stays near it. *)
CutResets == {{}, {ResetTexel}, {ResetRange}}

ASSUME CutAssumption == {} \in CutChecks /\ CutChecks \subseteq CutResets

VARIABLES
    frame, depth, stage,      \* the three threads
    exit, ready, gaveUp,      \* depthExit, depthReady, depthGaveUp
    alive,                    \* nativeCtx is not freed
    resets, carry,            \* DepthResets
    asked,                    \* history: what each capture not settled asked for
    content, fence, synced,   \* per slot: its map, a fence is set, the frame loop waited on it
    staged, writeIdx, readIdx,\* depthStagedIndex, depthWriteIndex, depthReadIndex
    drawing,                  \* per slot: captures queued before its last draw, Past once the
                              \* GPU is known to be past that draw
    on                        \* stereoLive

threadVars == <<frame, depth, stage>>
flagVars == <<exit, ready, gaveUp, alive>>
resetVars == <<resets, carry, asked>>
slotVars == <<content, fence, synced, staged, writeIdx, drawing>>
vars == <<pairVars, threadVars, flagVars, resetVars, slotVars, readIdx, on>>

FramePC == {"input", "capture", "queue", "end", "adopt", "fence", "draw", "stop", "join", "destroy", "over"}
DepthPC == {"bind", "load", "ready", "take", "wait", "estimate", "leave", "join", "unbind", "over"}
StagePC == {"none", "bind", "take", "wait", "finish", "upload", "publish", "drop", "free",
            "unbind", "over"}

TypeOK ==
    /\ PairsTypeOK
    /\ frame \in FramePC /\ depth \in DepthPC /\ stage \in StagePC
    /\ exit \in BOOLEAN /\ ready \in BOOLEAN /\ gaveUp \in BOOLEAN /\ alive \in BOOLEAN
    /\ resets \in [Pairs -> SUBSET {ResetTexel, ResetRange}]
    /\ carry \in SUBSET {ResetTexel, ResetRange}
    /\ asked \in [1 .. MaxCaptures -> SUBSET {ResetTexel, ResetRange}]
    /\ content \in [Slots -> 0 .. MaxCaptures]
    /\ fence \in [Slots -> BOOLEAN] /\ synced \in [Slots -> BOOLEAN]
    /\ drawing \in [Slots -> 0 .. MaxCaptures \cup {Past}]
    /\ staged \in Slots /\ writeIdx \in Slots /\ readIdx \in Slots
    /\ on \in BOOLEAN

Init ==
    /\ PairsInit
    /\ frame = "input" /\ depth = "bind" /\ stage = "none"
    /\ exit = FALSE /\ ready = FALSE /\ gaveUp = FALSE /\ alive = TRUE
    /\ resets = [p \in Pairs |-> {}] /\ carry = {}
    /\ asked = [c \in 1 .. MaxCaptures |-> {}]
    /\ content = [s \in Slots |-> 0]
    /\ fence = [s \in Slots |-> FALSE] /\ synced = [s \in Slots |-> TRUE]
    /\ staged = 0 /\ writeIdx = 1 % NumSlots /\ readIdx = 0
    /\ drawing = [s \in Slots |-> Past]
    /\ on = TRUE

(* Mutant: the notify that is not there. *)
Asleep(pc) == pc

Woken(pc) == IF pc = "wait" THEN "take" ELSE pc
InHand(s) == CHOOSE p \in Pairs : state[p] = s

-----------------------------------------------------------------------------
(* The frame loop. *)

(* One pass up to whether this frame is captured.  A press that its input   *)
(* handles switches the 3D (setStereoLive), and a switch back on            *)
(* captures the frame in hand whether or not the depth rate says it is due; *)
(* otherwise a capture wants a new frame that is due.                       *)
FrameInput ==
    /\ frame = "input"
    /\ \E press, due \in BOOLEAN :
         /\ on' = (on # press)
         /\ frame' = IF ready /\ on' /\ (due \/ ~on) /\ captures < MaxCaptures
                     THEN "capture" ELSE "end"
    /\ UNCHANGED <<pairVars, depth, stage, flagVars, resetVars, slotVars, readIdx>>

(* startDepthCapture, its first region: a pair, or the frame is skipped. *)
FrameClaim ==
    /\ frame = "capture"
    /\ \/ \E p \in Pairs : ForCapture(p) /\ frame' = "queue"
       \/ ~CanCapture /\ frame' = "end" /\ UNCHANGED pairVars
    /\ UNCHANGED <<depth, stage, flagVars, resetVars, slotVars, readIdx, on>>

(* The readback is queued, then the second region marks the pair. *)
FrameCaptured ==
    /\ frame = "queue"
    /\ Captured
    /\ frame' = "end"
    /\ depth' = Woken(depth) /\ stage' = Woken(stage)
    /\ UNCHANGED <<flagVars, resetVars, slotVars, readIdx, on>>

(* nativeEndFrame: the video is drawn, or not, as there is a frame to draw   *)
(* and the runtime asks for it.  Whether it is drawn warped or flat, which    *)
(* FrameLayers models, is all one here: both sample the slot.                *)
FrameEnd ==
    /\ frame = "end"
    /\ frame' \in {"adopt", "input"}
    /\ UNCHANGED <<pairVars, depth, stage, flagVars, resetVars, slotVars, readIdx, on>>

(* renderVideoFrame picks up the staged slot. *)
FrameAdopt ==
    /\ frame = "adopt"
    /\ readIdx' = staged
    /\ frame' = "fence"
    /\ UNCHANGED <<pairVars, depth, stage, flagVars, resetVars, slotVars, on>>

(* No swapchain image to draw into, and no upsample before it: the slot is    *)
(* adopted and nothing reads it.                                             *)
FrameUndrawn ==
    /\ frame = "fence"
    /\ frame' = "input"
    /\ UNCHANGED <<pairVars, depth, stage, flagVars, resetVars, slotVars, readIdx, on>>

(* Mutant: the wait left to the frames that warp. *)
FrameFenceWarped ==
    /\ frame = "fence"
    /\ IF on /\ fence[readIdx]
       THEN /\ fence' = [fence EXCEPT ![readIdx] = FALSE]
            /\ synced' = [synced EXCEPT ![readIdx] = TRUE]
       ELSE UNCHANGED <<fence, synced>>
    /\ frame' = "draw"
    /\ UNCHANGED <<pairVars, depth, stage, flagVars, resetVars, content, staged, writeIdx,
                   drawing, readIdx, on>>

(* waitForDepthSlot: any draw waits, once, on the slot's fence, if one is     *)
(* left, and discards it; a flat frame is drawn by the shader that reads the  *)
(* slot too.                                                                 *)
FrameFence ==
    /\ frame = "fence"
    /\ IF fence[readIdx]
       THEN /\ fence' = [fence EXCEPT ![readIdx] = FALSE]
            /\ synced' = [synced EXCEPT ![readIdx] = TRUE]
       ELSE UNCHANGED <<fence, synced>>
    /\ frame' = "draw"
    /\ UNCHANGED <<pairVars, depth, stage, flagVars, resetVars, content, staged, writeIdx,
                   drawing, readIdx, on>>

(* The draw is queued with the slot bound; the GPU gets to it when it does. *)
FrameDraw ==
    /\ frame = "draw"
    /\ drawing' = [drawing EXCEPT ![readIdx] = captures]
    /\ frame' = "input"
    /\ UNCHANGED <<pairVars, depth, stage, flagVars, resetVars, content, fence, synced, staged,
                   writeIdx, readIdx, on>>

(* A stop asked for, or the runtime ends the session. *)
FrameLeave ==
    /\ frame = "input"
    /\ frame' = "stop"
    /\ UNCHANGED <<pairVars, depth, stage, flagVars, resetVars, slotVars, readIdx, on>>

(* stopDepthThread. *)
FrameStop ==
    /\ frame = "stop"
    /\ exit' = TRUE
    /\ depth' = Woken(depth) /\ stage' = Woken(stage)
    /\ frame' = "join"
    /\ UNCHANGED <<pairVars, ready, gaveUp, alive, resetVars, slotVars, readIdx, on>>

FrameJoin ==
    /\ frame = "join"
    /\ depth = "over"
    /\ frame' = "destroy"
    /\ UNCHANGED <<pairVars, depth, stage, flagVars, resetVars, slotVars, readIdx, on>>

FrameDestroy ==
    /\ frame = "destroy"
    /\ alive' = FALSE
    /\ frame' = "over"
    /\ UNCHANGED <<pairVars, depth, stage, exit, ready, gaveUp, resetVars, slotVars, readIdx,
                   on>>

FrameNext ==
    \/ FrameInput \/ FrameClaim \/ FrameCaptured \/ FrameEnd \/ FrameAdopt
    \/ FrameUndrawn \/ FrameFence \/ FrameDraw \/ FrameLeave \/ FrameStop \/ FrameJoin \/ FrameDestroy

-----------------------------------------------------------------------------
(* The depth thread. *)

DepthBind ==
    /\ depth = "bind"
    /\ \/ depth' = "load" /\ UNCHANGED gaveUp
       \/ depth' = "over" /\ gaveUp' = TRUE
    /\ UNCHANGED <<pairVars, frame, stage, exit, ready, alive, resetVars, slotVars, readIdx,
                   on>>

(* The model loads and the stage thread is started, or the session has no depth. *)
DepthLoad ==
    /\ depth = "load"
    /\ \/ depth' = "ready" /\ stage' = "bind" /\ UNCHANGED gaveUp
       \/ depth' = "leave" /\ gaveUp' = TRUE /\ UNCHANGED stage
    /\ UNCHANGED <<pairVars, frame, exit, ready, alive, resetVars, slotVars, readIdx, on>>

DepthReady ==
    /\ depth = "ready"
    /\ ready' = TRUE
    /\ depth' = "take"
    /\ UNCHANGED <<pairVars, frame, stage, exit, gaveUp, alive, resetVars, slotVars, readIdx,
                   on>>

(* runDepthModel, its waiting region. *)
DepthTake ==
    /\ depth = "take"
    /\ \/ exit /\ depth' = "leave" /\ UNCHANGED pairVars
       \/ ~exit /\ depth' = "estimate" /\ \E p \in Pairs : TakeToRun(p)
       \/ /\ ~exit /\ depth' = "wait" /\ UNCHANGED pairVars
          /\ In("RUNNING") # {} \/ In("STAGED") = {}
    /\ UNCHANGED <<frame, stage, flagVars, resetVars, slotVars, readIdx, on>>

(* The model runs off the lock; the region after it says whether it made a map. *)
DepthRan ==
    /\ depth = "estimate"
    /\ \E madeMap \in BOOLEAN : Ran(InHand("RUNNING"), madeMap)
    /\ depth' = "take" /\ stage' = Woken(stage)
    /\ UNCHANGED <<frame, flagVars, resetVars, slotVars, readIdx, on>>

(* The finally block: stopDepthStage, when there is a stage thread. *)
DepthLeave ==
    /\ depth = "leave"
    /\ ready' = FALSE
    /\ IF stage = "none"
       THEN depth' = "unbind" /\ UNCHANGED <<exit, stage>>
       ELSE depth' = "join" /\ exit' = TRUE /\ stage' = Woken(stage)
    /\ UNCHANGED <<pairVars, frame, gaveUp, alive, resetVars, slotVars, readIdx, on>>

DepthJoin ==
    /\ depth = "join"
    /\ stage = "over"
    /\ depth' = "unbind"
    /\ UNCHANGED <<pairVars, frame, stage, flagVars, resetVars, slotVars, readIdx, on>>

DepthUnbind ==
    /\ depth = "unbind"
    /\ depth' = "over"
    /\ UNCHANGED <<pairVars, frame, stage, flagVars, resetVars, slotVars, readIdx, on>>

DepthNext ==
    \/ DepthBind \/ DepthLoad \/ DepthReady \/ DepthTake \/ DepthRan
    \/ DepthLeave \/ DepthJoin \/ DepthUnbind

-----------------------------------------------------------------------------
(* The stage thread. *)

StageBind ==
    /\ stage = "bind"
    /\ \/ stage' = "take" /\ UNCHANGED gaveUp
       \/ stage' = "over" /\ gaveUp' = TRUE
    /\ UNCHANGED <<pairVars, frame, depth, exit, ready, alive, resetVars, slotVars, readIdx,
                   on>>

(* runDepthStage, its waiting region: a capture to read back goes first. *)
StageTake ==
    /\ stage = "take"
    /\ \/ exit /\ stage' = "unbind" /\ UNCHANGED pairVars
       \/ ~exit /\ stage' = "finish" /\ \E p \in Pairs : TakeToFinish(p)
       \/ /\ ~exit /\ In("CAPTURED") = {}
          /\ \E p \in Pairs : TakeToUpload(p) /\ stage' = IF made[p] THEN "upload" ELSE "drop"
       \/ /\ ~exit /\ stage' = "wait" /\ UNCHANGED pairVars
          /\ In("CAPTURED") = {} /\ ~\E p \in Pairs : CanUpload(p)
    /\ UNCHANGED <<frame, depth, flagVars, resetVars, slotVars, readIdx, on>>

(* The frame loop's GL queue runs in order, so once a capture's own fence has *)
(* been waited on, every draw queued before that capture is over.             *)
DrawsBefore(c) == [s \in Slots |-> IF drawing[s] < c THEN Past ELSE drawing[s]]

(* nativeFinishDepthCapture: the pair's resets are what the cut check found, *)
(* and none when the readback cannot be mapped; then the region after it.    *)
StageFinish ==
    /\ stage = "finish"
    /\ LET p == InHand("FINISHING") IN
         \E mapped \in BOOLEAN, found \in CutChecks :
           /\ mapped \/ found = {}
           /\ resets' = [resets EXCEPT ![p] = found]
           /\ asked' = [asked EXCEPT ![order[p]] = found]
           /\ Finished(p, mapped)
           /\ drawing' = DrawsBefore(order[p])
    /\ stage' = "take" /\ depth' = Woken(depth)
    /\ UNCHANGED <<frame, flagVars, carry, content, fence, synced, staged, writeIdx, readIdx,
                   on>>

(* nativeUploadDepth up to the fence: depthResetsTake starts the averages   *)
(* again as the pair's capture and any carried over asked, the map is       *)
(* written into the next slot, and a fence nobody adopted is replaced.      *)
StageUpload ==
    /\ stage = "upload"
    /\ LET p == InHand("UPLOADING") IN
         /\ resets' = [resets EXCEPT ![p] = {}]
         /\ carry' = {}
         /\ asked' = [c \in DOMAIN asked |-> IF c <= order[p] THEN {} ELSE asked[c]]
         /\ content' = [content EXCEPT ![writeIdx] = order[p]]
    /\ fence' = [fence EXCEPT ![writeIdx] = TRUE]
    /\ synced' = [synced EXCEPT ![writeIdx] = FALSE]
    /\ stage' = "publish"
    /\ UNCHANGED <<pairVars, frame, depth, flagVars, staged, writeIdx, drawing, readIdx,
                   on>>

(* Mutant: the rotation a slot short. *)
StagePublishShort ==
    /\ stage = "publish"
    /\ staged' = writeIdx
    /\ writeIdx' = (writeIdx + 1) % (NumSlots - 1)
    /\ stage' = "free"
    /\ UNCHANGED <<pairVars, frame, depth, flagVars, resetVars, content, fence, synced, drawing,
                   readIdx, on>>

(* The release store, and the next slot in the rotation. *)
StagePublish ==
    /\ stage = "publish"
    /\ staged' = writeIdx
    /\ writeIdx' = (writeIdx + 1) % NumSlots
    /\ stage' = "free"
    /\ UNCHANGED <<pairVars, frame, depth, flagVars, resetVars, content, fence, synced, drawing,
                   readIdx, on>>

(* Mutant: what a dropped capture asked for is forgotten. *)
StageDropForget ==
    /\ stage = "drop"
    /\ resets' = [resets EXCEPT ![InHand("UPLOADING")] = {}]
    /\ stage' = "free"
    /\ UNCHANGED <<pairVars, frame, depth, flagVars, carry, asked, slotVars, readIdx, on>>

(* nativeDropDepth: what the capture asked for goes to the next map made. *)
StageDrop ==
    /\ stage = "drop"
    /\ LET p == InHand("UPLOADING") IN
         /\ carry' = carry \cup resets[p]
         /\ resets' = [resets EXCEPT ![p] = {}]
    /\ stage' = "free"
    /\ UNCHANGED <<pairVars, frame, depth, flagVars, asked, slotVars, readIdx, on>>

StageFree ==
    /\ stage = "free"
    /\ Freed(InHand("UPLOADING"))
    /\ stage' = "take" /\ depth' = Woken(depth)
    /\ UNCHANGED <<frame, flagVars, resetVars, slotVars, readIdx, on>>

StageUnbind ==
    /\ stage = "unbind"
    /\ stage' = "over"
    /\ UNCHANGED <<pairVars, frame, depth, flagVars, resetVars, slotVars, readIdx, on>>

StageNext ==
    \/ StageBind \/ StageTake \/ StageFinish \/ StageUpload \/ StagePublish \/ StageDrop
    \/ StageFree \/ StageUnbind

-----------------------------------------------------------------------------
Done == frame = "over" /\ UNCHANGED vars

Next == FrameNext \/ DepthNext \/ StageNext \/ Done

(* Each thread is scheduled, the model's run returns and GL calls return. *)
Fairness ==
    /\ WF_vars(FrameNext)
    /\ WF_vars(DepthNext)
    /\ WF_vars(StageNext)

Spec == Init /\ [][Next]_vars /\ Fairness

-----------------------------------------------------------------------------
(* The stage thread never writes the texture or the fence of a slot the     *)
(* frame loop is about to draw from, or one the GPU may still be drawing    *)
(* from.  No lock says so: captures come only from the frame loop and queue *)
(* behind its draws, so while a draw lasts at most NumPairs maps can go up, *)
(* and the rotation is longer than that.                                    *)
NoSlotOverwritten ==
    stage = "upload" =>
        /\ frame \in {"fence", "draw"} => writeIdx # readIdx
        /\ drawing[writeIdx] = Past

(* A frame, warped or flat, samples a slot whose upload it has waited for,  *)
(* whichever way the staged index and the fence that comes with it were read.*)
SampledAfterFence == frame = "draw" => synced[readIdx]

(* What the cut check asked of a capture lands on the map made from that     *)
(* capture, or when it made none on the next map made, and on no other.     *)
ResetsLandInTurn ==
    stage = "upload" =>
        LET p == InHand("UPLOADING")
        IN  resets[p] \cup carry = UNION {asked[c] : c \in 1 .. order[p]}

(* The native context is freed only once nothing but the freeing thread can *)
(* touch it.                                                                *)
NoUseAfterFree == ~alive => depth = "over" /\ stage \in {"none", "over"}

(* The three slots are enough, and so are the joins: no thread touches what *)
(* another one, or the GPU, is still using.                                 *)
PipelineInv == TypeOK /\ NoSlotOverwritten /\ SampledAfterFence /\ NoUseAfterFree

(* Every capture is settled and its pair free again, unless the session is   *)
(* stopped or the stage thread never got a context: no wakeup is lost.       *)
CapturesSettle ==
    \A p \in Pairs : state[p] = "CAPTURED" ~> (state[p] = "FREE" \/ exit \/ stage = "over")

(* A stop always gets as far as freeing the context: neither join can hang. *)
StopCompletes == frame = "stop" ~> frame = "over"

(* No thread waits under depthLock for a notify that has already been. *)
NoWakeupLost == CapturesSettle /\ StopCompletes
=============================================================================
