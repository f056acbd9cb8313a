--------------------------- MODULE CodecRecovery ---------------------------
(***************************************************************************)
(* The recovery of the video decoder, MediaCodecDecoderRenderer.java: the  *)
(* input thread (submitDecodeUnit), the renderer thread and, with balanced *)
(* frame pacing, the choreographer thread share one MediaCodec. When a     *)
(* call of one of them fails, or the HDR metadata changes, a recovery is   *)
(* requested in codecRecoveryType; every thread comes to                   *)
(* doCodecRecoveryIfRequired, and the last one to come restarts, resets or *)
(* recreates the codec under codecRecoveryMonitor.                         *)
(*                                                                         *)
(* The flush kind (CR_RECOVERY_TYPE_FLUSH) is left out: nothing in the     *)
(* code ever requests it. The monitor is held exactly while a thread is at *)
(* "recover" or "settle"; every other use of it is one step. Time is left  *)
(* out: wait(1000) may return at any moment.                               *)
(***************************************************************************)
EXTENDS Integers, Sequences, FiniteSets

CONSTANTS Balanced,     \* prefs.framePacing is FRAME_PACING_BALANCED
          MaxTries,     \* CR_MAX_TRIES
          MaxFaults,    \* bound: failing codec calls
          MaxHdr        \* bound: changes of the HDR metadata

ASSUME CodecAssumption == /\ Balanced \in BOOLEAN
                          /\ MaxTries \in Nat \ {0}
                          /\ MaxFaults \in Nat
                          /\ MaxHdr \in Nat

VARIABLES type,         \* codecRecoveryType: "none", "restart", "reset"
          flags,        \* codecRecoveryThreadQuiescedFlags
          attempts,     \* codecRecoveryAttempts
          stopping,     \* stopping
          pc,           \* where each thread is
          kind,         \* the exception each thread is handling
          stage,        \* what the recovering thread is doing to the codec
          outcome,      \* and how that went
          started,      \* how far start() has come
          quit,         \* the choreographer's looper has been told to quit
          interrupted,  \* the renderer thread's interrupt status
          phase,        \* what submitDecodeUnit is doing
          failed,       \* the input thread's last codec call threw
          inBuf,        \* nextInputBuffer
          outQueue,     \* outputBufferQueue
          owesIdr,      \* history: recovered, and no IDR frame asked for since
          early,        \* history: requested before the choreographer was made
          first,        \* initialException is set
          crashed,      \* an exception has left a thread
          metadata,     \* currentHdrMetadata, as the number of the change
          configured,   \* the metadata the codec was configured with
          hdr,          \* where the caller of setHdrMode is
          stop,         \* where the stopping of the stream is
          faults        \* failing calls so far

handled == <<kind, failed, faults>>
codec == <<stage, outcome, configured>>
input == <<phase, inBuf>>
ends == <<started, quit, interrupted, stop>>
hist == <<owesIdr, early>>
over == <<first, crashed>>
vars == <<type, flags, attempts, stopping, pc, handled, codec, input, ends,
          hist, over, outQueue, metadata, hdr>>

Threads == {"input", "render"} \cup (IF Balanced THEN {"choreographer"} ELSE {})
Kinds == {"recoverable", "fatal"}
QueueLimit == 2

\* Nobody is inside the synchronized block with the codec in pieces.
MonitorFree == \A t \in Threads : pc[t] \notin {"recover", "settle"}

Init ==
  /\ type = "none" /\ flags = {} /\ attempts = 0
  /\ stopping = FALSE
  /\ pc = [t \in Threads |-> "off"]
  /\ kind = [t \in Threads |-> "recoverable"]
  /\ stage = "restart" /\ outcome = "ok"
  /\ started = "no" /\ quit = FALSE /\ interrupted = FALSE
  /\ phase = "fetch" /\ failed = FALSE
  /\ inBuf = "none" /\ outQueue = <<>>
  /\ owesIdr = FALSE /\ early = FALSE
  /\ first = FALSE /\ crashed = FALSE
  /\ metadata = 0 /\ configured = 0 /\ hdr = "idle"
  /\ stop = "no" /\ faults = 0

-----------------------------------------------------------------------------
(* start(): the renderer thread, then the choreographer's, then common-c   *)
(* starts the thread that submits the frames.                              *)

StartRenderer ==
  /\ started = "no" /\ started' = "render"
  /\ pc' = [pc EXCEPT !["render"] = "run"]
  /\ UNCHANGED <<type, flags, attempts, stopping, handled, codec, input, quit,
                 interrupted, stop, hist, over, outQueue, metadata, hdr>>

StartRest ==
  /\ started = "render" /\ started' = "all"
  /\ pc' = [t \in Threads |-> IF t = "render" THEN pc[t] ELSE "run"]
  /\ UNCHANGED <<type, flags, attempts, stopping, handled, codec, input, quit,
                 interrupted, stop, hist, over, outQueue, metadata, hdr>>

-----------------------------------------------------------------------------
(* A thread's use of the codec.                                            *)

\* submitDecodeUnit, the renderer's loop and doFrame start over, unless the
\* stream is stopping.
Use(t) ==
  /\ pc[t] = "run" /\ ~stopping
  /\ pc' = [pc EXCEPT ![t] = "using"]
  /\ IF t = "input"
     THEN /\ phase' = IF inBuf = "none" THEN "fetch" ELSE "queue"
          /\ failed' = FALSE
     ELSE UNCHANGED <<phase, failed>>
  /\ UNCHANGED <<type, flags, attempts, stopping, kind, faults, codec, inBuf,
                 ends, hist, over, outQueue, metadata, hdr>>

\* What a call that went well does to the buffers. The fetch may leave with
\* none once the stream is stopping.
Fetched == IF inBuf # "none" THEN {inBuf}
           ELSE IF stopping THEN {"none", "live"} ELSE {"live"}
Kept == IF Len(outQueue) = QueueLimit THEN Tail(outQueue) ELSE outQueue

UseOk(t) ==
  /\ pc[t] = "using"
  /\ pc' = [pc EXCEPT ![t] = "check"]
  /\ CASE t = "input" /\ phase = "queue" ->
            inBuf' = "none" /\ UNCHANGED outQueue
       [] t = "input" /\ phase # "queue" ->
            inBuf' \in Fetched /\ UNCHANGED outQueue
       [] t = "render" ->
            /\ \/ UNCHANGED outQueue
               \/ Balanced /\ outQueue' = Append(Kept, "live")
            /\ UNCHANGED inBuf
       [] t = "choreographer" ->
            /\ outQueue' = IF outQueue = <<>> THEN <<>> ELSE Tail(outQueue)
            /\ UNCHANGED inBuf
  /\ UNCHANGED <<type, flags, attempts, stopping, handled, codec, phase, ends,
                 hist, over, metadata, hdr>>

\* The call throws. A transient failure keeps the input buffer, any other
\* gives up the buffer that was being queued.
UseTransient(t) ==
  /\ pc[t] = "using" /\ faults < MaxFaults
  /\ faults' = faults + 1
  /\ pc' = [pc EXCEPT ![t] = "check"]
  /\ failed' = IF t = "input" THEN TRUE ELSE failed
  /\ UNCHANGED <<type, flags, attempts, stopping, kind, codec, input, ends,
                 hist, over, outQueue, metadata, hdr>>

UseFails(t, k) ==
  /\ pc[t] = "using" /\ faults < MaxFaults
  /\ faults' = faults + 1
  /\ pc' = [pc EXCEPT ![t] = "handle"]
  /\ kind' = [kind EXCEPT ![t] = k]
  /\ failed' = IF t = "input" THEN TRUE ELSE failed
  /\ inBuf' = IF t = "input" /\ phase = "queue" THEN "none" ELSE inBuf
  /\ outQueue' = IF t = "choreographer" /\ outQueue # <<>> THEN Tail(outQueue)
                 ELSE outQueue
  /\ UNCHANGED <<type, flags, attempts, stopping, codec, phase, ends, hist,
                 over, metadata, hdr>>

-----------------------------------------------------------------------------
(* handleDecoderException                                                  *)

\* Once stopping, exceptions are eaten.
HandleStopping(t) ==
  /\ pc[t] = "handle" /\ stopping
  /\ pc' = [pc EXCEPT ![t] = "check"]
  /\ UNCHANGED <<type, flags, attempts, stopping, handled, codec, input, ends,
                 hist, over, outQueue, metadata, hdr>>

TriesLeftOneMore == attempts <= MaxTries    \* mutant
TriesLeft == attempts < MaxTries

\* Tries are left, so a recovery will be requested.
HandleTries(t) ==
  /\ pc[t] = "handle" /\ ~stopping /\ TriesLeft
  /\ pc' = [pc EXCEPT ![t] = "promote"]
  /\ UNCHANGED <<type, flags, attempts, stopping, handled, codec, input, ends,
                 hist, over, outQueue, metadata, hdr>>

\* No tries left: the first exception outside a recovery is kept, one that
\* comes three seconds later or more throws it.
HandleOver(t) ==
  /\ pc[t] = "handle" /\ ~stopping /\ ~TriesLeft
  /\ pc' = [pc EXCEPT ![t] = "check"]
  /\ IF type # "none" THEN UNCHANGED over
     ELSE IF first THEN crashed' \in BOOLEAN /\ UNCHANGED first
     ELSE first' = TRUE /\ UNCHANGED crashed
  /\ UNCHANGED <<type, flags, attempts, stopping, handled, codec, input, ends,
                 hist, outQueue, metadata, hdr>>

\* The compareAndSets, one step each: a request is made where there is none
\* (Ask), a restart is made a reset for a codec that cannot be recovered
\* (Promote), and what is there now must be as strong as what was wanted
\* (Verify), or the exception leaves the thread.
Own(k) == IF k = "fatal" THEN "reset" ELSE "restart"
AskedAnyway(k) == Own(k)    \* mutant
Asked(k) == IF type = "none" THEN Own(k) ELSE type

Ask(t) ==
  /\ pc[t] = "promote"
  /\ type' = Asked(kind[t])
  /\ early' = (early \/ (Balanced /\ started # "all"))
  /\ pc' = [pc EXCEPT ![t] = IF type = "none" THEN "check" ELSE "asked"]
  /\ UNCHANGED <<flags, attempts, stopping, handled, codec, input, ends,
                 owesIdr, over, outQueue, metadata, hdr>>

Promote(t) ==
  /\ pc[t] = "asked"
  /\ IF kind[t] = "fatal" /\ type = "restart"
     THEN type' = "reset" /\ pc' = [pc EXCEPT ![t] = "check"]
     ELSE pc' = [pc EXCEPT ![t] = "verify"] /\ UNCHANGED type
  /\ UNCHANGED <<flags, attempts, stopping, handled, codec, input, ends, hist,
                 over, outQueue, metadata, hdr>>

StrongEnough(k) == type = "reset" \/ (type = "restart" /\ k # "fatal")

Verify(t) ==
  /\ pc[t] = "verify"
  /\ IF StrongEnough(kind[t])
     THEN pc' = [pc EXCEPT ![t] = "check"] /\ UNCHANGED crashed
     ELSE pc' = [pc EXCEPT ![t] = "thrown"] /\ crashed' = TRUE
  /\ UNCHANGED <<type, flags, attempts, stopping, handled, codec, input, ends,
                 hist, first, outQueue, metadata, hdr>>

-----------------------------------------------------------------------------
(* doCodecRecoveryIfRequired                                               *)

\* What a thread does when doCodecRecoveryIfRequired returns: the renderer
\* and the choreographer go round again; submitDecodeUnit goes on from its
\* fetch to the queueing and from that to the next fetch, and asks for an IDR
\* frame instead when the call failed or the codec was recovered.
Return(t, recovered) ==
  IF t # "input"
  THEN pc' = [pc EXCEPT ![t] = "run"] /\ UNCHANGED <<phase, owesIdr>>
  ELSE IF recovered \/ failed \/ (phase = "fetch" /\ inBuf = "none")
  THEN /\ pc' = [pc EXCEPT ![t] = "run"]
       /\ owesIdr' = FALSE
       /\ UNCHANGED phase
  ELSE /\ pc' = [pc EXCEPT ![t] = IF phase = "prefetch" THEN "run" ELSE "using"]
       /\ phase' = IF phase = "fetch" THEN "queue" ELSE "prefetch"
       /\ UNCHANGED owesIdr

\* The look outside the monitor.
Check(t) ==
  /\ pc[t] = "check"
  /\ IF type = "none" THEN Return(t, FALSE)
     ELSE pc' = [pc EXCEPT ![t] = "enter"] /\ UNCHANGED <<phase, owesIdr>>
  /\ UNCHANGED <<type, flags, attempts, stopping, handled, codec, inBuf, ends,
                 early, over, outQueue, metadata, hdr>>

\* A choreographer that does not exist yet counts as quiesced.
NoChoreographer == ~Balanced \/ started # "all"
WithFlag(t) == flags \cup {t}
               \cup (IF NoChoreographer THEN {"choreographer"} ELSE {})
AllFlags == {"input", "render", "choreographer"}

LastButInput(t) == WithFlag(t) \cup {"input"} = AllFlags    \* mutant
LastIn(t) == WithFlag(t) = AllFlags

ForgetNothing == UNCHANGED <<inBuf, outQueue>>    \* mutant
ForgetBuffers == inBuf' = "none" /\ outQueue' = <<>>

\* The last thread in finds a request and takes the codec in hand,
\* keeping the monitor.
EnterLast(t) ==
  /\ pc[t] = "enter" /\ MonitorFree
  /\ LastIn(t)
  /\ type # "none"
  /\ flags' = WithFlag(t)
  /\ ForgetBuffers
  /\ attempts' = attempts + 1
  /\ pc' = [pc EXCEPT ![t] = "recover"]
  /\ stage' = type
  /\ UNCHANGED <<type, stopping, handled, outcome, configured, phase, ends,
                 hist, over, metadata, hdr>>

\* The last thread in finds the request gone.
EnterLastIdle(t) ==
  /\ pc[t] = "enter" /\ MonitorFree
  /\ LastIn(t)
  /\ type = "none"
  /\ flags' = {}
  /\ inBuf' = "none" /\ outQueue' = <<>>
  /\ Return(t, TRUE)
  /\ UNCHANGED <<type, attempts, stopping, handled, codec, ends, early, over,
                 metadata, hdr>>

\* Not the last: wait for the one that will be. Interrupted or with nothing
\* requested any more, the thread leaves without taking its flag back.
EnterWait(t) ==
  /\ pc[t] = "enter" /\ MonitorFree
  /\ ~LastIn(t)
  /\ flags' = WithFlag(t)
  /\ pc' = [pc EXCEPT ![t] = "waiting"]
  /\ UNCHANGED <<type, attempts, stopping, handled, codec, input, ends, hist,
                 over, outQueue, metadata, hdr>>

WaitedQuiet(t) == Return(t, FALSE)    \* mutant
WaitedReturn(t) == Return(t, TRUE)

Leaves(t) == type = "none" \/ (t = "render" /\ interrupted)
Wake(t) ==
  /\ pc[t] = "waiting" /\ MonitorFree
  /\ Leaves(t)
  /\ WaitedReturn(t)
  /\ UNCHANGED <<type, flags, attempts, stopping, handled, codec, inBuf, ends,
                 early, over, outQueue, metadata, hdr>>

\* stop() and configure, reset() and configure, or release() and
\* initializeDecoder. Whatever buffer is still held belongs to the codec
\* that was.
Aged(b) == IF b = "none" THEN "none" ELSE "stale"
Recover(t) ==
  /\ pc[t] = "recover"
  /\ outcome' \in {"ok", "surface", "fails"}
  /\ configured' = IF outcome' = "ok" THEN metadata ELSE configured
  /\ inBuf' = Aged(inBuf)
  /\ outQueue' = [i \in DOMAIN outQueue |-> "stale"]
  /\ pc' = [pc EXCEPT ![t] = "settle"]
  /\ UNCHANGED <<type, flags, attempts, stopping, handled, stage, phase, ends,
                 hist, over, metadata, hdr>>

\* It is done, or the surface is no more and the stream stops.
SettleDone(t) ==
  /\ pc[t] = "settle" /\ outcome # "fails"
  /\ type' = "none" /\ flags' = {}
  /\ stopping' = (stopping \/ outcome = "surface")
  /\ owesIdr' = (t # "input")
  /\ pc' = [pc EXCEPT ![t] = "run"]
  /\ UNCHANGED <<attempts, handled, codec, input, ends, early, over, outQueue,
                 metadata, hdr>>

\* The next bigger hammer.
SettleFails(t) ==
  /\ pc[t] = "settle" /\ outcome = "fails"
  /\ CASE stage = "restart" ->
            /\ type' = "reset" /\ stage' = "reset"
            /\ pc' = [pc EXCEPT ![t] = "recover"] /\ UNCHANGED crashed
       [] stage = "reset" ->
            /\ stage' = "recreate"
            /\ pc' = [pc EXCEPT ![t] = "recover"] /\ UNCHANGED <<type, crashed>>
       [] stage = "recreate" ->
            /\ crashed' = TRUE
            /\ pc' = [pc EXCEPT ![t] = "gone"] /\ UNCHANGED <<type, stage>>
  /\ UNCHANGED <<flags, attempts, stopping, handled, outcome, configured,
                 input, ends, hist, first, outQueue, metadata, hdr>>

-----------------------------------------------------------------------------
(* setHdrMode, on common-c's control thread.                               *)

SetHdrMetadata ==
  /\ hdr = "idle" /\ metadata < MaxHdr
  /\ metadata' = metadata + 1
  /\ hdr' = "written"
  /\ UNCHANGED <<type, flags, attempts, stopping, pc, handled, codec, input,
                 ends, hist, over, outQueue>>

\* Nothing requested becomes a restart, a reset stays one.
HdrRequest == IF type = "none" THEN "restart" ELSE type

SetHdrRestart ==
  /\ hdr = "written" /\ hdr' = "idle"
  /\ attempts' = 0
  /\ type' = HdrRequest
  /\ early' = (early \/ (Balanced /\ started # "all"))
  /\ UNCHANGED <<flags, stopping, pc, handled, codec, input, ends, owesIdr,
                 over, outQueue, metadata>>

-----------------------------------------------------------------------------
(* prepareForStop, called by Game.surfaceDestroyed and again by stop(), and *)
(* the joins that follow.                                                  *)

PrepareFlag(from, to) ==
  /\ stop \in from /\ stop' = to
  /\ stopping' = TRUE
  /\ interrupted' = (interrupted \/ started # "no")
  /\ UNCHANGED <<type, flags, attempts, pc, handled, codec, input, started,
                 quit, hist, over, outQueue, metadata, hdr>>

StillRequested == type    \* mutant
NoRequest == "none"

PrepareReset(from, to) ==
  /\ stop = from /\ stop' = to
  /\ MonitorFree
  /\ type' = NoRequest
  /\ quit' = (quit \/ (Balanced /\ started = "all"))
  /\ UNCHANGED <<flags, attempts, stopping, pc, handled, codec, input, started,
                 interrupted, hist, over, outQueue, metadata, hdr>>

SurfaceGone == PrepareFlag({"no"}, "surface")
SurfaceReset == PrepareReset("surface", "prepared")
StopCalled == started = "all" /\ PrepareFlag({"no", "prepared"}, "stop")
StopReset == PrepareReset("stop", "join")

\* The renderer's loop and the choreographer's looper end.
RenderLeaves ==
  /\ pc["render"] = "run" /\ stopping
  /\ pc' = [pc EXCEPT !["render"] = "gone"]
  /\ UNCHANGED <<type, flags, attempts, stopping, handled, codec, input, ends,
                 hist, over, outQueue, metadata, hdr>>

ChoreographerLeaves ==
  /\ Balanced /\ quit /\ pc["choreographer"] = "run"
  /\ pc' = [pc EXCEPT !["choreographer"] = "gone"]
  /\ UNCHANGED <<type, flags, attempts, stopping, handled, codec, input, ends,
                 hist, over, outQueue, metadata, hdr>>

JoinThreads ==
  /\ stop = "join" /\ stop' = "joined"
  /\ \A t \in Threads \ {"input"} : pc[t] = "gone"
  /\ UNCHANGED <<type, flags, attempts, stopping, pc, handled, codec, input,
                 started, quit, interrupted, hist, over, outQueue, metadata,
                 hdr>>

\* common-c ends and joins its own thread, then has cleanup() release the
\* codec.
InputLeaves ==
  /\ stop = "joined" /\ pc["input"] = "run"
  /\ pc' = [pc EXCEPT !["input"] = "gone"]
  /\ stop' = "released"
  /\ UNCHANGED <<type, flags, attempts, stopping, handled, codec, input,
                 started, quit, interrupted, hist, over, outQueue, metadata,
                 hdr>>

-----------------------------------------------------------------------------
\* Everything a thread does but start over with the codec, and that for the
\* threads that do so by themselves.
Step(t) ==
  \/ UseOk(t) \/ UseTransient(t) \/ \E k \in Kinds : UseFails(t, k)
  \/ HandleStopping(t) \/ HandleTries(t) \/ HandleOver(t)
  \/ Ask(t) \/ Promote(t) \/ Verify(t)
  \/ Check(t) \/ EnterLast(t) \/ EnterLastIdle(t) \/ EnterWait(t) \/ Wake(t)
  \/ Recover(t) \/ SettleDone(t) \/ SettleFails(t)

Starting == StartRenderer \/ StartRest
Hdr == SetHdrMetadata \/ SetHdrRestart
Leaving == RenderLeaves \/ ChoreographerLeaves \/ InputLeaves
Stopping == SurfaceGone \/ SurfaceReset \/ StopCalled \/ StopReset \/ JoinThreads

Next == /\ ~crashed
        /\ \/ \E t \in Threads : Use(t) \/ Step(t)
           \/ Starting \/ Hdr \/ Leaving \/ Stopping

Spec == Init /\ [][Next]_vars

\* The threads are scheduled, and a call of the codec returns. Nothing says
\* that a frame comes, that the metadata changes or that the stream is
\* stopped; a stop once begun goes on.
Fairness ==
  /\ WF_vars(~crashed /\ Starting)
  /\ \A t \in Threads : WF_vars(~crashed /\ Step(t))
  /\ WF_vars(~crashed /\ RenderLeaves)
  /\ WF_vars(~crashed /\ ChoreographerLeaves)
  /\ WF_vars(~crashed /\ InputLeaves)
  /\ WF_vars(~crashed /\ (SurfaceReset \/ StopReset \/ JoinThreads))
FairSpec == Spec /\ Fairness

-----------------------------------------------------------------------------
Stages == {"restart", "reset", "recreate"}
Buffers == {"none", "live", "stale"}
Places == {"off", "run", "using", "handle", "promote", "asked", "verify",
           "check", "enter", "waiting", "recover", "settle", "gone", "thrown"}

TypeOK ==
  /\ type \in {"none", "restart", "reset"}
  /\ flags \subseteq AllFlags
  /\ attempts \in Nat
  /\ {stopping, quit, interrupted, failed, owesIdr, early, first, crashed}
       \subseteq BOOLEAN
  /\ pc \in [Threads -> Places]
  /\ kind \in [Threads -> Kinds]
  /\ stage \in Stages /\ outcome \in {"ok", "surface", "fails"}
  /\ started \in {"no", "render", "all"}
  /\ phase \in {"fetch", "queue", "prefetch"}
  /\ inBuf \in Buffers
  /\ outQueue \in Seq(Buffers \ {"none"}) /\ Len(outQueue) <= QueueLimit
  /\ metadata \in 0 .. MaxHdr /\ configured \in 0 .. MaxHdr
  /\ hdr \in {"idle", "written"}
  /\ stop \in {"no", "surface", "prepared", "stop", "join", "joined", "released"}
  /\ faults \in 0 .. MaxFaults

Recovering(t) == pc[t] \in {"recover", "settle"}

\* While a thread has the codec in pieces, every other thread that exists is
\* waiting in the monitor.
Quiesced == \A t \in Threads : Recovering(t) =>
              \A u \in Threads \ {t} : pc[u] \in {"waiting", "off", "gone"}

\* The same while the stream runs, as long as nothing asked for a recovery
\* before start() had made the choreographer thread.
QuiescedWhileStreaming == stopping \/ early \/ Quiesced

\* No buffer of a codec that has been stopped, reset or released is left in
\* nextInputBuffer or in outputBufferQueue for a thread to hand back to the
\* codec that took its place.
NoStaleBuffer ==
  stopping \/ early \/
  /\ inBuf # "stale"
  /\ \A i \in DOMAIN outQueue : outQueue[i] # "stale"

\* After a recovery, whichever thread made it, the input thread hands no frame
\* to the codec before it has asked common-c for an IDR frame.
IdrBeforeFrames == owesIdr /\ pc["input"] = "using" => stopping

\* The codec is not recovered more than CR_MAX_TRIES times between two
\* changes of the metadata, whichever threads see it fail and when.
TriesBounded == attempts <= MaxTries \/ stopping \/ early

\* A thread that found a request made before it always finds one as strong as
\* its own in the end, and does not throw "Unexpected codec recovery type".
RequestStands == stopping \/ early \/ \A t \in Threads : pc[t] # "thrown"

\* The types, the bound on the queue, whose buffers are in it, the tries, and
\* that a request stands until it is done.
RecoverySound == TypeOK /\ NoStaleBuffer /\ TriesBounded /\ RequestStands

\* "Let the decoding code know to ignore codec exceptions now"
\* (prepareForStop), taken at its word: the reset of the request that follows
\* comes between the compareAndSets of a thread that had seen the stream still
\* running, and that thread throws.  The code does not satisfy it, so no
\* configuration has it; RequestStands is what does hold.
StopEatsExceptions == \A t \in Threads : pc[t] = "thrown" => ~stopping

\* A reset that has been asked for is not made a mere restart by anyone: it
\* ends only by being done, or by the stop.
ResetNotWeakened == [][type = "reset" => type' \in {"reset", "none"}]_vars

\* stop() "stops any active codec recovery operations": called while no
\* request is about to be made, it ends with all threads joined and the
\* codec released, even if they had all been waiting for one another.
Requesting == hdr = "written" \/ \E t \in Threads : pc[t] \in {"promote", "asked"}
StopCompletes ==
  stop = "stop" /\ ~Requesting /\ metadata = MaxHdr
    ~> stop = "released" \/ crashed
=============================================================================
