------------------------ MODULE CodecRecoveryProofs -------------------------
(***************************************************************************)
(* Proofs about the recovery of the decoder, with or without a             *)
(* choreographer, for any number of tries, failing calls and changes of    *)
(* the HDR metadata.                                                       *)
(*                                                                         *)
(* Everything rests on what a quiesced flag stands for: the thread it is   *)
(* of waits in the monitor. That holds as long as the stream runs, since   *)
(* the request a thread waits for is taken back only along with all the    *)
(* flags; a stop takes it back alone, and a choreographer that was counted *)
(* before it was made does not wait. So the last thread in finds all the   *)
(* others waiting, and nobody leaves while it holds the monitor.           *)
(***************************************************************************)
EXTENDS CodecRecovery, TLAPS

InMonitor == {"waiting", "recover", "settle"}

(* Before start() has made a thread, the thread does nothing. *)
Starts ==
  /\ started = "no" => pc["render"] = "off"
  /\ started # "all" => \A t \in Threads \ {"render"} : pc[t] = "off"

(* Nobody interrupts the renderer thread, or takes a request back, before  *)
(* the stream is told to stop.                                              *)
Stops == stop # "no" \/ interrupted => stopping

(* Unless something was requested early, nobody comes for a recovery before *)
(* all the threads are there.                                               *)
NotEarly ==
  Balanced /\ ~early /\ started # "all" =>
    type = "none" /\ flags = {} /\ \A t \in Threads : pc[t] \notin InMonitor \cup {"enter"}

OneRecovers == \A t, u \in Threads : Recovering(t) /\ Recovering(u) => t = u

(* The choreographer that was counted as quiesced before it was there. *)
Miscounted(t) == t = "choreographer" /\ early

(* A flag stands for a thread in the monitor. *)
FlagsHeld ==
  ~stopping /\ ~crashed =>
    \A t \in flags \cap Threads : pc[t] \in InMonitor \/ Miscounted(t)

(* With nothing requested nobody is on the way to a recovery. *)
Pending ==
  ~stopping /\ type = "none" =>
    \A t \in Threads : \/ t \notin flags /\ pc[t] \notin {"enter", "recover", "settle"}
                       \/ Miscounted(t)

OthersWait ==
  ~stopping => \A t \in Threads : Recovering(t) =>
                 \A u \in Threads \ {t} : pc[u] = "waiting" \/ Miscounted(u)

(* Nothing is fetched between the forgetting of the buffers and the codec's *)
(* return.                                                                  *)
Forgotten ==
  ~stopping /\ ~early =>
    /\ inBuf # "stale" /\ \A i \in DOMAIN outQueue : outQueue[i] # "stale"
    /\ ~MonitorFree => inBuf = "none" /\ outQueue = <<>>

(* The input thread has been waiting ever since the recovery it owes for. *)
OwesWaiting == ~stopping /\ owesIdr => pc["input"] = "waiting"

(* A request not yet taken up, or about to be made, leaves a try for it. *)
TriesKept ==
  ~stopping /\ ~early =>
    /\ attempts <= MaxTries
    /\ type # "none" /\ MonitorFree /\ ~crashed => attempts < MaxTries
    /\ (\E t \in Threads : pc[t] = "promote") => attempts < MaxTries

Monitor ==
  /\ Starts /\ Stops /\ NotEarly /\ OneRecovers /\ FlagsHeld /\ Pending /\ OthersWait
  /\ Forgotten /\ OwesWaiting /\ TriesKept

(* Until the stream is told to stop, a request that a thread has found is    *)
(* there until that thread has come for its recovery.                        *)
Requested ==
  ~stopping /\ ~early =>
    \A t \in Threads :
      /\ pc[t] # "thrown"
      /\ pc[t] \in {"asked", "verify"} => type # "none"
      /\ pc[t] = "verify" => StrongEnough(kind[t])

IInv == TypeOK /\ Monitor /\ Requested

-----------------------------------------------------------------------------
LEMMA ThreadNames ==
    /\ "input" \in Threads /\ "render" \in Threads /\ Threads \subseteq AllFlags
    /\ "choreographer" \in Threads <=> Balanced
BY DEF Threads, AllFlags

(* What the last thread in knows: who else has a flag or did not exist. *)
LEMMA LastMeans ==
    ASSUME NEW t \in Threads, LastIn(t)
    PROVE  \A u \in Threads \ {t} : \/ u \in flags
                                    \/ u = "choreographer" /\ Balanced /\ started # "all"
BY ThreadNames DEF LastIn, WithFlag, NoChoreographer, AllFlags

-----------------------------------------------------------------------------
(* The types.                                                                *)

PcTypes ==
  /\ pc \in [Threads -> Places]
  /\ kind \in [Threads -> Kinds]
  /\ phase \in {"fetch", "queue", "prefetch"}
CodecTypes ==
  /\ type \in {"none", "restart", "reset"}
  /\ flags \subseteq AllFlags
  /\ attempts \in Nat
  /\ stage \in Stages /\ outcome \in {"ok", "surface", "fails"}
  /\ metadata \in 0 .. MaxHdr /\ configured \in 0 .. MaxHdr
BufferTypes ==
  /\ inBuf \in Buffers
  /\ outQueue \in Seq(Buffers \ {"none"}) /\ Len(outQueue) <= QueueLimit
FlagTypes ==
  /\ stopping \in BOOLEAN /\ quit \in BOOLEAN /\ interrupted \in BOOLEAN /\ failed \in BOOLEAN
  /\ owesIdr \in BOOLEAN /\ early \in BOOLEAN /\ first \in BOOLEAN /\ crashed \in BOOLEAN
EndTypes ==
  /\ started \in {"no", "render", "all"}
  /\ hdr \in {"idle", "written"}
  /\ stop \in {"no", "surface", "prepared", "stop", "join", "joined", "released"}
  /\ faults \in 0 .. MaxFaults

LEMMA TypeParts == TypeOK <=> PcTypes /\ CodecTypes /\ BufferTypes /\ FlagTypes /\ EndTypes
BY DEF TypeOK, PcTypes, CodecTypes, BufferTypes, FlagTypes, EndTypes

LEMMA PcTypesInv == ASSUME PcTypes, CodecTypes, [Next]_vars PROVE PcTypes'
<1> USE ThreadNames DEF PcTypes, Places, Kinds, Return
<1>1. ASSUME NEW t \in Threads, Use(t) \/ Step(t) PROVE PcTypes'
  <2>1. CASE Use(t) \/ UseOk(t) \/ UseTransient(t) \/ \E k \in Kinds : UseFails(t, k)
    <3>1. CASE Use(t)
      BY <3>1 DEF Use
    <3>2. CASE UseOk(t)
      BY <3>2 DEF UseOk, handled
    <3>3. CASE UseTransient(t)
      BY <3>3 DEF UseTransient, input
    <3>4. ASSUME NEW k \in Kinds, UseFails(t, k) PROVE PcTypes'
      BY <3>4 DEF UseFails
    <3> QED
      BY <2>1, <3>1, <3>2, <3>3, <3>4
  <2>2. CASE HandleStopping(t) \/ HandleTries(t) \/ HandleOver(t) \/ Ask(t) \/ Promote(t) \/ Verify(t)
    BY <2>2 DEF HandleStopping, HandleTries, HandleOver, Ask, Promote, Verify, handled, input
  <2>3. CASE Check(t)
    BY <2>3 DEF Check, handled
  <2>4. CASE EnterLast(t) \/ EnterLastIdle(t) \/ EnterWait(t) \/ Wake(t)
    BY <2>4 DEF EnterLast, EnterLastIdle, EnterWait, Wake, WaitedReturn, handled, input
  <2>5. CASE Recover(t) \/ SettleDone(t) \/ SettleFails(t)
    <3>1. CASE Recover(t)
      BY <3>1 DEF Recover, handled, input
    <3>2. CASE SettleDone(t)
      BY <3>2 DEF SettleDone, handled, input
    <3>3. CASE SettleFails(t)
      BY <3>3 DEF SettleFails, handled, input, CodecTypes, Stages
    <3> QED
      BY <2>5, <3>1, <3>2, <3>3
  <2> QED
    BY <1>1, <2>1, <2>2, <2>3, <2>4, <2>5 DEF Step
<1>2. CASE Starting \/ Hdr \/ Leaving \/ Stopping
  BY <1>2 DEF Starting, StartRenderer, StartRest, Hdr, SetHdrMetadata, SetHdrRestart, Leaving,
     RenderLeaves, ChoreographerLeaves, InputLeaves, Stopping, SurfaceGone, SurfaceReset, StopCalled,
     StopReset, PrepareFlag, PrepareReset, JoinThreads, handled, input
<1>3. CASE UNCHANGED vars
  BY <1>3 DEF vars, handled, input
<1> QED
  BY <1>1, <1>2, <1>3 DEF Next

LEMMA CodecTypesInv == ASSUME CodecTypes, [Next]_vars PROVE CodecTypes'
<1> USE ThreadNames, CodecAssumption DEF CodecTypes, Stages
<1>1. ASSUME NEW t \in Threads, Use(t) \/ Step(t) PROVE CodecTypes'
  <2>1. CASE Use(t) \/ UseOk(t) \/ UseTransient(t) \/ \E k \in Kinds : UseFails(t, k)
    BY <2>1 DEF Use, UseOk, UseTransient, UseFails, codec
  <2>2. CASE HandleStopping(t) \/ HandleTries(t) \/ HandleOver(t) \/ Ask(t) \/ Promote(t) \/ Verify(t)
    BY <2>2 DEF HandleStopping, HandleTries, HandleOver, Ask, Asked, Own, Promote, Verify, codec
  <2>3. CASE Check(t)
    BY <2>3 DEF Check, codec
  <2>4. CASE EnterLast(t) \/ EnterLastIdle(t) \/ EnterWait(t) \/ Wake(t)
    <3>1. CASE EnterLast(t)
      BY <3>1 DEF EnterLast, codec, WithFlag, AllFlags
    <3>2. CASE EnterLastIdle(t)
      BY <3>2 DEF EnterLastIdle, codec, WithFlag, AllFlags
    <3>3. CASE EnterWait(t)
      BY <3>3 DEF EnterWait, codec, WithFlag, AllFlags
    <3>4. CASE Wake(t)
      BY <3>4 DEF Wake, codec, WithFlag, AllFlags
    <3> QED
      BY <2>4, <3>1, <3>2, <3>3, <3>4
  <2>5. CASE Recover(t) \/ SettleDone(t) \/ SettleFails(t)
    BY <2>5 DEF Recover, SettleDone, SettleFails, codec
  <2> QED
    BY <1>1, <2>1, <2>2, <2>3, <2>4, <2>5 DEF Step
<1>2. CASE Starting \/ Hdr \/ Leaving \/ Stopping
  BY <1>2 DEF Starting, StartRenderer, StartRest, Hdr, SetHdrMetadata, SetHdrRestart, HdrRequest,
     Leaving, RenderLeaves, ChoreographerLeaves, InputLeaves, Stopping, SurfaceGone, SurfaceReset,
     StopCalled, StopReset, PrepareFlag, PrepareReset, NoRequest, JoinThreads, codec
<1>3. CASE UNCHANGED vars
  BY <1>3 DEF vars, codec
<1> QED
  BY <1>1, <1>2, <1>3 DEF Next

LEMMA FlagTypesInv == ASSUME FlagTypes, CodecTypes, [Next]_vars PROVE FlagTypes'
<1> USE DEF FlagTypes, Return, ends, hist, over
<1>1. ASSUME NEW t \in Threads, Use(t) \/ Step(t) PROVE FlagTypes'
  <2>1. CASE Use(t) \/ UseOk(t) \/ UseTransient(t) \/ \E k \in Kinds : UseFails(t, k)
    BY <2>1 DEF Use, UseOk, UseTransient, UseFails, handled
  <2>2. CASE HandleStopping(t) \/ HandleTries(t) \/ HandleOver(t) \/ Ask(t) \/ Promote(t) \/ Verify(t)
    BY <2>2 DEF HandleStopping, HandleTries, HandleOver, Ask, Promote, Verify, handled
  <2>3. CASE Check(t)
    BY <2>3 DEF Check, handled
  <2>4. CASE EnterLast(t) \/ EnterLastIdle(t) \/ EnterWait(t) \/ Wake(t)
    BY <2>4 DEF EnterLast, EnterLastIdle, EnterWait, Wake, WaitedReturn, handled
  <2>5. CASE Recover(t) \/ SettleDone(t) \/ SettleFails(t)
    <3>1. CASE Recover(t)
      BY <3>1 DEF Recover, handled
    <3>2. CASE SettleDone(t)
      BY <3>2 DEF SettleDone, handled
    <3>3. CASE SettleFails(t)
      BY <3>3 DEF SettleFails, handled, CodecTypes, Stages
    <3> QED
      BY <2>5, <3>1, <3>2, <3>3
  <2> QED
    BY <1>1, <2>1, <2>2, <2>3, <2>4, <2>5 DEF Step
<1>2. CASE Starting \/ Hdr \/ Leaving \/ Stopping
  BY <1>2 DEF Starting, StartRenderer, StartRest, Hdr, SetHdrMetadata, SetHdrRestart, Leaving,
     RenderLeaves, ChoreographerLeaves, InputLeaves, Stopping, SurfaceGone, SurfaceReset, StopCalled,
     StopReset, PrepareFlag, PrepareReset, JoinThreads, handled
<1>3. CASE UNCHANGED vars
  BY <1>3 DEF vars, handled
<1> QED
  BY <1>1, <1>2, <1>3 DEF Next

LEMMA EndTypesInv == ASSUME EndTypes, [Next]_vars PROVE EndTypes'
<1> USE CodecAssumption DEF EndTypes, ends
<1>1. ASSUME NEW t \in Threads, Use(t) \/ Step(t) PROVE EndTypes'
  <2>1. CASE Use(t) \/ UseOk(t) \/ UseTransient(t) \/ \E k \in Kinds : UseFails(t, k)
    <3>1. CASE Use(t)
      BY <3>1 DEF Use, handled
    <3>2. CASE UseOk(t)
      BY <3>2 DEF UseOk, handled
    <3>3. CASE UseTransient(t)
      BY <3>3 DEF UseTransient, handled
    <3>4. ASSUME NEW k \in Kinds, UseFails(t, k) PROVE EndTypes'
      BY <3>4 DEF UseFails, handled
    <3> QED
      BY <2>1, <3>1, <3>2, <3>3, <3>4
  <2>2. CASE HandleStopping(t) \/ HandleTries(t) \/ HandleOver(t) \/ Ask(t) \/ Promote(t) \/ Verify(t)
    BY <2>2 DEF HandleStopping, HandleTries, HandleOver, Ask, Promote, Verify, handled
  <2>3. CASE Check(t)
    BY <2>3 DEF Check, handled
  <2>4. CASE EnterLast(t) \/ EnterLastIdle(t) \/ EnterWait(t) \/ Wake(t)
    BY <2>4 DEF EnterLast, EnterLastIdle, EnterWait, Wake, WaitedReturn, handled
  <2>5. CASE Recover(t) \/ SettleDone(t) \/ SettleFails(t)
    BY <2>5 DEF Recover, SettleDone, SettleFails, handled
  <2> QED
    BY <1>1, <2>1, <2>2, <2>3, <2>4, <2>5 DEF Step
<1>2. CASE Starting \/ Hdr \/ Leaving \/ Stopping
  BY <1>2 DEF Starting, StartRenderer, StartRest, Hdr, SetHdrMetadata, SetHdrRestart, Leaving,
     RenderLeaves, ChoreographerLeaves, InputLeaves, Stopping, SurfaceGone, SurfaceReset, StopCalled,
     StopReset, PrepareFlag, PrepareReset, JoinThreads, handled
<1>3. CASE UNCHANGED vars
  BY <1>3 DEF vars, handled
<1> QED
  BY <1>1, <1>2, <1>3 DEF Next

(* What a call that goes well or fails does to the output queue. *)
QueueMoves == {outQueue, <<>>, Append(Kept, "live")} \cup
              (IF outQueue = <<>> THEN {} ELSE {Tail(outQueue)})

LEMMA QueueMovesTyped ==
    ASSUME BufferTypes, NEW q \in QueueMoves
    PROVE  /\ q \in Seq(Buffers \ {"none"}) /\ Len(q) <= QueueLimit
           /\ (\A i \in DOMAIN outQueue : outQueue[i] # "stale")
                 => \A i \in DOMAIN q : q[i] # "stale"
<1> USE DEF BufferTypes, Buffers, QueueLimit
<1>1. /\ Kept \in Seq(Buffers \ {"none"}) /\ Len(Kept) <= 1
      /\ (\A i \in DOMAIN outQueue : outQueue[i] # "stale") => \A i \in DOMAIN Kept : Kept[i] # "stale"
  <2>1. CASE Len(outQueue) = 2
    <3>1. outQueue # <<>> /\ Len(Tail(outQueue)) = 1 /\ Tail(outQueue) \in Seq(Buffers \ {"none"})
          /\ \A i \in 1 .. 1 : Tail(outQueue)[i] = outQueue[i + 1]
      BY <2>1
    <3>2. Kept = Tail(outQueue)
      BY <2>1 DEF Kept
    <3>3. DOMAIN Tail(outQueue) = 1 .. 1
      BY <3>1
    <3>4. (\A i \in DOMAIN outQueue : outQueue[i] # "stale")
             => \A i \in 1 .. 1 : Tail(outQueue)[i] # "stale"
      BY <2>1, <3>1
    <3> QED
      BY <3>1, <3>2, <3>3, <3>4
  <2>2. CASE Len(outQueue) # 2
    <3>1. Kept = outQueue
      BY <2>2 DEF Kept
    <3>2. PICK n \in Nat : n = Len(outQueue) /\ n <= 2
      OBVIOUS
    <3>3. n <= 1
      BY <2>2, <3>2
    <3> QED
      BY <3>1, <3>2, <3>3
  <2> QED
    BY <2>1, <2>2
<1>2. CASE q = Append(Kept, "live")
  BY <1>1, <1>2
<1>3. CASE outQueue # <<>> /\ q = Tail(outQueue)
  BY <1>3
<1>4. CASE q = outQueue
  BY <1>4
<1>5. CASE q = <<>>
  BY <1>5
<1> QED
  BY <1>2, <1>3, <1>4, <1>5 DEF QueueMoves

(* The steps of a thread that is not in doCodecRecoveryIfRequired's monitor. *)
Outside(t) ==
  \/ Use(t) \/ UseOk(t) \/ UseTransient(t) \/ \E k \in Kinds : UseFails(t, k)
  \/ HandleStopping(t) \/ HandleTries(t) \/ HandleOver(t)
  \/ Ask(t) \/ Promote(t) \/ Verify(t) \/ Check(t)
Abroad == {"run", "using", "handle", "promote", "asked", "verify", "check", "thrown"}

(* They leave the monitor's state and the other threads alone. *)
LEMMA OutsideMoves ==
    ASSUME PcTypes, NEW t \in Threads, Outside(t)
    PROVE  /\ UNCHANGED <<flags, attempts, stopping, ends, codec>>
           /\ pc[t] \in Abroad
           /\ \A u \in Threads \ {t} : pc'[u] = pc[u]
           /\ pc'[t] \in Abroad \cup {"enter"}
           /\ pc'[t] = "enter" => type # "none"
           /\ pc'[t] = "promote" => attempts < MaxTries
           /\ \/ type' = type /\ early' = early
              \/ pc[t] = "promote" /\ type' # "none" /\ early' = (early \/ (Balanced /\ started # "all"))
              \/ type # "none" /\ type' # "none" /\ early' = early
           /\ owesIdr' = owesIdr \/ owesIdr' = FALSE
<1> USE DEF PcTypes, Abroad, Return, handled, hist, over
<1>1. CASE Use(t)
  BY <1>1 DEF Use
<1>2. CASE UseOk(t)
  BY <1>2 DEF UseOk
<1>3. CASE UseTransient(t)
  BY <1>3 DEF UseTransient
<1>4. ASSUME NEW k \in Kinds, UseFails(t, k)
      PROVE  /\ UNCHANGED <<flags, attempts, stopping, ends, codec, type, early, owesIdr>>
             /\ pc[t] = "using" /\ pc' = [pc EXCEPT ![t] = "handle"]
  BY <1>4 DEF UseFails
<1>5. CASE HandleStopping(t)
  BY <1>5 DEF HandleStopping
<1>6. CASE HandleTries(t)
  BY <1>6 DEF HandleTries, TriesLeft
<1>7. CASE HandleOver(t)
  BY <1>7 DEF HandleOver
<1>8. CASE Ask(t)
  BY <1>8 DEF Ask, Asked, Own
<1>9. CASE Promote(t)
  BY <1>9 DEF Promote
<1>10. CASE Verify(t)
  BY <1>10 DEF Verify
<1>11. CASE Check(t)
  <2>1. UNCHANGED <<flags, attempts, stopping, ends, codec, type, early>> /\ pc[t] = "check"
    BY <1>11 DEF Check
  <2>2. CASE type = "none" /\ Return(t, FALSE)
    BY <2>1, <2>2
  <2>3. CASE type # "none" /\ pc' = [pc EXCEPT ![t] = "enter"] /\ owesIdr' = owesIdr
    BY <2>1, <2>3
  <2> QED
    BY <1>11, <2>2, <2>3 DEF Check
<1> QED
  BY <1>1, <1>2, <1>3, <1>4, <1>5, <1>6, <1>7, <1>8, <1>9, <1>10, <1>11
   DEF Outside

(* And they put no buffer of a codec that was into anyone's hands. *)
LEMMA OutsideBuffers ==
    ASSUME NEW t \in Threads, Outside(t)
    PROVE  inBuf' \in {inBuf, "none", "live"} /\ outQueue' \in QueueMoves
<1> USE DEF QueueMoves, input
<1>1. CASE UseOk(t)
  <2>1. t \in {"input", "render", "choreographer"}
    BY ThreadNames DEF AllFlags
  <2>2. CASE t = "input" /\ phase = "queue"
    BY <1>1, <2>2 DEF UseOk
  <2>3. CASE t = "input" /\ phase # "queue"
    BY <1>1, <2>3 DEF UseOk, Fetched
  <2>4. CASE t = "render"
    BY <1>1, <2>4 DEF UseOk
  <2>5. CASE t = "choreographer"
    BY <1>1, <2>5 DEF UseOk
  <2> QED
    BY <2>1, <2>2, <2>3, <2>4, <2>5
<1>2. ASSUME NEW k \in Kinds, UseFails(t, k)
      PROVE  inBuf' \in {inBuf, "none", "live"} /\ outQueue' \in QueueMoves
  BY <1>2 DEF UseFails
<1>3. CASE Use(t) \/ UseTransient(t) \/ HandleStopping(t) \/ HandleTries(t) \/ HandleOver(t)
           \/ Ask(t) \/ Promote(t) \/ Verify(t) \/ Check(t)
  BY <1>3 DEF Use, UseTransient, HandleStopping, HandleTries, HandleOver, Ask, Promote, Verify, Check
<1> QED
  BY <1>1, <1>2, <1>3 DEF Outside

LEMMA BufferTypesInv == ASSUME BufferTypes, [Next]_vars PROVE BufferTypes'
<1>1. ASSUME NEW t \in Threads, Use(t) \/ Step(t) PROVE BufferTypes'
  <2>1. CASE Outside(t)
    BY <2>1, OutsideBuffers, QueueMovesTyped DEF BufferTypes, Buffers
  <2>2. CASE EnterLast(t) \/ EnterLastIdle(t)
    <3>1. inBuf' = "none" /\ outQueue' = <<>>
      BY <2>2 DEF EnterLast, EnterLastIdle, ForgetBuffers
    <3>2. <<>> \in Seq(Buffers \ {"none"}) /\ Len(<<>>) = 0
      OBVIOUS
    <3> QED
      BY <3>1, <3>2 DEF BufferTypes, Buffers, QueueLimit
  <2>3. CASE EnterWait(t) \/ Wake(t) \/ SettleDone(t) \/ SettleFails(t)
    BY <2>3 DEF EnterWait, Wake, SettleDone, SettleFails, input, BufferTypes
  <2>4. CASE Recover(t)
    <3>1. inBuf' \in Buffers
      BY <2>4 DEF Recover, Aged, BufferTypes, Buffers
    <3>2. PICK n \in Nat : n = Len(outQueue) /\ n <= QueueLimit
      BY DEF BufferTypes, QueueLimit
    <3>3. outQueue' = [i \in 1 .. n |-> "stale"]
      BY <2>4, <3>2 DEF Recover, BufferTypes
    <3>4. outQueue' \in Seq(Buffers \ {"none"}) /\ Len(outQueue') = n
      BY <3>3 DEF Buffers
    <3> QED
      BY <3>1, <3>2, <3>4 DEF BufferTypes
  <2> QED
    BY <1>1, <2>1, <2>2, <2>3, <2>4 DEF Step, Outside
<1>2. CASE Starting \/ Hdr \/ Leaving \/ Stopping
  BY <1>2 DEF Starting, StartRenderer, StartRest, Hdr, SetHdrMetadata, SetHdrRestart, Leaving,
     RenderLeaves, ChoreographerLeaves, InputLeaves, Stopping, SurfaceGone, SurfaceReset, StopCalled,
     StopReset, PrepareFlag, PrepareReset, JoinThreads, input, BufferTypes
<1>3. CASE UNCHANGED vars
  BY <1>3 DEF vars, input, BufferTypes
<1> QED
  BY <1>1, <1>2, <1>3 DEF Next

LEMMA TypeInv == ASSUME TypeOK, [Next]_vars PROVE TypeOK'
<1>1. PcTypes /\ CodecTypes /\ BufferTypes /\ FlagTypes /\ EndTypes
  BY TypeParts
<1>2. (PcTypes /\ CodecTypes /\ BufferTypes /\ FlagTypes /\ EndTypes)'
  BY <1>1, PcTypesInv, CodecTypesInv, BufferTypesInv, FlagTypesInv, EndTypesInv
<1> QED
  BY <1>2 DEF TypeOK, PcTypes, CodecTypes, BufferTypes, FlagTypes, EndTypes

-----------------------------------------------------------------------------
(* What the threads that recover the codec know of the others.               *)

(* Outside the monitor nothing happens that a thread in it relies on.        *)
LEMMA OutsideInv ==
    ASSUME TypeOK, Monitor, ~crashed, NEW t \in Threads, Outside(t)
    PROVE  Monitor'
<1> USE DEF Abroad
<1>1. PcTypes /\ BufferTypes /\ early \in BOOLEAN /\ stopping \in BOOLEAN
  BY TypeParts DEF FlagTypes
<1>2. /\ flags' = flags /\ attempts' = attempts /\ stopping' = stopping
      /\ started' = started /\ interrupted' = interrupted /\ stop' = stop
      /\ pc[t] \in Abroad
      /\ (type' = type /\ early' = early)
          \/ (pc[t] = "promote" /\ type' # "none" /\ early' = (early \/ (Balanced /\ started # "all")))
          \/ (type # "none" /\ type' # "none" /\ early' = early)
      /\ owesIdr' = owesIdr \/ owesIdr' = FALSE
  <2>1. UNCHANGED ends
    BY <1>1, OutsideMoves
  <2> QED
    BY <1>1, <2>1, OutsideMoves DEF ends
<1>3. /\ pc'[t] \in Abroad \cup {"enter"}
      /\ pc'[t] = "enter" => type # "none"
      /\ pc'[t] = "promote" => attempts < MaxTries
  BY <1>1, OutsideMoves
<1>4. \A u \in Threads \ {t} : pc'[u] = pc[u]
  BY <1>1, OutsideMoves
<1>5. /\ \A u \in Threads : Recovering(u)' <=> Recovering(u)
      /\ MonitorFree' <=> MonitorFree
  BY <1>2, <1>3, <1>4 DEF Recovering, MonitorFree
<1>6. Starts' /\ Stops'
  BY <1>2, <1>3, <1>4 DEF Monitor, Starts, Stops
<1>7. NotEarly'
  <2> SUFFICES ASSUME Balanced, ~early', started' # "all"
               PROVE  /\ type' = "none" /\ flags' = {}
                      /\ \A u \in Threads : pc'[u] \notin InMonitor \cup {"enter"}
    BY DEF NotEarly
  <2>1. ~early /\ started # "all" /\ type' = type
    <3>1. early' = early /\ started # "all"
      BY <1>2
    <3>2. type = "none"
      BY <3>1 DEF Monitor, NotEarly
    <3> QED
      BY <1>2, <3>1, <3>2
  <2>2. type = "none" /\ flags = {} /\ \A u \in Threads : pc[u] \notin InMonitor \cup {"enter"}
    BY <2>1 DEF Monitor, NotEarly
  <2> QED
    BY <1>2, <1>3, <1>4, <2>1, <2>2 DEF InMonitor
<1>8. OneRecovers'
  BY <1>5 DEF Monitor, OneRecovers
<1>9. FlagsHeld' /\ Pending'
  <2>1. early' \/ ~early
    BY <1>2
  <2>2. ~stopping => t \notin flags \/ Miscounted(t)
    BY <1>2 DEF Monitor, FlagsHeld, InMonitor
  <2>3. FlagsHeld'
    BY <1>2, <1>3, <1>4, <2>1, <2>2 DEF Monitor, FlagsHeld, Miscounted, InMonitor
  <2>4. Pending'
    BY <1>1, <1>2, <1>3, <1>4, <2>1, <2>2 DEF Monitor, Pending, Miscounted
  <2> QED
    BY <2>3, <2>4
<1>10. OthersWait'
  BY <1>1, <1>2, <1>3, <1>4, <1>5 DEF Monitor, OthersWait, Miscounted
<1>11. Forgotten'
  <2> SUFFICES ASSUME ~stopping', ~early'
               PROVE  /\ inBuf' # "stale" /\ \A i \in DOMAIN outQueue' : outQueue'[i] # "stale"
                      /\ ~MonitorFree' => inBuf' = "none" /\ outQueue' = <<>>
    BY DEF Forgotten
  <2>1. ~stopping /\ ~early
    BY <1>1, <1>2
  <2>2. inBuf' # "stale" /\ \A i \in DOMAIN outQueue' : outQueue'[i] # "stale"
    BY <1>1, <2>1, OutsideBuffers, QueueMovesTyped DEF Monitor, Forgotten
  <2>3. MonitorFree
    BY <1>2, <2>1 DEF Monitor, OthersWait, MonitorFree, Recovering, Miscounted
  <2> QED
    BY <1>5, <2>2, <2>3
<1>12. OwesWaiting'
  BY <1>2, <1>3, <1>4, ThreadNames DEF Monitor, OwesWaiting
<1>13. TriesKept'
  <2>1. pc[t] = "promote" /\ ~stopping /\ ~early => attempts < MaxTries
    BY DEF Monitor, TriesKept
  <2>2. (\E u \in Threads : pc'[u] = "promote") /\ ~stopping /\ ~early => attempts < MaxTries
    BY <1>3, <1>4 DEF Monitor, TriesKept
  <2> QED
    BY <1>1, <1>2, <1>5, <2>1, <2>2 DEF Monitor, TriesKept
<1> QED
  BY <1>6, <1>7, <1>8, <1>9, <1>10, <1>11, <1>12, <1>13 DEF Monitor

(* The last thread in finds the others waiting, and a try left for it.       *)
LEMMA EnterLastInv ==
    ASSUME TypeOK, Monitor, ~crashed, NEW t \in Threads, EnterLast(t)
    PROVE  Monitor'
<1>1. PcTypes /\ CodecTypes /\ early \in BOOLEAN /\ stopping \in BOOLEAN
  BY TypeParts DEF FlagTypes
<1>2. /\ type' = type /\ stopping' = stopping /\ early' = early /\ owesIdr' = owesIdr
      /\ started' = started /\ interrupted' = interrupted /\ stop' = stop /\ crashed' = crashed
      /\ inBuf' = "none" /\ outQueue' = <<>> /\ attempts' = attempts + 1
      /\ pc[t] = "enter" /\ MonitorFree /\ type # "none"
  BY DEF EnterLast, ends, hist, over, ForgetBuffers
<1>3. pc'[t] = "recover" /\ \A u \in Threads \ {t} : pc'[u] = pc[u]
  BY <1>1 DEF EnterLast, PcTypes
<1>4. /\ Recovering(t)' /\ ~MonitorFree'
      /\ \A u \in Threads \ {t} : ~Recovering(u)' /\ ~Recovering(u)
  BY <1>2, <1>3 DEF Recovering, MonitorFree
<1>5. ~stopping => \A u \in Threads \ {t} : pc[u] = "waiting" \/ Miscounted(u)
  <2> SUFFICES ASSUME ~stopping, NEW u \in Threads \ {t} PROVE pc[u] = "waiting" \/ Miscounted(u)
    OBVIOUS
  <2>1. CASE u \in flags
    BY <1>2, <2>1 DEF Monitor, FlagsHeld, InMonitor, MonitorFree
  <2>2. CASE u = "choreographer" /\ Balanced /\ started # "all"
    BY <1>1, <1>2, <2>2 DEF Monitor, NotEarly, Miscounted
  <2> QED
    BY <2>1, <2>2, LastMeans DEF EnterLast
<1>6. Starts' /\ Stops' /\ OneRecovers'
  BY <1>2, <1>3, <1>4 DEF Monitor, Starts, Stops, OneRecovers
<1>7. NotEarly'
  BY <1>2 DEF Monitor, NotEarly
<1>8. OthersWait'
  BY <1>2, <1>3, <1>4, <1>5 DEF OthersWait, Miscounted
<1>9. FlagsHeld' /\ Pending'
  BY <1>2, <1>3, <1>5 DEF FlagsHeld, Pending, Miscounted, InMonitor
<1>10. Forgotten'
  BY <1>2 DEF Forgotten
<1>11. OwesWaiting'
  BY <1>2, <1>3, ThreadNames DEF Monitor, OwesWaiting
<1>12. TriesKept'
  <2> SUFFICES ASSUME ~stopping, ~early
               PROVE  attempts + 1 <= MaxTries /\ ~\E u \in Threads : pc'[u] = "promote"
    BY <1>2, <1>4 DEF TriesKept
  <2>1. attempts < MaxTries
    BY <1>2 DEF Monitor, TriesKept
  <2>2. \A u \in Threads \ {t} : pc[u] = "waiting"
    BY <1>5 DEF Miscounted
  <2> QED
    BY <1>1, <1>3, <2>1, <2>2, CodecAssumption DEF CodecTypes
<1> QED
  BY <1>6, <1>7, <1>8, <1>9, <1>10, <1>11, <1>12 DEF Monitor

(* A last thread in finds the request gone only once the stream is told to   *)
(* stop, or when it is the choreographer that was counted before.            *)
LEMMA EnterLastIdleInv ==
    ASSUME TypeOK, Monitor, ~crashed, NEW t \in Threads, EnterLastIdle(t)
    PROVE  Monitor'
<1>1. PcTypes /\ early \in BOOLEAN /\ stopping \in BOOLEAN
  BY TypeParts DEF FlagTypes
<1>2. /\ type' = type /\ stopping' = stopping /\ early' = early /\ attempts' = attempts
      /\ started' = started /\ interrupted' = interrupted /\ stop' = stop /\ crashed' = crashed
      /\ inBuf' = "none" /\ outQueue' = <<>> /\ flags' = {}
      /\ pc[t] = "enter" /\ MonitorFree /\ type = "none" /\ Return(t, TRUE)
  BY DEF EnterLastIdle, ends, over
<1>3. /\ pc' = [pc EXCEPT ![t] = "run"]
      /\ owesIdr' = IF t = "input" THEN FALSE ELSE owesIdr
  BY <1>2 DEF Return
<1>4. pc'[t] = "run" /\ \A u \in Threads \ {t} : pc'[u] = pc[u]
  BY <1>1, <1>3 DEF PcTypes
<1>5. MonitorFree' /\ \A u \in Threads : ~Recovering(u)'
  BY <1>2, <1>4 DEF Recovering, MonitorFree
<1>6. Starts' /\ Stops' /\ OneRecovers' /\ OthersWait'
  BY <1>2, <1>4, <1>5 DEF Monitor, Starts, Stops, OneRecovers, OthersWait
<1>7. NotEarly' /\ FlagsHeld' /\ Forgotten'
  BY <1>2, <1>4, <1>5 DEF Monitor, NotEarly, FlagsHeld, Forgotten, InMonitor
<1>8. Pending'
  BY <1>2, <1>4 DEF Monitor, Pending, Miscounted
<1>9. OwesWaiting'
  BY <1>2, <1>3, <1>4, ThreadNames DEF Monitor, OwesWaiting
<1>10. TriesKept'
  BY <1>2, <1>4, <1>5 DEF Monitor, TriesKept
<1> QED
  BY <1>6, <1>7, <1>8, <1>9, <1>10 DEF Monitor

LEMMA EnterWaitInv ==
    ASSUME TypeOK, Monitor, ~crashed, NEW t \in Threads, EnterWait(t)
    PROVE  Monitor'
<1>1. PcTypes /\ early \in BOOLEAN /\ stopping \in BOOLEAN
  BY TypeParts DEF FlagTypes
<1>2. /\ type' = type /\ stopping' = stopping /\ early' = early /\ attempts' = attempts
      /\ started' = started /\ interrupted' = interrupted /\ stop' = stop /\ crashed' = crashed
      /\ inBuf' = inBuf /\ outQueue' = outQueue /\ owesIdr' = owesIdr
      /\ pc[t] = "enter" /\ MonitorFree /\ flags' = WithFlag(t)
  BY DEF EnterWait, ends, over, hist, input
<1>3. pc'[t] = "waiting" /\ \A u \in Threads \ {t} : pc'[u] = pc[u]
  BY <1>1 DEF EnterWait, PcTypes
<1>4. MonitorFree' /\ \A u \in Threads : ~Recovering(u)'
  BY <1>2, <1>3 DEF Recovering, MonitorFree
<1>5. \A u \in flags' \cap Threads : u \in flags \/ u = t \/ Miscounted(u)
  BY <1>1, <1>2, ThreadNames DEF WithFlag, NoChoreographer, Monitor, NotEarly, Miscounted
<1>6. Starts' /\ Stops' /\ OneRecovers' /\ OthersWait'
  BY <1>2, <1>3, <1>4 DEF Monitor, Starts, Stops, OneRecovers, OthersWait
<1>7. NotEarly' /\ Forgotten'
  BY <1>2, <1>4 DEF Monitor, NotEarly, Forgotten
<1>8. FlagsHeld'
  BY <1>2, <1>3, <1>5 DEF Monitor, FlagsHeld, Miscounted, InMonitor
<1>9. Pending'
  BY <1>2, <1>3, <1>5 DEF Monitor, Pending, Miscounted
<1>10. OwesWaiting' /\ TriesKept'
  BY <1>2, <1>3, <1>4, ThreadNames DEF Monitor, OwesWaiting, TriesKept
<1> QED
  BY <1>6, <1>7, <1>8, <1>9, <1>10 DEF Monitor

(* While the stream runs a thread leaves only after the request is gone, and *)
(* all flags with it.                                                        *)
LEMMA WakeInv ==
    ASSUME TypeOK, Monitor, ~crashed, NEW t \in Threads, Wake(t)
    PROVE  Monitor'
<1>1. PcTypes /\ early \in BOOLEAN /\ stopping \in BOOLEAN
  BY TypeParts DEF FlagTypes
<1>2. /\ type' = type /\ stopping' = stopping /\ early' = early /\ attempts' = attempts
      /\ started' = started /\ interrupted' = interrupted /\ stop' = stop /\ crashed' = crashed
      /\ inBuf' = inBuf /\ outQueue' = outQueue /\ flags' = flags
      /\ pc[t] = "waiting" /\ MonitorFree /\ Return(t, TRUE) /\ Leaves(t)
  BY DEF Wake, WaitedReturn, ends, over
<1>3. /\ pc' = [pc EXCEPT ![t] = "run"]
      /\ owesIdr' = IF t = "input" THEN FALSE ELSE owesIdr
  BY <1>2 DEF Return
<1>4. pc'[t] = "run" /\ \A u \in Threads \ {t} : pc'[u] = pc[u]
  BY <1>1, <1>3 DEF PcTypes
<1>5. MonitorFree' /\ \A u \in Threads : ~Recovering(u)'
  BY <1>2, <1>4 DEF Recovering, MonitorFree
<1>6. ~stopping => type = "none"
  BY <1>2 DEF Leaves, Monitor, Stops
<1>7. Starts' /\ Stops' /\ OneRecovers' /\ OthersWait'
  BY <1>2, <1>4, <1>5 DEF Monitor, Starts, Stops, OneRecovers, OthersWait
<1>8. NotEarly' /\ Forgotten'
  BY <1>2, <1>4, <1>5 DEF Monitor, NotEarly, Forgotten, InMonitor
<1>9. FlagsHeld' /\ Pending'
  BY <1>2, <1>4, <1>6 DEF Monitor, FlagsHeld, Pending, Miscounted
<1>10. OwesWaiting'
  BY <1>2, <1>3, <1>4, ThreadNames DEF Monitor, OwesWaiting
<1>11. TriesKept'
  BY <1>2, <1>4, <1>5 DEF Monitor, TriesKept
<1> QED
  BY <1>7, <1>8, <1>9, <1>10, <1>11 DEF Monitor

(* The codec is stopped, reset or made anew while nobody holds a buffer.     *)
LEMMA RecoverInv ==
    ASSUME TypeOK, Monitor, ~crashed, NEW t \in Threads, Recover(t)
    PROVE  Monitor'
<1>1. PcTypes /\ BufferTypes /\ early \in BOOLEAN /\ stopping \in BOOLEAN
  BY TypeParts DEF FlagTypes
<1>2. /\ type' = type /\ stopping' = stopping /\ early' = early /\ attempts' = attempts
      /\ started' = started /\ interrupted' = interrupted /\ stop' = stop /\ crashed' = crashed
      /\ flags' = flags /\ owesIdr' = owesIdr /\ pc[t] = "recover"
  BY DEF Recover, ends, over, hist
<1>3. pc'[t] = "settle" /\ \A u \in Threads \ {t} : pc'[u] = pc[u]
  BY <1>1 DEF Recover, PcTypes
<1>4. /\ ~MonitorFree /\ ~MonitorFree'
      /\ \A u \in Threads : Recovering(u)' <=> Recovering(u)
  BY <1>2, <1>3 DEF Recovering, MonitorFree
<1>5. Starts' /\ Stops' /\ OneRecovers' /\ OthersWait'
  BY <1>2, <1>3, <1>4 DEF Monitor, Starts, Stops, OneRecovers, OthersWait, Recovering, Miscounted
<1>6. NotEarly' /\ FlagsHeld' /\ Pending'
  BY <1>2, <1>3 DEF Monitor, NotEarly, FlagsHeld, Pending, InMonitor, Miscounted
<1>7. Forgotten'
  <2> SUFFICES ASSUME ~stopping, ~early PROVE inBuf' = "none" /\ outQueue' = <<>>
    BY <1>2 DEF Forgotten
  <2>1. inBuf = "none" /\ outQueue = <<>>
    BY <1>4 DEF Monitor, Forgotten
  <2>2. outQueue' = [i \in {} |-> "stale"]
    BY <2>1 DEF Recover
  <2> QED
    BY <2>1, <2>2 DEF Recover, Aged
<1>8. OwesWaiting' /\ TriesKept'
  BY <1>2, <1>3, <1>4, ThreadNames DEF Monitor, OwesWaiting, TriesKept
<1> QED
  BY <1>5, <1>6, <1>7, <1>8 DEF Monitor

(* The request goes together with all flags, and the input thread, whoever   *)
(* has recovered the codec, is yet to ask for its frame.                     *)
LEMMA SettleDoneInv ==
    ASSUME TypeOK, Monitor, ~crashed, NEW t \in Threads, SettleDone(t)
    PROVE  Monitor'
<1>1. PcTypes /\ early \in BOOLEAN /\ stopping \in BOOLEAN
  BY TypeParts DEF FlagTypes
<1>2. /\ type' = "none" /\ early' = early /\ attempts' = attempts /\ flags' = {}
      /\ started' = started /\ interrupted' = interrupted /\ stop' = stop /\ crashed' = crashed
      /\ owesIdr' = (t # "input") /\ pc[t] = "settle" /\ inBuf' = inBuf /\ outQueue' = outQueue
      /\ stopping' = (stopping \/ outcome = "surface")
  BY DEF SettleDone, ends, over, input
<1>3. pc'[t] = "run" /\ \A u \in Threads \ {t} : pc'[u] = pc[u]
  BY <1>1 DEF SettleDone, PcTypes
<1>4. \A u \in Threads \ {t} : ~Recovering(u)
  BY <1>2 DEF Monitor, OneRecovers, Recovering
<1>5. MonitorFree' /\ \A u \in Threads : ~Recovering(u)'
  BY <1>3, <1>4 DEF Recovering, MonitorFree
<1>6. ~stopping => \A u \in Threads \ {t} : pc[u] = "waiting" \/ Miscounted(u)
  BY <1>2 DEF Monitor, OthersWait, Recovering
<1>7. ~stopping' => ~stopping
  BY <1>1, <1>2
<1>8. Starts' /\ OneRecovers' /\ OthersWait'
  BY <1>2, <1>3, <1>5 DEF Monitor, Starts, OneRecovers, OthersWait
<1>9. Stops'
  BY <1>1, <1>2 DEF Monitor, Stops
<1>10. NotEarly' /\ FlagsHeld'
  BY <1>2, <1>3 DEF Monitor, NotEarly, FlagsHeld, InMonitor
<1>11. Pending'
  BY <1>2, <1>3, <1>6, <1>7 DEF Pending, Miscounted
<1>12. Forgotten'
  BY <1>2, <1>5, <1>7 DEF Monitor, Forgotten
<1>13. OwesWaiting'
  <2>1. CASE t = "input"
    <3>1. ~owesIdr'
      BY <1>2, <2>1
    <3> QED
      BY <3>1 DEF OwesWaiting
  <2>2. CASE t # "input"
    BY <1>3, <1>6, <1>7, <2>2, ThreadNames DEF OwesWaiting, Miscounted
  <2> QED
    BY <2>1, <2>2
<1>14. TriesKept'
  BY <1>2, <1>3, <1>5, <1>7 DEF Monitor, TriesKept
<1> QED
  BY <1>8, <1>9, <1>10, <1>11, <1>12, <1>13, <1>14 DEF Monitor

(* The next bigger hammer is swung by the same thread, and if there is none *)
(* left nothing happens any more.                                            *)
LEMMA SettleFailsInv ==
    ASSUME TypeOK, Monitor, ~crashed, NEW t \in Threads, SettleFails(t)
    PROVE  Monitor'
<1>1. PcTypes /\ CodecTypes /\ early \in BOOLEAN /\ stopping \in BOOLEAN
  BY TypeParts DEF FlagTypes
<1>2. /\ stopping' = stopping /\ early' = early /\ attempts' = attempts /\ flags' = flags
      /\ started' = started /\ interrupted' = interrupted /\ stop' = stop
      /\ owesIdr' = owesIdr /\ pc[t] = "settle" /\ inBuf' = inBuf /\ outQueue' = outQueue
  BY DEF SettleFails, ends, hist, input
<1>3. /\ \A u \in Threads \ {t} : pc'[u] = pc[u]
      /\ \/ pc'[t] = "recover" /\ crashed' = crashed
         \/ pc'[t] = "gone" /\ crashed' = TRUE
      /\ type' = type \/ type' = "reset"
  BY <1>1 DEF SettleFails, PcTypes, CodecTypes, Stages
<1>4. Recovering(t) /\ ~MonitorFree /\ \A u \in Threads \ {t} : ~Recovering(u) /\ ~Recovering(u)'
  BY <1>2, <1>3 DEF Monitor, OneRecovers, Recovering, MonitorFree
<1>5. ~stopping => \A u \in Threads \ {t} : pc[u] = "waiting" \/ Miscounted(u)
  BY <1>4 DEF Monitor, OthersWait
<1>6. Starts' /\ Stops' /\ OneRecovers' /\ OthersWait'
  BY <1>2, <1>3, <1>4, <1>5 DEF Monitor, Starts, Stops, OneRecovers, OthersWait, Miscounted
<1>7. NotEarly'
  BY <1>2 DEF Monitor, NotEarly, InMonitor
<1>8. FlagsHeld'
  BY <1>2, <1>3 DEF Monitor, FlagsHeld, InMonitor, Miscounted
<1>9. Pending'
  BY <1>2, <1>3, <1>5 DEF Monitor, Pending, Miscounted
<1>10. Forgotten'
  BY <1>2, <1>4 DEF Monitor, Forgotten
<1>11. OwesWaiting'
  BY <1>2, <1>3, ThreadNames DEF Monitor, OwesWaiting
<1>12. TriesKept'
  <2>1. crashed' \/ ~MonitorFree'
    BY <1>3 DEF MonitorFree
  <2> QED
    BY <1>2, <1>3, <2>1 DEF Monitor, TriesKept
<1> QED
  BY <1>6, <1>7, <1>8, <1>9, <1>10, <1>11, <1>12 DEF Monitor

(* The threads are made, or end, while no other has the codec in hand. *)
LEMMA StartingInv ==
    ASSUME TypeOK, Monitor, ~crashed, Starting
    PROVE  Monitor'
<1>1. PcTypes /\ early \in BOOLEAN /\ stopping \in BOOLEAN
  BY TypeParts DEF FlagTypes
<1>2. /\ type' = type /\ stopping' = stopping /\ early' = early /\ attempts' = attempts
      /\ interrupted' = interrupted /\ stop' = stop /\ crashed' = crashed
      /\ inBuf' = inBuf /\ outQueue' = outQueue /\ flags' = flags /\ owesIdr' = owesIdr
  BY DEF Starting, StartRenderer, StartRest, ends, over, hist, input
<1>3. /\ \A u \in Threads : pc'[u] = pc[u] \/ (pc[u] = "off" /\ pc'[u] = "run")
      /\ started = "no" => started' = "render" /\ \A u \in Threads \ {"render"} : pc'[u] = pc[u]
      /\ started' # "no" /\ (started # "no" => started' = "all")
  BY <1>1, ThreadNames DEF Monitor, Starts, Starting, StartRenderer, StartRest, PcTypes
<1>4. /\ MonitorFree' <=> MonitorFree
      /\ \A u \in Threads : Recovering(u)' <=> Recovering(u)
  BY <1>3 DEF Recovering, MonitorFree
<1>5. Starts' /\ Stops' /\ OneRecovers'
  BY <1>2, <1>3, <1>4 DEF Monitor, Starts, Stops, OneRecovers
<1>6. NotEarly'
  BY <1>2, <1>3 DEF Monitor, NotEarly, InMonitor, Starts, Starting, StartRenderer, StartRest
<1>7. FlagsHeld' /\ Pending' /\ OthersWait'
  BY <1>2, <1>3, <1>4 DEF Monitor, FlagsHeld, Pending, OthersWait, InMonitor, Miscounted
<1>8. Forgotten' /\ OwesWaiting' /\ TriesKept'
  BY <1>2, <1>3, <1>4, ThreadNames DEF Monitor, Forgotten, OwesWaiting, TriesKept
<1> QED
  BY <1>5, <1>6, <1>7, <1>8 DEF Monitor

LEMMA LeavingInv ==
    ASSUME TypeOK, Monitor, ~crashed, Leaving
    PROVE  Monitor'
<1>1. PcTypes /\ early \in BOOLEAN /\ stopping \in BOOLEAN
  BY TypeParts DEF FlagTypes
<1>2. /\ type' = type /\ stopping' = stopping /\ early' = early /\ attempts' = attempts
      /\ interrupted' = interrupted /\ crashed' = crashed /\ started' = started
      /\ inBuf' = inBuf /\ outQueue' = outQueue /\ flags' = flags /\ owesIdr' = owesIdr
      /\ stop' = stop \/ stop # "no"
  BY DEF Leaving, RenderLeaves, ChoreographerLeaves, InputLeaves, ends, over, hist, input
<1>3. PICK t \in Threads : /\ pc[t] = "run" /\ pc'[t] = "gone"
                           /\ \A u \in Threads \ {t} : pc'[u] = pc[u]
  BY <1>1, ThreadNames DEF Leaving, RenderLeaves, ChoreographerLeaves, InputLeaves, PcTypes
<1>4. /\ MonitorFree' <=> MonitorFree
      /\ \A u \in Threads : Recovering(u)' <=> Recovering(u)
  BY <1>3 DEF Recovering, MonitorFree
<1>5. Starts' /\ Stops' /\ OneRecovers'
  BY <1>1, <1>2, <1>3, <1>4 DEF Monitor, Starts, Stops, OneRecovers
<1>6. NotEarly' /\ FlagsHeld' /\ Pending' /\ OthersWait'
  BY <1>2, <1>3, <1>4 DEF Monitor, NotEarly, FlagsHeld, Pending, OthersWait, InMonitor, Miscounted
<1>7. Forgotten' /\ OwesWaiting' /\ TriesKept'
  BY <1>2, <1>3, <1>4, ThreadNames DEF Monitor, Forgotten, OwesWaiting, TriesKept
<1> QED
  BY <1>5, <1>6, <1>7 DEF Monitor

(* The control thread and the stop never touch a flag or a buffer, and take  *)
(* a request back only once the stream is told to stop.                      *)
LEMMA ControlInv ==
    ASSUME TypeOK, Monitor, ~crashed, Hdr \/ Stopping
    PROVE  Monitor'
<1>1. early \in BOOLEAN /\ stopping \in BOOLEAN /\ interrupted \in BOOLEAN /\ CodecTypes
  BY TypeParts DEF FlagTypes
<1>2. /\ pc' = pc /\ flags' = flags /\ owesIdr' = owesIdr /\ inBuf' = inBuf /\ outQueue' = outQueue
      /\ started' = started /\ crashed' = crashed
  BY DEF Hdr, SetHdrMetadata, SetHdrRestart, Stopping, SurfaceGone, SurfaceReset, StopCalled,
     StopReset, PrepareFlag, PrepareReset, JoinThreads, over, hist, input, ends
<1>3. \/ /\ type' = type /\ early' = early /\ attempts' = attempts
         /\ stopping' = TRUE \/ (stopping' = stopping /\ stop' = stop /\ interrupted' = interrupted)
      \/ /\ early' = (early \/ (Balanced /\ started # "all")) /\ type' # "none" /\ attempts' = 0
         /\ stopping' = stopping /\ stop' = stop /\ interrupted' = interrupted
      \/ /\ stopping /\ stopping' = stopping /\ early' = early /\ type' = "none"
  <2>1. CASE SetHdrMetadata
    BY <2>1 DEF SetHdrMetadata, hist, ends
  <2>2. CASE SetHdrRestart
    BY <2>2 DEF SetHdrRestart, HdrRequest, ends
  <2>3. CASE SurfaceGone \/ StopCalled
    BY <2>3 DEF SurfaceGone, StopCalled, PrepareFlag, hist
  <2>4. CASE SurfaceReset \/ StopReset
    BY <2>4 DEF SurfaceReset, StopReset, PrepareReset, NoRequest, hist, Monitor, Stops
  <2>5. CASE JoinThreads
    BY <2>5 DEF JoinThreads, hist, Monitor, Stops
  <2> QED
    BY <2>1, <2>2, <2>3, <2>4, <2>5 DEF Hdr, Stopping
<1>4. /\ MonitorFree' <=> MonitorFree
      /\ \A u \in Threads : Recovering(u)' <=> Recovering(u)
  BY <1>2 DEF Recovering, MonitorFree
<1>5. (~stopping' => ~stopping) /\ (~early' => ~early)
  BY <1>1, <1>3
<1>6. Starts' /\ OneRecovers'
  BY <1>2, <1>4 DEF Monitor, Starts, OneRecovers
<1>7. Stops'
  <2>1. CASE SetHdrMetadata \/ SetHdrRestart
    BY <2>1 DEF SetHdrMetadata, SetHdrRestart, ends, Monitor, Stops
  <2>2. CASE SurfaceGone \/ StopCalled
    BY <2>2 DEF SurfaceGone, StopCalled, PrepareFlag, Stops
  <2>3. CASE SurfaceReset \/ StopReset \/ JoinThreads
    BY <2>3 DEF SurfaceReset, StopReset, PrepareReset, JoinThreads, Monitor, Stops
  <2> QED
    BY <2>1, <2>2, <2>3 DEF Hdr, Stopping
<1>8. NotEarly'
  <2> SUFFICES ASSUME Balanced, ~early', started # "all"
               PROVE  type' = "none" /\ flags = {}
                      /\ \A u \in Threads : pc[u] \notin InMonitor \cup {"enter"}
    BY <1>2 DEF NotEarly
  <2>1. type = "none" /\ flags = {} /\ \A u \in Threads : pc[u] \notin InMonitor \cup {"enter"}
    BY <1>5 DEF Monitor, NotEarly
  <2>2. early \/ (Balanced /\ started # "all")
    OBVIOUS
  <2> QED
    BY <1>3, <2>1, <2>2
<1>9. FlagsHeld' /\ OthersWait'
  BY <1>2, <1>4, <1>5 DEF Monitor, FlagsHeld, OthersWait, Miscounted
<1>10. Pending'
  <2> SUFFICES ASSUME ~stopping', type' = "none", NEW t \in Threads
               PROVE  \/ t \notin flags /\ pc[t] \notin {"enter", "recover", "settle"}
                      \/ Miscounted(t)'
    BY <1>2 DEF Pending
  <2>1. ~stopping /\ type = "none"
    BY <1>3, <1>5
  <2> QED
    BY <1>5, <2>1 DEF Monitor, Pending, Miscounted
<1>11. Forgotten'
  BY <1>2, <1>4, <1>5 DEF Monitor, Forgotten
<1>12. OwesWaiting'
  BY <1>2, <1>5 DEF Monitor, OwesWaiting
<1>13. TriesKept'
  <2> SUFFICES ASSUME ~stopping', ~early'
               PROVE  /\ attempts' <= MaxTries
                      /\ type' # "none" /\ MonitorFree /\ ~crashed => attempts' < MaxTries
                      /\ (\E u \in Threads : pc[u] = "promote") => attempts' < MaxTries
    BY <1>2, <1>4 DEF TriesKept
  <2>1. CASE attempts' = 0
    BY <2>1, CodecAssumption
  <2>2. CASE type' = type /\ attempts' = attempts
    BY <1>5, <2>2 DEF Monitor, TriesKept
  <2> QED
    BY <1>3, <1>5, <2>1, <2>2
<1> QED
  BY <1>6, <1>7, <1>8, <1>9, <1>10, <1>11, <1>12, <1>13 DEF Monitor

(* Only the thread that recovers the codec takes a request back, and all the *)
(* others wait for it then: none of them is between its compareAndSets.      *)
LEMMA RequestedInv ==
    ASSUME TypeOK, Monitor, Requested, ~crashed, Next
    PROVE  Requested'
<1>1. /\ PcTypes /\ type \in {"none", "restart", "reset"}
      /\ early \in BOOLEAN /\ stopping \in BOOLEAN
  BY TypeParts DEF FlagTypes, CodecTypes
<1> DEFINE Stands(u) == /\ pc[u] # "thrown"
                        /\ pc[u] \in {"asked", "verify"} => type # "none"
                        /\ pc[u] = "verify" => StrongEnough(kind[u])
<1> SUFFICES ASSUME ~stopping', ~early', NEW u \in Threads
             PROVE  Stands(u)'
  BY DEF Requested
<1>2. ASSUME ~stopping, ~early PROVE Stands(u)
  BY <1>2 DEF Requested
<1>3. ASSUME NEW t \in Threads, Use(t) \/ Step(t) PROVE Stands(u)'
  <2> USE DEF StrongEnough
  <2>1. CASE Outside(t)
    <3>1. ~stopping /\ ~early /\ (t # u => pc'[u] = pc[u])
      BY <1>1, <2>1, OutsideMoves
    <3>2. Stands(u)
      BY <1>2, <3>1
    <3>3. CASE Use(t) \/ UseOk(t) \/ UseTransient(t) \/ Check(t)
      BY <1>1, <3>1, <3>2, <3>3 DEF Use, UseOk, UseTransient, Check, Return, handled, PcTypes
    <3>4. ASSUME NEW k \in Kinds, UseFails(t, k) PROVE Stands(u)'
      BY <1>1, <3>1, <3>2, <3>4 DEF UseFails, PcTypes
    <3>5. CASE HandleStopping(t) \/ HandleTries(t) \/ HandleOver(t)
      BY <1>1, <3>1, <3>2, <3>5 DEF HandleStopping, HandleTries, HandleOver, handled, PcTypes
    <3>6. CASE Ask(t)
      BY <1>1, <3>1, <3>2, <3>6 DEF Ask, Asked, Own, handled, PcTypes
    <3>7. CASE Promote(t)
      BY <1>1, <3>1, <3>2, <3>7, <1>2 DEF Promote, handled, PcTypes
    <3>8. CASE Verify(t)
      BY <1>1, <3>1, <3>2, <3>8 DEF Verify, handled, PcTypes
    <3> QED
      BY <2>1, <3>3, <3>4, <3>5, <3>6, <3>7, <3>8 DEF Outside
  <2>2. CASE EnterLast(t) \/ EnterLastIdle(t) \/ EnterWait(t) \/ Wake(t) \/ Recover(t)
    <3>1. ~stopping /\ ~early /\ type' = type /\ kind' = kind
      <4>1. CASE EnterLast(t) \/ EnterWait(t) \/ Recover(t)
        BY <4>1 DEF EnterLast, EnterWait, Recover, handled, hist
      <4>2. CASE EnterLastIdle(t)
        BY <4>2 DEF EnterLastIdle, handled
      <4>3. CASE Wake(t)
        BY <4>3 DEF Wake, handled
      <4> QED
        BY <2>2, <4>1, <4>2, <4>3
    <3>2. pc'[u] = pc[u] \/ pc'[u] \in {"run", "using", "recover", "waiting", "settle"}
      BY <1>1, <2>2 DEF EnterLast, EnterLastIdle, EnterWait, Wake, Recover, WaitedReturn, Return, PcTypes
    <3> QED
      BY <1>2, <3>1, <3>2
  <2>3. CASE SettleDone(t)
    <3>1. ~stopping /\ ~early /\ Recovering(t) /\ pc' = [pc EXCEPT ![t] = "run"]
      BY <1>1, <2>3 DEF SettleDone, Recovering
    <3>2. u # t => pc[u] = "waiting"
      BY <3>1 DEF Monitor, OthersWait, Miscounted
    <3> QED
      BY <1>1, <3>1, <3>2 DEF PcTypes
  <2>4. CASE SettleFails(t)
    <3>1. ~stopping /\ ~early /\ kind' = kind /\ (type' = type \/ type' = "reset")
      BY <1>1, <2>4, TypeParts DEF SettleFails, handled, hist, CodecTypes, Stages
    <3>2. pc'[u] = pc[u] \/ pc'[u] \in {"recover", "gone"}
      BY <1>1, <2>4, TypeParts DEF SettleFails, PcTypes, CodecTypes, Stages
    <3> QED
      BY <1>2, <3>1, <3>2
  <2> QED
    BY <1>3, <2>1, <2>2, <2>3, <2>4 DEF Step, Outside
<1>4. CASE Starting \/ Leaving
  <2>1. ~stopping /\ ~early /\ type' = type /\ kind' = kind
    BY <1>4 DEF Starting, StartRenderer, StartRest, Leaving, RenderLeaves, ChoreographerLeaves,
       InputLeaves, handled, hist
  <2>2. pc'[u] = pc[u] \/ pc'[u] \in {"run", "gone"}
    BY <1>1, <1>4 DEF Starting, StartRenderer, StartRest, Leaving, RenderLeaves, ChoreographerLeaves,
       InputLeaves, PcTypes
  <2> QED
    BY <1>2, <2>1, <2>2 DEF StrongEnough
<1>5. CASE Hdr
  <2>1. ~stopping /\ ~early /\ pc' = pc /\ kind' = kind /\ (type' = type \/ type' = HdrRequest)
    BY <1>1, <1>5 DEF Hdr, SetHdrMetadata, SetHdrRestart, handled, hist
  <2> QED
    BY <1>1, <1>2, <2>1 DEF HdrRequest, StrongEnough
<1>6. CASE Stopping
  <2>1. ~stopping /\ ~early /\ pc' = pc /\ kind' = kind /\ type' = type
    BY <1>1, <1>6 DEF Stopping, SurfaceGone, SurfaceReset, StopCalled, StopReset, PrepareFlag,
       PrepareReset, JoinThreads, handled, hist, Monitor, Stops
  <2> QED
    BY <1>2, <2>1 DEF StrongEnough
<1> QED
  BY <1>3, <1>4, <1>5, <1>6 DEF Next

-----------------------------------------------------------------------------
LEMMA InitInv == Init => IInv
<1> SUFFICES ASSUME Init PROVE IInv
  OBVIOUS
<1> USE ThreadNames, CodecAssumption DEF Init
<1>1. PcTypes /\ CodecTypes
  BY DEF PcTypes, CodecTypes, Places, Kinds, Stages
<1>2. BufferTypes
  <2>1. <<>> \in Seq(Buffers \ {"none"}) /\ Len(<<>>) = 0
    OBVIOUS
  <2> QED
    BY <2>1 DEF BufferTypes, Buffers, QueueLimit
<1>3. FlagTypes /\ EndTypes
  <2>1. FlagTypes
    BY DEF FlagTypes
  <2>2. EndTypes
    BY DEF EndTypes
  <2> QED
    BY <2>1, <2>2
<1>4. MonitorFree /\ \A t \in Threads : ~Recovering(t)
  BY DEF MonitorFree, Recovering
<1>5. Monitor
  BY <1>4 DEF Monitor, Starts, Stops, NotEarly, OneRecovers, FlagsHeld, Pending, OthersWait,
     Forgotten, OwesWaiting, TriesKept, InMonitor
<1>6. Requested
  BY DEF Requested
<1> QED
  BY <1>1, <1>2, <1>3, <1>5, <1>6, TypeParts DEF IInv

LEMMA StepInv == IInv /\ [Next]_vars => IInv'
<1> SUFFICES ASSUME IInv, [Next]_vars PROVE IInv'
  OBVIOUS
<1>1. TypeOK /\ Monitor /\ Requested /\ TypeOK'
  BY TypeInv DEF IInv
<1>2. ASSUME ~crashed, NEW t \in Threads, Use(t) \/ Step(t) PROVE Monitor'
  <2>1. CASE Outside(t)
    BY <1>1, <1>2, <2>1, OutsideInv
  <2>2. CASE EnterLast(t)
    BY <1>1, <1>2, <2>2, EnterLastInv
  <2>3. CASE EnterLastIdle(t)
    BY <1>1, <1>2, <2>3, EnterLastIdleInv
  <2>4. CASE EnterWait(t)
    BY <1>1, <1>2, <2>4, EnterWaitInv
  <2>5. CASE Wake(t)
    BY <1>1, <1>2, <2>5, WakeInv
  <2>6. CASE Recover(t)
    BY <1>1, <1>2, <2>6, RecoverInv
  <2>7. CASE SettleDone(t)
    BY <1>1, <1>2, <2>7, SettleDoneInv
  <2>8. CASE SettleFails(t)
    BY <1>1, <1>2, <2>8, SettleFailsInv
  <2> QED
    BY <1>2, <2>1, <2>2, <2>3, <2>4, <2>5, <2>6, <2>7, <2>8 DEF Step, Outside
<1>3. ASSUME ~crashed, Starting \/ Leaving \/ Hdr \/ Stopping PROVE Monitor'
  <2>1. CASE Starting
    BY <1>1, <1>3, <2>1, StartingInv
  <2>2. CASE Leaving
    BY <1>1, <1>3, <2>2, LeavingInv
  <2>3. CASE Hdr \/ Stopping
    BY <1>1, <1>3, <2>3, ControlInv
  <2> QED
    BY <1>3, <2>1, <2>2, <2>3
<1>4. ASSUME UNCHANGED vars PROVE Monitor'
  <2>1. (MonitorFree' <=> MonitorFree) /\ \A t \in Threads : Recovering(t)' <=> Recovering(t)
    BY <1>4 DEF vars, MonitorFree, Recovering
  <2>2. Starts' /\ Stops' /\ NotEarly' /\ OneRecovers'
    BY <1>1, <1>4, <2>1 DEF vars, Monitor, Starts, Stops, NotEarly, OneRecovers, ends, hist
  <2>3. FlagsHeld' /\ Pending' /\ OthersWait'
    BY <1>1, <1>4, <2>1 DEF vars, Monitor, FlagsHeld, Pending, OthersWait, Miscounted, hist, over
  <2>4. Forgotten' /\ OwesWaiting' /\ TriesKept'
    BY <1>1, <1>4, <2>1 DEF vars, Monitor, Forgotten, OwesWaiting, TriesKept, input, hist, over
  <2> QED
    BY <1>1, <2>2, <2>3, <2>4 DEF Monitor
<1>5. Requested'
  <2>1. CASE Next
    BY <1>1, <2>1, RequestedInv DEF Next
  <2>2. CASE UNCHANGED vars
    BY <1>1, <2>2 DEF vars, Requested, StrongEnough, handled, hist
  <2> QED
    BY <2>1, <2>2
<1> QED
  BY <1>1, <1>2, <1>3, <1>4, <1>5 DEF Next, IInv

(* What the flags stand for, in every reachable state. *)
THEOREM RecoveryInvariant == Spec => []IInv
BY InitInv, StepInv, PTL DEF Spec

(* Types, no buffer of a codec that was, and no more recoveries than tries   *)
(* between two changes of the metadata (handleDecoderException), whichever   *)
(* threads see the codec fail and when.                                      *)
THEOREM RecoveryIsSound == Spec => []RecoverySound
<1>1. IInv => RecoverySound
  BY DEF IInv, Monitor, RecoverySound, NoStaleBuffer, TriesBounded, RequestStands, Requested, Forgotten,
     TriesKept
<1> QED
  BY <1>1, RecoveryInvariant, PTL

(* While the stream runs, the thread that recovers the codec is alone with   *)
(* it: every other one waits (doCodecRecoveryIfRequired).                    *)
THEOREM AloneWithTheCodec == Spec => []QuiescedWhileStreaming
<1>1. IInv => QuiescedWhileStreaming
  BY DEF IInv, Monitor, QuiescedWhileStreaming, Quiesced, OthersWait, Miscounted
<1> QED
  BY <1>1, RecoveryInvariant, PTL

(* After a recovery the input thread asks for an IDR frame before it hands   *)
(* the codec another (submitDecodeUnit).                                     *)
THEOREM AsksForIdr == Spec => []IdrBeforeFrames
<1>1. IInv => IdrBeforeFrames
  BY DEF IInv, Monitor, IdrBeforeFrames, OwesWaiting
<1> QED
  BY <1>1, RecoveryInvariant, PTL

(* A request for a reset stands until it is served or the stream stops: no   *)
(* compareAndSet takes it back to a restart.                                 *)
THEOREM ResetStands == Spec => ResetNotWeakened
<1>1. IInv /\ [Next]_vars => [type = "reset" => type' \in {"reset", "none"}]_vars
  <2> SUFFICES ASSUME CodecTypes, Next, type = "reset" PROVE type' \in {"reset", "none"}
    BY TypeParts DEF IInv
  <2>1. ASSUME NEW t \in Threads, Use(t) \/ Step(t) PROVE type' \in {"reset", "none"}
    <3>1. CASE Use(t) \/ UseOk(t) \/ UseTransient(t) \/ \E k \in Kinds : UseFails(t, k)
      BY <3>1 DEF Use, UseOk, UseTransient, UseFails
    <3>2. CASE HandleStopping(t) \/ HandleTries(t) \/ HandleOver(t) \/ Ask(t) \/ Promote(t)
           \/ Verify(t) \/ Check(t)
      BY <3>2 DEF HandleStopping, HandleTries, HandleOver, Ask, Asked, Promote, Verify, Check
    <3>3. CASE EnterLast(t) \/ EnterLastIdle(t) \/ EnterWait(t) \/ Wake(t) \/ Recover(t)
      BY <3>3 DEF EnterLast, EnterLastIdle, EnterWait, Wake, Recover
    <3>4. CASE SettleDone(t) \/ SettleFails(t)
      BY <3>4 DEF SettleDone, SettleFails, CodecTypes, Stages
    <3> QED
      BY <2>1, <3>1, <3>2, <3>3, <3>4 DEF Step
  <2>2. CASE Starting \/ Leaving
    BY <2>2 DEF Starting, StartRenderer, StartRest, Leaving, RenderLeaves, ChoreographerLeaves,
       InputLeaves
  <2>3. CASE Hdr \/ Stopping
    BY <2>3 DEF Hdr, SetHdrMetadata, SetHdrRestart, HdrRequest, Stopping, SurfaceGone, SurfaceReset,
       StopCalled, StopReset, PrepareFlag, PrepareReset, NoRequest, JoinThreads
  <2> QED
    BY <2>1, <2>2, <2>3 DEF Next
<1> QED
  BY <1>1, RecoveryInvariant, PTL DEF Spec, ResetNotWeakened
=============================================================================
