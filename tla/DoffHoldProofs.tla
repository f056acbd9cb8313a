--------------------------- MODULE DoffHoldProofs ---------------------------
(***************************************************************************)
(* Proofs about the hold of a removed headset, for any length of the hold, *)
(* of its marks and of the launch's wait, and any number of presence       *)
(* changes on their way.                                                   *)
(*                                                                         *)
(* A hold is of a connected stream, and its clock is the sound's: whoever  *)
(* gives the sound back gives it back to a hold that has not run out. What *)
(* makes the stop of an activity, or an absence that was heard, last until *)
(* it is taken back is that the flags are cleared early only for a stream  *)
(* that is over, or one whose activity finishes and starts no hold again.  *)
(***************************************************************************)
EXTENDS DoffHold, TLAPS

(* A hold is of a stream that has connected, and the sound goes with it.    *)
Holds ==
  /\ holding \/ muted \/ notice => conn # "connecting"
  /\ MutedWhileHeld

(* The sound has been gone no longer than the hold has run.                 *)
Clocks ==
  /\ ~muted => mutedFor = 0
  /\ holding => mutedFor <= held

(* Only a finishing activity, or one destroyed while the launch was waited  *)
(* for, was to be stopped before its stream had connected.                  *)
EarlyEnds ==
  /\ early => finishing \/ (activity = "destroyed" /\ launchHeld)
  /\ early /\ holding /\ conn # "over" => activity = "destroyed" /\ launchHeld

(* A stopped activity is known to be stopped, unless the launch waits.      *)
StopsKnown ==
  conn # "over" /\ ~early =>
    /\ activity = "stopped" => launchHeld \/ (holding /\ stopped)
    /\ activity # "destroyed"

(* An absence the hold was told of is not forgotten under it.               *)
AwayKnown ==
  toldAway /\ ~unheard =>
    /\ conn # "connecting"
    /\ conn = "connected" => away \/ (finishing /\ ~holding)

IInv == TypeOK /\ Holds /\ Clocks /\ EarlyEnds /\ StopsKnown /\ AwayKnown

(* The types, by the groups in which the steps change them.                 *)
HoldTypes ==
  /\ holding \in BOOLEAN /\ muted \in BOOLEAN
  /\ held \in 0 .. Grace /\ mutedFor \in 0 .. Grace
  /\ due \in {NotPosted} \cup 0 .. Mark
  /\ holding => due # NotPosted

EndingTypes ==
  conn \in {"connecting", "connected", "over"} /\ early \in BOOLEAN /\ finishing \in BOOLEAN

GraceTypes == focusedOnce \in BOOLEAN /\ stopped \in BOOLEAN /\ away \in BOOLEAN

OuterTypes ==
  /\ activity \in {"started", "stopped", "destroyed"} /\ window \in BOOLEAN
  /\ displayed \in BOOLEAN /\ notice \in BOOLEAN
  /\ toldAway \in BOOLEAN /\ unheard \in BOOLEAN /\ enabled \in BOOLEAN
  /\ launchHeld \in BOOLEAN /\ launchDue \in {NotPosted} \cup 0 .. LaunchWait

RuntimeTypes ==
  /\ renderer \in {"none", "up", "gone"} /\ known \in BOOLEAN
  /\ session \in {"launch", "focused", "other", "away"} /\ sessionAway \in BOOLEAN
  /\ posted \in Seq({"away", "back"}) /\ Len(posted) <= MaxPosts

LEMMA TypesByGroup ==
  ASSUME TypeOK
  PROVE  HoldTypes /\ EndingTypes /\ GraceTypes /\ OuterTypes /\ RuntimeTypes
BY DEF TypeOK, HoldTypes, EndingTypes, GraceTypes, OuterTypes, RuntimeTypes

LEMMA TypesTogether ==
  ASSUME HoldTypes', EndingTypes', GraceTypes', OuterTypes', RuntimeTypes'
  PROVE  TypeOK'
BY DEF TypeOK, HoldTypes, EndingTypes, GraceTypes, OuterTypes, RuntimeTypes

-----------------------------------------------------------------------------
LEMMA DivBounds ==
  ASSUME NEW h \in Nat, NEW m \in Nat \ {0}
  PROVE  h \div m \in Nat /\ (h \div m) * m <= h /\ h < (h \div m + 1) * m
OBVIOUS

(* The next tick is a mark away at most.                                    *)
LEMMA NextTickRange == ASSUME NEW h \in 0 .. Grace PROVE NextTick(h) \in 0 .. Mark
<1> DEFINE mark == (h \div Mark + 1) * Mark
<1>1. Grace \in Nat /\ Mark \in Nat \ {0} /\ h \in Nat
  BY DoffAssumption
<1>2. mark \in Nat /\ h < mark /\ mark <= h + Mark
  BY <1>1, DivBounds
<1> QED BY <1>1, <1>2 DEF NextTick

LEMMA StartHoldTypes == ASSUME HoldTypes, StartHold PROVE HoldTypes'
<1>1. CASE holding
  BY <1>1 DEF StartHold, StartsHold, HoldTypes, hold
<1>2. CASE ~holding
  <2>1. NextTick(0) \in 0 .. Mark /\ 0 \in 0 .. Grace
    BY NextTickRange, DoffAssumption
  <2> QED BY <1>2, <2>1, DoffAssumption DEF StartHold, StartsHold, HoldTypes, NotPosted
<1> QED BY <1>1, <1>2

LEMMA ExpireTypes == ASSUME EndingTypes, Expire PROVE EndingTypes'
BY DEF Expire, StopConnection, EndingTypes

LEMMA ResumeTypes ==
  ASSUME HoldTypes, EndingTypes, ResumeIfBack
  PROVE  HoldTypes' /\ EndingTypes'
<1>1. CASE ~(holding /\ IsBack)
  BY <1>1 DEF ResumeIfBack, hold, ending, HoldTypes, EndingTypes
<1>2. CASE holding /\ IsBack
  <2>1. holding' \in BOOLEAN
    BY <1>2, Zenon DEF ResumeIfBack
  <2>2. CASE held < Grace
    <3>1. muted' \in BOOLEAN
      BY <1>2, <2>2, Zenon DEF ResumeIfBack, Unmute
    <3> QED BY <1>2, <2>1, <2>2, <3>1, DoffAssumption DEF ResumeIfBack, Unmute, ending,
            HoldTypes, EndingTypes
  <2>3. CASE ~(held < Grace)
    <3>1. Expire
      BY <1>2, <2>3 DEF ResumeIfBack
    <3> QED BY <1>2, <2>1, <2>3, <3>1, ExpireTypes DEF ResumeIfBack, HoldTypes
  <2> QED BY <2>2, <2>3
<1> QED BY <1>1, <1>2

LEMMA CancelTypes ==
  ASSUME HoldTypes, GraceTypes, Cancel
  PROVE  HoldTypes' /\ GraceTypes'
<1>1. holding' \in BOOLEAN /\ stopped' \in BOOLEAN /\ away' \in BOOLEAN
  BY Zenon DEF Cancel
<1> QED BY <1>1 DEF Cancel, HoldTypes, GraceTypes

LEMMA ActivityStartedTypes ==
  ASSUME HoldTypes, EndingTypes, GraceTypes, ActivityStarted
  PROVE  HoldTypes' /\ EndingTypes' /\ GraceTypes'
<1>1. stopped' \in BOOLEAN
  BY Zenon DEF ActivityStarted
<1> QED BY <1>1, ResumeTypes DEF ActivityStarted, GraceTypes

LEMMA HoldStopTypes ==
  ASSUME HoldTypes, GraceTypes, HoldStop
  PROVE  HoldTypes' /\ GraceTypes'
BY StartHoldTypes DEF HoldStop, GraceTypes

LEMMA OnStopLaunchKeeps == ASSUME IInv, SettingKept, OnStopLaunch PROVE IInv'
<1>1. TypeOK'
  <2>0. HoldTypes /\ EndingTypes /\ GraceTypes /\ OuterTypes /\ RuntimeTypes
    BY TypesByGroup DEF IInv
  <2>1. OuterTypes'
    BY <2>0, DoffAssumption DEF OnStopLaunch, stream, told, errors, SettingKept, OuterTypes
  <2>2. HoldTypes' /\ EndingTypes' /\ GraceTypes' /\ RuntimeTypes'
    BY <2>0 DEF OnStopLaunch, WaitingForHeadset, stream, runtime, grace, hold,
           told, ending, errors, HoldTypes, EndingTypes, GraceTypes,
           RuntimeTypes
  <2> QED BY <2>1, <2>2, TypesTogether
<1>2. Holds' /\ Clocks' /\ EarlyEnds' /\ StopsKnown' /\ AwayKnown'
  BY DEF IInv, Holds, MutedWhileHeld, Clocks, EarlyEnds, StopsKnown,
         AwayKnown, OnStopLaunch, WaitingForHeadset, stream, runtime, grace,
         hold, told, ending, errors
<1> QED BY <1>1, <1>2 DEF IInv

LEMMA OnStopHeldKeeps == ASSUME IInv, SettingKept, OnStopHeld PROVE IInv'
<1>1. TypeOK'
  <2>0. HoldTypes /\ EndingTypes /\ GraceTypes /\ OuterTypes /\ RuntimeTypes
    BY TypesByGroup DEF IInv
  <2>1. HoldTypes' /\ GraceTypes'
    BY <2>0, HoldStopTypes DEF OnStopHeld, stream, runtime, launch, told,
           ending, errors, HoldTypes, GraceTypes
  <2>2. EndingTypes' /\ OuterTypes' /\ RuntimeTypes'
    BY <2>0 DEF OnStopHeld, WaitingForHeadset, HoldsStop, stream, runtime,
           launch, told, ending, errors, SettingKept, EndingTypes, OuterTypes,
           RuntimeTypes
  <2> QED BY <2>1, <2>2, TypesTogether
<1>2. Holds'
  BY DEF IInv, Holds, MutedWhileHeld, OnStopHeld, WaitingForHeadset,
         HoldsStop, DoffMayHold, HoldStop, StartHold, StartsHold, stream,
         runtime, hold, launch, told, ending, errors
<1>3. Clocks'
  BY DEF IInv, Clocks, Holds, MutedWhileHeld, TypeOK, OnStopHeld,
         WaitingForHeadset, HoldsStop, DoffMayHold, HoldStop, StartHold,
         StartsHold, stream, runtime, hold, launch, told, ending, errors
<1>4. EarlyEnds'
  BY DEF IInv, EarlyEnds, Holds, MutedWhileHeld, OnStopHeld,
         WaitingForHeadset, HoldsStop, DoffMayHold, HoldStop, StartHold,
         StartsHold, stream, runtime, hold, launch, told, ending, errors
<1>5. StopsKnown'
  BY DEF IInv, StopsKnown, EarlyEnds, Holds, MutedWhileHeld, OnStopHeld,
         WaitingForHeadset, HoldsStop, DoffMayHold, HoldStop, StartHold,
         StartsHold, stream, runtime, hold, launch, told, ending, errors
<1>6. AwayKnown'
  BY DEF IInv, AwayKnown, Holds, StopsKnown, EarlyEnds, MutedWhileHeld,
         OnStopHeld, WaitingForHeadset, HoldsStop, DoffMayHold, HoldStop,
         StartHold, StartsHold, stream, runtime, hold, launch, told, ending,
         errors
<1> QED BY <1>1, <1>2, <1>3, <1>4, <1>5, <1>6 DEF IInv

LEMMA OnStopEndsKeeps == ASSUME IInv, SettingKept, OnStopEnds PROVE IInv'
<1>1. TypeOK'
  <2>0. HoldTypes /\ EndingTypes /\ GraceTypes /\ OuterTypes /\ RuntimeTypes
    BY TypesByGroup DEF IInv
  <2>1. HoldTypes' /\ GraceTypes'
    BY <2>0, CancelTypes DEF OnStopEnds, runtime, launch, told, HoldTypes,
           GraceTypes
  <2>2. EndingTypes'
    BY <2>0, ExpireTypes DEF OnStopEnds, runtime, launch, told, EndingTypes
  <2>3. OuterTypes' /\ RuntimeTypes'
    BY <2>0 DEF OnStopEnds, WaitingForHeadset, HoldsStop, runtime, launch,
           told, SettingKept, OuterTypes, RuntimeTypes
  <2> QED BY <2>1, <2>2, <2>3, TypesTogether
<1>2. Holds'
  BY DEF IInv, TypeOK, NotPosted, Holds, MutedWhileHeld, OnStopEnds,
         WaitingForHeadset, Expire, StopConnection, Cancel, HoldsStop,
         DoffMayHold, runtime, launch, told
<1>3. Clocks'
  BY DEF IInv, Clocks, Holds, MutedWhileHeld, TypeOK, OnStopEnds,
         WaitingForHeadset, Expire, StopConnection, Cancel, HoldsStop,
         DoffMayHold, runtime, launch, told
<1>4. EarlyEnds'
  BY DEF IInv, EarlyEnds, Holds, MutedWhileHeld, OnStopEnds,
         WaitingForHeadset, Expire, StopConnection, Cancel, HoldsStop,
         DoffMayHold, runtime, launch, told
<1>5. StopsKnown'
  BY DEF IInv, TypeOK, NotPosted, StopsKnown, EarlyEnds, Holds,
         MutedWhileHeld, OnStopEnds, WaitingForHeadset, Expire,
         StopConnection, Cancel, HoldsStop, DoffMayHold, runtime, launch, told
<1>6. AwayKnown'
  BY DEF IInv, AwayKnown, Holds, StopsKnown, EarlyEnds, MutedWhileHeld,
         OnStopEnds, WaitingForHeadset, Expire, StopConnection, Cancel,
         HoldsStop, DoffMayHold, runtime, launch, told
<1> QED BY <1>1, <1>2, <1>3, <1>4, <1>5, <1>6 DEF IInv

LEMMA OnStartKeeps == ASSUME IInv, SettingKept, OnStart PROVE IInv'
<1>1. TypeOK'
  <2>0. HoldTypes /\ EndingTypes /\ GraceTypes /\ OuterTypes /\ RuntimeTypes
    BY TypesByGroup DEF IInv
  <2>1. HoldTypes' /\ EndingTypes' /\ GraceTypes'
    BY <2>0, ActivityStartedTypes DEF OnStart, errors, runtime, told,
           HoldTypes, EndingTypes, GraceTypes
  <2>2. OuterTypes' /\ RuntimeTypes'
    <3>1. launchHeld' \in BOOLEAN
      BY Zenon DEF OnStart
    <3> QED BY <2>0, <3>1 DEF OnStart, errors, runtime, told, SettingKept,
           OuterTypes, RuntimeTypes
  <2> QED BY <2>1, <2>2, TypesTogether
<1>2. Holds'
  BY DEF IInv, TypeOK, NotPosted, Holds, MutedWhileHeld, OnStart,
         ActivityStarted, ResumeIfBack, Expire, StopConnection, IsBack,
         Unmute, ending, errors, runtime, hold, told
<1>3. Clocks'
  BY DEF IInv, Clocks, Holds, MutedWhileHeld, TypeOK, OnStart,
         ActivityStarted, ResumeIfBack, Expire, StopConnection, IsBack,
         Unmute, ending, errors, runtime, hold, told
<1>4. EarlyEnds'
  BY DEF IInv, EarlyEnds, Holds, MutedWhileHeld, OnStart, ActivityStarted,
         ResumeIfBack, Expire, StopConnection, IsBack, Unmute, ending, errors,
         runtime, hold, told
<1>5. StopsKnown'
  BY DEF IInv, StopsKnown, EarlyEnds, Holds, MutedWhileHeld, OnStart,
         ActivityStarted, ResumeIfBack, Expire, StopConnection, IsBack,
         Unmute, ending, errors, runtime, hold, told
<1>6. AwayKnown'
  BY DEF IInv, AwayKnown, Holds, StopsKnown, EarlyEnds, MutedWhileHeld,
         OnStart, ActivityStarted, ResumeIfBack, Expire, StopConnection,
         IsBack, Unmute, ending, errors, runtime, hold, told
<1> QED BY <1>1, <1>2, <1>3, <1>4, <1>5, <1>6 DEF IInv

LEMMA OnDestroyKeeps == ASSUME IInv, SettingKept, OnDestroy PROVE IInv'
<1>1. TypeOK'
  <2>0. HoldTypes /\ EndingTypes /\ GraceTypes /\ OuterTypes /\ RuntimeTypes
    BY TypesByGroup DEF IInv
  <2>1. HoldTypes' /\ GraceTypes'
    BY <2>0, CancelTypes DEF OnDestroy, errors, runtime, told, HoldTypes,
           GraceTypes
  <2>2. EndingTypes'
    BY <2>0 DEF OnDestroy, StopConnection, EndingTypes
  <2>3. OuterTypes'
    <3>1. window' \in BOOLEAN
      BY Zenon DEF OnDestroy
    <3> QED BY <2>0, <3>1 DEF OnDestroy, errors, told, SettingKept, OuterTypes, NotPosted
  <2>4. RuntimeTypes'
    BY <2>0 DEF OnDestroy, StopConnection, HeldAtDestroy, errors, runtime,
           told, RuntimeTypes
  <2> QED BY <2>1, <2>2, <2>3, <2>4, TypesTogether
<1>2. Holds'
  BY DEF IInv, TypeOK, NotPosted, Holds, MutedWhileHeld, OnDestroy,
         StopConnection, Cancel, HeldAtDestroy, errors, runtime, told
<1>3. Clocks'
  BY DEF IInv, Clocks, Holds, MutedWhileHeld, TypeOK, OnDestroy,
         StopConnection, Cancel, HeldAtDestroy, errors, runtime, told
<1>4. EarlyEnds'
  BY DEF IInv, EarlyEnds, Holds, MutedWhileHeld, OnDestroy, StopConnection,
         Cancel, HeldAtDestroy, errors, runtime, told
<1>5. StopsKnown'
  BY DEF IInv, TypeOK, NotPosted, StopsKnown, EarlyEnds, Holds,
         MutedWhileHeld, OnDestroy, StopConnection, Cancel, HeldAtDestroy,
         errors, runtime, told
<1>6. AwayKnown'
  BY DEF IInv, AwayKnown, Holds, StopsKnown, EarlyEnds, MutedWhileHeld,
         OnDestroy, StopConnection, Cancel, HeldAtDestroy, errors, runtime,
         told
<1> QED BY <1>1, <1>2, <1>3, <1>4, <1>5, <1>6 DEF IInv

LEMMA SurfaceCreatedKeeps == ASSUME IInv, SettingKept, SurfaceCreated PROVE IInv'
<1>1. TypeOK'
  <2>0. HoldTypes /\ EndingTypes /\ GraceTypes /\ OuterTypes /\ RuntimeTypes
    BY TypesByGroup DEF IInv
  <2>1. HoldTypes' /\ EndingTypes' /\ GraceTypes'
    BY <2>0, ActivityStartedTypes DEF SurfaceCreated, errors, runtime, launch,
           told, HoldTypes, EndingTypes, GraceTypes
  <2>2. OuterTypes' /\ RuntimeTypes'
    BY <2>0 DEF SurfaceCreated, errors, runtime, launch, told, SettingKept,
           OuterTypes, RuntimeTypes
  <2> QED BY <2>1, <2>2, TypesTogether
<1>2. Holds'
  BY DEF IInv, TypeOK, NotPosted, Holds, MutedWhileHeld, SurfaceCreated,
         ActivityStarted, ResumeIfBack, Expire, StopConnection, IsBack,
         Unmute, ending, errors, runtime, hold, launch, told
<1>3. Clocks'
  BY DEF IInv, Clocks, Holds, MutedWhileHeld, TypeOK, SurfaceCreated,
         ActivityStarted, ResumeIfBack, Expire, StopConnection, IsBack,
         Unmute, ending, errors, runtime, hold, launch, told
<1>4. EarlyEnds'
  BY DEF IInv, EarlyEnds, Holds, MutedWhileHeld, SurfaceCreated,
         ActivityStarted, ResumeIfBack, Expire, StopConnection, IsBack,
         Unmute, ending, errors, runtime, hold, launch, told
<1>5. StopsKnown'
  BY DEF IInv, StopsKnown, EarlyEnds, Holds, MutedWhileHeld, SurfaceCreated,
         ActivityStarted, ResumeIfBack, Expire, StopConnection, IsBack,
         Unmute, ending, errors, runtime, hold, launch, told
<1>6. AwayKnown'
  BY DEF IInv, AwayKnown, Holds, StopsKnown, EarlyEnds, MutedWhileHeld,
         SurfaceCreated, ActivityStarted, ResumeIfBack, Expire,
         StopConnection, IsBack, Unmute, ending, errors, runtime, hold,
         launch, told
<1> QED BY <1>1, <1>2, <1>3, <1>4, <1>5, <1>6 DEF IInv

LEMMA SurfaceDestroyedKeptKeeps == ASSUME IInv, SettingKept, SurfaceDestroyedKept PROVE IInv'
<1>1. TypeOK'
  <2>0. HoldTypes /\ EndingTypes /\ GraceTypes /\ OuterTypes /\ RuntimeTypes
    BY TypesByGroup DEF IInv
  <2>1. HoldTypes' /\ EndingTypes' /\ GraceTypes' /\ OuterTypes' /\ RuntimeTypes'
    <3>1. window' \in BOOLEAN
      BY Zenon DEF SurfaceDestroyedKept
    <3> QED BY <2>0, <3>1 DEF SurfaceDestroyedKept, WaitingForHeadset, stream,
           runtime, grace, hold, launch, told, ending, errors, SettingKept,
           HoldTypes, EndingTypes, GraceTypes, OuterTypes, RuntimeTypes
  <2> QED BY <2>1, TypesTogether
<1>2. Holds' /\ Clocks' /\ EarlyEnds' /\ StopsKnown' /\ AwayKnown'
  BY DEF IInv, Holds, MutedWhileHeld, Clocks, EarlyEnds, StopsKnown,
         AwayKnown, SurfaceDestroyedKept, WaitingForHeadset, stream, runtime,
         grace, hold, launch, told, ending, errors
<1> QED BY <1>1, <1>2 DEF IInv

LEMMA SurfaceDestroyedHeldKeeps == ASSUME IInv, SettingKept, SurfaceDestroyedHeld PROVE IInv'
<1>1. TypeOK'
  <2>0. HoldTypes /\ EndingTypes /\ GraceTypes /\ OuterTypes /\ RuntimeTypes
    BY TypesByGroup DEF IInv
  <2>1. HoldTypes' /\ GraceTypes'
    BY <2>0, HoldStopTypes DEF SurfaceDestroyedHeld, stream, runtime, launch,
           told, ending, errors, HoldTypes, GraceTypes
  <2>2. EndingTypes' /\ OuterTypes' /\ RuntimeTypes'
    <3>1. window' \in BOOLEAN
      BY Zenon DEF SurfaceDestroyedHeld
    <3> QED BY <2>0, <3>1 DEF SurfaceDestroyedHeld, WaitingForHeadset,
           HoldsStop, stream, runtime, launch, told, ending, errors,
           SettingKept, EndingTypes, OuterTypes, RuntimeTypes
  <2> QED BY <2>1, <2>2, TypesTogether
<1>2. Holds'
  BY DEF IInv, Holds, MutedWhileHeld, SurfaceDestroyedHeld, WaitingForHeadset,
         HoldsStop, DoffMayHold, HoldStop, StartHold, StartsHold, stream,
         runtime, hold, launch, told, ending, errors
<1>3. Clocks'
  BY DEF IInv, Clocks, Holds, MutedWhileHeld, TypeOK, SurfaceDestroyedHeld,
         WaitingForHeadset, HoldsStop, DoffMayHold, HoldStop, StartHold,
         StartsHold, stream, runtime, hold, launch, told, ending, errors
<1>4. EarlyEnds'
  BY DEF IInv, EarlyEnds, Holds, MutedWhileHeld, SurfaceDestroyedHeld,
         WaitingForHeadset, HoldsStop, DoffMayHold, HoldStop, StartHold,
         StartsHold, stream, runtime, hold, launch, told, ending, errors
<1>5. StopsKnown'
  BY DEF IInv, StopsKnown, EarlyEnds, Holds, MutedWhileHeld,
         SurfaceDestroyedHeld, WaitingForHeadset, HoldsStop, DoffMayHold,
         HoldStop, StartHold, StartsHold, stream, runtime, hold, launch, told,
         ending, errors
<1>6. AwayKnown'
  BY DEF IInv, AwayKnown, Holds, StopsKnown, EarlyEnds, MutedWhileHeld,
         SurfaceDestroyedHeld, WaitingForHeadset, HoldsStop, DoffMayHold,
         HoldStop, StartHold, StartsHold, stream, runtime, hold, launch, told,
         ending, errors
<1> QED BY <1>1, <1>2, <1>3, <1>4, <1>5, <1>6 DEF IInv

LEMMA SurfaceDestroyedEndsKeeps == ASSUME IInv, SettingKept, SurfaceDestroyedEnds PROVE IInv'
<1>1. TypeOK'
  <2>0. HoldTypes /\ EndingTypes /\ GraceTypes /\ OuterTypes /\ RuntimeTypes
    BY TypesByGroup DEF IInv
  <2>1. HoldTypes' /\ EndingTypes' /\ GraceTypes' /\ OuterTypes' /\ RuntimeTypes'
    <3>1. window' \in BOOLEAN
      BY Zenon DEF SurfaceDestroyedEnds
    <3> QED BY <2>0, <3>1 DEF SurfaceDestroyedEnds, WaitingForHeadset,
           HoldsStop, errors, runtime, grace, hold, launch, told, SettingKept,
           HoldTypes, EndingTypes, GraceTypes, OuterTypes, RuntimeTypes
  <2> QED BY <2>1, TypesTogether
<1>2. Holds' /\ Clocks' /\ EarlyEnds' /\ StopsKnown' /\ AwayKnown'
  BY DEF IInv, Holds, MutedWhileHeld, Clocks, EarlyEnds, StopsKnown,
         AwayKnown, SurfaceDestroyedEnds, WaitingForHeadset, HoldsStop,
         DoffMayHold, errors, runtime, grace, hold, launch, told
<1> QED BY <1>1, <1>2 DEF IInv

LEMMA FinishKeeps == ASSUME IInv, SettingKept, Finish PROVE IInv'
<1>1. TypeOK'
  <2>0. HoldTypes /\ EndingTypes /\ GraceTypes /\ OuterTypes /\ RuntimeTypes
    BY TypesByGroup DEF IInv
  <2>1. HoldTypes' /\ EndingTypes' /\ GraceTypes' /\ OuterTypes' /\ RuntimeTypes'
    BY <2>0 DEF Finish, android, errors, runtime, grace, hold, launch, told,
           SettingKept, HoldTypes, EndingTypes, GraceTypes, OuterTypes,
           RuntimeTypes
  <2> QED BY <2>1, TypesTogether
<1>2. Holds' /\ Clocks' /\ EarlyEnds' /\ StopsKnown' /\ AwayKnown'
  BY DEF IInv, Holds, MutedWhileHeld, Clocks, EarlyEnds, StopsKnown,
         AwayKnown, Finish, android, errors, runtime, grace, hold, launch,
         told
<1> QED BY <1>1, <1>2 DEF IInv

LEMMA TickKeeps == ASSUME IInv, SettingKept, Tick PROVE IInv'
<1>1. TypeOK'
  <2>0. HoldTypes /\ EndingTypes /\ GraceTypes /\ OuterTypes /\ RuntimeTypes
    BY TypesByGroup DEF IInv
  <2>1. EndingTypes'
    BY <2>0, ExpireTypes DEF Tick, ending, EndingTypes
  <2>2. HoldTypes'
    <3>1. CASE holding /\ held >= Grace
      <4>1. holding' \in BOOLEAN
        BY <3>1, Zenon DEF Tick
      <4> QED BY <2>0, <3>1, <4>1 DEF Tick, HoldTypes
    <3>2. CASE ~(holding /\ held >= Grace)
      BY <2>0, <3>2, NextTickRange, DoffAssumption DEF Tick, Again, HoldTypes, NotPosted
    <3> QED BY <3>1, <3>2
  <2>3. GraceTypes' /\ OuterTypes' /\ RuntimeTypes'
    BY <2>0 DEF Tick, Again, android, ending, errors, runtime, grace, launch,
           told, SettingKept, GraceTypes, OuterTypes, RuntimeTypes
  <2> QED BY <2>1, <2>2, <2>3, TypesTogether
<1>2. Holds'
  BY DEF IInv, TypeOK, NotPosted, Holds, MutedWhileHeld, Tick, Expire,
         StopConnection, Again, android, ending, errors, runtime, grace,
         launch, told
<1>3. Clocks'
  BY DEF IInv, Clocks, Holds, MutedWhileHeld, TypeOK, Tick, Expire,
         StopConnection, Again, android, ending, errors, runtime, grace,
         launch, told
<1>4. EarlyEnds'
  BY DEF IInv, EarlyEnds, Holds, MutedWhileHeld, Tick, Expire, StopConnection,
         Again, android, ending, errors, runtime, grace, launch, told
<1>5. StopsKnown'
  BY DEF IInv, TypeOK, NotPosted, StopsKnown, EarlyEnds, Holds,
         MutedWhileHeld, Tick, Expire, StopConnection, Again, android, ending,
         errors, runtime, grace, launch, told
<1>6. AwayKnown'
  BY DEF IInv, AwayKnown, Holds, StopsKnown, EarlyEnds, MutedWhileHeld, Tick,
         Expire, StopConnection, Again, android, ending, errors, runtime,
         grace, launch, told
<1> QED BY <1>1, <1>2, <1>3, <1>4, <1>5, <1>6 DEF IInv

LEMMA HeadsetHoldOverKeeps == ASSUME IInv, SettingKept, HeadsetHoldOver PROVE IInv'
<1>1. TypeOK'
  <2>0. HoldTypes /\ EndingTypes /\ GraceTypes /\ OuterTypes /\ RuntimeTypes
    BY TypesByGroup DEF IInv
  <2>1. EndingTypes'
    BY <2>0, ExpireTypes DEF HeadsetHoldOver, ending, EndingTypes
  <2>2. OuterTypes'
    <3>1. launchHeld' \in BOOLEAN
      <4>1. CASE launchHeld /\ ~finishing
        BY <4>1, Zenon DEF HeadsetHoldOver
      <4>2. CASE ~(launchHeld /\ ~finishing)
        BY <2>0, <4>2 DEF HeadsetHoldOver, OuterTypes
      <4> QED BY <4>1, <4>2
    <3> QED BY <2>0, <3>1 DEF HeadsetHoldOver, android, errors, told, SettingKept, OuterTypes
  <2>3. HoldTypes' /\ GraceTypes' /\ RuntimeTypes'
    BY <2>0 DEF HeadsetHoldOver, android, ending, errors, runtime, grace,
           hold, told, HoldTypes, GraceTypes, RuntimeTypes
  <2> QED BY <2>1, <2>2, <2>3, TypesTogether
<1>2. Holds'
  BY DEF IInv, Holds, MutedWhileHeld, HeadsetHoldOver, Expire, StopConnection,
         android, ending, errors, runtime, grace, hold, told
<1>3. Clocks'
  BY DEF IInv, Clocks, Holds, MutedWhileHeld, TypeOK, HeadsetHoldOver, Expire,
         StopConnection, android, ending, errors, runtime, grace, hold, told
<1>4. EarlyEnds'
  BY DEF IInv, TypeOK, NotPosted, EarlyEnds, Holds, MutedWhileHeld,
         HeadsetHoldOver, Expire, StopConnection, android, ending, errors,
         runtime, grace, hold, told
<1>5. StopsKnown'
  BY DEF IInv, TypeOK, NotPosted, StopsKnown, EarlyEnds, Holds,
         MutedWhileHeld, HeadsetHoldOver, Expire, StopConnection, android,
         ending, errors, runtime, grace, hold, told
<1>6. AwayKnown'
  BY DEF IInv, AwayKnown, Holds, StopsKnown, EarlyEnds, MutedWhileHeld,
         HeadsetHoldOver, Expire, StopConnection, android, ending, errors,
         runtime, grace, hold, told
<1> QED BY <1>1, <1>2, <1>3, <1>4, <1>5, <1>6 DEF IInv

LEMMA ToldAwayKeeps == ASSUME IInv, SettingKept, ToldAway PROVE IInv'
<1>1. TypeOK'
  <2>0. HoldTypes /\ EndingTypes /\ GraceTypes /\ OuterTypes /\ RuntimeTypes
    BY TypesByGroup DEF IInv
  <2>1. OuterTypes'
    <3>1. unheard' \in BOOLEAN
      <4>1. CASE DoffMayHold /\ focusedOnce /\ enabled
        BY <4>1, Zenon DEF ToldAway
      <4>2. CASE ~(DoffMayHold /\ focusedOnce /\ enabled)
        BY <4>2 DEF ToldAway
      <4> QED BY <4>1, <4>2
    <3> QED BY <2>0, <3>1 DEF ToldAway, android, stream, errors, launch, SettingKept, OuterTypes
  <2>2. HoldTypes'
    BY <2>0, StartHoldTypes DEF ToldAway, hold, HoldTypes
  <2>3. RuntimeTypes'
    BY <2>0, DoffAssumption DEF ToldAway, runtime, RuntimeTypes
  <2>4. EndingTypes' /\ GraceTypes'
    BY <2>0 DEF ToldAway, DoffMayHold, android, stream, runtime, hold, launch,
           ending, errors, EndingTypes, GraceTypes
  <2> QED BY <2>1, <2>2, <2>3, <2>4, TypesTogether
<1>2. Holds'
  BY DEF IInv, Holds, MutedWhileHeld, ToldAway, DoffMayHold, StartHold,
         StartsHold, android, stream, runtime, hold, launch, ending, errors
<1>3. Clocks'
  BY DEF IInv, Clocks, Holds, MutedWhileHeld, TypeOK, ToldAway, DoffMayHold,
         StartHold, StartsHold, android, stream, runtime, hold, launch,
         ending, errors
<1>4. EarlyEnds'
  BY DEF IInv, EarlyEnds, Holds, MutedWhileHeld, ToldAway, DoffMayHold,
         StartHold, StartsHold, android, stream, runtime, hold, launch,
         ending, errors
<1>5. StopsKnown'
  BY DEF IInv, StopsKnown, EarlyEnds, Holds, MutedWhileHeld, ToldAway,
         DoffMayHold, StartHold, StartsHold, android, stream, runtime, hold,
         launch, ending, errors
<1>6. AwayKnown'
  BY DEF IInv, AwayKnown, Holds, StopsKnown, EarlyEnds, MutedWhileHeld,
         ToldAway, DoffMayHold, StartHold, StartsHold, android, stream,
         runtime, hold, launch, ending, errors
<1> QED BY <1>1, <1>2, <1>3, <1>4, <1>5, <1>6 DEF IInv

LEMMA ToldBackKeeps == ASSUME IInv, SettingKept, ToldBack PROVE IInv'
<1>1. TypeOK'
  <2>0. HoldTypes /\ EndingTypes /\ GraceTypes /\ OuterTypes /\ RuntimeTypes
    BY TypesByGroup DEF IInv
  <2>1. HoldTypes' /\ EndingTypes'
    BY <2>0, ResumeTypes DEF ToldBack, android, errors, runtime, launch,
           HoldTypes, EndingTypes
  <2>2. RuntimeTypes'
    BY <2>0, DoffAssumption DEF ToldBack, runtime, RuntimeTypes
  <2>3. GraceTypes' /\ OuterTypes'
    <3>1. away' \in BOOLEAN /\ toldAway' \in BOOLEAN /\ unheard' \in BOOLEAN
      BY Zenon DEF ToldBack
    <3> QED BY <2>0, <3>1 DEF ToldBack, android, errors, runtime, launch,
           SettingKept, GraceTypes, OuterTypes
  <2> QED BY <2>1, <2>2, <2>3, TypesTogether
<1>2. Holds'
  BY DEF IInv, TypeOK, NotPosted, Holds, MutedWhileHeld, ToldBack,
         ResumeIfBack, Expire, StopConnection, IsBack, Unmute, android,
         ending, errors, runtime, hold, launch
<1>3. Clocks'
  BY DEF IInv, Clocks, Holds, MutedWhileHeld, TypeOK, ToldBack, ResumeIfBack,
         Expire, StopConnection, IsBack, Unmute, android, ending, errors,
         runtime, hold, launch
<1>4. EarlyEnds'
  BY DEF IInv, EarlyEnds, Holds, MutedWhileHeld, ToldBack, ResumeIfBack,
         Expire, StopConnection, IsBack, Unmute, android, ending, errors,
         runtime, hold, launch
<1>5. StopsKnown'
  BY DEF IInv, StopsKnown, EarlyEnds, Holds, MutedWhileHeld, ToldBack,
         ResumeIfBack, Expire, StopConnection, IsBack, Unmute, android,
         ending, errors, runtime, hold, launch
<1>6. AwayKnown'
  BY DEF IInv, AwayKnown, Holds, StopsKnown, EarlyEnds, MutedWhileHeld,
         ToldBack, ResumeIfBack, Expire, StopConnection, IsBack, Unmute,
         android, ending, errors, runtime, hold, launch
<1> QED BY <1>1, <1>2, <1>3, <1>4, <1>5, <1>6 DEF IInv

LEMMA NoticeOverKeeps == ASSUME IInv, SettingKept, NoticeOver PROVE IInv'
<1>1. TypeOK'
  <2>0. HoldTypes /\ EndingTypes /\ GraceTypes /\ OuterTypes /\ RuntimeTypes
    BY TypesByGroup DEF IInv
  <2>1. HoldTypes' /\ EndingTypes' /\ GraceTypes' /\ OuterTypes' /\ RuntimeTypes'
    <3>1. notice' \in BOOLEAN
      BY Zenon DEF NoticeOver
    <3> QED BY <2>0, <3>1 DEF NoticeOver, StopConnection, android, runtime,
           grace, hold, launch, told, SettingKept, HoldTypes, EndingTypes,
           GraceTypes, OuterTypes, RuntimeTypes
  <2> QED BY <2>1, TypesTogether
<1>2. Holds' /\ Clocks' /\ EarlyEnds' /\ StopsKnown' /\ AwayKnown'
  BY DEF IInv, Holds, MutedWhileHeld, Clocks, EarlyEnds, StopsKnown,
         AwayKnown, NoticeOver, StopConnection, android, runtime, grace, hold,
         launch, told
<1> QED BY <1>1, <1>2 DEF IInv

LEMMA ConnectedKeeps == ASSUME IInv, SettingKept, Connected PROVE IInv'
<1>1. TypeOK'
  <2>0. HoldTypes /\ EndingTypes /\ GraceTypes /\ OuterTypes /\ RuntimeTypes
    BY TypesByGroup DEF IInv
  <2>1. HoldTypes' /\ EndingTypes' /\ GraceTypes' /\ OuterTypes' /\ RuntimeTypes'
    BY <2>0 DEF Connected, android, errors, runtime, grace, hold, launch,
           told, SettingKept, HoldTypes, EndingTypes, GraceTypes, OuterTypes,
           RuntimeTypes
  <2> QED BY <2>1, TypesTogether
<1>2. Holds' /\ Clocks' /\ EarlyEnds' /\ StopsKnown' /\ AwayKnown'
  BY DEF IInv, Holds, MutedWhileHeld, Clocks, EarlyEnds, StopsKnown,
         AwayKnown, Connected, android, errors, runtime, grace, hold, launch,
         told
<1> QED BY <1>1, <1>2 DEF IInv

LEMMA ConnectFailsKeeps == ASSUME IInv, SettingKept, ConnectFails PROVE IInv'
<1>1. TypeOK'
  <2>0. HoldTypes /\ EndingTypes /\ GraceTypes /\ OuterTypes /\ RuntimeTypes
    BY TypesByGroup DEF IInv
  <2>1. HoldTypes' /\ EndingTypes' /\ GraceTypes' /\ OuterTypes' /\ RuntimeTypes'
    BY <2>0 DEF ConnectFails, android, runtime, grace, hold, launch, told,
           SettingKept, HoldTypes, EndingTypes, GraceTypes, OuterTypes,
           RuntimeTypes
  <2> QED BY <2>1, TypesTogether
<1>2. Holds' /\ Clocks' /\ EarlyEnds' /\ StopsKnown' /\ AwayKnown'
  BY DEF IInv, Holds, MutedWhileHeld, Clocks, EarlyEnds, StopsKnown,
         AwayKnown, ConnectFails, android, runtime, grace, hold, launch, told
<1> QED BY <1>1, <1>2 DEF IInv

LEMMA TerminatedQuietlyKeeps == ASSUME IInv, SettingKept, TerminatedQuietly PROVE IInv'
<1>1. TypeOK'
  <2>0. HoldTypes /\ EndingTypes /\ GraceTypes /\ OuterTypes /\ RuntimeTypes
    BY TypesByGroup DEF IInv
  <2>1. EndingTypes'
    BY <2>0, ExpireTypes DEF TerminatedQuietly, android, runtime, grace, hold,
           launch, told, EndingTypes
  <2>2. HoldTypes' /\ GraceTypes' /\ OuterTypes' /\ RuntimeTypes'
    BY <2>0 DEF TerminatedQuietly, android, runtime, grace, hold, launch,
           told, SettingKept, HoldTypes, GraceTypes, OuterTypes, RuntimeTypes
  <2> QED BY <2>1, <2>2, TypesTogether
<1>2. Holds'
  BY DEF IInv, Holds, MutedWhileHeld, TerminatedQuietly, Expire,
         StopConnection, android, runtime, grace, hold, launch, told
<1>3. Clocks'
  BY DEF IInv, Clocks, Holds, MutedWhileHeld, TypeOK, TerminatedQuietly,
         Expire, StopConnection, android, runtime, grace, hold, launch, told
<1>4. EarlyEnds'
  BY DEF IInv, EarlyEnds, Holds, MutedWhileHeld, TerminatedQuietly, Expire,
         StopConnection, android, runtime, grace, hold, launch, told
<1>5. StopsKnown'
  BY DEF IInv, StopsKnown, EarlyEnds, Holds, MutedWhileHeld,
         TerminatedQuietly, Expire, StopConnection, android, runtime, grace,
         hold, launch, told
<1>6. AwayKnown'
  BY DEF IInv, AwayKnown, Holds, StopsKnown, EarlyEnds, MutedWhileHeld,
         TerminatedQuietly, Expire, StopConnection, android, runtime, grace,
         hold, launch, told
<1> QED BY <1>1, <1>2, <1>3, <1>4, <1>5, <1>6 DEF IInv

LEMMA TerminatedWithErrorKeeps == ASSUME IInv, SettingKept, TerminatedWithError PROVE IInv'
<1>1. TypeOK'
  <2>0. HoldTypes /\ EndingTypes /\ GraceTypes /\ OuterTypes /\ RuntimeTypes
    BY TypesByGroup DEF IInv
  <2>1. OuterTypes'
    BY <2>0 DEF TerminatedWithError, android, launch, told, SettingKept, OuterTypes
  <2>2. HoldTypes' /\ EndingTypes' /\ GraceTypes' /\ RuntimeTypes'
    BY <2>0 DEF TerminatedWithError, StopConnection, android, runtime, grace,
           hold, launch, told, HoldTypes, EndingTypes, GraceTypes,
           RuntimeTypes
  <2> QED BY <2>1, <2>2, TypesTogether
<1>2. Holds' /\ Clocks' /\ EarlyEnds' /\ StopsKnown' /\ AwayKnown'
  BY DEF IInv, Holds, MutedWhileHeld, Clocks, EarlyEnds, StopsKnown,
         AwayKnown, TerminatedWithError, StopConnection, android, runtime,
         grace, hold, launch, told
<1> QED BY <1>1, <1>2 DEF IInv

LEMMA RendererUpKeeps == ASSUME IInv, SettingKept, RendererUp PROVE IInv'
<1>1. TypeOK'
  <2>0. HoldTypes /\ EndingTypes /\ GraceTypes /\ OuterTypes /\ RuntimeTypes
    BY TypesByGroup DEF IInv
  <2>1. HoldTypes' /\ EndingTypes' /\ GraceTypes' /\ OuterTypes' /\ RuntimeTypes'
    BY <2>0 DEF RendererUp, android, stream, grace, hold, launch, told,
           ending, errors, SettingKept, HoldTypes, EndingTypes, GraceTypes,
           OuterTypes, RuntimeTypes
  <2> QED BY <2>1, TypesTogether
<1>2. Holds' /\ Clocks' /\ EarlyEnds' /\ StopsKnown' /\ AwayKnown'
  BY DEF IInv, Holds, MutedWhileHeld, Clocks, EarlyEnds, StopsKnown,
         AwayKnown, RendererUp, android, stream, grace, hold, launch, told,
         ending, errors
<1> QED BY <1>1, <1>2 DEF IInv

LEMMA RendererGoneKeeps == ASSUME IInv, SettingKept, RendererGone PROVE IInv'
<1>1. TypeOK'
  <2>0. HoldTypes /\ EndingTypes /\ GraceTypes /\ OuterTypes /\ RuntimeTypes
    BY TypesByGroup DEF IInv
  <2>1. HoldTypes' /\ EndingTypes' /\ GraceTypes' /\ OuterTypes' /\ RuntimeTypes'
    BY <2>0 DEF RendererGone, android, stream, grace, hold, launch, told,
           ending, errors, SettingKept, HoldTypes, EndingTypes, GraceTypes,
           OuterTypes, RuntimeTypes
  <2> QED BY <2>1, TypesTogether
<1>2. Holds' /\ Clocks' /\ EarlyEnds' /\ StopsKnown' /\ AwayKnown'
  BY DEF IInv, Holds, MutedWhileHeld, Clocks, EarlyEnds, StopsKnown,
         AwayKnown, RendererGone, android, stream, grace, hold, launch, told,
         ending, errors
<1> QED BY <1>1, <1>2 DEF IInv

LEMMA SessionMovesKeeps == ASSUME IInv, SettingKept, SessionMoves PROVE IInv'
<1>1. TypeOK'
  <2>0. HoldTypes /\ EndingTypes /\ GraceTypes /\ OuterTypes /\ RuntimeTypes
    BY TypesByGroup DEF IInv
  <2>1. HoldTypes' /\ EndingTypes' /\ GraceTypes' /\ OuterTypes' /\ RuntimeTypes'
    BY <2>0 DEF SessionMoves, android, stream, grace, hold, launch, told,
           ending, errors, SettingKept, HoldTypes, EndingTypes, GraceTypes,
           OuterTypes, RuntimeTypes
  <2> QED BY <2>1, TypesTogether
<1>2. Holds' /\ Clocks' /\ EarlyEnds' /\ StopsKnown' /\ AwayKnown'
  BY DEF IInv, Holds, MutedWhileHeld, Clocks, EarlyEnds, StopsKnown,
         AwayKnown, SessionMoves, android, stream, grace, hold, launch, told,
         ending, errors
<1> QED BY <1>1, <1>2 DEF IInv

LEMMA TrackPresenceKeeps == ASSUME IInv, SettingKept, TrackPresence PROVE IInv'
<1>1. TypeOK'
  <2>0. HoldTypes /\ EndingTypes /\ GraceTypes /\ OuterTypes /\ RuntimeTypes
    BY TypesByGroup DEF IInv
  <2>1. RuntimeTypes'
    <3>1. CASE session = "away" /\ ~sessionAway
      BY <2>0, <3>1, DoffAssumption DEF TrackPresence, Posts, RuntimeTypes
    <3>2. CASE session = "focused" /\ sessionAway
      <4>1. sessionAway' \in BOOLEAN
        BY <3>2, Zenon DEF TrackPresence
      <4> QED BY <2>0, <3>2, <4>1, DoffAssumption DEF TrackPresence, Posts, RuntimeTypes
    <3>3. CASE ~(session = "away" /\ ~sessionAway) /\ ~(session = "focused" /\ sessionAway)
      BY <2>0, <3>3 DEF TrackPresence, RuntimeTypes
    <3> QED BY <3>1, <3>2, <3>3
  <2>2. HoldTypes' /\ EndingTypes' /\ GraceTypes' /\ OuterTypes'
    BY <2>0 DEF TrackPresence, Posts, android, stream, grace, hold, launch,
           told, ending, errors, SettingKept, HoldTypes, EndingTypes,
           GraceTypes, OuterTypes
  <2> QED BY <2>1, <2>2, TypesTogether
<1>2. Holds' /\ Clocks' /\ EarlyEnds' /\ StopsKnown' /\ AwayKnown'
  BY DEF IInv, Holds, MutedWhileHeld, Clocks, EarlyEnds, StopsKnown,
         AwayKnown, TrackPresence, android, stream, grace, hold, launch, told,
         ending, errors
<1> QED BY <1>1, <1>2 DEF IInv

LEMMA AwakeKeeps == ASSUME IInv, SettingKept, Awake PROVE IInv'
<1>1. TypeOK'
  <2>0. HoldTypes /\ EndingTypes /\ GraceTypes /\ OuterTypes /\ RuntimeTypes
    BY TypesByGroup DEF IInv
  <2>1. HoldTypes'
    BY <2>0, DoffAssumption DEF Awake, Elapse, Sooner, Later, HoldTypes, NotPosted
  <2>2. OuterTypes'
    BY <2>0, DoffAssumption DEF Awake, Sooner, android, stream, errors, told, SettingKept, OuterTypes, NotPosted
  <2>3. EndingTypes' /\ GraceTypes' /\ RuntimeTypes'
    BY <2>0 DEF Awake, Sooner, Elapse, android, stream, runtime, grace, told,
           ending, errors, EndingTypes, GraceTypes, RuntimeTypes
  <2> QED BY <2>1, <2>2, <2>3, TypesTogether
<1>2. Holds' /\ Clocks' /\ EarlyEnds' /\ StopsKnown' /\ AwayKnown'
  BY DEF IInv, Holds, MutedWhileHeld, Clocks, EarlyEnds, StopsKnown,
         AwayKnown, TypeOK, Awake, Sooner, Elapse, Later, android, stream,
         runtime, grace, told, ending, errors
<1> QED BY <1>1, <1>2 DEF IInv

LEMMA AsleepKeeps == ASSUME IInv, SettingKept, Asleep PROVE IInv'
<1>1. TypeOK'
  <2>0. HoldTypes /\ EndingTypes /\ GraceTypes /\ OuterTypes /\ RuntimeTypes
    BY TypesByGroup DEF IInv
  <2>1. HoldTypes'
    BY <2>0, DoffAssumption DEF Asleep, Elapse, Later, HoldTypes, NotPosted
  <2>2. EndingTypes' /\ GraceTypes' /\ OuterTypes' /\ RuntimeTypes'
    BY <2>0 DEF Asleep, Elapse, android, stream, runtime, grace, launch, told,
           ending, errors, SettingKept, EndingTypes, GraceTypes, OuterTypes,
           RuntimeTypes
  <2> QED BY <2>1, <2>2, TypesTogether
<1>2. Holds' /\ Clocks' /\ EarlyEnds' /\ StopsKnown' /\ AwayKnown'
  BY DEF IInv, Holds, MutedWhileHeld, Clocks, EarlyEnds, StopsKnown,
         AwayKnown, TypeOK, Asleep, Elapse, Later, android, stream, runtime,
         grace, launch, told, ending, errors
<1> QED BY <1>1, <1>2 DEF IInv

LEMMA StepKeeps == ASSUME IInv, [Next]_vars PROVE IInv'
<1>1. CASE Next
  BY <1>1, OnStopLaunchKeeps, OnStopHeldKeeps, OnStopEndsKeeps, OnStartKeeps, OnDestroyKeeps,
     SurfaceCreatedKeeps, SurfaceDestroyedKeptKeeps, SurfaceDestroyedHeldKeeps,
     SurfaceDestroyedEndsKeeps, FinishKeeps, TickKeeps, HeadsetHoldOverKeeps, ToldAwayKeeps,
     ToldBackKeeps, NoticeOverKeeps, ConnectedKeeps, ConnectFailsKeeps,
     TerminatedQuietlyKeeps, TerminatedWithErrorKeeps, RendererUpKeeps, RendererGoneKeeps,
     SessionMovesKeeps, TrackPresenceKeeps, AwakeKeeps, AsleepKeeps
     DEF Next, Callback, Runnable, Stream, Headset
<1>2. CASE UNCHANGED vars
  <2>1. TypeOK'
    BY <1>2 DEF IInv, TypeOK, vars, android, ending, errors, stream, runtime, grace, hold,
           launch, told
  <2>2. Holds' /\ Clocks' /\ EarlyEnds' /\ StopsKnown' /\ AwayKnown'
    BY <1>2 DEF IInv, Holds, MutedWhileHeld, Clocks, EarlyEnds, StopsKnown, AwayKnown, vars,
           android, ending, errors, stream, runtime, grace, hold, launch, told
  <2> QED BY <2>1, <2>2 DEF IInv
<1> QED BY <1>1, <1>2

LEMMA InitiallyHolds == Init => IInv
<1> SUFFICES ASSUME Init PROVE IInv
  OBVIOUS
<1>1. {finishing, early, displayed, window, notice, known, sessionAway, focusedOnce, stopped,
       away, holding, launchHeld, muted, enabled, toldAway, unheard} \subseteq BOOLEAN
  BY Zenon DEF Init
<1>2. TypeOK
  <2>1. posted \in Seq({"away", "back"}) /\ Len(posted) = 0
    BY DEF Init
  <2> QED BY <1>1, <2>1, DoffAssumption DEF Init, TypeOK, NotPosted
<1>3. Holds /\ Clocks /\ EarlyEnds /\ StopsKnown /\ AwayKnown
  BY DEF Init, Holds, MutedWhileHeld, Clocks, EarlyEnds, StopsKnown, AwayKnown
<1> QED BY <1>2, <1>3 DEF IInv

(* What the stopped activity and the heard absence leave behind holds in   *)
(* every reachable state (XrDoffGrace.java, XrDoffHold.java, Game.java).    *)
THEOREM HoldInvariant == Spec => []IInv
<1>1. IInv /\ [Next]_vars => IInv'
  BY StepKeeps
<1> QED BY InitiallyHolds, <1>1, PTL DEF Spec

(* Through stops, surfaces, absences and late runnables a stream is muted   *)
(* exactly while its hold runs, and none goes on connected behind a stopped *)
(* activity but one that is held.                                           *)
THEOREM HoldIsSound == Spec => []HoldInv
<1>1. IInv => HoldInv
  BY DEF IInv, Holds, StopsKnown, HoldInv, StoppedIsHeld
<1> QED BY HoldInvariant, <1>1, PTL

-----------------------------------------------------------------------------
(* Only a callback of the activity's start, or the session's coming back,   *)
(* gives the sound back.                                                    *)
LEMMA WhoResumes ==
  ASSUME Next, muted, ~muted'
  PROVE  OnStart \/ SurfaceCreated \/ ToldBack
<1>1. CASE Callback
  BY <1>1 DEF Callback, OnStopLaunch, OnStopHeld, OnStopEnds, OnDestroy, SurfaceDestroyedKept,
         SurfaceDestroyedHeld, SurfaceDestroyedEnds, Finish, HoldStop, StartHold, Cancel, hold
<1>2. CASE Runnable
  BY <1>2 DEF Runnable, Tick, HeadsetHoldOver, ToldAway, NoticeOver, StartHold, hold
<1>3. CASE Stream \/ Headset
  BY <1>3 DEF Stream, Headset, Connected, ConnectFails, TerminatedQuietly, TerminatedWithError,
         RendererUp, RendererGone, SessionMoves, TrackPresence, hold
<1>4. CASE Awake \/ Asleep
  BY <1>4 DEF Awake, Asleep
<1> QED BY <1>1, <1>2, <1>3, <1>4 DEF Next

(* And to a hold that has not run out, both of whose reasons are gone.      *)
LEMMA WhatResumes ==
  ASSUME ResumeIfBack, muted, ~muted'
  PROVE  holding /\ IsBack /\ held < Grace
BY DEF ResumeIfBack, hold, Unmute, Expire

(* The sound comes back in time, and to someone who is there, whatever was  *)
(* slept through and in whatever order the two reasons go away.             *)
THEOREM SoundComesBackRightly == Spec => ResumesRightly
<1>1. ASSUME IInv, [Next]_vars PROVE [NeverResumesLate /\ HoldsUntilBack]_vars
  <2>1. SUFFICES ASSUME Next, muted, ~muted'
                 PROVE  /\ mutedFor < Grace
                        /\ conn # "over" => /\ activity' = "started" \/ launchHeld
                                            /\ toldAway' => unheard'
    BY <1>1 DEF NeverResumesLate, HoldsUntilBack
  <2>2. ResumeIfBack
    BY <2>1, WhoResumes DEF OnStart, SurfaceCreated, ToldBack, ActivityStarted
  <2>3. holding /\ IsBack /\ held < Grace
    BY <2>1, <2>2, WhatResumes
  <2>4. mutedFor < Grace
    BY <1>1, <2>3, DoffAssumption DEF IInv, Clocks, TypeOK
  <2>5. ASSUME conn # "over"
        PROVE  (activity' = "started" \/ launchHeld) /\ (toldAway' => unheard')
    <3>1. CASE OnStart
      BY <1>1, <2>3, <2>5, <3>1 DEF OnStart, ActivityStarted, IsBack, told, IInv, Holds,
             AwayKnown, TypeOK
    <3>2. CASE SurfaceCreated
      BY <1>1, <2>3, <2>5, <3>2 DEF SurfaceCreated, ActivityStarted, IsBack, told, IInv, Holds,
             AwayKnown, TypeOK
    <3>3. CASE ToldBack
      BY <1>1, <2>3, <2>5, <3>3 DEF ToldBack, android, IsBack, IInv, EarlyEnds, StopsKnown, TypeOK
    <3> QED BY <2>1, <3>1, <3>2, <3>3, WhoResumes
  <2> QED BY <2>4, <2>5
<1> QED BY HoldInvariant, <1>1, PTL DEF Spec, ResumesRightly

=============================================================================
