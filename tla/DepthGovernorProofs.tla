------------------------ MODULE DepthGovernorProofs -------------------------
(***************************************************************************)
(* Proofs about the depth governor, for every rate range, setting, window   *)
(* count and wait.  GovernorInv is inductive: the ceiling needs the types,  *)
(* and that a climb follows calm needs HoldIsCalm beside them.              *)
(***************************************************************************)
EXTENDS DepthGovernor, TLAPS

USE RateAssumption

(* Halving stays in range and never raises a rate in range. *)
LEMMA HalfBounds ==
    ASSUME NEW n \in MinRate .. MaxRate
    PROVE  Half(n) \in MinRate .. MaxRate /\ Half(n) <= n
BY DEF Half, Most

LEMMA ClampBounds == ASSUME NEW n \in Int PROVE Clamp(n) \in MinRate .. MaxRate
BY DEF Clamp, Most, Least

(* The ceiling is a rate in range, under the setting and under the last failure. *)
LEMMA CeilingBounds ==
    ASSUME TypeOK
    PROVE  /\ Ceiling \in MinRate .. MaxRate
           /\ Ceiling <= cap
           /\ failed # 0 => Ceiling <= failed
BY HalfBounds DEF Ceiling, TypeOK, Least

LEMMA AgeBounds ==
    ASSUME TypeOK
    PROVE  /\ CutAge \in 0 .. Hold
           /\ HeldAge \in 0 .. RecoverMax /\ HeldAge \in 1 .. RecoverMax
           /\ RaisedAge \in {None} \cup 0 .. RaiseHeld
           /\ Older(heldFor, RecoverMax) \in {None} \cup 0 .. RecoverMax
BY DEF TypeOK, CutAge, HeldAge, RaisedAge, Older, Least, None

LEMMA InitInv == ASSUME Init PROVE GovernorInv
<1> PICK s \in Settings : cap = Clamp(s) /\ target = Clamp(s)
  BY DEF Init
<1>1. cap \in MinRate .. MaxRate /\ target = cap
  BY ClampBounds
<1>2. failed = 0 /\ recover = Recover /\ heldFor = None
  BY DEF Init
<1>3. TypeOK
  <2>1. throttled \in BOOLEAN /\ capped \in BOOLEAN
    BY Zenon DEF Init
  <2> QED
    BY <1>1, <1>2, <2>1 DEF Init, TypeOK, Moves, None
<1>4. TargetUnderCeiling /\ HoldIsCalm
  BY <1>1, <1>2 DEF TargetUnderCeiling, HoldIsCalm, Ceiling
<1> QED
  BY <1>3, <1>4 DEF GovernorInv

(* A cut leaves the target in range, no higher than it was. *)
LEMMA CutBounds ==
    ASSUME TypeOK, Cut
    PROVE  /\ target' \in MinRate .. MaxRate /\ target' <= target
           /\ sinceCut' \in 0 .. Hold /\ capped' \in BOOLEAN
<1>1. target \in MinRate .. MaxRate
  BY DEF TypeOK
<1>2. target' = Half(target)
  BY DEF Cut
<1>3. target' \in MinRate .. MaxRate /\ target' <= target
  BY <1>1, <1>2, HalfBounds
<1>4. sinceCut' \in 0 .. Hold
  BY DEF Cut
<1>5. capped' \in BOOLEAN
  BY Zenon DEF Cut
<1> QED
  BY <1>3, <1>4, <1>5

(* A window that held: the target climbs no further than the ceiling. *)
LEMMA HeldInv ==
    ASSUME GovernorInv, Held
    PROVE  /\ cap' = cap /\ failed' = failed /\ throttled' = throttled
           /\ target' \in MinRate .. MaxRate /\ target' <= Ceiling
           /\ sinceCut' \in 0 .. Hold
           /\ heldFor' \in {None} \cup 0 .. RecoverMax
           /\ recover' \in Recover .. RecoverMax
           /\ raisedFor' \in {None} \cup 0 .. RaiseHeld
           /\ capped' \in BOOLEAN /\ move' \in Moves
           /\ heldFor' # None => live /\ ~throttled /\ heldFor' <= HeldAge
<1> USE DEF GovernorInv, Moves
<1>1. CASE HeldIdle
  BY <1>1, AgeBounds DEF Held, HeldIdle, TypeOK, TargetUnderCeiling
<1>2. CASE live /\ ~throttled /\ RaiseProven
  BY <1>2, AgeBounds DEF Held, RaiseProven, TypeOK, TargetUnderCeiling
<1>3. CASE live /\ ~throttled /\ HeldOn
  <2>1. target' \in MinRate .. MaxRate /\ target' <= Ceiling
    BY <1>3, CeilingBounds DEF HeldOn, TypeOK, TargetUnderCeiling, Least
  <2> QED
    BY <2>1, <1>3, AgeBounds DEF Held, HeldOn, TypeOK
<1> QED
  BY <1>1, <1>2, <1>3 DEF Held

LEMMA HeldKeepsInv ==
    ASSUME GovernorInv, Held, settle = 0, settle' = settle, overRun' = 0, UNCHANGED envVars,
           calm' = IF live /\ ~throttled THEN Least(calm + 1, RecoverMax) ELSE 0,
           misses' = 0
    PROVE  GovernorInv'
<1>1. TypeOK'
  BY HeldInv DEF GovernorInv, TypeOK, envVars, Least
<1>2. TargetUnderCeiling'
  BY HeldInv DEF TargetUnderCeiling, Ceiling
<1>3. HoldIsCalm'
  <2>1. CASE live /\ ~throttled
    <3>1. HeldAge <= calm'
      BY <2>1 DEF GovernorInv, TypeOK, HoldIsCalm, HeldAge, Older, Least, None
    <3> QED
      BY <3>1, HeldInv, AgeBounds, <1>1 DEF HoldIsCalm, GovernorInv, TypeOK, None
  <2>2. CASE ~(live /\ ~throttled)
    BY <2>2, HeldInv DEF HoldIsCalm, envVars
  <2> QED
    BY <2>1, <2>2
<1> QED
  BY <1>1, <1>2, <1>3 DEF GovernorInv

(* A window over budget: the half it leaves is the new ceiling. *)
LEMMA OverInv ==
    ASSUME GovernorInv, Over, settle' = settle, overRun' = 0, UNCHANGED envVars, calm' = 0,
           misses' \in 0 .. OverWindows
    PROVE  GovernorInv'
<1> DEFINE did == IF live THEN CutMove(CutAge) ELSE "DISPLAY"
<1>1. CASE did = "CUT"
  <2>1. TypeOK'
    BY <1>1, CutBounds DEF GovernorInv, TypeOK, Over, envVars, Least, Moves, None
  <2>2. TargetUnderCeiling'
    BY <1>1, HalfBounds, CeilingBounds DEF GovernorInv, TypeOK, Over, Cut, TargetUnderCeiling,
       Ceiling, Least
  <2> QED
    BY <2>1, <2>2 DEF GovernorInv, HoldIsCalm, Over
<1>2. CASE did # "CUT"
  BY <1>2, AgeBounds DEF GovernorInv, TypeOK, Over, envVars, CutMove, Moves, TargetUnderCeiling,
     Ceiling, HoldIsCalm
<1> QED
  BY <1>1, <1>2

LEMMA BrokenInv ==
    ASSUME GovernorInv, Broken, settle' \in 0 .. SettleWindows, overRun' \in 0 .. OverWindows - 1,
           UNCHANGED envVars, calm' = 0, misses' \in 0 .. OverWindows
    PROVE  GovernorInv'
BY AgeBounds DEF GovernorInv, TypeOK, Broken, envVars, Moves, TargetUnderCeiling, Ceiling, HoldIsCalm

LEMMA WindowInv == ASSUME GovernorInv, Window PROVE GovernorInv'
<1> USE DEF Least
<1>1. CASE settle > 0 /\ settle' = settle - 1
  BY <1>1, BrokenInv DEF Window, GovernorInv, TypeOK
<1>2. CASE settle = 0 /\ light
  BY <1>2, HeldKeepsInv DEF Window
<1>3. CASE settle = 0 /\ ~light /\ overRun + 1 < OverWindows
  BY <1>3, BrokenInv DEF Window, GovernorInv, TypeOK
<1>4. CASE settle = 0 /\ ~light /\ overRun + 1 = OverWindows
  BY <1>4, OverInv DEF Window, GovernorInv, TypeOK
<1> QED
  BY <1>1, <1>2, <1>3, <1>4 DEF Window

LEMMA UnjudgedInv == ASSUME GovernorInv, Unjudged PROVE GovernorInv'
BY AgeBounds DEF GovernorInv, TypeOK, Unjudged, envVars, Moves, TargetUnderCeiling, Ceiling, HoldIsCalm

LEMMA ThrottleInv == ASSUME GovernorInv, Throttle PROVE GovernorInv'
<1> PICK worse \in BOOLEAN, off \in BOOLEAN :
      LET did == IF worse /\ live THEN CutMove(sinceCut) ELSE "NONE" IN
         /\ worse => off
         /\ throttled' = off
         /\ heldFor' = IF worse THEN None ELSE heldFor
         /\ calm' = IF worse THEN 0 ELSE calm
         /\ move' = IF did = "DISPLAY" THEN "NONE" ELSE did
         /\ IF did = "CUT"
            THEN Cut /\ raisedFor' = None
            ELSE UNCHANGED <<target, sinceCut, capped, raisedFor>>
  BY DEF Throttle
<1>1. UNCHANGED <<budgetVars, cap, failed, recover, envVars, misses>>
  BY DEF Throttle
<1>2. target' \in MinRate .. MaxRate /\ target' <= target /\ sinceCut' \in 0 .. Hold /\ capped' \in BOOLEAN
  BY CutBounds DEF GovernorInv, TypeOK
<1>3. TypeOK'
  BY <1>1, <1>2 DEF GovernorInv, TypeOK, budgetVars, envVars, CutMove, Moves, None
<1>4. TargetUnderCeiling'
  BY <1>1, <1>2, CeilingBounds DEF GovernorInv, TypeOK, TargetUnderCeiling, Ceiling
<1>5. HoldIsCalm'
  BY <1>1 DEF GovernorInv, HoldIsCalm, budgetVars, envVars
<1> QED
  BY <1>3, <1>4, <1>5 DEF GovernorInv

LEMMA SetCapInv == ASSUME GovernorInv, SetCap PROVE GovernorInv'
<1> PICK s \in Settings : Started(s)
  BY DEF SetCap
<1>1. cap' \in MinRate .. MaxRate /\ target' = cap'
  BY ClampBounds DEF Started
<1>2. failed' = 0 /\ heldFor' = None /\ calm' = 0
  BY DEF Started, SetCap
<1>3. TypeOK'
  <2>1. capped' \in BOOLEAN /\ raisedFor' = None /\ move' = "NONE"
    BY Zenon DEF Started, SetCap
  <2>2. sinceCut' = Hold /\ recover' = Recover
    BY DEF Started
  <2> QED
    BY <1>1, <1>2, <2>1, <2>2 DEF GovernorInv, TypeOK, SetCap, budgetVars, envVars, Moves, None
<1>4. TargetUnderCeiling' /\ HoldIsCalm'
  BY <1>1, <1>2 DEF TargetUnderCeiling, HoldIsCalm, Ceiling
<1> QED
  BY <1>3, <1>4 DEF GovernorInv

LEMMA ChangeInv == ASSUME GovernorInv, Change PROVE GovernorInv'
<1>1. UNCHANGED govVars /\ move' = "NONE"
  BY DEF Change
<1>2. /\ settle' \in 0 .. SettleWindows /\ overRun' \in 0 .. OverWindows - 1
      /\ calm' \in 0 .. RecoverMax /\ misses' \in 0 .. OverWindows
  BY DEF Change, GovernorInv, TypeOK, budgetVars
<1>3. live' \in BOOLEAN /\ steady' \in BOOLEAN /\ light' \in BOOLEAN
  BY Zenon DEF Change, GovernorInv, TypeOK
<1>4. TypeOK'
  BY <1>1, <1>2, <1>3 DEF GovernorInv, TypeOK, govVars, Moves
<1>5. TargetUnderCeiling'
  BY <1>1 DEF GovernorInv, TargetUnderCeiling, Ceiling, govVars
<1>6. HoldIsCalm'
  BY <1>1 DEF GovernorInv, TypeOK, HoldIsCalm, Change, govVars, budgetVars
<1> QED
  BY <1>4, <1>5, <1>6 DEF GovernorInv

LEMMA NextInv == ASSUME GovernorInv, [Next]_vars PROVE GovernorInv'
<1>1. CASE Window
  BY <1>1, WindowInv
<1>2. CASE Unjudged
  BY <1>2, UnjudgedInv
<1>3. CASE Throttle
  BY <1>3, ThrottleInv
<1>4. CASE SetCap
  BY <1>4, SetCapInv
<1>5. CASE Change
  BY <1>5, ChangeInv
<1>6. CASE UNCHANGED vars
  BY <1>6 DEF vars, budgetVars, govVars, envVars, histVars, GovernorInv, TypeOK,
     TargetUnderCeiling, Ceiling, HoldIsCalm
<1> QED
  BY <1>1, <1>2, <1>3, <1>4, <1>5, <1>6 DEF Next, Tick

(* xr_rate.c: for every range, setting and wait, the governor keeps its *)
(* types, its ceiling and the honesty of its hold.                      *)
THEOREM GovernorInvariant == Spec => []GovernorInv
<1>1. GovernorInv /\ [Next]_vars => GovernorInv'
  BY NextInv
<1> QED
  BY <1>1, InitInv, PTL DEF Spec

(* The target never passes half of the last rate the budget failed at. *)
THEOREM NeverPastCeiling == Spec => []TargetUnderCeiling
BY GovernorInvariant, PTL DEF GovernorInv

(* Only a window that held raises the target under one setting. *)
LEMMA OnlyHeldRaises ==
    ASSUME GovernorInv, [Next]_vars, cap' = cap, target' > target
    PROVE  Window /\ settle = 0 /\ light /\ live /\ ~throttled /\ HeldOn
<1> USE DEF GovernorInv
<1>0. target \in Int /\ target' \in Int
  BY NextInv DEF TypeOK
<1>1. target' # target
  BY <1>0
<1>2. ASSUME Cut PROVE FALSE
  BY <1>2, <1>0, CutBounds
<1>3. ~Over
  BY <1>1, <1>2 DEF Over
<1>4. ~Broken /\ ~HeldIdle /\ ~RaiseProven
  BY <1>1 DEF Broken, HeldIdle, RaiseProven
<1>5. CASE Window
  BY <1>3, <1>4, <1>5 DEF Window, Held
<1>6. ~Unjudged /\ ~Change /\ ~UNCHANGED vars
  BY <1>1 DEF Unjudged, Change, govVars, vars
<1>7. ~Throttle
  BY <1>1, <1>2 DEF Throttle
<1>8. ~SetCap
  BY DEF SetCap, Started
<1> QED
  BY <1>5, <1>6, <1>7, <1>8 DEF Next, Tick

(* Under one setting the target climbs only after the wait in force has gone  *)
(* by in held windows, with nothing in between to break the run.              *)
THEOREM ClimbsOnlyAfterCalm == Spec => ClimbsAfterCalm
<1>1. ASSUME GovernorInv, [Next]_vars, cap' = cap, target' > target
      PROVE  calm' >= recover
  <2>1. Window /\ settle = 0 /\ light /\ live /\ ~throttled /\ HeldOn
    BY <1>1, OnlyHeldRaises
  <2>2. calm' = Least(calm + 1, RecoverMax)
    BY <2>1 DEF Window
  <2>3. HeldAge >= recover
    <3>1. target \in Int
      BY <1>1 DEF GovernorInv, TypeOK
    <3> QED
      BY <1>1, <2>1, <3>1 DEF HeldOn
  <2>4. HeldAge <= calm'
    BY <1>1, <2>1, <2>2 DEF GovernorInv, TypeOK, HoldIsCalm, HeldAge, Older, Least, None
  <2> QED
    BY <1>1, <2>2, <2>3, <2>4, AgeBounds DEF GovernorInv, TypeOK, Least
<1>2. GovernorInv /\ [Next]_vars => (cap' = cap /\ target' > target => calm' >= recover)
  BY <1>1
<1>3. GovernorInv /\ [Next]_vars => [cap' = cap /\ target' > target => calm' >= recover]_vars
  BY <1>2
<1> QED
  BY <1>3, GovernorInvariant, PTL DEF Spec, ClimbsAfterCalm

(* While the setting stays, the rate known to fail only comes down. *)
THEOREM FailuresOnlyFall == Spec => FailedOnlyFalls
<1>1. ASSUME GovernorInv, [Next]_vars, cap' = cap, failed # 0, failed' # 0
      PROVE  failed' <= failed
  <2>1. CASE failed' = failed
    BY <1>1, <2>1 DEF GovernorInv, TypeOK
  <2>2. CASE failed' # failed
    <3>1. ~SetCap
      BY <1>1 DEF SetCap, Started
    <3>2. ~Held /\ ~Broken /\ ~Unjudged /\ ~Throttle /\ ~Change /\ ~UNCHANGED vars
      BY <2>2 DEF Held, Broken, Unjudged, Throttle, Change, govVars, vars
    <3>3. Over
      BY <1>1, <3>1, <3>2 DEF Next, Tick, Window
    <3>4. failed' = target
      BY <2>2, <3>3 DEF Over
    <3> QED
      BY <1>1, <3>4, CeilingBounds DEF GovernorInv, TypeOK, TargetUnderCeiling
  <2> QED
    BY <2>1, <2>2
<1>2. GovernorInv /\ [Next]_vars => [cap' = cap /\ failed # 0 /\ failed' # 0 => failed' <= failed]_vars
  BY <1>1
<1> QED
  BY <1>2, GovernorInvariant, PTL DEF Spec, FailedOnlyFalls

(* While a model runs the display is asked to give way at the floor alone. *)
THEOREM FloorBeforeDisplay == Spec => []DisplayPaysLast
<1>1. Init => DisplayPaysLast
  BY DEF Init, DisplayPaysLast
<1>2. ASSUME GovernorInv, DisplayPaysLast, [Next]_vars PROVE DisplayPaysLast'
  <2>1. CASE UNCHANGED vars
    BY <1>2, <2>1, Zenon DEF DisplayPaysLast, vars, govVars, envVars
  <2>2. ASSUME Over, UNCHANGED envVars PROVE DisplayPaysLast'
    <3>1. CASE live /\ CutMove(CutAge) = "DISPLAY"
      <4>1. target' = target /\ target <= MinRate
        BY <2>2, <3>1 DEF Over, CutMove
      <4> QED
        BY <1>2, <4>1 DEF GovernorInv, TypeOK, DisplayPaysLast
    <3>2. CASE live /\ CutMove(CutAge) # "DISPLAY"
      BY <2>2, <3>2 DEF Over, DisplayPaysLast
    <3>3. CASE ~live
      BY <2>2, <3>3 DEF envVars, DisplayPaysLast
    <3> QED
      BY <3>1, <3>2, <3>3
  <2>3. ASSUME Held PROVE move' # "DISPLAY"
    BY <2>3 DEF Held, HeldIdle, RaiseProven, HeldOn
  <2>4. CASE Window
    BY <2>2, <2>3, <2>4 DEF Window, Broken, DisplayPaysLast
  <2>5. CASE Throttle
    <3>1. move' # "DISPLAY"
      BY <2>5 DEF Throttle
    <3> QED
      BY <3>1 DEF DisplayPaysLast
  <2>6. CASE Unjudged \/ SetCap \/ Change
    <3>1. move' = "NONE"
      BY <2>6 DEF Unjudged, SetCap, Change
    <3> QED
      BY <3>1 DEF DisplayPaysLast
  <2> QED
    BY <1>2, <2>1, <2>4, <2>5, <2>6 DEF Next, Tick
<1> QED
  BY <1>1, <1>2, GovernorInvariant, PTL DEF Spec
=============================================================================
