--------------------------- MODULE DepthGovernor ----------------------------
(***************************************************************************)
(* How often the depth model runs, after xr_rate.c and the frame loop's    *)
(* side of it in xr_display.c.  The frame budget judges the frame loop a   *)
(* window at a time; over budget the depth target is halved, held budget   *)
(* lets it climb again, and only at the floor is it the display's turn.    *)
(*                                                                         *)
(* Time is counted in windows (RATE_WINDOW_NS).  A time the code keeps as a *)
(* clock reading is kept here as its age, saturated where the code no      *)
(* longer tells ages apart, so nothing here needs a bound for TLC.         *)
(***************************************************************************)
EXTENDS Integers

CONSTANTS
    MinRate, MaxRate,   \* DEPTH_RATE_MIN, DEPTH_RATE_MAX
    Settings,           \* bound: the settings that may be asked for, in range or not
    OverWindows,        \* RATE_OVER_WINDOWS
    SettleWindows,      \* RATE_SETTLE_WINDOWS
    Hold,               \* DEPTH_HOLD_NS, in windows
    Recover,            \* DEPTH_RECOVER_NS
    RecoverMax,         \* DEPTH_RECOVER_MAX_NS
    RaiseHeld           \* DEPTH_RAISE_HELD_NS

ASSUME RateAssumption ==
    /\ MinRate \in Nat \ {0} /\ MaxRate \in Nat /\ MinRate <= MaxRate
    /\ Settings \subseteq Int
    /\ OverWindows \in Nat \ {0} /\ SettleWindows \in Nat \ {0}
    /\ Hold \in Nat \ {0} /\ RaiseHeld \in Nat \ {0}
    /\ Recover \in Nat \ {0} /\ RecoverMax \in Nat /\ Recover <= RecoverMax

VARIABLES
    settle, overRun,   \* RateBudget: windows to throw away, windows over in a row
    cap, target,       \* the setting, and what the gate runs at
    sinceCut,          \* age of cutNs, Hold or more being the same as never
    heldFor,           \* age of heldSinceNs, None for not holding
    throttled,
    failed,            \* failedTarget, 0 for none
    recover,           \* recoverNs
    raisedFor,         \* age of raisedNs, None once it has been judged
    capped,            \* cappedSaid
    move,              \* what the governor did with the last window or notice
    \* the environment: the depth model runs with the 3D on, the display is in
    \* focus on the rate asked for, and a frame fits its period
    live, steady, light,
    \* history: windows in a row that held with nothing to break the run, and
    \* judged windows in a row that were over
    calm, misses

budgetVars == <<settle, overRun>>
govVars == <<cap, target, sinceCut, heldFor, throttled, failed, recover, raisedFor, capped>>
envVars == <<live, steady, light>>
histVars == <<calm, misses>>
vars == <<budgetVars, govVars, move, envVars, histVars>>

None == -1
Moves == {"NONE", "CUT", "RAISED", "HOLDING", "DISPLAY", "RAISE_HELD", "CAPPED"}

Least(a, b) == IF a < b THEN a ELSE b
Most(a, b) == IF a > b THEN a ELSE b
Clamp(n) == Most(MinRate, Least(n, MaxRate))
Half(n) == Most(MinRate, n \div 2)
Older(age, limit) == IF age = None THEN None ELSE Least(age + 1, limit)

TypeOK ==
    /\ settle \in 0 .. SettleWindows /\ overRun \in 0 .. OverWindows - 1
    /\ cap \in MinRate .. MaxRate /\ target \in MinRate .. MaxRate
    /\ sinceCut \in 0 .. Hold
    /\ heldFor \in {None} \cup 0 .. RecoverMax
    /\ throttled \in BOOLEAN
    /\ failed \in {0} \cup MinRate .. MaxRate
    /\ recover \in Recover .. RecoverMax
    /\ raisedFor \in {None} \cup 0 .. RaiseHeld
    /\ capped \in BOOLEAN
    /\ move \in Moves
    /\ live \in BOOLEAN /\ steady \in BOOLEAN /\ light \in BOOLEAN
    /\ calm \in 0 .. RecoverMax /\ misses \in 0 .. OverWindows

(* depthGovernorStart. *)
Started(setting) ==
    /\ cap' = Clamp(setting) /\ target' = Clamp(setting)
    /\ sinceCut' = Hold /\ heldFor' = None
    /\ failed' = 0 /\ recover' = Recover /\ raisedFor' = None /\ capped' = FALSE

Init ==
    /\ settle = SettleWindows /\ overRun = 0
    /\ \E s \in Settings : cap = Clamp(s) /\ target = Clamp(s)
    /\ sinceCut = Hold /\ heldFor = None /\ throttled = FALSE
    /\ failed = 0 /\ recover = Recover /\ raisedFor = None /\ capped = FALSE
    /\ move = "NONE"
    /\ live \in BOOLEAN /\ steady \in BOOLEAN /\ light \in BOOLEAN
    /\ calm = 0 /\ misses = 0

-----------------------------------------------------------------------------

(* depthGovernorCeiling: the setting, or half the failed target. *)
Ceiling == IF failed = 0 THEN cap ELSE Least(Half(failed), cap)

(* Mutant: the display before the last halving. *)
CutMoveEarly(age) ==
    IF age < Hold THEN "HOLDING" ELSE IF target <= 2 * MinRate THEN "DISPLAY" ELSE "CUT"

(* depthCut, with the age of the last cut: what it does, then the halving. *)
CutMove(age) ==
    IF age < Hold THEN "HOLDING" ELSE IF target <= MinRate THEN "DISPLAY" ELSE "CUT"
Cut == target' = Half(target) /\ sinceCut' = 0 /\ capped' = FALSE

(* The ages a window later.  A hold that starts with this window began with it. *)
CutAge == Least(sinceCut + 1, Hold)
HeldAgeAfresh == 1     \* mutant: each held window starts the hold again
HeldAge == IF heldFor = None THEN 1 ELSE Older(heldFor, RecoverMax)
RaisedAge == Older(raisedFor, RaiseHeld)

(* depthHeld, in the order of its returns. *)
HeldIdle ==
    /\ ~live \/ throttled
    /\ heldFor' = None /\ raisedFor' = RaisedAge
    /\ move' = "NONE"
    /\ UNCHANGED <<target, recover, capped>>

RaiseJudged == raisedFor # None /\ RaisedAge = RaiseHeld
RaiseProven ==
    /\ RaiseJudged /\ recover # Recover
    /\ raisedFor' = None /\ recover' = Recover
    /\ heldFor' = HeldAge
    /\ move' = "RAISE_HELD"
    /\ UNCHANGED <<target, capped>>

HeldOn ==
    /\ ~(RaiseJudged /\ recover # Recover)
    /\ LET waited == HeldAge >= recover
           raise == waited /\ target < Ceiling
           say == waited /\ ~raise /\ target < cap /\ ~capped
       IN  /\ target' = IF raise THEN Least(2 * target, Ceiling) ELSE target
           /\ heldFor' = IF raise THEN 0 ELSE HeldAge
           /\ raisedFor' = IF raise THEN 0 ELSE IF RaiseJudged THEN None ELSE RaisedAge
           /\ capped' = (capped \/ say)
           /\ move' = IF raise THEN "RAISED" ELSE IF say THEN "CAPPED" ELSE "NONE"
    /\ UNCHANGED recover

Held ==
    /\ HeldIdle \/ (live /\ ~throttled /\ (RaiseProven \/ HeldOn))
    /\ sinceCut' = CutAge
    /\ UNCHANGED <<cap, throttled, failed>>

(* depthGovernorWindow with a window over budget.  The target that failed is *)
(* remembered, and a step up that led here makes the next wait longer.       *)
Over ==
    /\ heldFor' = None
    /\ LET did == IF live THEN CutMove(CutAge) ELSE "DISPLAY" IN
         /\ move' = did
         /\ IF did = "CUT"
            THEN /\ Cut
                 /\ failed' = target
                 /\ recover' = IF raisedFor = None THEN recover ELSE Least(2 * recover, RecoverMax)
                 /\ raisedFor' = None
            ELSE /\ sinceCut' = CutAge /\ raisedFor' = RaisedAge
                 /\ UNCHANGED <<target, capped, failed, recover>>
    /\ UNCHANGED <<cap, throttled>>

(* Mutant: a window over budget leaves the run of held ones standing. *)
BrokenHeld ==
    /\ sinceCut' = CutAge /\ raisedFor' = RaisedAge
    /\ move' = "NONE"
    /\ UNCHANGED <<cap, target, heldFor, throttled, failed, recover, capped>>

(* Slipping, or a window thrown away: the run of held windows is broken. *)
Broken ==
    /\ heldFor' = None
    /\ sinceCut' = CutAge /\ raisedFor' = RaisedAge
    /\ move' = "NONE"
    /\ UNCHANGED <<cap, target, throttled, failed, recover, capped>>

(* One window, judged by rateBudgetTick and passed on as displayFrameEnded does. *)
Window ==
    /\ steady
    /\ \/ /\ settle > 0
          /\ settle' = settle - 1 /\ UNCHANGED overRun
          /\ Broken /\ calm' = 0 /\ misses' = 0
       \/ /\ settle = 0 /\ light
          /\ overRun' = 0 /\ UNCHANGED settle
          /\ Held
          /\ calm' = IF live /\ ~throttled THEN Least(calm + 1, RecoverMax) ELSE 0
          /\ misses' = 0
       \/ /\ settle = 0 /\ ~light /\ overRun + 1 < OverWindows
          /\ overRun' = overRun + 1 /\ UNCHANGED settle
          /\ Broken /\ calm' = 0 /\ misses' = Least(misses + 1, OverWindows)
       \/ /\ settle = 0 /\ ~light /\ overRun + 1 = OverWindows
          /\ overRun' = 0 /\ UNCHANGED settle
          /\ Over /\ calm' = 0 /\ misses' = Least(misses + 1, OverWindows)
    /\ UNCHANGED envVars

(* Out of focus, or the display not on the rate asked for: the budget starts *)
(* again with every frame, and a window goes by unjudged.                    *)
Unjudged ==
    /\ ~steady
    /\ settle' = SettleWindows /\ overRun' = 0
    /\ sinceCut' = CutAge
    /\ heldFor' = Older(heldFor, RecoverMax) /\ raisedFor' = RaisedAge
    /\ move' = "NONE"
    /\ calm' = 0 /\ misses' = 0
    /\ UNCHANGED <<cap, target, throttled, failed, recover, capped, envVars>>

(* depthGovernorThrottle, from perfNotice: worse when a domain moved to a    *)
(* warning, off when any domain still is.  The step up is not to blame.      *)
Throttle ==
    /\ \E worse, off \in BOOLEAN :
         LET did == IF worse /\ live THEN CutMove(sinceCut) ELSE "NONE" IN
         /\ worse => off
         /\ throttled' = off
         /\ heldFor' = IF worse THEN None ELSE heldFor
         /\ calm' = IF worse THEN 0 ELSE calm
         /\ move' = IF did = "DISPLAY" THEN "NONE" ELSE did
         /\ IF did = "CUT"
            THEN Cut /\ raisedFor' = None
            ELSE UNCHANGED <<target, sinceCut, capped, raisedFor>>
    /\ UNCHANGED <<budgetVars, cap, failed, recover, envVars, misses>>

(* depthGovernorSetCap, from setDepthRate: the throttle is not forgotten. *)
SetCap ==
    /\ \E s \in Settings : Clamp(s) # cap /\ Started(s)
    /\ move' = "NONE" /\ calm' = 0
    /\ UNCHANGED <<budgetVars, throttled, envVars, misses>>

(* The frames became lighter or heavier; or the 3D switched, or focus or the  *)
(* display's rate moved, and the budget starts again; or the model gave up.   *)
Change ==
    /\ \/ light' = ~light /\ UNCHANGED <<live, steady, budgetVars, calm, misses>>
       \/ /\ \/ live' = ~live /\ UNCHANGED steady
             \/ steady' = ~steady /\ UNCHANGED live
          /\ settle' = SettleWindows /\ overRun' = 0 /\ calm' = 0 /\ misses' = 0
          /\ UNCHANGED light
       \/ live /\ live' = FALSE /\ calm' = 0 /\ UNCHANGED <<light, steady, budgetVars, misses>>
    /\ move' = "NONE"
    /\ UNCHANGED govVars

Tick == Window \/ Unjudged
Next == Tick \/ Throttle \/ SetCap \/ Change

(* Frames keep coming, so windows keep filling. *)
Spec == Init /\ [][Next]_vars /\ WF_vars(Tick)

-----------------------------------------------------------------------------
(* The target never passes the ceiling: the setting, and half of the last    *)
(* target the budget failed at, whichever way it got there.                  *)
TargetUnderCeiling == target <= Ceiling

(* A hold in force is never longer than the calm it stands for, but for one  *)
(* a change has broken already and the next window will drop.                *)
HoldIsCalm == heldFor = None \/ settle > 0 \/ ~live \/ heldFor <= calm

(* Inductive (DepthGovernorProofs). *)
GovernorInv == TypeOK /\ TargetUnderCeiling /\ HoldIsCalm

(* While the setting stays, the failed target only comes down: each failure  *)
(* is at a rate the ceiling of the one before allowed.                       *)
FailedOnlyFalls == [][cap' = cap /\ failed # 0 /\ failed' # 0 => failed' <= failed]_vars

(* A climb follows a run of held windows as long as the wait in force, with  *)
(* no miss, throttle, switch of the 3D or change of focus inside the run.    *)
ClimbsAfterCalm == [][cap' = cap /\ target' > target => calm' >= recover]_vars

(* The display is only given up once the depth rate is: with a model running *)
(* the governor asks for a step down at the floor alone.                     *)
DisplayPaysLast == move = "DISPLAY" /\ live => target = MinRate

(* Frames that fit their period for good, with the 3D on and no throttle,    *)
(* bring the target back up to its ceiling.                                  *)
ClimbsBack ==
    <>[](live /\ steady /\ light /\ ~throttled) => []<>(target = Ceiling)
=============================================================================
