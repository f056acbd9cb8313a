----------------------------- MODULE DepthPairs -----------------------------
(***************************************************************************)
(* The staging pairs of the depth pipeline, after DepthPairs.java: the     *)
(* frame loop captures a picture into a free pair, the stage thread reads  *)
(* it back, the depth thread runs the model on it, and the stage thread    *)
(* uploads the map (or drops the pair) and frees it.                       *)
(*                                                                         *)
(* Each action is one region under the renderer's depthLock, so it is      *)
(* atomic.  A capture takes two of them: forCapture hands out a pair that  *)
(* stays FREE, and captured marks it, with the lock released in between.   *)
(* `claim' is the frame loop's local that lives across that gap.           *)
(*                                                                         *)
(* This module lets the three threads call in any order their local state  *)
(* allows; DepthPipeline adds the threads themselves.                      *)
(***************************************************************************)
EXTENDS Naturals, FiniteSets

CONSTANTS
    NumPairs,      \* DEPTH_PAIRS
    MaxCaptures    \* bound: captures in a behaviour (a long in the code)

ASSUME PairsAssumption == NumPairs \in Nat \ {0} /\ MaxCaptures \in Nat

Pairs == 0 .. NumPairs - 1
None == NumPairs          \* the -1 of the code: no pair

VARIABLES
    state,      \* where each pair is in a map's trip
    order,      \* when each pair was captured, as a count
    made,       \* whether the model made a map of it
    captures,   \* captures so far
    claim,      \* the pair handed out and not marked yet, or None
    live        \* history: the capture the live map was made from, 0 for none

pairVars == <<state, order, made, captures, claim, live>>

States == {"FREE", "CAPTURED", "FINISHING", "STAGED", "RUNNING", "RAN", "UPLOADING"}
Waiting == {"CAPTURED", "FINISHING", "STAGED"}

PairsTypeOK ==
    /\ state \in [Pairs -> States]
    /\ order \in [Pairs -> 0 .. MaxCaptures]
    /\ made \in [Pairs -> BOOLEAN]
    /\ captures \in 0 .. MaxCaptures
    /\ claim \in Pairs \cup {None}
    /\ live \in 0 .. MaxCaptures

In(s) == {p \in Pairs : state[p] = s}
InFlight == {p \in Pairs : state[p] # "FREE"}
IsFirst(p, S) == p \in S /\ \A q \in S : p <= q

PairsInit ==
    /\ state = [p \in Pairs |-> "FREE"]
    /\ order = [p \in Pairs |-> 0]
    /\ made = [p \in Pairs |-> FALSE]
    /\ captures = 0
    /\ claim = None
    /\ live = 0

-----------------------------------------------------------------------------

CanCapture == In("FREE") # {} /\ \A p \in Pairs : state[p] \notin Waiting

(* forCapture, when it hands a pair out; the pair is not marked yet. *)
ForCapture(p) ==
    /\ claim = None
    /\ captures < MaxCaptures
    /\ CanCapture /\ IsFirst(p, In("FREE"))
    /\ claim' = p
    /\ UNCHANGED <<state, order, made, captures, live>>

(* Mutant: the capture takes the count before it goes up. *)
CapturedStale ==
    /\ claim # None
    /\ captures' = captures + 1
    /\ order' = [order EXCEPT ![claim] = captures]
    /\ made' = [made EXCEPT ![claim] = FALSE]
    /\ state' = [state EXCEPT ![claim] = "CAPTURED"]
    /\ claim' = None
    /\ UNCHANGED live

(* captured: a readback was queued into the claimed pair. *)
Captured ==
    /\ claim # None
    /\ captures' = captures + 1
    /\ order' = [order EXCEPT ![claim] = captures + 1]
    /\ made' = [made EXCEPT ![claim] = FALSE]
    /\ state' = [state EXCEPT ![claim] = "CAPTURED"]
    /\ claim' = None
    /\ UNCHANGED live

Move(p, to) ==
    /\ state' = [state EXCEPT ![p] = to]
    /\ UNCHANGED <<order, captures, claim>>

TakeToFinish(p) ==
    /\ IsFirst(p, In("CAPTURED"))
    /\ Move(p, "FINISHING")
    /\ UNCHANGED <<made, live>>

(* With nothing to run the model on, the pair only waits its turn to be dropped. *)
Finished(p, staged) ==
    /\ state[p] = "FINISHING"
    /\ Move(p, IF staged THEN "STAGED" ELSE "RAN")
    /\ UNCHANGED <<made, live>>

TakeToRun(p) ==
    /\ In("RUNNING") = {} /\ IsFirst(p, In("STAGED"))
    /\ Move(p, "RUNNING")
    /\ UNCHANGED <<made, live>>

Ran(p, madeMap) ==
    /\ state[p] = "RUNNING"
    /\ Move(p, "RAN")
    /\ made' = [made EXCEPT ![p] = madeMap]
    /\ UNCHANGED live


(* The oldest pair in flight. *)
IsOldest(p) == p \in InFlight /\ \A q \in InFlight : order[p] <= order[q]
CanUploadAny(p) == state[p] = "RAN"     \* mutant: whichever the model is done with
CanUpload(p) == IsOldest(p) /\ state[p] = "RAN"

TakeToUpload(p) ==
    /\ CanUpload(p)
    /\ Move(p, "UPLOADING")
    /\ UNCHANGED <<made, live>>

Freed(p) ==
    /\ state[p] = "UPLOADING"
    /\ Move(p, "FREE")
    /\ live' = IF made[p] THEN order[p] ELSE live
    /\ UNCHANGED made

PairsNext ==
    \/ Captured
    \/ \E p \in Pairs :
          \/ ForCapture(p)
          \/ TakeToFinish(p)
          \/ \E staged \in BOOLEAN : Finished(p, staged)
          \/ TakeToRun(p)
          \/ \E madeMap \in BOOLEAN : Ran(p, madeMap)
          \/ TakeToUpload(p)
          \/ Freed(p)

PairsSpec == PairsInit /\ [][PairsNext]_pairVars

-----------------------------------------------------------------------------
(* At most one capture waits for the model, so a frame never queues behind *)
(* another older one, even across the gap in which a pair is handed out    *)
(* and not marked (the first rule of DepthPairs.java).                     *)
OneCaptureWaits ==
    /\ \A p, q \in Pairs : state[p] \in Waiting /\ state[q] \in Waiting => p = q
    /\ claim # None => state[claim] = "FREE" /\ \A p \in Pairs : state[p] \notin Waiting

(* One pair with the model and one with the uploader at most: two pairs in *)
(* one of those hands would share the model's tensors or the averages.     *)
OneOwner ==
    \A p, q \in Pairs :
        state[p] = state[q] /\ state[p] \in {"RUNNING", "UPLOADING"} => p = q

(* The pair in the uploader's hand was captured before every other pair in *)
(* flight and after the live map, so maps go up in the order their frames  *)
(* arrived (the second rule of DepthPairs.java).                           *)
UploadsOldest ==
    \A p \in In("UPLOADING") :
        /\ order[p] > live
        /\ \A q \in InFlight \ {p} : order[q] > order[p]

(* Captures are counted as they are marked, so no two pairs in flight share *)
(* a count, none is past the count, and all are newer than the live map.    *)
OrdersDistinct ==
    /\ live <= captures
    /\ \A p \in InFlight : order[p] > live /\ order[p] <= captures
    /\ \A p, q \in InFlight : order[p] = order[q] => p = q

(* Inductive: each region under the lock preserves it (DepthPipelineProofs). *)
PairsInv ==
    /\ PairsTypeOK /\ OneCaptureWaits /\ OneOwner /\ UploadsOldest /\ OrdersDistinct
    /\ claim # None => captures < MaxCaptures

(* The depth map on screen never goes back to an older picture. *)
LiveNeverGoesBack == [][live' >= live]_pairVars

(* What this promises to whoever looks at the maps only. *)
Maps == INSTANCE DepthMaps WITH
    taken <- captures,
    settled <- captures - Cardinality(InFlight),
    shown <- live,
    Depth <- NumPairs

MapsSpec == Maps!Spec
=============================================================================
