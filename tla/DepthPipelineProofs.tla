------------------------ MODULE DepthPipelineProofs -------------------------
(***************************************************************************)
(* Proofs about the depth pipeline, for every number of pairs, captures    *)
(* and slots, as long as there are more slots than pairs: the staging      *)
(* pairs by themselves first, and what the three threads do with them.     *)
(*                                                                         *)
(* OneOwner and UploadsOldest are not inductive as they stand: that an     *)
(* upload is the oldest needs the orders of the pairs in flight to be      *)
(* distinct and past the live map, and that one model run follows another  *)
(* needs one capture at most to wait.  PairsInv is the conjunction that is *)
(* preserved by every region under the depth lock.                         *)
(*                                                                         *)
(* That no slot is written while it is read rests on counting: between the *)
(* upload into a slot and the next one into it all the other slots are     *)
(* written, each by the map of another capture, and whoever still reads    *)
(* the slot came after no more captures than there are pairs.  Behind is   *)
(* that count, and Rotation keeps it for the slot the frame loop is at and *)
(* for every slot the GPU may still be drawing from.                       *)
(***************************************************************************)
EXTENDS DepthPipeline, FiniteSetTheorems, TLAPS

-----------------------------------------------------------------------------
(* The staging pairs *)

(* The initial state satisfies the inductive invariant. *)
LEMMA InitInv == PairsInit => PairsInv
BY PairsAssumption DEF PairsInit, PairsInv, PairsTypeOK, OneCaptureWaits, OneOwner,
   UploadsOldest, OrdersDistinct, InFlight, In, Pairs, None, States, Waiting

(* Handing out a free pair keeps it: only the claim changes. *)
LEMMA ForCaptureInv == ASSUME PairsInv, NEW p \in Pairs, ForCapture(p) PROVE PairsInv'
BY PairsAssumption DEF ForCapture, CanCapture, IsFirst, PairsInv, PairsTypeOK, OneCaptureWaits,
   OneOwner, UploadsOldest, OrdersDistinct, InFlight, In, None

(* Marking the claimed pair makes it the newest, and the only one waiting. *)
LEMMA CapturedInv == ASSUME PairsInv, Captured PROVE PairsInv'
<1> DEFINE c == claim
<1>1. c \in Pairs /\ state[c] = "FREE" /\ (\A p \in Pairs : state[p] \notin Waiting)
      /\ captures < MaxCaptures
  BY DEF PairsInv, PairsTypeOK, OneCaptureWaits, Captured, None
<1>2. PairsTypeOK'
  BY <1>1, PairsAssumption DEF PairsInv, PairsTypeOK, Captured, States, None
<1>3. OneCaptureWaits'
  BY <1>1, PairsAssumption DEF PairsInv, PairsTypeOK, OneCaptureWaits, Captured, Waiting
<1>4. OneOwner'
  BY <1>1 DEF PairsInv, PairsTypeOK, OneOwner, Captured
<1>5. UploadsOldest'
  BY <1>1, PairsAssumption DEF PairsInv, PairsTypeOK, UploadsOldest, OrdersDistinct, Captured, InFlight, In
<1>6. OrdersDistinct'
  BY <1>1, PairsAssumption DEF PairsInv, PairsTypeOK, OrdersDistinct, Captured, InFlight
<1> QED
  BY <1>2, <1>3, <1>4, <1>5, <1>6 DEF PairsInv, Captured

(* A pair that moves on among the states in flight keeps its order, so only *)
(* who owns it and who waits is left to look at.                            *)
LEMMA MoveKeepsOrders ==
    ASSUME PairsInv, NEW p \in InFlight, NEW to \in States \ {"FREE", "UPLOADING"},
           Move(p, to), made' \in [Pairs -> BOOLEAN], live' = live
    PROVE  /\ PairsTypeOK' /\ UploadsOldest' /\ OrdersDistinct'
           /\ (claim # None => captures < MaxCaptures)'
BY PairsAssumption DEF PairsInv, PairsTypeOK, UploadsOldest, OrdersDistinct, Move, InFlight, In

LEMMA TakeToFinishInv == ASSUME PairsInv, NEW p \in Pairs, TakeToFinish(p) PROVE PairsInv'
<1>1. p \in InFlight /\ state[p] = "CAPTURED"
  BY DEF TakeToFinish, IsFirst, In, InFlight
<1>2. PairsTypeOK' /\ UploadsOldest' /\ OrdersDistinct' /\ (claim # None => captures < MaxCaptures)'
  BY <1>1, MoveKeepsOrders DEF TakeToFinish, PairsInv, PairsTypeOK, States
<1>3. OneCaptureWaits' /\ OneOwner'
  BY <1>1 DEF PairsInv, PairsTypeOK, OneCaptureWaits, OneOwner, TakeToFinish, Move, Waiting, None
<1> QED
  BY <1>2, <1>3 DEF PairsInv

LEMMA FinishedInv ==
    ASSUME PairsInv, NEW p \in Pairs, NEW read \in BOOLEAN, Finished(p, read) PROVE PairsInv'
<1>1. p \in InFlight
  BY DEF Finished, InFlight
<1>2. PairsTypeOK' /\ UploadsOldest' /\ OrdersDistinct' /\ (claim # None => captures < MaxCaptures)'
  BY <1>1, MoveKeepsOrders DEF Finished, PairsInv, PairsTypeOK, States
<1>3. OneCaptureWaits' /\ OneOwner'
  BY DEF PairsInv, PairsTypeOK, OneCaptureWaits, OneOwner, Finished, Move, Waiting, None
<1> QED
  BY <1>2, <1>3 DEF PairsInv

LEMMA TakeToRunInv == ASSUME PairsInv, NEW p \in Pairs, TakeToRun(p) PROVE PairsInv'
<1>1. p \in InFlight /\ state[p] = "STAGED" /\ In("RUNNING") = {}
  BY DEF TakeToRun, IsFirst, In, InFlight
<1>2. PairsTypeOK' /\ UploadsOldest' /\ OrdersDistinct' /\ (claim # None => captures < MaxCaptures)'
  BY <1>1, MoveKeepsOrders DEF TakeToRun, PairsInv, PairsTypeOK, States
<1>3. OneCaptureWaits' /\ OneOwner'
  BY <1>1 DEF PairsInv, PairsTypeOK, OneCaptureWaits, OneOwner, TakeToRun, Move, Waiting, None, In
<1> QED
  BY <1>2, <1>3 DEF PairsInv

LEMMA RanInv ==
    ASSUME PairsInv, NEW p \in Pairs, NEW madeMap \in BOOLEAN, Ran(p, madeMap) PROVE PairsInv'
<1>1. p \in InFlight
  BY DEF Ran, InFlight
<1>2. PairsTypeOK' /\ UploadsOldest' /\ OrdersDistinct' /\ (claim # None => captures < MaxCaptures)'
  BY <1>1, MoveKeepsOrders DEF Ran, PairsInv, PairsTypeOK, States
<1>3. OneCaptureWaits' /\ OneOwner'
  BY DEF PairsInv, PairsTypeOK, OneCaptureWaits, OneOwner, Ran, Move, Waiting, None
<1> QED
  BY <1>2, <1>3 DEF PairsInv

(* The pair taken is the oldest in flight and its order is no other pair's, *)
(* so no other pair can be the uploader's already.                          *)
LEMMA TakeToUploadInv == ASSUME PairsInv, NEW p \in Pairs, TakeToUpload(p) PROVE PairsInv'
<1>1. /\ p \in InFlight /\ state[p] = "RAN"
      /\ \A q \in InFlight : order[p] <= order[q]
  BY DEF TakeToUpload, CanUpload, IsOldest
<1>2. \A q \in InFlight \ {p} : order[q] > order[p]
  BY <1>1, PairsAssumption DEF PairsInv, PairsTypeOK, OrdersDistinct, InFlight
<1>3. In("UPLOADING") = {}
  BY <1>1, <1>2, PairsAssumption DEF PairsInv, PairsTypeOK, UploadsOldest, InFlight, In
<1>4. PairsTypeOK'
  BY DEF PairsInv, PairsTypeOK, TakeToUpload, Move, States
<1>5. OneCaptureWaits' /\ OneOwner'
  BY <1>1, <1>3 DEF PairsInv, PairsTypeOK, OneCaptureWaits, OneOwner, TakeToUpload, Move,
     Waiting, None, In
<1>6. OrdersDistinct'
  BY <1>1 DEF PairsInv, PairsTypeOK, OrdersDistinct, TakeToUpload, Move, InFlight
<1>7. UploadsOldest'
  BY <1>1, <1>2, <1>3 DEF PairsInv, PairsTypeOK, UploadsOldest, OrdersDistinct, TakeToUpload,
     Move, InFlight, In
<1> QED
  BY <1>4, <1>5, <1>6, <1>7 DEF PairsInv, TakeToUpload, Move

(* The freed pair was older than all the others in flight, so the live map *)
(* stays behind every one of them.                                         *)
LEMMA FreedInv == ASSUME PairsInv, NEW p \in Pairs, Freed(p) PROVE PairsInv'
<1>1. /\ p \in InFlight /\ order[p] > live /\ order[p] <= captures
      /\ \A q \in InFlight \ {p} : order[q] > order[p]
  BY DEF PairsInv, UploadsOldest, OrdersDistinct, Freed, InFlight, In
<1>2. PairsTypeOK' /\ order' = order /\ captures' = captures /\ claim' = claim
  BY DEF PairsInv, PairsTypeOK, Freed, Move, States
<1>3. InFlight' = InFlight \ {p}
  BY DEF PairsInv, PairsTypeOK, Freed, Move, InFlight
<1>4. live' = live \/ live' = order[p]
  BY DEF Freed
<1>5. OneCaptureWaits' /\ OneOwner'
  BY DEF PairsInv, PairsTypeOK, OneCaptureWaits, OneOwner, Freed, Move, Waiting, None
<1>6. OrdersDistinct'
  BY <1>1, <1>2, <1>3, <1>4, PairsAssumption DEF PairsInv, PairsTypeOK, OrdersDistinct, InFlight
<1>7. In("UPLOADING")' = {}
  BY DEF PairsInv, PairsTypeOK, OneOwner, Freed, Move, In
<1>8. UploadsOldest'
  BY <1>7 DEF UploadsOldest
<1> QED
  BY <1>2, <1>5, <1>6, <1>8 DEF PairsInv

LEMMA NextInv == ASSUME PairsInv, [PairsNext]_pairVars PROVE PairsInv'
<1>1. CASE Captured
  BY <1>1, CapturedInv
<1>2. ASSUME NEW p \in Pairs, ForCapture(p) PROVE PairsInv'
  BY <1>2, ForCaptureInv
<1>3. ASSUME NEW p \in Pairs, TakeToFinish(p) PROVE PairsInv'
  BY <1>3, TakeToFinishInv
<1>4. ASSUME NEW p \in Pairs, NEW read \in BOOLEAN, Finished(p, read) PROVE PairsInv'
  BY <1>4, FinishedInv
<1>5. ASSUME NEW p \in Pairs, TakeToRun(p) PROVE PairsInv'
  BY <1>5, TakeToRunInv
<1>6. ASSUME NEW p \in Pairs, NEW madeMap \in BOOLEAN, Ran(p, madeMap) PROVE PairsInv'
  BY <1>6, RanInv
<1>7. ASSUME NEW p \in Pairs, TakeToUpload(p) PROVE PairsInv'
  BY <1>7, TakeToUploadInv
<1>8. ASSUME NEW p \in Pairs, Freed(p) PROVE PairsInv'
  BY <1>8, FreedInv
<1>9. CASE UNCHANGED pairVars
  BY <1>9 DEF pairVars, PairsInv, PairsTypeOK, OneCaptureWaits, OneOwner, UploadsOldest,
     OrdersDistinct, InFlight, In
<1> QED
  BY <1>1, <1>2, <1>3, <1>4, <1>5, <1>6, <1>7, <1>8, <1>9 DEF PairsNext

(* DepthPairs.java: whatever the three threads do, for any number of pairs, *)
(* the pairs keep the inductive invariant.                                  *)
THEOREM PairsInvariant == PairsSpec => []PairsInv
<1>1. PairsInit => PairsInv
  BY InitInv
<1>2. PairsInv /\ [PairsNext]_pairVars => PairsInv'
  BY NextInv
<1> QED
  BY <1>1, <1>2, PTL DEF PairsSpec

(* The variables keep their types. *)
THEOREM PairsTypes == PairsSpec => []PairsTypeOK
BY PairsInvariant, PTL DEF PairsInv

(* Both rules of DepthPairs.java: one capture waits for the model at most,  *)
(* each hand holds one pair, and the uploader's is the oldest in flight.    *)
THEOREM PairsRules == PairsSpec => [](OneCaptureWaits /\ OneOwner /\ UploadsOldest)
<1>1. PairsInv => OneCaptureWaits /\ OneOwner /\ UploadsOldest
  BY DEF PairsInv
<1> QED
  BY <1>1, PairsInvariant, PTL

(* The live map is never replaced by one from an older picture. *)
THEOREM LiveMonotone == PairsSpec => LiveNeverGoesBack
<1>1. PairsInv /\ [PairsNext]_pairVars => [live' >= live]_pairVars
  <2> SUFFICES ASSUME PairsInv, [PairsNext]_pairVars PROVE live' >= live
    OBVIOUS
  <2>0. live \in Nat
    BY PairsAssumption DEF PairsInv, PairsTypeOK
  <2>1. ASSUME NEW p \in Pairs, Freed(p) PROVE live' >= live
    BY <2>0, <2>1, PairsAssumption DEF PairsInv, PairsTypeOK, UploadsOldest, In, Freed
  <2>2. CASE UNCHANGED live
    BY <2>0, <2>2
  <2>3. UNCHANGED live \/ \E p \in Pairs : Freed(p)
    BY DEF PairsNext, pairVars, ForCapture, Captured, TakeToFinish, Finished, TakeToRun, Ran,
       TakeToUpload
  <2> QED
    BY <2>1, <2>2, <2>3
<1> QED
  BY <1>1, PairsInvariant, PTL DEF PairsSpec, LiveNeverGoesBack

-----------------------------------------------------------------------------
(* What is on its way are the last captures without a gap: those settled are *)
(* the first ones.  It is what makes the count of the pairs in flight tell   *)
(* which captures are settled, as the mapping to DepthMaps takes it to.      *)
Settled == captures - Cardinality(InFlight)
FlightDense ==
    /\ Settled \in Nat
    /\ \A p \in InFlight : order[p] > Settled
    /\ \A k \in Settled + 1 .. captures : \E p \in InFlight : order[p] = k

(* The pairs are finitely many, so those in flight can be counted. *)
LEMMA FlightFinite ==
    /\ IsFiniteSet(InFlight)
    /\ Cardinality(InFlight) \in Nat
    /\ InFlight # Pairs => Cardinality(InFlight) < NumPairs
<1>1. IsFiniteSet(Pairs) /\ Cardinality(Pairs) = NumPairs
  BY FS_Interval, PairsAssumption DEF Pairs
<1>2. InFlight \in SUBSET Pairs
  BY DEF InFlight
<1>3. IsFiniteSet(InFlight) /\ Cardinality(InFlight) <= NumPairs
      /\ (Cardinality(InFlight) = NumPairs => InFlight = Pairs)
  BY <1>1, <1>2, FS_Subset
<1>4. Cardinality(InFlight) \in Nat
  BY <1>3, FS_CardinalityType
<1> QED
  BY <1>3, <1>4, PairsAssumption

(* A pair that goes from one hand to another is counted as before. *)
LEMMA SameFlight ==
    ASSUME FlightDense, InFlight' = InFlight, captures' = captures, order' = order
    PROVE  FlightDense' /\ Settled' = Settled
BY DEF FlightDense, Settled

(* The capture that is marked goes on its way as the newest. *)
LEMMA CapturedDense ==
    ASSUME PairsInv, FlightDense, Captured
    PROVE  FlightDense' /\ Settled' = Settled /\ captures' = captures + 1
           /\ captures - Settled < NumPairs /\ captures < MaxCaptures
<1> DEFINE c == claim
<1>1. c \in Pairs /\ state[c] = "FREE" /\ captures < MaxCaptures /\ captures \in Nat
      /\ c \notin InFlight
  BY PairsAssumption DEF PairsInv, PairsTypeOK, OneCaptureWaits, Captured, None, InFlight
<1>2. /\ InFlight' = InFlight \cup {c}
      /\ \A p \in InFlight : order'[p] = order[p]
      /\ order'[c] = captures + 1
      /\ captures' = captures + 1
  BY <1>1 DEF PairsInv, PairsTypeOK, Captured, InFlight
<1>3. Cardinality(InFlight') = Cardinality(InFlight) + 1
  BY <1>1, <1>2, FlightFinite, FS_AddElement
<1>4. Settled' = Settled /\ Settled \in Nat
  BY <1>1, <1>2, <1>3, FlightFinite DEF Settled, FlightDense
<1>5. Cardinality(InFlight) < NumPairs
  BY <1>1, FlightFinite
<1>6. captures - Settled < NumPairs
  BY <1>1, <1>5, FlightFinite DEF Settled
<1>7. FlightDense'
  <2>1. \A p \in InFlight' : order'[p] > Settled'
    BY <1>1, <1>2, <1>4, FlightFinite DEF FlightDense, Settled
  <2>2. ASSUME NEW k \in Settled' + 1 .. captures' PROVE \E p \in InFlight' : order'[p] = k
    <3>1. CASE k = captures + 1
      BY <3>1, <1>2
    <3>2. CASE k # captures + 1
      BY <3>2, <1>1, <1>2, <1>4 DEF FlightDense
    <3> QED
      BY <3>1, <3>2
  <2> QED
    BY <2>1, <2>2, <1>4 DEF FlightDense
<1> QED
  BY <1>1, <1>2, <1>4, <1>6, <1>7

(* The pair in the uploader's hand holds the first capture not settled. *)
LEMMA UploadsNext ==
    ASSUME PairsInv, FlightDense, NEW p \in Pairs, state[p] = "UPLOADING"
    PROVE  order[p] = Settled + 1 /\ Settled < captures
<1>1. /\ p \in InFlight /\ order[p] \in Nat /\ order[p] <= captures /\ captures \in Nat
      /\ \A q \in InFlight \ {p} : order[q] > order[p] /\ order[q] \in Nat
  BY PairsAssumption DEF PairsInv, PairsTypeOK, UploadsOldest, OrdersDistinct, InFlight, In
<1>2. order[p] > Settled /\ Settled \in Nat
  BY <1>1 DEF FlightDense
<1>3. PICK q \in InFlight : order[q] = Settled + 1
  BY <1>2, <1>1 DEF FlightDense
<1> QED
  BY <1>1, <1>2, <1>3

(* The pair freed held the first capture that was not settled. *)
LEMMA FreedDense ==
    ASSUME PairsInv, FlightDense, NEW p \in Pairs, Freed(p)
    PROVE  FlightDense' /\ Settled' = Settled + 1 /\ order[p] = Settled + 1
           /\ Settled < captures /\ captures' = captures
<1>1. /\ p \in InFlight /\ order[p] \in Nat /\ order[p] <= captures /\ captures \in Nat
      /\ \A q \in InFlight \ {p} : order[q] > order[p] /\ order[q] \in Nat
  BY PairsAssumption DEF PairsInv, PairsTypeOK, UploadsOldest, OrdersDistinct, Freed, InFlight, In
<1>2. InFlight' = InFlight \ {p} /\ order' = order /\ captures' = captures
  BY DEF PairsInv, PairsTypeOK, Freed, Move, InFlight
<1>3. Cardinality(InFlight') = Cardinality(InFlight) - 1
  BY <1>1, <1>2, FlightFinite, FS_RemoveElement
<1>4. Settled' = Settled + 1 /\ Settled \in Nat
  BY <1>1, <1>2, <1>3, FlightFinite DEF Settled, FlightDense
<1>5. order[p] = Settled + 1
  BY UploadsNext DEF Freed
<1>6. FlightDense'
  <2>1. \A q \in InFlight' : order'[q] > Settled'
    BY <1>1, <1>2, <1>4, <1>5
  <2>2. ASSUME NEW k \in Settled' + 1 .. captures' PROVE \E q \in InFlight' : order'[q] = k
    <3>1. PICK q \in InFlight : order[q] = k
      BY <1>1, <1>2, <1>4 DEF FlightDense
    <3>2. q # p
      BY <3>1, <1>4, <1>5
    <3> QED
      BY <3>1, <3>2, <1>2
  <2> QED
    BY <2>1, <2>2, <1>4 DEF FlightDense
<1> QED
  BY <1>1, <1>2, <1>4, <1>5, <1>6

(* Every other region under the lock moves a pair that stays in flight, or *)
(* none: to whoever looks at the maps it does nothing.                      *)
Hands ==
    \/ UNCHANGED pairVars
    \/ \E p \in Pairs :
          \/ ForCapture(p) \/ TakeToFinish(p) \/ TakeToRun(p) \/ TakeToUpload(p)
          \/ \E read \in BOOLEAN : Finished(p, read)
          \/ \E madeMap \in BOOLEAN : Ran(p, madeMap)

LEMMA HandsKeepFlight ==
    ASSUME PairsInv, Hands
    PROVE  InFlight' = InFlight /\ captures' = captures /\ order' = order /\ live' = live
<1>1. state \in [Pairs -> States]
  BY DEF PairsInv, PairsTypeOK
<1>2. CASE UNCHANGED pairVars
  BY <1>2 DEF pairVars, InFlight
<1>3. ASSUME NEW p \in Pairs, ForCapture(p)
      PROVE  InFlight' = InFlight /\ captures' = captures /\ order' = order /\ live' = live
  BY <1>3 DEF ForCapture, InFlight
<1>4. ASSUME NEW p \in Pairs, NEW to \in States \ {"FREE"}, p \in InFlight, Move(p, to)
      PROVE  InFlight' = InFlight /\ captures' = captures /\ order' = order
  BY <1>1, <1>4 DEF Move, InFlight
<1>5. ASSUME NEW p \in Pairs,
             TakeToFinish(p) \/ TakeToRun(p) \/ TakeToUpload(p)
               \/ (\E read \in BOOLEAN : Finished(p, read))
               \/ (\E madeMap \in BOOLEAN : Ran(p, madeMap))
      PROVE  p \in InFlight /\ live' = live /\ \E to \in States \ {"FREE"} : Move(p, to)
  BY <1>5 DEF TakeToFinish, TakeToRun, TakeToUpload, Finished, Ran, CanUpload, IsFirst, In,
     InFlight, States
<1> QED
  BY <1>2, <1>3, <1>4, <1>5 DEF Hands

(* A step of the pairs is one of these three. *)
LEMMA StepKinds ==
    [PairsNext]_pairVars => Captured \/ (\E p \in Pairs : Freed(p)) \/ Hands
BY DEF PairsNext, Hands

LEMMA InitDense == ASSUME PairsInit PROVE FlightDense
<1>1. InFlight = {} /\ captures = 0
  BY DEF PairsInit, InFlight
<1> QED
  BY <1>1, FS_EmptySet DEF FlightDense, Settled

LEMMA DenseInv == ASSUME PairsInv, FlightDense, [PairsNext]_pairVars PROVE FlightDense'
BY CapturedDense, FreedDense, HandsKeepFlight, SameFlight, StepKinds

(* The count tells which captures are settled, in every reachable state. *)
THEOREM PairsDense == PairsSpec => []FlightDense
<1>1. PairsInit => FlightDense
  BY InitDense
<1>2. PairsInv /\ FlightDense /\ [PairsNext]_pairVars => FlightDense'
  BY DenseInv
<1> QED
  BY <1>1, <1>2, PairsInvariant, PTL DEF PairsSpec

(* DepthPairs.java implements DepthMaps: for any number of pairs, frames are *)
(* settled strictly in the order they were captured, at most NumPairs of     *)
(* them on their way, each by its own map going up or by none.               *)
THEOREM PairsImplementMaps == PairsSpec => MapsSpec
<1>1. PairsInit => Maps!Init
  <2> SUFFICES ASSUME PairsInit PROVE Maps!Init
    OBVIOUS
  <2>1. InFlight = {} /\ captures = 0 /\ live = 0
    BY DEF PairsInit, InFlight
  <2> QED
    BY <2>1, FS_EmptySet DEF Maps!Init
<1>2. PairsInv /\ FlightDense /\ [PairsNext]_pairVars => [Maps!Next]_Maps!vars
  <2> SUFFICES ASSUME PairsInv, FlightDense, [PairsNext]_pairVars PROVE [Maps!Next]_Maps!vars
    OBVIOUS
  <2>1. CASE Captured
    <3>1. live' = live
      BY <2>1 DEF Captured
    <3>2. Maps!Take
      BY <2>1, <3>1, CapturedDense DEF Maps!Take, Settled
    <3> QED
      BY <3>2 DEF Maps!Next
  <2>2. ASSUME NEW p \in Pairs, Freed(p) PROVE [Maps!Next]_Maps!vars
    <3>1. live' = IF made[p] THEN order[p] ELSE live
      BY <2>2 DEF Freed
    <3>2. Maps!Show \/ Maps!Drop
      BY <2>2, <3>1, FreedDense DEF Maps!Show, Maps!Drop, Settled
    <3> QED
      BY <3>2 DEF Maps!Next
  <2>3. CASE Hands
    BY <2>3, HandsKeepFlight DEF Maps!vars
  <2> QED
    BY <2>1, <2>2, <2>3, StepKinds
<1> QED
  BY <1>1, <1>2, PairsInvariant, PairsDense, PTL DEF PairsSpec, MapsSpec, Maps!Spec

-----------------------------------------------------------------------------
(* The pipeline *)

(* Each hand holds a pair exactly while its thread is at the step it is for. *)
Owners ==
    /\ frame = "queue" <=> claim # None
    /\ depth = "estimate" <=> In("RUNNING") # {}
    /\ stage = "finish" <=> In("FINISHING") # {}
    /\ stage \in {"upload", "publish", "drop", "free"} <=> In("UPLOADING") # {}

(* The frame loop outlives the depth thread, which outlives the stage thread. *)
Shutdown ==
    /\ depth \in {"bind", "load"} => stage = "none"
    /\ depth \in {"unbind", "over"} => stage \in {"none", "over"}
    /\ frame \in {"destroy", "over"} => depth = "over"
    /\ ~alive => frame = "over"

(* The slots from s up to w in the rotation, all of them when they are one. *)
Ahead(s, w) == IF w > s THEN w - s ELSE w - s + NumSlots

(* The captures that are done with the slots. *)
Gone == Settled + (IF stage = "free" THEN 1 ELSE 0)

(* Of the first n captures those still to come leave the rotation short of s. *)
Behind(s, n) == Gone <= n /\ Ahead(s, writeIdx) + n <= Gone + NumPairs + 1

Finishing == {"STAGED", "RUNNING", "RAN", "UPLOADING"}

Rotation ==
    /\ writeIdx = IF staged + 1 = NumSlots THEN 0 ELSE staged + 1
    /\ frame \in {"fence", "draw"} => Behind(readIdx, captures)
    /\ \A s \in Slots : drawing[s] # Past => Behind(s, drawing[s])
    /\ \A s \in Slots, p \in Pairs : state[p] \in Finishing => drawing[s] >= order[p]

(* A slot without a fence has been waited for, and the one drawn has none. *)
Fences ==
    /\ \A s \in Slots : ~fence[s] => synced[s]
    /\ SampledAfterFence

(* The captures whose resets are no longer their pair's. *)
Landed == Settled + (IF stage \in {"publish", "free"} THEN 1 ELSE 0)

(* The pairs whose resets are with the maps already, or that have none. *)
Spent == 
    {p \in Pairs : state[p] = "FREE" \/ (state[p] = "UPLOADING" /\ stage \in {"publish", "free"})}

(* What is carried over is what the landed captures asked for and no map has *)
(* done yet; every other capture still has with it what it asked for.        *)
Resets ==
    /\ \A c \in 1 .. MaxCaptures : c > captures => asked[c] = {}
    /\ \A r \in {ResetTexel, ResetRange} : r \in carry <=> \E c \in 1 .. Landed : r \in asked[c]
    /\ \A p \in Pairs : resets[p] = IF p \in Spent THEN {} ELSE asked[order[p]]

IInv == /\ PairsInv /\ FlightDense /\ TypeOK /\ Owners /\ Shutdown /\ Rotation /\ Fences /\ Resets

-----------------------------------------------------------------------------
(* The next slot of the rotation, without the remainder. *)
LEMMA NextSlot ==
    ASSUME NEW s \in Slots
    PROVE  (s + 1) % NumSlots = IF s + 1 = NumSlots THEN 0 ELSE s + 1
BY SlotsAssumption, PairsAssumption DEF Slots

(* The pair in a hand is the one pair in that state. *)
LEMMA InHandIs ==
    ASSUME NEW s, In(s) # {}
    PROVE  InHand(s) \in Pairs /\ state[InHand(s)] = s
BY DEF InHand, In

LEMMA OneInHand ==
    ASSUME PairsInv, NEW p \in Pairs, state[p] \in {"RUNNING", "UPLOADING", "FINISHING"}
    PROVE  InHand(state[p]) = p
<1>1. InHand(state[p]) \in Pairs /\ state[InHand(state[p])] = state[p]
  BY InHandIs DEF In
<1> QED
  BY <1>1 DEF PairsInv, OneOwner, OneCaptureWaits, Waiting

(* Seen from the pairs every step is one of theirs: a capture, the freeing   *)
(* of the pair in the stage thread's hand, or one from hand to hand.         *)
LEMMA PairSteps ==
    ASSUME Owners, [Next]_vars
    PROVE  \/ FrameCaptured /\ Captured
           \/ StageFree /\ (\E p \in Pairs : Freed(p)) /\ Freed(InHand("UPLOADING"))
           \/ Hands /\ ~StageFree /\ ~FrameCaptured
<1>1. CASE FrameCaptured
  BY <1>1 DEF FrameCaptured
<1>2. CASE StageFree
  BY <1>2, InHandIs DEF StageFree, Owners
<1>3. CASE ~FrameCaptured /\ ~StageFree
  <2>1. CASE FrameClaim
    BY <2>1, <1>3 DEF FrameClaim, Hands
  <2>2. CASE DepthTake
    BY <2>2, <1>3 DEF DepthTake, Hands
  <2>3. CASE DepthRan
    <3>1. InHand("RUNNING") \in Pairs
      BY <2>3, InHandIs DEF DepthRan, Owners
    <3> QED
      BY <2>3, <3>1, <1>3 DEF DepthRan, Hands
  <2>4. CASE StageTake
    BY <2>4, <1>3 DEF StageTake, Hands
  <2>5. CASE StageFinish
    <3>1. InHand("FINISHING") \in Pairs
      BY <2>5, InHandIs DEF StageFinish, Owners
    <3>2. \E read \in BOOLEAN : Finished(InHand("FINISHING"), read)
      BY <2>5 DEF StageFinish
    <3> QED
      BY <3>1, <3>2, <1>3 DEF Hands
  <2>6. CASE UNCHANGED pairVars
    BY <2>6, <1>3 DEF Hands
  <2>7. \/ FrameClaim \/ DepthTake \/ DepthRan \/ StageTake \/ StageFinish \/ UNCHANGED pairVars
    BY <1>3 DEF Next, Done, vars, FrameNext, FrameInput, FrameEnd, FrameAdopt, FrameUndrawn, FrameFence, FrameDraw,
       FrameLeave, FrameStop, FrameJoin, FrameDestroy, DepthNext, DepthBind, DepthLoad, DepthReady,
       DepthLeave, DepthJoin, DepthUnbind, StageNext, StageBind, StageUpload, StagePublish,
       StageDrop, StageUnbind
  <2> QED
    BY <2>1, <2>2, <2>3, <2>4, <2>5, <2>6, <2>7
<1> QED
  BY <1>1, <1>2, <1>3

(* So the pipeline is one way to run the pairs. *)
LEMMA PipelineRunsPairs == ASSUME Owners, [Next]_vars PROVE [PairsNext]_pairVars
BY PairSteps DEF PairsNext, Hands

-----------------------------------------------------------------------------
(* The threads' hands and the shutdown.                                      *)

LEMMA OwnersInv == ASSUME PairsInv, Owners, Shutdown, [Next]_vars PROVE Owners'
<1> USE DEF Owners, In, States
<1>1. CASE FrameNext
  <2>1. state \in [Pairs -> States] /\ claim \in Pairs \cup {None} /\ None \notin Pairs
    BY PairsAssumption DEF PairsInv, PairsTypeOK, Pairs, None
  <2>2. CASE FrameClaim
    BY <2>1, <2>2 DEF FrameClaim, ForCapture, pairVars
  <2>3. CASE FrameCaptured
    BY <2>1, <2>3 DEF FrameCaptured, Captured, Woken, PairsInv, OneCaptureWaits
  <2>4. CASE FrameInput \/ FrameEnd \/ FrameAdopt \/ FrameUndrawn \/ FrameFence \/ FrameDraw \/ FrameLeave
             \/ FrameJoin \/ FrameDestroy
    BY <2>4 DEF FrameInput, FrameEnd, FrameAdopt, FrameUndrawn, FrameFence, FrameDraw, FrameLeave, FrameJoin,
       FrameDestroy, pairVars
  <2>5. CASE FrameStop
    BY <2>5 DEF FrameStop, pairVars, Woken
  <2> QED
    BY <1>1, <2>2, <2>3, <2>4, <2>5 DEF FrameNext
<1>2. CASE DepthNext
  <2>1. state \in [Pairs -> States]
    BY DEF PairsInv, PairsTypeOK
  <2>2. CASE DepthTake
    BY <2>1, <2>2 DEF DepthTake, TakeToRun, Move, IsFirst, pairVars
  <2>3. CASE DepthRan
    <3>1. InHand("RUNNING") \in Pairs /\ state[InHand("RUNNING")] = "RUNNING"
      BY <2>3, InHandIs DEF DepthRan
    <3>2. \A p \in Pairs : state[p] = "RUNNING" => p = InHand("RUNNING")
      BY <3>1 DEF PairsInv, OneOwner
    <3> QED
      BY <2>1, <2>3, <3>1, <3>2 DEF DepthRan, Ran, Move, Woken
  <2>4. CASE DepthBind \/ DepthLoad \/ DepthReady \/ DepthLeave \/ DepthJoin \/ DepthUnbind
    BY <2>4 DEF DepthBind, DepthLoad, DepthReady, DepthLeave, DepthJoin, DepthUnbind, pairVars, Woken,
       Shutdown
  <2> QED
    BY <1>2, <2>2, <2>3, <2>4 DEF DepthNext
<1>3. CASE StageNext
  <2>1. state \in [Pairs -> States]
    BY DEF PairsInv, PairsTypeOK
  <2>2. CASE StageTake
    <3>1. In("FINISHING") = {} /\ In("UPLOADING") = {}
      BY <2>2 DEF StageTake
    <3>2. ASSUME NEW p \in Pairs, TakeToFinish(p), stage' = "finish", UNCHANGED <<frame, depth>>
          PROVE  Owners'
      BY <2>1, <3>1, <3>2 DEF TakeToFinish, Move, IsFirst
    <3>3. ASSUME NEW p \in Pairs, TakeToUpload(p), stage' \in {"upload", "drop"},
                 UNCHANGED <<frame, depth>>
          PROVE  Owners'
      BY <2>1, <3>1, <3>3 DEF TakeToUpload, CanUpload, Move
    <3>4. CASE UNCHANGED <<pairVars, frame, depth>> /\ stage' \in {"unbind", "wait"}
      BY <3>1, <3>4 DEF pairVars
    <3> QED
      BY <2>2, <3>2, <3>3, <3>4 DEF StageTake
  <2>3. CASE StageFinish
    <3>1. InHand("FINISHING") \in Pairs /\ state[InHand("FINISHING")] = "FINISHING"
      BY <2>3, InHandIs DEF StageFinish
    <3>2. \A p \in Pairs : state[p] = "FINISHING" => p = InHand("FINISHING")
      BY <3>1 DEF PairsInv, OneCaptureWaits, Waiting
    <3>3. PICK to \in {"STAGED", "RAN"} : Move(InHand("FINISHING"), to)
      BY <2>3 DEF StageFinish, Finished
    <3> QED
      BY <2>1, <2>3, <3>1, <3>2, <3>3 DEF StageFinish, Move, Woken
  <2>4. CASE StageFree
    <3>1. InHand("UPLOADING") \in Pairs /\ state[InHand("UPLOADING")] = "UPLOADING"
      BY <2>4, InHandIs DEF StageFree
    <3>2. \A p \in Pairs : state[p] = "UPLOADING" => p = InHand("UPLOADING")
      BY <3>1 DEF PairsInv, OneOwner
    <3> QED
      BY <2>1, <2>4, <3>1, <3>2 DEF StageFree, Freed, Move, Woken
  <2>5. CASE StageBind \/ StageUpload \/ StagePublish \/ StageDrop \/ StageUnbind
    BY <2>5 DEF StageBind, StageUpload, StagePublish, StageDrop, StageUnbind, pairVars
  <2> QED
    BY <1>3, <2>2, <2>3, <2>4, <2>5 DEF StageNext
<1>4. CASE UNCHANGED vars
  BY <1>4 DEF vars, pairVars, threadVars
<1> QED
  BY <1>1, <1>2, <1>3, <1>4 DEF Next, Done

(* Every thread ends before the one that waits for it goes on. *)
LEMMA ShutdownInv == ASSUME Shutdown, [Next]_vars PROVE Shutdown'
<1> USE DEF Shutdown, Woken
<1>1. CASE FrameNext
  BY <1>1 DEF FrameNext, FrameInput, FrameClaim, FrameCaptured, FrameEnd, FrameAdopt, FrameUndrawn, FrameFence,
     FrameDraw, FrameLeave, FrameStop, FrameJoin, FrameDestroy, flagVars
<1>2. CASE DepthNext
  BY <1>2 DEF DepthNext, DepthBind, DepthLoad, DepthReady, DepthTake, DepthRan, DepthLeave,
     DepthJoin, DepthUnbind, flagVars
<1>3. CASE StageNext
  BY <1>3 DEF StageNext, StageBind, StageTake, StageFinish, StageUpload, StagePublish, StageDrop,
     StageFree, StageUnbind, flagVars
<1>4. CASE UNCHANGED vars
  BY <1>4 DEF vars, threadVars, flagVars
<1> QED
  BY <1>1, <1>2, <1>3, <1>4 DEF Next, Done

-----------------------------------------------------------------------------
(* The types, of where the threads are and of what they share, which only   *)
(* the frame loop and the stage thread write.                               *)

PcTypes ==
    /\ frame \in FramePC /\ depth \in DepthPC /\ stage \in StagePC
    /\ exit \in BOOLEAN /\ ready \in BOOLEAN /\ gaveUp \in BOOLEAN /\ alive \in BOOLEAN
ResetTypes ==
    /\ resets \in [Pairs -> SUBSET {ResetTexel, ResetRange}]
    /\ carry \in SUBSET {ResetTexel, ResetRange}
    /\ asked \in [1 .. MaxCaptures -> SUBSET {ResetTexel, ResetRange}]
SlotTypes ==
    /\ content \in [Slots -> 0 .. MaxCaptures]
    /\ fence \in [Slots -> BOOLEAN] /\ synced \in [Slots -> BOOLEAN]
    /\ drawing \in [Slots -> 0 .. MaxCaptures \cup {Past}]
    /\ staged \in Slots /\ writeIdx \in Slots /\ readIdx \in Slots
    /\ on \in BOOLEAN

LEMMA TypeParts == TypeOK <=> PairsTypeOK /\ PcTypes /\ ResetTypes /\ SlotTypes
BY DEF TypeOK, PcTypes, ResetTypes, SlotTypes

LEMMA PcTypesInv == ASSUME PcTypes, [Next]_vars PROVE PcTypes'
<1> USE DEF PcTypes, FramePC, DepthPC, StagePC, Woken
<1>1. CASE FrameNext
  BY <1>1 DEF FrameNext, FrameInput, FrameClaim, FrameCaptured, FrameEnd, FrameAdopt,
     FrameUndrawn, FrameFence, FrameDraw, FrameLeave, FrameStop, FrameJoin, FrameDestroy, flagVars
<1>2. CASE DepthNext
  BY <1>2 DEF DepthNext, DepthBind, DepthLoad, DepthReady, DepthTake, DepthRan, DepthLeave,
     DepthJoin, DepthUnbind, flagVars
<1>3. CASE StageNext
  BY <1>3 DEF StageNext, StageBind, StageTake, StageFinish, StageUpload, StagePublish, StageDrop,
     StageFree, StageUnbind, flagVars
<1>4. CASE UNCHANGED vars
  BY <1>4 DEF vars, threadVars, flagVars
<1> QED
  BY <1>1, <1>2, <1>3, <1>4 DEF Next, Done

(* The pair the stage thread finishes has been captured. *)
LEMMA FinishesCaptured ==
    ASSUME PairsInv, Owners, StageFinish
    PROVE  /\ InHand("FINISHING") \in Pairs /\ state[InHand("FINISHING")] = "FINISHING"
           /\ order[InHand("FINISHING")] \in 1 .. MaxCaptures
<1>1. InHand("FINISHING") \in Pairs /\ state[InHand("FINISHING")] = "FINISHING"
  BY InHandIs DEF StageFinish, Owners
<1>2. order[InHand("FINISHING")] > live /\ order[InHand("FINISHING")] <= captures
  BY <1>1 DEF PairsInv, OrdersDistinct, InFlight
<1> QED
  BY <1>1, <1>2, PairsAssumption DEF PairsInv, PairsTypeOK

(* The steps that write a reset; the others leave them alone. *)
LEMMA ResetSteps ==
    ASSUME [Next]_vars
    PROVE  StageFinish \/ StageUpload \/ StageDrop \/ UNCHANGED resetVars
BY DEF Next, Done, vars, resetVars, FrameNext, FrameInput, FrameClaim, FrameCaptured, FrameEnd,
   FrameAdopt, FrameUndrawn, FrameFence, FrameDraw, FrameLeave, FrameStop, FrameJoin, FrameDestroy, DepthNext,
   DepthBind, DepthLoad, DepthReady, DepthTake, DepthRan, DepthLeave, DepthJoin, DepthUnbind,
   StageNext, StageBind, StageTake, StagePublish, StageFree, StageUnbind

LEMMA ResetTypesInv == ASSUME PairsInv, Owners, ResetTypes, [Next]_vars PROVE ResetTypes'
<1> USE DEF ResetTypes
<1>1. CASE StageFinish
  <2> DEFINE p == InHand("FINISHING")
  <2>1. PICK found \in CutChecks : resets' = [resets EXCEPT ![p] = found]
                                   /\ asked' = [asked EXCEPT ![order[p]] = found]
    BY <1>1 DEF StageFinish
  <2>2. found \in SUBSET {ResetTexel, ResetRange}
    BY CutAssumption DEF CutResets
  <2> QED
    BY <1>1, <2>1, <2>2, FinishesCaptured DEF StageFinish
<1>2. CASE StageUpload
  BY <1>2 DEF StageUpload
<1>3. CASE StageDrop
  <2>1. InHand("UPLOADING") \in Pairs
    BY <1>3, InHandIs DEF StageDrop, Owners
  <2> QED
    BY <1>3, <2>1 DEF StageDrop
<1>4. CASE UNCHANGED resetVars
  BY <1>4 DEF resetVars
<1> QED
  BY <1>1, <1>2, <1>3, <1>4, ResetSteps

(* The steps that write a slot or look at one; the others leave them alone. *)
SlotKeep == UNCHANGED <<slotVars, readIdx, on>>
LEMMA SlotSteps ==
    ASSUME [Next]_vars
    PROVE  \/ FrameInput \/ FrameEnd \/ FrameAdopt \/ FrameFence \/ FrameDraw
           \/ StageFinish \/ StageUpload \/ StagePublish \/ SlotKeep
BY DEF SlotKeep, Next, Done, vars, FrameNext, FrameClaim, FrameCaptured, FrameUndrawn, FrameLeave, FrameStop,
   FrameJoin, FrameDestroy, DepthNext, DepthBind, DepthLoad, DepthReady, DepthTake, DepthRan,
   DepthLeave, DepthJoin, DepthUnbind, StageNext, StageBind, StageTake, StageDrop, StageFree,
   StageUnbind

LEMMA SlotTypesInv == ASSUME PairsInv, Owners, SlotTypes, [Next]_vars PROVE SlotTypes'
<1> USE DEF SlotTypes
<1>1. Past \in Nat /\ captures \in 0 .. MaxCaptures
  BY PairsAssumption DEF Past, PairsInv, PairsTypeOK
<1>2. CASE FrameInput
  BY <1>2 DEF FrameInput, slotVars
<1>3. CASE FrameEnd
  BY <1>3 DEF FrameEnd, slotVars
<1>4. CASE FrameAdopt
  BY <1>4 DEF FrameAdopt, slotVars
<1>5. CASE FrameFence
  BY <1>5 DEF FrameFence
<1>6. CASE FrameDraw
  BY <1>1, <1>6 DEF FrameDraw
<1>7. CASE StageFinish
  BY <1>7 DEF StageFinish, DrawsBefore
<1>8. CASE StageUpload
  <2>1. InHand("UPLOADING") \in Pairs
    BY <1>8, InHandIs DEF StageUpload, Owners
  <2>2. order[InHand("UPLOADING")] \in 0 .. MaxCaptures
    BY <2>1 DEF PairsInv, PairsTypeOK
  <2> QED
    BY <1>8, <2>2 DEF StageUpload
<1>9. CASE StagePublish
  <2>1. (writeIdx + 1) % NumSlots \in Slots
    BY NextSlot, SlotsAssumption, PairsAssumption DEF Slots
  <2> QED
    BY <1>9, <2>1 DEF StagePublish
<1>10. CASE SlotKeep
  BY <1>10 DEF SlotKeep, slotVars
<1> QED
  BY <1>2, <1>3, <1>4, <1>5, <1>6, <1>7, <1>8, <1>9, <1>10, SlotSteps

-----------------------------------------------------------------------------
(* The rotation.                                                             *)

(* Gone counts captures, of which there are at most as many as the pairs on  *)
(* top of it, and while a map is to go up or to be dropped not all are gone. *)
LEMMA GoneBounds ==
    ASSUME PairsInv, FlightDense, Owners
    PROVE  /\ Settled \in Nat /\ Gone \in Nat /\ captures \in Nat
           /\ Settled <= Gone /\ Gone <= captures /\ captures <= Settled + NumPairs
           /\ stage \in {"upload", "publish", "drop"} =>
                  /\ Gone = Settled /\ Gone < captures
                  /\ InHand("UPLOADING") \in Pairs /\ state[InHand("UPLOADING")] = "UPLOADING"
                  /\ order[InHand("UPLOADING")] = Gone + 1
<1>1. Settled \in Nat /\ captures \in Nat /\ captures = Settled + Cardinality(InFlight)
  BY FlightFinite, PairsAssumption DEF FlightDense, Settled, PairsInv, PairsTypeOK
<1>2. Cardinality(InFlight) \in Nat /\ Cardinality(InFlight) <= NumPairs
  <2>1. IsFiniteSet(Pairs) /\ Cardinality(Pairs) = NumPairs /\ InFlight \in SUBSET Pairs
    BY FS_Interval, PairsAssumption DEF Pairs, InFlight
  <2> QED
    BY <2>1, FS_Subset, FlightFinite
<1>3. stage \in {"upload", "publish", "drop", "free"} =>
          /\ InHand("UPLOADING") \in Pairs /\ state[InHand("UPLOADING")] = "UPLOADING"
          /\ order[InHand("UPLOADING")] = Settled + 1 /\ Settled < captures
  BY InHandIs, UploadsNext DEF Owners
<1> QED
  BY <1>1, <1>2, <1>3, PairsAssumption DEF Gone

(* Nobody is left at the slot an upload is about to go into. *)
LEMMA UploadSlotFree ==
    ASSUME PairsInv, FlightDense, SlotTypes, Owners, Rotation
    PROVE  NoSlotOverwritten
<1> SUFFICES ASSUME stage = "upload"
             PROVE  /\ frame \in {"fence", "draw"} => writeIdx # readIdx
                    /\ drawing[writeIdx] = Past
  BY DEF NoSlotOverwritten
<1> DEFINE p == InHand("UPLOADING")
<1>1. /\ Gone \in Nat /\ captures \in Nat /\ Gone < captures
      /\ p \in Pairs /\ state[p] = "UPLOADING" /\ order[p] = Gone + 1
  BY GoneBounds
<1>2. Ahead(writeIdx, writeIdx) = NumSlots /\ NumSlots > NumPairs /\ NumPairs \in Nat /\ NumSlots \in Nat
  BY SlotsAssumption, PairsAssumption DEF Ahead, SlotTypes, Slots
<1>3. ~Behind(writeIdx, captures)
  BY <1>1, <1>2 DEF Behind
<1>4. ASSUME drawing[writeIdx] # Past PROVE FALSE
  <2>1. drawing[writeIdx] \in Nat /\ drawing[writeIdx] >= Gone + 1
    BY <1>1, <1>4, PairsAssumption DEF Rotation, Finishing, SlotTypes
  <2>2. Behind(writeIdx, drawing[writeIdx])
    BY <1>4 DEF Rotation, SlotTypes
  <2> QED
    BY <1>1, <1>2, <2>1, <2>2 DEF Behind
<1> QED
  BY <1>3, <1>4 DEF Rotation

(* One more capture gone, with its map in the rotation or with none, leaves *)
(* a slot that someone still reads as far behind as it has to be.           *)
LEMMA OneMoreGone ==
    ASSUME PairsInv, FlightDense, SlotTypes, Owners, stage \in {"publish", "drop"},
           NEW s \in Slots, NEW n \in Nat, Gone + 1 <= n, Behind(s, n),
           Gone' = Gone + 1,
           writeIdx' = writeIdx \/ writeIdx' = IF writeIdx + 1 = NumSlots THEN 0 ELSE writeIdx + 1
    PROVE  Behind(s, n)'
<1>1. Gone \in Nat /\ NumPairs \in Nat /\ NumSlots \in Nat /\ NumSlots > NumPairs
  BY GoneBounds, SlotsAssumption, PairsAssumption
<1>2. writeIdx \in 0 .. NumSlots - 1 /\ s \in 0 .. NumSlots - 1
  BY DEF SlotTypes, Slots
<1>3. Ahead(s, writeIdx) <= NumPairs
  BY <1>1, <1>2 DEF Behind, Ahead
<1>4. Ahead(s, writeIdx') <= Ahead(s, writeIdx) + 1
  BY <1>1, <1>2, <1>3 DEF Ahead
<1> QED
  BY <1>1, <1>2, <1>3, <1>4 DEF Behind, Ahead

(* Only the step that frees a pair settles a capture; it was gone before. *)
LEMMA SettledSteps ==
    ASSUME PairsInv, FlightDense, Owners, Shutdown, [Next]_vars
    PROVE  /\ Settled' = IF StageFree THEN Settled + 1 ELSE Settled
           /\ StagePublish \/ StageDrop => Gone' = Gone + 1 /\ captures' = captures
           /\ ~(StagePublish \/ StageDrop) => Gone' = Gone
           /\ ~FrameCaptured => captures' = captures /\ order' = order
<1>1. CASE FrameCaptured /\ Captured
  <2>1. Settled' = Settled
    BY <1>1, CapturedDense
  <2> QED
    BY <1>1, <2>1 DEF FrameCaptured, Gone, Woken, StageFree, StagePublish, StageDrop
<1>2. CASE StageFree /\ Freed(InHand("UPLOADING"))
  <2>1. Settled' = Settled + 1 /\ captures' = captures /\ order' = order
    BY <1>2, InHandIs, FreedDense DEF StageFree, Owners, Freed, Move
  <2> QED
    BY <1>2, <2>1, GoneBounds DEF Gone, StageFree, StagePublish, StageDrop
<1>3. CASE Hands /\ ~StageFree /\ ~FrameCaptured
  <2>1. Settled' = Settled /\ captures' = captures /\ order' = order
    BY <1>3, HandsKeepFlight, SameFlight
  <2>2. ~(StagePublish \/ StageDrop) => (stage = "free" <=> stage' = "free")
    <3>1. CASE FrameNext
      BY <1>3, <3>1 DEF Woken, FrameNext, FrameInput, FrameClaim, FrameEnd, FrameAdopt, FrameUndrawn, FrameFence,
         FrameDraw, FrameLeave, FrameStop, FrameJoin, FrameDestroy
    <3>2. CASE DepthNext
      BY <3>2 DEF Shutdown, Woken, DepthNext, DepthBind, DepthLoad, DepthReady, DepthTake, DepthRan,
         DepthLeave, DepthJoin, DepthUnbind
    <3>3. CASE StageNext
      BY <1>3, <3>3 DEF StageNext, StageBind, StageTake, StageFinish, StageUpload, StageUnbind
    <3>4. CASE UNCHANGED vars
      BY <3>4 DEF vars, threadVars
    <3> QED
      BY <3>1, <3>2, <3>3, <3>4 DEF Next, Done
  <2>3. StagePublish \/ StageDrop => stage # "free" /\ stage' = "free"
    BY DEF StagePublish, StageDrop
  <2> QED
    BY <1>3, <2>1, <2>2, <2>3, GoneBounds DEF Gone
<1> QED
  BY <1>1, <1>2, <1>3, PairSteps

(* A pair comes to be past its readback only when the stage thread has       *)
(* finished it.                                                              *)
LEMMA FinishingSteps ==
    ASSUME PairsInv, Owners, [Next]_vars, NEW p \in Pairs, state'[p] \in Finishing
    PROVE  /\ order'[p] = order[p]
           /\ state[p] \in Finishing \/ (StageFinish /\ p = InHand("FINISHING"))
<1> USE DEF Finishing
<1>1. state \in [Pairs -> States] /\ order \in [Pairs -> 0 .. MaxCaptures]
  BY DEF PairsInv, PairsTypeOK
<1>2. CASE FrameCaptured /\ Captured
  BY <1>1, <1>2 DEF Captured, PairsInv, OneCaptureWaits
<1>3. CASE StageFree /\ Freed(InHand("UPLOADING"))
  BY <1>1, <1>3, InHandIs DEF Freed, Move, StageFree, Owners
<1>4. CASE Hands
  <2>1. order' = order
    BY <1>4, HandsKeepFlight
  <2>2. CASE StageFinish
    <3>1. PICK to \in {"STAGED", "RAN"} : Move(InHand("FINISHING"), to)
      BY <2>2 DEF StageFinish, Finished
    <3> QED
      BY <1>1, <2>1, <2>2, <3>1 DEF Move
  <2>3. CASE StageTake
    BY <1>1, <2>1, <2>3 DEF StageTake, TakeToFinish, TakeToUpload, CanUpload, Move, pairVars
  <2>4. CASE DepthTake
    BY <1>1, <2>1, <2>4 DEF DepthTake, TakeToRun, IsFirst, In, Move, pairVars
  <2>5. CASE DepthRan
    BY <1>1, <2>1, <2>5, InHandIs DEF DepthRan, Ran, Move, Owners
  <2>6. CASE UNCHANGED state
    BY <1>1, <2>1, <2>6
  <2>7. \/ StageFinish \/ StageTake \/ DepthTake \/ DepthRan \/ UNCHANGED state
        \/ StageFree \/ FrameCaptured
    BY DEF pairVars, Next, Done, vars, FrameNext, FrameInput, FrameClaim, ForCapture, FrameEnd,
       FrameAdopt, FrameUndrawn, FrameFence, FrameDraw, FrameLeave, FrameStop, FrameJoin, FrameDestroy, DepthNext,
       DepthBind, DepthLoad, DepthReady, DepthLeave, DepthJoin, DepthUnbind, StageNext, StageBind,
       StageUpload, StagePublish, StageDrop, StageUnbind
  <2>8. CASE StageFree \/ FrameCaptured
    BY <2>8, <1>2, <1>3, InHandIs DEF StageFree, FrameCaptured, Owners
  <2> QED
    BY <2>2, <2>3, <2>4, <2>5, <2>6, <2>7, <2>8
<1> QED
  BY <1>2, <1>3, <1>4, PairSteps

(* Where the count of the captures gone stays, so does how far a slot is *)
(* behind.                                                               *)
LEMMA BehindStays ==
    ASSUME NEW s, NEW n, Behind(s, n), Gone' = Gone, writeIdx' = writeIdx
    PROVE  Behind(s, n)'
BY DEF Behind, Ahead

LEMMA RotationInv ==
    ASSUME PairsInv, FlightDense, SlotTypes, Owners, Shutdown, Rotation, [Next]_vars
    PROVE  Rotation'
<1>1. /\ Gone \in Nat /\ captures \in 0 .. MaxCaptures /\ Gone <= captures
      /\ captures <= Gone + NumPairs /\ NumPairs \in Nat /\ NumSlots \in Nat /\ NumSlots > NumPairs
      /\ MaxCaptures \in Nat
  BY GoneBounds, SlotsAssumption, PairsAssumption DEF PairsInv, PairsTypeOK
<1>2. writeIdx' = IF staged' + 1 = NumSlots THEN 0 ELSE staged' + 1
  <2>1. CASE StagePublish
    BY <2>1, NextSlot DEF StagePublish, SlotTypes
  <2>2. CASE ~StagePublish
    <3>1. UNCHANGED <<staged, writeIdx>>
      BY <2>2, SlotSteps DEF SlotKeep, slotVars, FrameInput, FrameEnd, FrameAdopt, FrameFence,
         FrameDraw, StageFinish, StageUpload
    <3> QED
      BY <3>1 DEF Rotation
  <2> QED
    BY <2>1, <2>2
<1>3. ASSUME NEW s \in Slots, NEW n \in Nat, Behind(s, n),
             stage \in {"publish", "drop"} => Gone + 1 <= n
      PROVE  Behind(s, n)'
  <2>1. CASE StagePublish \/ StageDrop
    <3>1. stage \in {"publish", "drop"} /\ Gone' = Gone + 1
      BY <2>1, SettledSteps DEF StagePublish, StageDrop
    <3>2. writeIdx' = writeIdx \/ writeIdx' = IF writeIdx + 1 = NumSlots THEN 0 ELSE writeIdx + 1
      BY <2>1, NextSlot DEF StagePublish, StageDrop, slotVars, SlotTypes
    <3> QED
      BY <1>3, <3>1, <3>2, OneMoreGone
  <2>2. CASE ~(StagePublish \/ StageDrop)
    <3>1. Gone' = Gone
      BY <2>2, SettledSteps
    <3>2. writeIdx' = writeIdx
      BY <2>2, SlotSteps DEF SlotKeep, slotVars, FrameInput, FrameEnd, FrameAdopt, FrameFence,
         FrameDraw, StageFinish, StageUpload
    <3> QED
      BY <1>3, <3>1, <3>2, BehindStays
  <2> QED
    BY <2>1, <2>2
<1>4. ASSUME frame' \in {"fence", "draw"} PROVE Behind(readIdx, captures)'
  <2>1. CASE FrameAdopt
    <3>1. readIdx' = staged /\ captures' = captures /\ writeIdx' = writeIdx /\ Gone' = Gone
      BY <2>1, SettledSteps DEF FrameAdopt, slotVars, FrameCaptured, StagePublish, StageDrop, pairVars
    <3>2. Ahead(staged, writeIdx) = 1
      BY <1>1 DEF Rotation, Ahead, SlotTypes, Slots
    <3> QED
      BY <1>1, <3>1, <3>2 DEF Behind, Ahead
  <2>2. CASE ~FrameAdopt
    <3>1. frame \in {"fence", "draw"} /\ ~FrameCaptured /\ readIdx' = readIdx
      BY <1>4, <2>2 DEF Next, Done, vars, threadVars, FrameNext, FrameInput, FrameClaim, FrameCaptured,
         FrameEnd, FrameUndrawn, FrameFence, FrameDraw, FrameLeave, FrameStop, FrameJoin, FrameDestroy, DepthNext,
         DepthBind, DepthLoad, DepthReady, DepthTake, DepthRan, DepthLeave, DepthJoin, DepthUnbind,
         StageNext, StageBind, StageTake, StageFinish, StageUpload, StagePublish, StageDrop,
         StageFree, StageUnbind
    <3>2. captures' = captures /\ Behind(readIdx, captures) /\ readIdx \in Slots
      BY <3>1, SettledSteps DEF Rotation, SlotTypes
    <3>3. stage \in {"publish", "drop"} => Gone + 1 <= captures
      BY GoneBounds
    <3>4. PICK s \in Slots, n \in Nat : s = readIdx /\ n = captures
      BY <1>1, <3>2
    <3>5. Behind(s, n)'
      BY <1>3, <3>2, <3>3, <3>4
    <3> QED
      BY <3>1, <3>2, <3>4, <3>5 DEF Behind, Ahead
  <2> QED
    BY <2>1, <2>2
<1>5. ASSUME NEW s \in Slots, drawing'[s] # Past PROVE Behind(s, drawing[s])'
  <2>1. CASE FrameDraw /\ drawing'[s] # drawing[s]
    <3>1. s = readIdx /\ drawing'[s] = captures
      BY <2>1 DEF FrameDraw, SlotTypes
    <3>2. writeIdx' = writeIdx /\ Gone' = Gone
      BY <2>1, SettledSteps DEF FrameDraw, StagePublish, StageDrop
    <3>3. Behind(readIdx, captures)
      BY <2>1 DEF FrameDraw, Rotation
    <3> QED
      BY <3>1, <3>2, <3>3 DEF Behind, Ahead
  <2>2. CASE ~(FrameDraw /\ drawing'[s] # drawing[s])
    <3>1. drawing'[s] = drawing[s]
      BY <1>5, <2>2, SlotSteps DEF SlotKeep, slotVars, FrameInput, FrameEnd, FrameAdopt, FrameFence,
         FrameDraw, StageFinish, DrawsBefore, StageUpload, StagePublish
    <3>2. Behind(s, drawing[s]) /\ drawing[s] \in Nat
      BY <1>1, <1>5, <3>1 DEF Rotation, SlotTypes
    <3>3. stage \in {"publish", "drop"} => Gone + 1 <= drawing[s]
      BY <3>2, GoneBounds DEF Rotation, Finishing
    <3>4. PICK n \in Nat : n = drawing[s]
      BY <3>2
    <3>5. Behind(s, n)'
      BY <1>3, <3>2, <3>3, <3>4
    <3> QED
      BY <3>1, <3>4, <3>5 DEF Behind
  <2> QED
    BY <2>1, <2>2
<1>6. ASSUME NEW s \in Slots, NEW p \in Pairs, state'[p] \in Finishing
      PROVE  drawing'[s] >= order'[p]
  <2>1. /\ drawing[s] \in Nat /\ drawing'[s] \in Nat /\ order[p] \in 0 .. MaxCaptures
        /\ Past \in Nat /\ Past > MaxCaptures
    BY <1>1, SlotTypesInv DEF SlotTypes, Past, PairsInv, PairsTypeOK
  <2>2. order'[p] = order[p] /\ (state[p] \in Finishing \/ (StageFinish /\ p = InHand("FINISHING")))
    BY <1>6, FinishingSteps
  <2>3. CASE StageFinish
    <3>1. drawing' = DrawsBefore(order[InHand("FINISHING")])
      BY <2>3 DEF StageFinish
    <3>2. drawing'[s] = Past \/ (drawing'[s] = drawing[s] /\ drawing[s] >= order[InHand("FINISHING")])
      BY <2>1, <2>3, <3>1, FinishesCaptured DEF DrawsBefore
    <3>3. CASE state[p] \in Finishing
      BY <1>1, <2>1, <2>2, <3>2, <3>3 DEF Rotation
    <3>4. CASE p = InHand("FINISHING")
      BY <1>1, <2>1, <2>2, <3>2, <3>4
    <3> QED
      BY <2>2, <3>3, <3>4
  <2>4. CASE FrameDraw
    <3>1. order[p] <= captures
      BY <2>2, <2>4 DEF PairsInv, OrdersDistinct, InFlight, Finishing, FrameDraw, StageFinish, Rotation
    <3>2. state[p] \in Finishing
      BY <2>2, <2>4 DEF FrameDraw, StageFinish
    <3>3. drawing'[s] = drawing[s] \/ drawing'[s] = captures
      BY <2>4 DEF FrameDraw, SlotTypes
    <3> QED
      BY <2>1, <2>2, <3>1, <3>2, <3>3 DEF Rotation
  <2>5. CASE ~StageFinish /\ ~FrameDraw
    <3>1. drawing' = drawing
      BY <2>5, SlotSteps DEF SlotKeep, slotVars, FrameInput, FrameEnd, FrameAdopt, FrameFence,
         StageUpload, StagePublish
    <3> QED
      BY <2>2, <2>5, <3>1 DEF Rotation
  <2> QED
    BY <2>3, <2>4, <2>5
<1> QED
  BY <1>2, <1>4, <1>5, <1>6 DEF Rotation

-----------------------------------------------------------------------------
(* The fences: a slot is written only while the frame loop is not between    *)
(* its wait on the fence and its draw from the slot.                         *)
LEMMA FencesInv ==
    ASSUME SlotTypes, Fences, NoSlotOverwritten, [Next]_vars
    PROVE  Fences'
<1> USE DEF Fences, SampledAfterFence, SlotTypes
<1>1. CASE FrameFence
  BY <1>1 DEF FrameFence
<1>2. CASE StageUpload
  <2>1. frame' = frame /\ readIdx' = readIdx
    BY <1>2 DEF StageUpload
  <2>2. frame = "draw" => writeIdx # readIdx
    BY <1>2 DEF StageUpload, NoSlotOverwritten
  <2> QED
    BY <1>2, <2>1, <2>2 DEF StageUpload
<1>3. CASE FrameInput \/ FrameEnd \/ FrameAdopt \/ FrameDraw
  BY <1>3 DEF FrameInput, FrameEnd, FrameAdopt, FrameDraw, slotVars
<1>4. CASE StageFinish \/ StagePublish
  BY <1>4 DEF StageFinish, StagePublish
<1>5. CASE SlotKeep
  <2>1. frame' = "draw" => frame = "draw" \/ FrameFence
    BY DEF Next, Done, vars, threadVars, FrameNext, FrameInput, FrameClaim, FrameCaptured,
       FrameEnd, FrameAdopt, FrameUndrawn, FrameDraw, FrameLeave, FrameStop, FrameJoin, FrameDestroy,
       DepthNext, DepthBind, DepthLoad, DepthReady, DepthTake, DepthRan, DepthLeave, DepthJoin, DepthUnbind,
       StageNext, StageBind, StageTake, StageFinish, StageUpload, StagePublish, StageDrop,
       StageFree, StageUnbind
  <2> QED
    BY <1>1, <1>5, <2>1 DEF SlotKeep, slotVars
<1> QED
  BY <1>1, <1>2, <1>3, <1>4, <1>5, SlotSteps
-----------------------------------------------------------------------------
(* The resets of the scene cuts.                                             *)

(* A capture's resets land when its map goes up or its pair is dropped. *)
LEMMA LandedSteps ==
    ASSUME PairsInv, FlightDense, Owners, Shutdown, [Next]_vars
    PROVE  Landed' = IF StageUpload \/ StageDrop THEN Landed + 1 ELSE Landed
<1>1. Settled' = IF StageFree THEN Settled + 1 ELSE Settled
  BY SettledSteps
<1>2. Settled \in Nat
  BY GoneBounds
<1>3. CASE StageUpload \/ StageDrop \/ StageFree
  <2>1. StageUpload => stage = "upload" /\ stage' = "publish"
    BY DEF StageUpload
  <2>2. StageDrop => stage = "drop" /\ stage' = "free"
    BY DEF StageDrop
  <2>3. StageFree => stage = "free" /\ stage' = "take"
    BY DEF StageFree
  <2> QED
    BY <1>1, <1>2, <1>3, <2>1, <2>2, <2>3 DEF Landed
<1>4. CASE ~(StageUpload \/ StageDrop \/ StageFree)
  <2>1. stage \in {"publish", "free"} <=> stage' \in {"publish", "free"}
    <3>1. CASE FrameNext
      BY <3>1 DEF Woken, FrameNext, FrameInput, FrameClaim, FrameCaptured, FrameEnd, FrameAdopt,
         FrameUndrawn, FrameFence, FrameDraw, FrameLeave, FrameStop, FrameJoin, FrameDestroy
    <3>2. CASE DepthNext
      BY <3>2 DEF Shutdown, Woken, DepthNext, DepthBind, DepthLoad, DepthReady, DepthTake, DepthRan,
         DepthLeave, DepthJoin, DepthUnbind
    <3>3. CASE StageNext
      BY <1>4, <3>3 DEF StageNext, StageBind, StageTake, StageFinish, StagePublish, StageUnbind
    <3>4. CASE UNCHANGED vars
      BY <3>4 DEF vars, threadVars
    <3> QED
      BY <3>1, <3>2, <3>3, <3>4 DEF Next, Done
  <2> QED
    BY <1>1, <1>4, <2>1 DEF Landed
<1> QED
  BY <1>3, <1>4

(* The captures in flight have not landed, but for the one whose map is up. *)
LEMMA FlightPending ==
    ASSUME PairsInv, FlightDense, Owners, NEW p \in InFlight
    PROVE  /\ p \in Pairs /\ order[p] \in 1 .. captures /\ order[p] \in 1 .. MaxCaptures
           /\ captures \in 0 .. MaxCaptures
           /\ Settled \in Nat /\ order[p] > Settled
<1>1. p \in Pairs /\ captures \in 0 .. MaxCaptures /\ order[p] \in 0 .. MaxCaptures
      /\ order[p] <= captures /\ MaxCaptures \in Nat
  BY PairsAssumption DEF PairsInv, PairsTypeOK, OrdersDistinct, InFlight
<1>2. order[p] > Settled /\ Settled \in Nat
  BY GoneBounds DEF FlightDense
<1> QED
  BY <1>1, <1>2

(* The pair whose resets land is spent, a capture takes a spent pair, and no *)
(* other step changes which pairs are.                                       *)
LEMMA SpentSteps ==
    ASSUME PairsInv, Owners, Shutdown, [Next]_vars
    PROVE  /\ StageUpload \/ StageDrop => Spent' = Spent \cup {InHand("UPLOADING")}
           /\ FrameCaptured => claim \in Spent /\ Spent' = Spent \ {claim}
           /\ ~(StageUpload \/ StageDrop \/ FrameCaptured) => Spent' = Spent
<1> USE DEF Spent
<1>0. state \in [Pairs -> States]
  BY DEF PairsInv, PairsTypeOK
<1>1. ASSUME StageUpload \/ StageDrop
      PROVE  Spent' = Spent \cup {InHand("UPLOADING")} /\ ~FrameCaptured
  <2>1. InHand("UPLOADING") \in Pairs /\ state[InHand("UPLOADING")] = "UPLOADING"
    BY <1>1, InHandIs DEF Owners, StageUpload, StageDrop
  <2>2. \A p \in Pairs : state[p] = "UPLOADING" => p = InHand("UPLOADING")
    BY <2>1 DEF PairsInv, OneOwner
  <2>3. state' = state /\ stage \notin {"publish", "free"} /\ stage' \in {"publish", "free"}
    BY <1>1 DEF StageUpload, StageDrop, pairVars
  <2> QED
    BY <1>1, <2>1, <2>2, <2>3 DEF StageUpload, StageDrop, FrameCaptured, Captured
<1>2. ASSUME FrameCaptured PROVE claim \in Spent /\ Spent' = Spent \ {claim}
  <2>1. claim \in Pairs /\ state[claim] = "FREE" /\ state' = [state EXCEPT ![claim] = "CAPTURED"]
    BY <1>2 DEF FrameCaptured, Captured, PairsInv, PairsTypeOK, OneCaptureWaits
  <2>2. stage' \in {"publish", "free"} <=> stage \in {"publish", "free"}
    BY <1>2 DEF FrameCaptured, Woken
  <2> QED
    BY <1>0, <2>1, <2>2
<1>3. ASSUME ~(StageUpload \/ StageDrop \/ FrameCaptured) PROVE Spent' = Spent
  <2>1. CASE FrameNext
    <3>1. state' = state /\ (stage' \in {"publish", "free"} <=> stage \in {"publish", "free"})
      BY <1>3, <2>1 DEF Woken, pairVars, ForCapture, FrameNext, FrameInput, FrameClaim, FrameEnd,
         FrameAdopt, FrameUndrawn, FrameFence, FrameDraw, FrameLeave, FrameStop, FrameJoin, FrameDestroy
    <3> QED
      BY <3>1
  <2>2. CASE DepthNext
    <3>1. stage' \in {"publish", "free"} <=> stage \in {"publish", "free"}
      BY <2>2 DEF Shutdown, Woken, DepthNext, DepthBind, DepthLoad, DepthReady, DepthTake, DepthRan,
         DepthLeave, DepthJoin, DepthUnbind
    <3>2. CASE UNCHANGED state
      BY <3>1, <3>2
    <3>3. CASE DepthTake /\ ~UNCHANGED state
      BY <1>0, <3>1, <3>3 DEF DepthTake, TakeToRun, IsFirst, In, Move, pairVars
    <3>4. CASE DepthRan
      BY <1>0, <3>1, <3>4, InHandIs DEF DepthRan, Ran, Move, Owners
    <3> QED
      BY <2>2, <3>2, <3>3, <3>4 DEF DepthNext, DepthBind, DepthLoad, DepthReady, DepthLeave,
         DepthJoin, DepthUnbind, pairVars
  <2>3. CASE StageTake
    <3>1. stage = "take" /\ stage' \in {"unbind", "finish", "upload", "drop", "wait"}
      BY <2>3 DEF StageTake
    <3>2. CASE UNCHANGED state
      BY <3>1, <3>2
    <3>3. ASSUME NEW p \in Pairs, TakeToFinish(p) \/ TakeToUpload(p) PROVE Spent' = Spent
      BY <1>0, <3>1, <3>3 DEF TakeToFinish, TakeToUpload, CanUpload, IsFirst, In, Move
    <3> QED
      BY <2>3, <3>2, <3>3 DEF StageTake, pairVars
  <2>4. CASE StageFinish
    <3>1. stage' = "take" /\ stage = "finish"
      BY <2>4 DEF StageFinish
    <3>2. PICK to \in {"STAGED", "RAN"} : Move(InHand("FINISHING"), to)
      BY <2>4 DEF StageFinish, Finished
    <3> QED
      BY <1>0, <2>4, <3>1, <3>2, FinishesCaptured DEF Move
  <2>5. CASE StageFree
    <3>1. InHand("UPLOADING") \in Pairs /\ state[InHand("UPLOADING")] = "UPLOADING"
      BY <2>5, InHandIs DEF Owners, StageFree
    <3>2. \A p \in Pairs : state[p] = "UPLOADING" => p = InHand("UPLOADING")
      BY <3>1 DEF PairsInv, OneOwner
    <3> QED
      BY <1>0, <2>5, <3>1, <3>2 DEF StageFree, Freed, Move
  <2>6. CASE StageBind \/ StagePublish \/ StageUnbind \/ UNCHANGED vars
    BY <2>6 DEF StageBind, StagePublish, StageUnbind, vars, threadVars, pairVars
  <2> QED
    BY <1>3, <2>1, <2>2, <2>3, <2>4, <2>5, <2>6 DEF Next, Done, StageNext
<1> QED
  BY <1>1, <1>2, <1>3

LEMMA ResetsInv ==
    ASSUME PairsInv, FlightDense, ResetTypes, Owners, Shutdown, Resets, [Next]_vars
    PROVE  Resets'
<1> USE DEF ResetTypes
<1>1. /\ \A c \in 1 .. MaxCaptures : c > captures => asked[c] = {}
      /\ \A r \in {ResetTexel, ResetRange} : r \in carry <=> \E c \in 1 .. Landed : r \in asked[c]
      /\ \A p \in Pairs : resets[p] = IF p \in Spent THEN {} ELSE asked[order[p]]
  BY DEF Resets
<1>2. Settled \in Nat /\ captures \in 0 .. MaxCaptures /\ MaxCaptures \in Nat /\ Landed \in Nat
  BY GoneBounds, PairsAssumption DEF PairsInv, PairsTypeOK, Landed
<1>3. Landed' = IF StageUpload \/ StageDrop THEN Landed + 1 ELSE Landed
  BY LandedSteps
<1>4. \A p \in Pairs \ Spent : /\ p \in InFlight
                               /\ order[p] \in 1 .. captures /\ order[p] \in 1 .. MaxCaptures
                               /\ order[p] > Settled
  BY FlightPending DEF Spent, InFlight
<1>5. CASE StageUpload \/ StageDrop
  <2> DEFINE u == InHand("UPLOADING")
  <2>1. /\ u \in Pairs \ Spent /\ order[u] = Landed + 1 /\ Landed = Settled
        /\ captures' = captures /\ order' = order
    BY <1>5, GoneBounds, SettledSteps DEF Landed, Gone, Spent, StageUpload, StageDrop, FrameCaptured
  <2>2. Spent' = Spent \cup {u} /\ Landed' = Landed + 1
    BY <1>3, <1>5, SpentSteps
  <2>3. CASE StageUpload
    <3>1. /\ resets' = [resets EXCEPT ![u] = {}] /\ carry' = {}
          /\ asked' = [c \in 1 .. MaxCaptures |-> IF c <= order[u] THEN {} ELSE asked[c]]
      BY <2>3 DEF StageUpload
    <3>2. \A p \in Pairs \ Spent' : order[p] > order[u]
      <4>1. \A p \in InFlight \ {u} : order[p] > order[u]
        BY <2>1, <2>3, GoneBounds DEF StageUpload, PairsInv, UploadsOldest, In
      <4> QED
        BY <1>4, <2>2, <4>1
    <3>3. \A c \in 1 .. MaxCaptures : c > captures' => asked'[c] = {}
      BY <1>1, <1>2, <2>1, <3>1
    <3>4. \A r \in {ResetTexel, ResetRange} : r \in carry' <=> \E c \in 1 .. Landed' : r \in asked'[c]
      BY <1>2, <1>4, <2>1, <2>2, <3>1
    <3>5. \A p \in Pairs : resets'[p] = IF p \in Spent' THEN {} ELSE asked'[order'[p]]
      <4>1. ASSUME NEW p \in Spent' PROVE p \in Pairs => resets'[p] = {}
        BY <1>1, <2>2, <3>1
      <4>2. ASSUME NEW p \in Pairs \ Spent' PROVE resets'[p] = asked'[order'[p]]
        <5>1. p \in Pairs \ Spent /\ p # u /\ order'[p] = order[p]
          BY <2>1, <2>2
        <5>2. order[p] \in 1 .. MaxCaptures /\ order[p] > order[u]
          BY <1>4, <3>2, <5>1
        <5>3. asked'[order[p]] = asked[order[p]]
          BY <1>2, <2>1, <3>1, <5>2
        <5> QED
          BY <1>1, <3>1, <5>1, <5>3
      <4> QED
        BY <4>1, <4>2
    <3> QED
      BY <3>3, <3>4, <3>5 DEF Resets
  <2>4. CASE StageDrop
    <3>1. resets' = [resets EXCEPT ![u] = {}] /\ carry' = carry \cup resets[u] /\ asked' = asked
      BY <2>4 DEF StageDrop
    <3>2. resets[u] = asked[Landed + 1]
      BY <1>1, <2>1
    <3>3. \A r \in {ResetTexel, ResetRange} : r \in carry' <=> \E c \in 1 .. Landed' : r \in asked'[c]
      BY <1>1, <1>2, <2>2, <3>1, <3>2
    <3>4. \A p \in Pairs : resets'[p] = IF p \in Spent' THEN {} ELSE asked'[order'[p]]
      BY <1>1, <2>1, <2>2, <3>1
    <3> QED
      BY <1>1, <2>1, <3>1, <3>3, <3>4 DEF Resets
  <2> QED
    BY <1>5, <2>3, <2>4
<1>6. CASE StageFinish
  <2> DEFINE p == InHand("FINISHING")
  <2>1. p \in Pairs \ Spent /\ captures' = captures /\ order' = order /\ Landed = Settled
    <3>1. p \in Pairs \ Spent
      BY <1>6, FinishesCaptured DEF Spent
    <3>2. ~FrameCaptured /\ stage = "finish"
      BY <1>6 DEF StageFinish, FrameCaptured
    <3> QED
      BY <1>2, <3>1, <3>2, SettledSteps DEF Landed
  <2>2. Spent' = Spent /\ Landed' = Landed
    BY <1>3, <1>6, SpentSteps DEF StageFinish, StageUpload, StageDrop, FrameCaptured, Captured
  <2>3. PICK found \in CutChecks : /\ resets' = [resets EXCEPT ![p] = found]
                                   /\ asked' = [asked EXCEPT ![order[p]] = found]
                                   /\ carry' = carry
    BY <1>6 DEF StageFinish
  <2>4. \A q \in Pairs \ Spent : q # p => order[q] # order[p]
    BY <1>4, <2>1 DEF PairsInv, OrdersDistinct
  <2>5. \A c \in 1 .. MaxCaptures : c > captures' => asked'[c] = {}
    BY <1>1, <1>2, <1>4, <2>1, <2>3
  <2>6. \A r \in {ResetTexel, ResetRange} : r \in carry' <=> \E c \in 1 .. Landed' : r \in asked'[c]
    BY <1>1, <1>2, <1>4, <2>1, <2>2, <2>3
  <2>7. \A q \in Pairs : resets'[q] = IF q \in Spent' THEN {} ELSE asked'[order'[q]]
    BY <1>1, <1>4, <2>1, <2>2, <2>3, <2>4
  <2> QED
    BY <2>5, <2>6, <2>7 DEF Resets
<1>7. CASE FrameCaptured
  <2>1. /\ captures' = captures + 1 /\ order' = [order EXCEPT ![claim] = captures + 1]
        /\ captures < MaxCaptures /\ UNCHANGED <<resets, carry, asked>>
    BY <1>7 DEF FrameCaptured, Captured, resetVars, PairsInv
  <2>2. claim \in Spent /\ Spent' = Spent \ {claim} /\ Landed' = Landed
    BY <1>3, <1>7, SpentSteps DEF FrameCaptured, StageUpload, StageDrop, Captured, pairVars
  <2>3. order \in [Pairs -> 0 .. MaxCaptures]
    BY DEF PairsInv, PairsTypeOK
  <2>4. \A p \in Pairs : resets'[p] = IF p \in Spent' THEN {} ELSE asked'[order'[p]]
    <3>1. claim \in Pairs /\ resets[claim] = {} /\ asked[captures + 1] = {}
      BY <1>1, <1>2, <2>1, <2>2 DEF Spent
    <3>2. ASSUME NEW p \in Pairs, p # claim PROVE order'[p] = order[p]
      BY <2>1, <2>3, <3>2
    <3> QED
      BY <1>1, <2>1, <2>2, <2>3, <3>1, <3>2
  <2> QED
    BY <1>1, <1>2, <2>1, <2>2, <2>4 DEF Resets
<1>8. CASE ~(StageUpload \/ StageDrop \/ StageFinish \/ FrameCaptured)
  <2>1. UNCHANGED <<resets, carry, asked>> /\ captures' = captures /\ order' = order
    BY <1>8, ResetSteps, SettledSteps DEF resetVars
  <2>2. Spent' = Spent /\ Landed' = Landed
    BY <1>3, <1>8, SpentSteps
  <2> QED
    BY <1>1, <2>1, <2>2 DEF Resets
<1> QED
  BY <1>5, <1>6, <1>7, <1>8

-----------------------------------------------------------------------------
LEMMA PipelineInit == Init => IInv
<1> SUFFICES ASSUME Init PROVE IInv
  OBVIOUS
<1> USE DEF Init
<1>1. PairsInv /\ FlightDense
  BY InitInv, InitDense
<1>2. PairsInit /\ \A p \in Pairs : state[p] = "FREE"
  BY DEF PairsInit
<1>3. NumSlots \in Nat /\ NumSlots > 1 /\ Past \in Nat /\ MaxCaptures \in Nat
  BY SlotsAssumption, PairsAssumption DEF Past
<1>4. 0 \in Slots /\ 1 % NumSlots = 1 /\ 1 \in Slots
  <2>1. 0 \in Slots /\ 1 \in Slots
    BY <1>3 DEF Slots
  <2>2. (0 + 1) % NumSlots = IF 0 + 1 = NumSlots THEN 0 ELSE 0 + 1
    BY <2>1, NextSlot
  <2> QED
    BY <1>3, <2>1, <2>2
<1>5. TypeOK
  <2>1. PcTypes
    BY DEF PcTypes, FramePC, DepthPC, StagePC
  <2>2. ResetTypes
    BY DEF ResetTypes
  <2>3. SlotTypes
    <3>1. content \in [Slots -> 0 .. MaxCaptures]
      BY <1>3
    <3>2. fence \in [Slots -> BOOLEAN] /\ synced \in [Slots -> BOOLEAN]
      OBVIOUS
    <3>3. drawing \in [Slots -> 0 .. MaxCaptures \cup {Past}]
      OBVIOUS
    <3>4. staged \in Slots /\ writeIdx \in Slots /\ readIdx \in Slots
      BY <1>4
    <3>5. on \in BOOLEAN
      OBVIOUS
    <3> QED
      BY <3>1, <3>2, <3>3, <3>4, <3>5 DEF SlotTypes
  <2> QED
    BY <1>1, <2>1, <2>2, <2>3, TypeParts DEF PairsInv
<1>6. Owners /\ Shutdown
  BY <1>2 DEF Owners, Shutdown, PairsInit, In
<1>7. Rotation
  BY <1>2, <1>3, <1>4 DEF Rotation, Finishing
<1>8. Fences
  BY DEF Fences, SampledAfterFence
<1>9. Resets
  <2>1. captures = 0 /\ Settled \in Nat /\ Settled <= captures
    BY <1>1, <1>2, GoneBounds, <1>6 DEF PairsInit
  <2>2. Landed = 0
    BY <2>1 DEF Landed
  <2> QED
    BY <1>2, <2>1, <2>2 DEF Resets, Spent
<1> QED
  BY <1>1, <1>5, <1>6, <1>7, <1>8, <1>9 DEF IInv

LEMMA PipelineStep == IInv /\ [Next]_vars => IInv'
<1> SUFFICES ASSUME IInv, [Next]_vars PROVE IInv'
  OBVIOUS
<1>1. PairsInv /\ FlightDense /\ Owners /\ Shutdown /\ Rotation /\ Fences /\ Resets
      /\ PcTypes /\ ResetTypes /\ SlotTypes
  BY TypeParts DEF IInv
<1>2. (PairsInv /\ FlightDense)'
  BY <1>1, PipelineRunsPairs, NextInv, DenseInv
<1>3. (Owners /\ Shutdown)'
  BY <1>1, OwnersInv, ShutdownInv
<1>4. TypeOK'
  <2>1. (PairsTypeOK /\ PcTypes /\ ResetTypes /\ SlotTypes)'
    BY <1>1, <1>2, PcTypesInv, ResetTypesInv, SlotTypesInv DEF PairsInv
  <2> QED
    BY <2>1 DEF TypeOK, PcTypes, ResetTypes, SlotTypes
<1>5. Rotation'
  BY <1>1, RotationInv
<1>6. Fences'
  BY <1>1, FencesInv, UploadSlotFree
<1>7. Resets'
  BY <1>1, ResetsInv
<1> QED
  BY <1>2, <1>3, <1>4, <1>5, <1>6, <1>7 DEF IInv

(* The slots' count, the fences, the resets and the threads' hands, in every *)
(* reachable state.                                                          *)
THEOREM PipelineInvariant == Spec => []IInv
BY PipelineInit, PipelineStep, PTL DEF Spec

(* No thread touches a slot, or the context, that another one or the GPU is  *)
(* still using: the stage thread uploads only into a slot nobody reads, a    *)
(* frame, warped or flat, samples one whose upload it waited for, and the    *)
(* context is freed last (XrRenderer.java, xr_depth.c, xr_gl.c).             *)
THEOREM PipelineSafe == Spec => []PipelineInv
<1>1. IInv => PipelineInv
  <2> SUFFICES ASSUME IInv PROVE PipelineInv
    OBVIOUS
  <2>1. NoSlotOverwritten
    BY UploadSlotFree, TypeParts DEF IInv
  <2>2. NoUseAfterFree
    BY DEF IInv, Shutdown, NoUseAfterFree
  <2> QED
    BY <2>1, <2>2 DEF PipelineInv, IInv, Fences
<1> QED
  BY <1>1, PipelineInvariant, PTL

(* A map starts the averages again just as its capture and the captures that *)
(* made no map asked since the last one that did.                            *)
THEOREM ResetsLand == Spec => []ResetsLandInTurn
<1>1. IInv => ResetsLandInTurn
  <2> SUFFICES ASSUME IInv, stage = "upload"
               PROVE  resets[InHand("UPLOADING")] \cup carry
                          = UNION {asked[c] : c \in 1 .. order[InHand("UPLOADING")]}
    BY DEF ResetsLandInTurn
  <2> DEFINE p == InHand("UPLOADING")
  <2>1. /\ p \in Pairs /\ state[p] = "UPLOADING" /\ Settled \in Nat
        /\ order[p] = Settled + 1 /\ Landed = Settled
    BY GoneBounds DEF IInv, Gone, Landed
  <2>2. p \notin Spent /\ order[p] \in 1 .. MaxCaptures
    BY <2>1, FlightPending DEF IInv, Spent, InFlight
  <2>3. /\ resets[p] = asked[order[p]]
        /\ \A r \in {ResetTexel, ResetRange} : r \in carry <=> \E c \in 1 .. Landed : r \in asked[c]
    BY <2>1, <2>2 DEF IInv, Resets
  <2>4. /\ carry \subseteq {ResetTexel, ResetRange}
        /\ \A c \in 1 .. order[p] : asked[c] \subseteq {ResetTexel, ResetRange}
    BY <2>1, <2>2, PairsAssumption DEF IInv, TypeOK
  <2>5. ASSUME NEW r \in resets[p] \cup carry PROVE \E c \in 1 .. order[p] : r \in asked[c]
    BY <2>1, <2>2, <2>3, <2>4
  <2>6. ASSUME NEW c \in 1 .. order[p], NEW r \in asked[c] PROVE r \in resets[p] \cup carry
    BY <2>1, <2>2, <2>3, <2>4
  <2> QED
    BY <2>5, <2>6
<1> QED
  BY <1>1, PipelineInvariant, PTL

(* The threads call DepthPairs only as its specification lets them, so what  *)
(* it promises of its pairs holds of the pipeline's.                         *)
THEOREM PipelineUsesPairs == Spec => PairsSpec
<1>1. Init => PairsInit
  BY DEF Init
<1>2. IInv /\ [Next]_vars => [PairsNext]_pairVars
  BY PipelineRunsPairs DEF IInv
<1> QED
  BY <1>1, <1>2, PipelineInvariant, PTL DEF Spec, PairsSpec

(* To whoever looks at the maps only, the pipeline is DepthMaps: each map    *)
(* shown is of a later picture than the one before, and none lags by more    *)
(* than there are pairs.                                                     *)
THEOREM PipelineImplementsMaps == Spec => MapsSpec
BY PipelineUsesPairs, PairsImplementMaps, PTL
=============================================================================
