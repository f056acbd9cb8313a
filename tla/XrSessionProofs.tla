--------------------------- MODULE XrSessionProofs ---------------------------
(***************************************************************************)
(* Proofs about the OpenXR session and the display rate it asks for, for   *)
(* any display, any stream, and any number of starts and events.           *)
(*                                                                         *)
(* The rate's two properties are of the bookkeeping alone, so they are     *)
(* shown of every function of DisplayRate, and then carried through the    *)
(* steps that call them. The session's is about the order of the runtime's *)
(* events: nothing follows the event that ends it. The report's is about   *)
(* the one slot: while Java waits for a start that runs alone, nobody else *)
(* can write there.                                                        *)
(***************************************************************************)
EXTENDS XrSession, WellFoundedInduction, TLAPS

-----------------------------------------------------------------------------
(* The rates a display offers                                               *)

LEMMA LeastNatural ==
  ASSUME NEW S \in SUBSET Nat, S # {}
  PROVE  \E x \in S : \A y \in S : x <= y
<1> DEFINE R == OpToRel(<, Nat)
<1>1. IsWellFoundedOn(R, Nat)
  BY NatLessThanWellFounded
<1> HIDE DEF R
<1>2. PICK x \in S : \A y \in S : <<y, x>> \notin R
  BY <1>1, WFMin
<1>3. \A a, b \in Nat : <<a, b>> \notin R => b <= a
  BY DEF R, OpToRel
<1> QED BY <1>2, <1>3

LEMMA MinOfRates ==
  ASSUME NEW S \in SUBSET Rates, S # {}
  PROVE  Min(S) \in S /\ \A r \in S : Min(S) <= r
<1>1. S \in SUBSET Nat
  BY RateAssumption
<1>2. PICK r \in S : \A s \in S : r <= s
  BY <1>1, LeastNatural
<1> QED BY <1>2 DEF Min

LEMMA MaxOfRates ==
  ASSUME NEW S \in SUBSET Rates, S # {}
  PROVE  Max(S) \in S /\ \A r \in S : Max(S) >= r
<1>1. PICK top \in Rates : \A r \in Rates : r <= top
  BY RateAssumption
<1>2. top \in Nat /\ S \subseteq Nat /\ \A r \in S : r <= top
  BY <1>1, RateAssumption
<1> DEFINE below == {top - r : r \in S}
<1>3. below \in SUBSET Nat /\ below # {}
  <2>1. \A r \in S : top - r \in Nat
    BY <1>2
  <2> QED BY <2>1
<1>4. PICK least \in below : \A b \in below : least <= b
  BY <1>3, LeastNatural
<1>5. PICK r \in S : least = top - r
  BY <1>4
<1>6. \A s \in S : r >= s
  BY <1>2, <1>4, <1>5
<1> HIDE DEF below
<1> QED BY <1>5, <1>6 DEF Max

LEMMA StreamRates ==
  ASSUME NEW f \in Nat \ {0}, NEW multiples \in BOOLEAN
  PROVE  RateForStream(f, multiples) \in Rates
<1>1. Max(Rates) \in Rates
  BY MaxOfRates, RateAssumption
<1>2. Multiples(f) # {} => Min(Multiples(f)) \in Rates
  BY MinOfRates DEF Multiples
<1>3. (\E r \in Rates : r > f) => Min({r \in Rates : r > f}) \in Rates
  BY MinOfRates
<1> QED BY <1>1, <1>2, <1>3 DEF RateForStream

LEMMA StepDownRates ==
  ASSUME NEW hz \in Nat
  PROVE  RateStepDown(hz) = 0 \/ (RateStepDown(hz) \in Rates /\ RateStepDown(hz) < hz)
BY MaxOfRates DEF RateStepDown, Highest

(* Whatever is chosen is offered, and at or below what is held.             *)
LEMMA ChosenRates ==
  ASSUME NEW f \in Nat \ {0}, NEW warpOn \in BOOLEAN, NEW heldHz \in Rates \cup {0},
         NEW fits \in Nat
  PROVE  /\ RateChoose(f, warpOn, heldHz, fits) \in Rates
         /\ warpOn /\ heldHz > 0 => RateChoose(f, warpOn, heldHz, fits) <= heldHz
<1> DEFINE stream == RateForStream(f, TRUE)
           above == IF heldHz > 0 /\ heldHz < stream THEN RateForStream(f, FALSE) ELSE stream
           want == Held(above, heldHz)
           down == RateStepDown(want)
<1>1. stream \in Rates /\ above \in Rates
  BY StreamRates
<1> HIDE DEF stream
<1>2. want \in Rates /\ (heldHz > 0 => want <= heldHz)
  <2>1. above \in Rates /\ Rates \subseteq Nat
    BY <1>1, RateAssumption
  <2> HIDE DEF above
  <2> QED BY <2>1 DEF Held
<1>3. down = 0 \/ (down \in Rates /\ down < want)
  BY <1>2, StepDownRates, RateAssumption
<1>4. RateChoose(f, warpOn, heldHz, fits) =
        IF ~warpOn THEN stream
        ELSE IF fits > 0 /\ fits < want /\ down > 0 THEN down ELSE want
  BY DEF RateChoose, stream
<1> HIDE DEF above, want, down
<1> DEFINE chosen == RateChoose(f, warpOn, heldHz, fits)
<1>5. ~warpOn => chosen = stream
  BY <1>4
<1>6. warpOn => chosen = want \/ (chosen = down /\ down > 0)
  BY <1>4
<1> HIDE DEF chosen
<1>7. chosen \in Rates
  BY <1>1, <1>2, <1>3, <1>5, <1>6
<1>8. warpOn /\ heldHz > 0 => chosen <= heldHz
  <2>1. Rates \subseteq Nat
    BY RateAssumption
  <2>2. want \in Nat /\ heldHz \in Nat /\ 0 \in Nat
    BY <2>1, <1>2
  <2>3. down \in Nat
    BY <2>1, <2>2, <1>3
  <2> QED BY <2>2, <2>3, <1>2, <1>3, <1>6
<1> QED BY <1>7, <1>8 DEF chosen

-----------------------------------------------------------------------------
(* What the functions of xr_display.c make of the bookkeeping               *)

RateRecords ==
  [asked : Rates \cup {0}, confirmed : BOOLEAN, display : Rates, moved : BOOLEAN,
   reasks : 0 .. MaxReasks, held : Rates \cup {0}, warpOn : BOOLEAN,
   sent : Rates \cup {0}, refused : BOOLEAN]

SceneTypes == fps \in Streams /\ warp \in BOOLEAN /\ knob \in Knobs \cup {0}

(* StepDownSticks and OffIsSeenTo, of the bookkeeping alone.                *)
Sticks(d, forced) ==
  d.warpOn /\ forced = 0 /\ d.held > 0 /\ ~d.refused => d.asked <= d.held

SeenTo(d) ==
  d.asked > 0 /\ d.display # d.asked /\ ~d.refused =>
    ~d.confirmed \/ d.moved \/ d.reasks = MaxReasks

LEMMA RatesAreNats == Rates \subseteq Nat \ {0} /\ Rates \cup {0} \subseteq Nat
BY RateAssumption

LEMMA AskKeeps ==
  ASSUME NEW d \in RateRecords, NEW hz \in Rates, NEW refuses
  PROVE  /\ AskRate(d, hz, refuses) \in RateRecords
         /\ SeenTo(AskRate(d, hz, refuses))
<1>1. AskRate(d, hz, refuses) \in RateRecords
  <2>1. CASE hz \in refuses
    BY <2>1 DEF AskRate, RateRecords
  <2>2. CASE hz \notin refuses
    BY <2>2 DEF AskRate, RateRecords
  <2> QED BY <2>1, <2>2
<1>2. SeenTo(AskRate(d, hz, refuses))
  <2>1. CASE hz \in refuses
    BY <2>1 DEF AskRate, RateRecords, SeenTo
  <2>2. CASE hz \notin refuses
    BY <2>2 DEF AskRate, RateRecords, SeenTo
  <2> QED BY <2>1, <2>2
<1> QED BY <1>1, <1>2

LEMMA WantedRates ==
  ASSUME SceneTypes, NEW d \in RateRecords, NEW forced \in Knobs \cup {0}
  PROVE  /\ Want(d, forced) \in Rates
         /\ warp /\ forced = 0 /\ d.held > 0 => Want(d, forced) <= d.held
<1>1. fps \in Nat \ {0} /\ warp \in BOOLEAN /\ d.held \in Rates \cup {0}
  BY RateAssumption DEF SceneTypes, RateRecords
<1>2. CASE forced > 0
  <2>1. forced \in Nat \ {0}
    BY <1>2, RateAssumption
  <2> QED BY <1>2, <2>1, StreamRates DEF Want
<1>3. CASE ~(forced > 0)
  <2>1. Want(d, forced) = RateChoose(fps, warp, d.held, 0)
    BY <1>3 DEF Want
  <2>2. 0 \in Nat
    OBVIOUS
  <2> QED BY <1>1, <2>1, <2>2, ChosenRates
<1> QED BY <1>2, <1>3

LEMMA ApplyKeeps ==
  ASSUME SceneTypes, NEW d \in RateRecords, NEW forced \in Knobs \cup {0}, NEW refuses
  PROVE  LET a == ApplyRate(d, forced, refuses)
         IN  a \in RateRecords /\ (SeenTo(d) => SeenTo(a)) /\ Sticks(a, forced)
<1> DEFINE e == [d EXCEPT !.warpOn = warp]
           want == Want(e, forced)
           a == ApplyRate(d, forced, refuses)
<1>1. e \in RateRecords /\ e.warpOn = warp /\ e.held = d.held
  BY DEF RateRecords, SceneTypes
<1>2. want \in Rates /\ (warp /\ forced = 0 /\ e.held > 0 => want <= e.held)
  BY <1>1, WantedRates
<1>3. a = IF OnItsWay(e, want) THEN e ELSE AskRate(e, want, refuses)
  BY DEF ApplyRate
<1>4. SeenTo(d) => SeenTo(e)
  BY DEF SeenTo, RateRecords
<1> HIDE DEF e, want, a
<1>5. CASE OnItsWay(e, want)
  <2>1. a = e /\ want = e.asked
    BY <1>3, <1>5 DEF OnItsWay
  <2> QED BY <1>1, <1>2, <1>4, <2>1 DEF Sticks, a
<1>6. CASE ~OnItsWay(e, want)
  <2>1. a = AskRate(e, want, refuses)
    BY <1>3, <1>6
  <2>2. a \in RateRecords /\ SeenTo(a)
    BY <1>1, <1>2, <2>1, AskKeeps
  <2>3. a.warpOn = warp /\ a.held = e.held /\ (a.refused \/ a.asked = want)
    BY <1>1, <2>1 DEF AskRate, RateRecords
  <2>4. Sticks(a, forced)
    BY <1>2, <2>3 DEF Sticks
  <2> QED BY <2>2, <2>4 DEF a
<1> QED BY <1>5, <1>6

(* The rate the runtime says it is on, or the one it was last known to be.  *)
LEMMA DisplayKnown ==
  ASSUME NEW d \in RateRecords, NEW now \in Rates \cup {0}
  PROVE  (IF now > 0 THEN now ELSE d.display) \in Rates
<1>1. CASE now = 0
  BY <1>1 DEF RateRecords
<1>2. CASE now # 0
  <2>1. now \in Rates
    BY <1>2
  <2> QED BY <2>1 DEF RateRecords
<1> QED BY <1>1, <1>2

LEMMA ReasksBounded ==
  ASSUME NEW d \in RateRecords
  PROVE  /\ d.reasks \in Nat /\ MaxReasks \in Nat /\ d.reasks <= MaxReasks
         /\ d.reasks >= MaxReasks => d.reasks = MaxReasks
         /\ ~(d.reasks >= MaxReasks) => d.reasks + 1 \in 0 .. MaxReasks
<1>1. MaxReasks \in Nat
  BY RateAssumption
<1>2. d.reasks \in 0 .. MaxReasks
  BY DEF RateRecords
<1> QED BY <1>1, <1>2

LEMMA FocusedKeeps ==
  ASSUME NEW d \in RateRecords, NEW now \in Rates \cup {0}, NEW refuses, NEW forced,
         Sticks(d, forced)
  PROVE  LET a == Focused(d, now, refuses)
         IN  a \in RateRecords /\ SeenTo(a) /\ Sticks(a, forced)
<1> DEFINE e == [d EXCEPT !.display = IF now > 0 THEN now ELSE d.display]
           a == Focused(d, now, refuses)
<1>1. e \in RateRecords /\ [e EXCEPT !.moved = FALSE] \in RateRecords
  <2>1. (IF now > 0 THEN now ELSE d.display) \in Rates
    BY DisplayKnown
  <2> QED BY <2>1 DEF RateRecords
<1>2. e.asked = d.asked /\ e.warpOn = d.warpOn /\ e.held = d.held /\ e.refused = d.refused
  BY DEF RateRecords
<1>3. a = IF d.asked = 0 THEN d
          ELSE IF e.display # e.asked /\ e.confirmed
          THEN AskRate([e EXCEPT !.moved = FALSE], e.asked, refuses) ELSE e
  BY DEF Focused
<1> HIDE DEF e, a
<1>4. CASE d.asked = 0
  BY <1>3, <1>4 DEF SeenTo, a
<1>5. CASE d.asked # 0 /\ e.display # e.asked /\ e.confirmed
  <2>1. a = AskRate([e EXCEPT !.moved = FALSE], e.asked, refuses) /\ e.asked \in Rates
    BY <1>1, <1>2, <1>3, <1>5 DEF RateRecords
  <2>2. a \in RateRecords /\ SeenTo(a)
    BY <1>1, <2>1, AskKeeps
  <2>3. a.warpOn = d.warpOn /\ a.held = d.held /\ (a.refused \/ a.asked = d.asked)
        /\ (d.refused => a.refused)
    BY <1>1, <1>2, <2>1 DEF AskRate, RateRecords
  <2>4. Sticks(a, forced)
    BY <2>3 DEF Sticks
  <2> QED BY <2>2, <2>4 DEF a
<1>6. CASE d.asked # 0 /\ ~(e.display # e.asked /\ e.confirmed)
  <2>1. a = e
    BY <1>3, <1>6
  <2> QED BY <1>1, <1>2, <1>6, <2>1 DEF SeenTo, Sticks, a
<1> QED BY <1>4, <1>5, <1>6

LEMMA MovedKeeps ==
  ASSUME NEW d \in RateRecords, NEW to \in Rates, NEW focused \in BOOLEAN, NEW forced,
         Sticks(d, forced)
  PROVE  LET a == Moved(d, to, focused)
         IN  a \in RateRecords /\ (focused => SeenTo(a)) /\ Sticks(a, forced)
<1> DEFINE e == [d EXCEPT !.display = to]
           a == Moved(d, to, focused)
<1>1. CASE d.asked = 0 \/ (to # d.asked /\ (~focused \/ d.moved))
  <2>1. a = e
    BY <1>1 DEF Moved
  <2> QED BY <1>1, <2>1 DEF RateRecords, SeenTo, Sticks
<1>2. CASE d.asked # 0 /\ to = d.asked
  <2>1. a = [e EXCEPT !.confirmed = TRUE, !.moved = FALSE]
    BY <1>2 DEF Moved
  <2> QED BY <1>2, <2>1 DEF RateRecords, SeenTo, Sticks
<1>3. CASE d.asked # 0 /\ to # d.asked /\ ~(~focused \/ d.moved)
  <2>1. a = [e EXCEPT !.moved = TRUE, !.confirmed = TRUE]
    BY <1>3 DEF Moved
  <2> QED BY <1>3, <2>1 DEF RateRecords, SeenTo, Sticks
<1> QED BY <1>1, <1>2, <1>3

(* The parts of a frame's end.                                              *)
LEMMA GaveUpKeeps ==
  ASSUME NEW d \in RateRecords, NEW now \in Rates \cup {0}, NEW forced, Sticks(d, forced)
  PROVE  LET a == GaveUp(d, now)
         IN  a \in RateRecords /\ SeenTo(a) /\ Sticks(a, forced)
<1> DEFINE shown == IF now > 0 THEN now ELSE d.display
           a == GaveUp(d, now)
<1>1. shown \in Rates
  BY DisplayKnown
<1>2. a = [d EXCEPT !.display = shown, !.confirmed = TRUE,
                    !.moved = d.moved \/ shown # d.asked]
  BY DEF GaveUp, RateRecords
<1> HIDE DEF shown
<1> QED BY <1>1, <1>2 DEF RateRecords, SeenTo, Sticks

LEMMA ReaskKeeps ==
  ASSUME NEW d \in RateRecords, NEW refuses, NEW forced, Sticks(d, forced), d.asked # 0
  PROVE  LET a == Reask(d, refuses)
         IN  a \in RateRecords /\ SeenTo(a) /\ Sticks(a, forced)
<1> DEFINE e == [d EXCEPT !.moved = FALSE]
           t == [e EXCEPT !.reasks = d.reasks + 1]
           a == Reask(d, refuses)
<1>1. CASE d.display = d.asked \/ d.reasks >= MaxReasks
  <2>1. a = e
    BY <1>1 DEF Reask
  <2> QED BY <1>1, <2>1, ReasksBounded DEF RateRecords, SeenTo, Sticks
<1>2. CASE ~(d.display = d.asked \/ d.reasks >= MaxReasks)
  <2>1. a = AskRate(t, d.asked, refuses)
    BY <1>2 DEF Reask
  <2>2. t \in RateRecords /\ d.asked \in Rates
    <3>1. d.reasks + 1 \in 0 .. MaxReasks
      BY <1>2, ReasksBounded
    <3> QED BY <3>1 DEF RateRecords
  <2>3. a \in RateRecords /\ SeenTo(a)
    BY <2>1, <2>2, AskKeeps
  <2>4. a.warpOn = d.warpOn /\ a.held = d.held /\ (a.refused \/ a.asked = d.asked)
        /\ (d.refused => a.refused)
    BY <2>1 DEF AskRate, RateRecords
  <2>5. Sticks(a, forced)
    BY <2>4 DEF Sticks
  <2> QED BY <2>3, <2>5
<1> QED BY <1>1, <1>2

LEMMA StepDownKeeps ==
  ASSUME SceneTypes, NEW d \in RateRecords, NEW fits \in Nat, NEW refuses, NEW forced,
         SeenTo(d), Sticks(d, forced)
  PROVE  LET a == StepDown(d, fits, refuses)
         IN  a \in RateRecords /\ SeenTo(a) /\ Sticks(a, forced)
<1> DEFINE next == RateChoose(fps, TRUE, d.asked, fits)
           t == [d EXCEPT !.held = next]
           a == StepDown(d, fits, refuses)
<1>1. next \in Rates
  <2>1. fps \in Nat \ {0} /\ d.asked \in Rates \cup {0}
    BY RateAssumption DEF SceneTypes, RateRecords
  <2> QED BY <2>1, ChosenRates
<1>2. a = IF next < d.asked THEN AskRate(t, next, refuses) ELSE d
  BY DEF StepDown
<1> HIDE DEF next
<1>3. t \in RateRecords
  BY <1>1 DEF RateRecords
<1>4. CASE next < d.asked
  <2>1. a = AskRate(t, next, refuses)
    BY <1>2, <1>4
  <2>2. a \in RateRecords /\ SeenTo(a)
    BY <1>1, <1>3, <2>1, AskKeeps
  <2>3. a.held = next /\ (a.refused \/ a.asked = next)
    BY <2>1 DEF AskRate, RateRecords
  <2>4. Sticks(a, forced)
    BY <1>1, <2>3, RatesAreNats DEF Sticks
  <2> QED BY <2>2, <2>4
<1>5. CASE ~(next < d.asked)
  BY <1>2, <1>5
<1> QED BY <1>4, <1>5

LEMMA FrameKeeps ==
  ASSUME SceneTypes, NEW d \in RateRecords, NEW focused \in BOOLEAN, NEW late \in BOOLEAN,
         NEW paused \in BOOLEAN, NEW over \in BOOLEAN, NEW fits \in Nat,
         NEW now \in Rates \cup {0}, NEW refuses, Sticks(d, knob), focused => SeenTo(d)
  PROVE  LET a == Frame(d, focused, late, paused, over, fits, now, refuses)
         IN  a \in RateRecords /\ (focused => SeenTo(a)) /\ Sticks(a, knob)
<1> DEFINE switched == IF warp # d.warpOn THEN ApplyRate(d, knob, refuses) ELSE d
           waited == IF ~switched.confirmed /\ late THEN GaveUp(switched, now) ELSE switched
           again == IF waited.moved /\ paused THEN Reask(waited, refuses) ELSE waited
           a == Frame(d, focused, late, paused, over, fits, now, refuses)
           Good(x) == x \in RateRecords /\ (focused => SeenTo(x)) /\ Sticks(x, knob)
<1>1. a = IF d.asked = 0 THEN d
          ELSE IF ~focused THEN switched
          ELSE IF over /\ again.display = again.asked /\ again.warpOn /\ knob = 0
          THEN StepDown(again, fits, refuses) ELSE again
  BY DEF Frame
<1>2. Good(d)
  OBVIOUS
<1>3. Good(switched) /\ (d.asked # 0 => switched.asked # 0)
  <2>1. CASE warp # d.warpOn
    <3>1. switched = ApplyRate(d, knob, refuses) /\ knob \in Knobs \cup {0}
      BY <2>1 DEF SceneTypes
    <3>2. d.asked # 0 => ApplyRate(d, knob, refuses).asked # 0
      <4>1. [d EXCEPT !.warpOn = warp] \in RateRecords
        BY DEF RateRecords, SceneTypes
      <4>2. Want([d EXCEPT !.warpOn = warp], knob) \in Rates
        BY <3>1, <4>1, WantedRates
      <4>3. Want([d EXCEPT !.warpOn = warp], knob) # 0
        BY <4>2, RatesAreNats
      <4> QED BY <4>1, <4>3 DEF ApplyRate, AskRate, RateRecords
    <3> QED BY <3>1, <3>2, ApplyKeeps
  <2>2. CASE warp = d.warpOn
    BY <2>2
  <2> QED BY <2>1, <2>2
<1> HIDE DEF switched, a
<1>4. focused => Good(waited) /\ waited.asked = switched.asked
  <2>1. CASE ~switched.confirmed /\ late
    <3>1. waited = GaveUp(switched, now) /\ waited.asked = switched.asked
      BY <1>3, <2>1 DEF GaveUp, RateRecords
    <3> QED BY <1>3, <3>1, GaveUpKeeps
  <2>2. CASE ~(~switched.confirmed /\ late)
    BY <1>3, <2>2
  <2> QED BY <2>1, <2>2
<1> HIDE DEF waited
<1>5. focused /\ d.asked # 0 => Good(again)
  BY <1>3, <1>4, ReaskKeeps
<1> HIDE DEF again
<1>6. CASE d.asked = 0
  BY <1>1, <1>2, <1>6 DEF a
<1>7. CASE d.asked # 0 /\ ~focused
  BY <1>1, <1>3, <1>7 DEF a
<1>8. CASE d.asked # 0 /\ focused
  <2>1. a = again \/ a = StepDown(again, fits, refuses)
    BY <1>1, <1>8
  <2> QED BY <1>5, <1>8, <2>1, StepDownKeeps DEF a
<1> QED BY <1>6, <1>7, <1>8

-----------------------------------------------------------------------------
(* The bookkeeping as the session has it.                                   *)
RateInv ==
  /\ SceneTypes /\ rate \in RateRecords
  /\ Sticks(rate, knob)
  /\ sess.state = "focused" => SeenTo(rate)

(* The session and what the runtime has to say. The event that ends the     *)
(* session is the last of the session's, so one that was begun and is not   *)
(* ended is running.                                                        *)
Ended == {"exiting", "loss pending"}
SessionEvents == [what : {"session"}, to : States]
EventType == SessionEvents \cup [what : {"instance"}] \cup [what : {"rate"}, hz : Rates]
Ends(e) == e.what = "instance" \/ (e.what = "session" /\ e.to \in Ended)

RuntimeTypes ==
  runtime \in [state : States \cup Final, begun : BOOLEAN, actual : Rates, moves : 0 .. MaxMoves]
EventTypes == events \in Seq(EventType) /\ Len(events) <= MaxEvents
SessTypes ==
  sess \in [state : States \cup {"unknown"}, running : BOOLEAN, focusedOnce : BOOLEAN,
            reason : {"none", "exiting", "loss pending", "instance loss pending", "no frame"}]
LoopTypes ==
  /\ loop \in {"none", "poll", "frame", "exit", "over", "stopped", "told"}
  /\ awayTold \in BOOLEAN

NothingAfterTheEnd ==
  /\ runtime.state \notin Final =>
       sess.state \notin Ended /\ \A i \in 1 .. Len(events) : ~Ends(events[i])
  /\ sess.state \in Ended => \A i \in 1 .. Len(events) : events[i].what = "rate"
  /\ \A i, j \in 1 .. Len(events) :
       i < j /\ Ends(events[i]) => events[j].what = "rate"

EventInv ==
  /\ RuntimeTypes /\ EventTypes /\ SessTypes /\ LoopTypes
  /\ NothingAfterTheEnd /\ FramesInSession

(* The starts. While Java waits for one that runs alone, the slot is empty  *)
(* or has its own report.                                                   *)
StartTypes ==
  /\ thread \in [Id -> {"none", "made", "up"} \cup Steps] /\ ended \in [Id -> BOOLEAN]
  /\ waiting \in 0 .. Starts
  /\ slot \in Reports /\ report \in [Id -> Reports] /\ beside \in [Id -> BOOLEAN]

Unread == {"none", "made"}
OwnOrNone(r, k) == r.of = 0 \/ (r.of = k /\ r.step \in Notes(thread[k]))

Alone ==
  \A k \in Id : waiting = k /\ ~beside[k] =>
    /\ \A j \in Id \ {k} : ~Under(j)
    /\ thread[k] \notin Unread => OwnOrNone(slot, k) /\ (slot.of > 0 => ended[k])

StartsInv ==
  /\ StartTypes /\ Alone /\ ReportIsOwn
  /\ waiting # 0 => loop = "none"
  /\ \A k \in Id : /\ waiting = k => thread[k] # "none"
                   /\ ended[k] => thread[k] \notin Unread
                   /\ report[k].of > 0 => ended[k]

IInv == RateInv /\ EventInv /\ StartsInv

-----------------------------------------------------------------------------
(* The start of everything                                                  *)

LEMMA RateFromStart ==
  Init => RateInv
<1> SUFFICES ASSUME Init PROVE RateInv
  OBVIOUS
<1>1. PICK now \in Rates : RateInit(now)
  BY DEF Init
<1>2. SceneTypes /\ rate = NoRate(now)
  BY <1>1 DEF RateInit, SceneTypes
<1>3. NoRate(now) \in RateRecords
  BY RateAssumption DEF NoRate, RateRecords
<1>4. Sticks(rate, knob) /\ SeenTo(rate)
  BY <1>2 DEF NoRate, Sticks, SeenTo
<1> QED BY <1>2, <1>3, <1>4 DEF RateInv

LEMMA EventsFromStart ==
  Init => EventInv
<1> SUFFICES ASSUME Init PROVE EventInv
  OBVIOUS
<1>1. /\ events = <<>> /\ sess = SessionInit /\ loop = "none" /\ awayTold = FALSE
      /\ \E now \in Rates :
           runtime = [state |-> "idle", begun |-> FALSE, actual |-> now, moves |-> 0]
  BY DEF Init
<1>2. RuntimeTypes
  BY <1>1, SessionAssumption DEF RuntimeTypes, States
<1>3. EventTypes
  BY <1>1, SessionAssumption DEF EventTypes
<1>4. SessTypes /\ LoopTypes
  BY <1>1 DEF SessTypes, LoopTypes, SessionInit
<1>5. NothingAfterTheEnd
  BY <1>1 DEF NothingAfterTheEnd, SessionInit, Ended
<1>6. FramesInSession
  BY <1>1 DEF FramesInSession, SessionInit
<1> QED BY <1>2, <1>3, <1>4, <1>5, <1>6 DEF EventInv

LEMMA StartsFromStart ==
  Init => StartsInv
<1> SUFFICES ASSUME Init PROVE StartsInv
  OBVIOUS
<1>1. /\ thread = [k \in Id |-> "none"] /\ ended = [k \in Id |-> FALSE]
      /\ waiting = 0 /\ slot = NoReport /\ report = [k \in Id |-> Untold]
      /\ beside = [k \in Id |-> FALSE] /\ loop = "none"
  BY DEF Init
<1>2. \A k \in Id : k # 0
  BY SessionAssumption DEF Id
<1>3. StartTypes
  BY <1>1, SessionAssumption DEF StartTypes, Reports
<1>4. Alone
  BY <1>1, <1>2 DEF Alone
<1>5. ReportIsOwn /\ \A k \in Id : ~(report[k].of > 0)
  BY <1>1 DEF ReportIsOwn, Untold
<1> QED BY <1>1, <1>2, <1>3, <1>4, <1>5 DEF StartsInv

-----------------------------------------------------------------------------
(* The rate, step by step                                                   *)

\* A step that calls none of the functions, and brings no focus.
LEMMA RateStays ==
  ASSUME RateInv, UNCHANGED <<scene, rate>>,
         sess'.state = "focused" => sess.state = "focused"
  PROVE  RateInv'
BY DEF RateInv, scene, SceneTypes, Sticks, SeenTo

LEMMA KnownRates ==
  ASSUME RuntimeTypes
  PROVE  runtime.actual \in Rates /\ {0, runtime.actual} \subseteq Rates \cup {0}
BY DEF RuntimeTypes

LEMMA ReadyKeepsRate ==
  ASSUME RateInv, SessTypes, OnReady
  PROVE  RateInv'
<1>1. UNCHANGED scene /\ sess'.state # "focused"
  <2>1. sess' = [To("ready") EXCEPT !.running = TRUE] \/ sess' = To("ready")
    BY DEF OnReady
  <2>2. To("ready").state = "ready"
    BY DEF To, SessTypes
  <2>3. [To("ready") EXCEPT !.running = TRUE].state = To("ready").state
    BY DEF To, SessTypes
  <2> QED BY <2>1, <2>2, <2>3 DEF OnReady, Quiet
<1>2. CASE UNCHANGED rate
  BY <1>1, <1>2, RateStays
<1>3. CASE rate' # rate
  <2>1. PICK r \in Refusals : rate' = ApplyRate(rate, knob, r)
    BY <1>3 DEF OnReady
  <2>2. rate' \in RateRecords /\ Sticks(ApplyRate(rate, knob, r), knob)
    BY <2>1, ApplyKeeps DEF RateInv, SceneTypes
  <2> QED BY <1>1, <2>1, <2>2 DEF RateInv, SceneTypes, scene, Sticks
<1> QED BY <1>2, <1>3

LEMMA FocusedKeepsRate ==
  ASSUME RateInv, RuntimeTypes, OnFocused
  PROVE  RateInv'
<1>1. PICK r \in Refusals, now \in {0, runtime.actual} : rate' = Focused(rate, now, r)
  BY DEF OnFocused
<1>2. now \in Rates \cup {0}
  BY KnownRates
<1>3. /\ Focused(rate, now, r) \in RateRecords
      /\ SeenTo(Focused(rate, now, r)) /\ Sticks(Focused(rate, now, r), knob)
  BY <1>2, FocusedKeeps DEF RateInv
<1>4. UNCHANGED scene
  BY DEF OnFocused, Quiet
<1> QED BY <1>1, <1>3, <1>4 DEF RateInv, SceneTypes, scene, Sticks, SeenTo

LEMMA MovedKeepsRate ==
  ASSUME RateInv, EventTypes, OnRateChanged
  PROVE  RateInv'
<1>1. events \in Seq(EventType) /\ events # <<>>
  BY DEF EventTypes, OnRateChanged, Polls
<1>2. Head(events) \in EventType
  BY <1>1
<1>3. Head(events).hz \in Rates
  BY <1>2 DEF EventType, SessionEvents, OnRateChanged
<1> DEFINE focused == sess.state = "focused"
           a == Moved(rate, Head(events).hz, focused)
<1>4. focused \in BOOLEAN
  OBVIOUS
<1>5. rate' = a
  BY DEF OnRateChanged
<1>6. a \in RateRecords /\ (focused => SeenTo(a)) /\ Sticks(a, knob)
  <2> HIDE DEF focused
  <2> QED BY <1>3, <1>4, MovedKeeps DEF RateInv
<1> HIDE DEF a
<1>7. UNCHANGED <<scene, sess>>
  BY DEF OnRateChanged, Quiet
<1> QED BY <1>5, <1>6, <1>7 DEF RateInv, SceneTypes, scene, Sticks, SeenTo

LEMMA FrameKeepsRate ==
  ASSUME RateInv, RuntimeTypes, EndFrame
  PROVE  RateInv'
<1> DEFINE focused == sess.state = "focused"
<1>1. PICK late \in BOOLEAN, paused \in BOOLEAN, over \in BOOLEAN,
           now \in {0, runtime.actual}, r \in Refusals, f \in Fits :
        rate' = Frame(rate, focused, late, paused, over, f, now, r)
  BY DEF EndFrame
<1> DEFINE a == Frame(rate, focused, late, paused, over, f, now, r)
<1>2. now \in Rates \cup {0} /\ f \in Nat /\ focused \in BOOLEAN
  BY KnownRates, RatesAreNats DEF Fits
<1>3. a \in RateRecords /\ (focused => SeenTo(a)) /\ Sticks(a, knob)
  <2>1. SceneTypes /\ rate \in RateRecords /\ Sticks(rate, knob) /\ (focused => SeenTo(rate))
    BY DEF RateInv
  <2> HIDE DEF focused
  <2> QED BY <1>2, <2>1, FrameKeeps
<1>4. rate' = a
  BY <1>1
<1> HIDE DEF a
<1>5. UNCHANGED <<scene, sess>>
  BY DEF EndFrame
<1> QED BY <1>3, <1>4, <1>5 DEF RateInv, SceneTypes, scene, Sticks, SeenTo

LEMMA KnobKeepsRate ==
  ASSUME RateInv, FramesInSession, NEW hz \in Knobs \cup {0}, KnobSet(hz)
  PROVE  RateInv'
<1>1. sess.running /\ UNCHANGED <<fps, warp, sess>> /\ knob' = hz
  BY DEF KnobSet, InFrame, FramesInSession, Gone, xr
<1>2. PICK r \in Refusals : rate' = ApplyRate(rate, hz, r)
  BY <1>1 DEF KnobSet
<1> DEFINE a == ApplyRate(rate, hz, r)
<1>3. a \in RateRecords /\ (SeenTo(rate) => SeenTo(a)) /\ Sticks(a, hz)
  BY ApplyKeeps DEF RateInv
<1>4. rate' = a
  BY <1>2
<1> HIDE DEF a
<1> QED BY <1>1, <1>3, <1>4 DEF RateInv, SceneTypes, Sticks, SeenTo

LEMMA RequestKeepsRate ==
  ASSUME RateInv, rate' = [rate EXCEPT !.sent = 0], UNCHANGED <<scene, sess>>
  PROVE  RateInv'
<1>1. rate' \in RateRecords
  BY DEF RateInv, RateRecords
<1>2. /\ rate'.asked = rate.asked /\ rate'.held = rate.held /\ rate'.warpOn = rate.warpOn
      /\ rate'.refused = rate.refused /\ rate'.display = rate.display
      /\ rate'.confirmed = rate.confirmed /\ rate'.moved = rate.moved
      /\ rate'.reasks = rate.reasks
  BY DEF RateInv, RateRecords
<1> QED BY <1>1, <1>2 DEF RateInv, SceneTypes, scene, Sticks, SeenTo

LEMMA DestroyKeepsRate ==
  ASSUME RateInv, RuntimeTypes, Destroy
  PROVE  RateInv'
<1>1. rate' = NoRate(runtime.actual) /\ UNCHANGED scene /\ sess'.state = "unknown"
  BY DEF Destroy, DestroyCtx, SessionInit
<1>2. NoRate(runtime.actual) \in RateRecords
  BY RateAssumption, KnownRates DEF NoRate, RateRecords
<1>3. rate'.held = 0
  BY <1>1 DEF NoRate
<1> QED BY <1>1, <1>2, <1>3 DEF RateInv, SceneTypes, scene, Sticks

-----------------------------------------------------------------------------
(* The session and the runtime's events, step by step                       *)

LEMMA HeadAndTail ==
  ASSUME EventTypes, Polls
  PROVE  /\ EventTypes' /\ Head(events) \in EventType
         /\ 1 \in 1 .. Len(events) /\ Head(events) = events[1]
         /\ \A i \in 1 .. Len(events') : i + 1 \in 1 .. Len(events) /\ events'[i] = events[i + 1]
<1>1. events \in Seq(EventType) /\ events # <<>> /\ events' = Tail(events)
  BY DEF EventTypes, Polls
<1>2. Len(events) \in Nat \ {0} /\ Len(events') = Len(events) - 1 /\ events' \in Seq(EventType)
  BY <1>1
<1>3. EventTypes'
  BY <1>2, SessionAssumption DEF EventTypes
<1> QED BY <1>1, <1>2, <1>3

LEMMA Appended ==
  ASSUME EventTypes, NEW e \in EventType, Says(e)
  PROVE  /\ EventTypes' /\ Len(events) \in Nat /\ Len(events') = Len(events) + 1
         /\ events'[Len(events) + 1] = e
         /\ \A i \in 1 .. Len(events) : events'[i] = events[i]
<1>1. events \in Seq(EventType) /\ events' = Append(events, e) /\ Len(events) < MaxEvents
  BY DEF EventTypes, Says
<1>2. Len(events) \in Nat /\ Len(events') = Len(events) + 1 /\ events' \in Seq(EventType)
  BY <1>1
<1>3. EventTypes'
  BY <1>1, <1>2, SessionAssumption DEF EventTypes
<1> QED BY <1>1, <1>2, <1>3

\* Polling takes the end of the session on to where the session has it.
LEMMA PolledInOrder ==
  ASSUME EventTypes, NothingAfterTheEnd, Polls, runtime'.state = runtime.state,
         \/ sess'.state = sess.state \/ sess'.state \notin Ended \/ Ends(Head(events))
  PROVE  NothingAfterTheEnd'
<1> DEFINE n == Len(events)
           m == Len(events')
<1>1. /\ n \in Nat /\ m \in Nat /\ 1 \in 1 .. n /\ Head(events) = events[1]
      /\ \A i \in 1 .. m : i \in Nat /\ i + 1 \in 1 .. n /\ events'[i] = events[i + 1]
  BY HeadAndTail DEF EventTypes
<1>2. /\ runtime.state \notin Final =>
           sess.state \notin Ended /\ \A i \in 1 .. n : ~Ends(events[i])
      /\ sess.state \in Ended => \A i \in 1 .. n : events[i].what = "rate"
      /\ \A i, j \in 1 .. n : i < j /\ Ends(events[i]) => events[j].what = "rate"
  BY DEF NothingAfterTheEnd
<1> HIDE DEF n, m
<1>3. runtime.state \notin Final =>
        sess'.state \notin Ended /\ \A i \in 1 .. m : ~Ends(events'[i])
  <2>1. runtime.state \notin Final => sess'.state \notin Ended
    BY <1>1, <1>2
  <2>2. runtime.state \notin Final => \A i \in 1 .. m : ~Ends(events'[i])
    BY <1>1, <1>2
  <2> QED BY <2>1, <2>2
<1>4. sess'.state \in Ended => \A i \in 1 .. m : events'[i].what = "rate"
  <2> SUFFICES ASSUME sess'.state \in Ended, NEW i \in 1 .. m PROVE events'[i].what = "rate"
    OBVIOUS
  <2>1. i + 1 \in 1 .. n /\ 1 < i + 1 /\ events'[i] = events[i + 1]
    BY <1>1
  <2>2. CASE sess.state \in Ended
    BY <1>2, <2>1, <2>2
  <2>3. CASE Ends(Head(events))
    BY <1>1, <1>2, <2>1, <2>3
  <2> QED BY <2>2, <2>3
<1>5. \A i, j \in 1 .. m : i < j /\ Ends(events'[i]) => events'[j].what = "rate"
  <2> SUFFICES ASSUME NEW i \in 1 .. m, NEW j \in 1 .. m, i < j, Ends(events'[i])
               PROVE  events'[j].what = "rate"
    OBVIOUS
  <2>1. /\ i + 1 \in 1 .. n /\ j + 1 \in 1 .. n /\ i + 1 < j + 1
        /\ events'[i] = events[i + 1] /\ events'[j] = events[j + 1]
    BY <1>1
  <2>2. Ends(events[i + 1])
    BY <2>1
  <2> QED BY <1>2, <2>1, <2>2
<1>6. runtime'.state = runtime.state
  OBVIOUS
<1> QED BY <1>3, <1>4, <1>5, <1>6 DEF NothingAfterTheEnd, n, m, Ends

\* A runtime that has said its last word moves no display into the session's end
\* but by an event of the rate, and one that has not may say anything.
LEMMA SaidInOrder ==
  ASSUME EventTypes, NothingAfterTheEnd, NEW e \in EventType, Says(e), UNCHANGED sess,
         \/ e.what = "rate" /\ runtime'.state = runtime.state
         \/ runtime.state \notin Final /\ (Ends(e) => runtime'.state \in Final)
  PROVE  NothingAfterTheEnd'
<1> DEFINE n == Len(events)
           m == Len(events')
<1>1. /\ n \in Nat /\ m = n + 1 /\ events'[m] = e
      /\ \A i \in 1 .. n : events'[i] = events[i]
  BY Appended
<1>2. /\ runtime.state \notin Final =>
           sess.state \notin Ended /\ \A i \in 1 .. n : ~Ends(events[i])
      /\ sess.state \in Ended => \A i \in 1 .. n : events[i].what = "rate"
      /\ \A i, j \in 1 .. n : i < j /\ Ends(events[i]) => events[j].what = "rate"
  BY DEF NothingAfterTheEnd
<1> HIDE DEF n, m
<1>3. \A i \in 1 .. m : i \in 1 .. n \/ i = m
  BY <1>1
<1>4. e.what = "rate" => ~Ends(e)
  BY DEF Ends
<1>5. runtime'.state \notin Final =>
        sess.state \notin Ended /\ \A i \in 1 .. m : ~Ends(events'[i])
  <2> SUFFICES ASSUME runtime'.state \notin Final
               PROVE  sess.state \notin Ended /\ \A i \in 1 .. m : ~Ends(events'[i])
    OBVIOUS
  <2>1. runtime.state \notin Final /\ ~Ends(e)
    BY <1>4
  <2>2. \A i \in 1 .. m : ~Ends(events'[i])
    BY <1>1, <1>2, <1>3, <2>1
  <2> QED BY <1>2, <2>1, <2>2
<1>6. sess.state \in Ended => \A i \in 1 .. m : events'[i].what = "rate"
  BY <1>1, <1>2, <1>3
<1>7. \A i, j \in 1 .. m : i < j /\ Ends(events'[i]) => events'[j].what = "rate"
  <2> SUFFICES ASSUME NEW i \in 1 .. m, NEW j \in 1 .. m, i < j, Ends(events'[i])
               PROVE  events'[j].what = "rate"
    OBVIOUS
  <2>1. i \in 1 .. n /\ events'[i] = events[i]
    BY <1>1
  <2>2. Ends(events[i])
    BY <2>1
  <2>3. CASE j \in 1 .. n
    BY <1>1, <1>2, <2>1, <2>2, <2>3
  <2>4. CASE j = m
    BY <1>1, <1>2, <2>1, <2>2, <2>4
  <2> QED BY <1>3, <2>3, <2>4
<1> QED BY <1>5, <1>6, <1>7 DEF NothingAfterTheEnd, n, m, Ends

LEMMA PollQuiet ==
  ASSUME LoopTypes, Polls, Quiet
  PROVE  LoopTypes' /\ loop = "poll" /\ UNCHANGED <<loop, awayTold>>
BY DEF LoopTypes, Polls, Quiet

LEMMA SessTo ==
  ASSUME SessTypes, NEW to \in States \cup {"unknown"}
  PROVE  /\ To(to) \in [state : States \cup {"unknown"}, running : BOOLEAN,
                        focusedOnce : BOOLEAN,
                        reason : {"none", "exiting", "loss pending",
                                  "instance loss pending", "no frame"}]
         /\ To(to).state = to /\ To(to).running = sess.running
         /\ To(to).reason = sess.reason /\ To(to).focusedOnce = sess.focusedOnce
BY DEF SessTypes, To

LEMMA ReadyKeepsEvents ==
  ASSUME EventInv, OnReady
  PROVE  EventInv'
<1>1. Polls /\ Quiet /\ SessTypes /\ LoopTypes /\ EventTypes /\ RuntimeTypes
  BY DEF OnReady, Polled, EventInv
<1>2. EventTypes' /\ LoopTypes' /\ loop' = "poll"
  BY <1>1, HeadAndTail, PollQuiet
<1>3. "ready" \in States
  BY DEF States
<1>4. /\ SessTypes' /\ RuntimeTypes' /\ sess'.state = "ready"
      /\ runtime'.state = runtime.state
      /\ \/ sess'.running /\ runtime'.begun
         \/ sess'.running = sess.running /\ runtime'.begun = runtime.begun
  <2>1. CASE sess' = To("ready") /\ UNCHANGED runtime
    BY <1>1, <1>3, <2>1, SessTo DEF SessTypes, RuntimeTypes
  <2>2. CASE /\ sess' = [To("ready") EXCEPT !.running = TRUE]
             /\ runtime' = [runtime EXCEPT !.begun = TRUE]
    <3>1. SessTypes' /\ sess'.state = "ready" /\ sess'.running
      BY <1>1, <1>3, <2>2, SessTo DEF SessTypes
    <3>2. RuntimeTypes' /\ runtime'.begun /\ runtime'.state = runtime.state
      BY <1>1, <2>2 DEF RuntimeTypes
    <3> QED BY <3>1, <3>2
  <2> QED BY <2>1, <2>2 DEF OnReady
<1>5. NothingAfterTheEnd'
  <2>1. "ready" \notin Ended
    BY DEF Ended
  <2> QED BY <1>1, <1>4, <2>1, PolledInOrder DEF EventInv
<1>6. FramesInSession'
  <2>1. sess.state \notin Ended
    <3>1. ~(Head(events).what = "rate") /\ 1 \in 1 .. Len(events) /\ Head(events) = events[1]
      BY <1>1, HeadAndTail DEF OnReady, Polled
    <3> QED BY <3>1 DEF EventInv, NothingAfterTheEnd
  <2>2. /\ sess.running => runtime.begun
        /\ runtime.begun => sess.running
    BY <1>1, <2>1 DEF EventInv, FramesInSession, Gone, Ended, Polls
  <2> QED BY <1>2, <1>4, <2>2 DEF FramesInSession
<1> QED BY <1>2, <1>4, <1>5, <1>6 DEF EventInv

LEMMA FocusedKeepsEvents ==
  ASSUME EventInv, OnFocused
  PROVE  EventInv'
<1>1. Polls /\ Quiet /\ SessTypes /\ LoopTypes /\ EventTypes /\ RuntimeTypes
  BY DEF OnFocused, Polled, EventInv
<1>2. EventTypes' /\ LoopTypes' /\ loop' = "poll"
  BY <1>1, HeadAndTail, PollQuiet
<1>3. "focused" \in States /\ "focused" \notin Ended
  BY DEF States, Ended
<1>4. SessTypes' /\ sess'.state = "focused" /\ sess'.running = sess.running
  BY <1>1, <1>3, SessTo DEF SessTypes, OnFocused
<1>5. UNCHANGED runtime /\ RuntimeTypes'
  BY <1>1 DEF RuntimeTypes, OnFocused
<1>6. NothingAfterTheEnd'
  BY <1>1, <1>3, <1>4, <1>5, PolledInOrder DEF EventInv
<1>7. FramesInSession'
  <2>1. sess.state \notin Ended
    <3>1. ~(Head(events).what = "rate") /\ 1 \in 1 .. Len(events) /\ Head(events) = events[1]
      BY <1>1, HeadAndTail DEF OnFocused, Polled
    <3> QED BY <3>1 DEF EventInv, NothingAfterTheEnd
  <2>2. /\ sess.running => runtime.begun
        /\ runtime.begun => sess.running
    BY <1>1, <2>1 DEF EventInv, FramesInSession, Gone, Ended, Polls
  <2> QED BY <1>2, <1>4, <1>5, <2>2 DEF FramesInSession
<1> QED BY <1>2, <1>4, <1>5, <1>6, <1>7 DEF EventInv

LEMMA StoppingKeepsEvents ==
  ASSUME EventInv, OnStopping
  PROVE  EventInv'
<1>1. Polls /\ Quiet /\ SessTypes /\ LoopTypes /\ EventTypes /\ RuntimeTypes
  BY DEF OnStopping, Polled, EventInv
<1>2. EventTypes' /\ LoopTypes' /\ loop' = "poll"
  BY <1>1, HeadAndTail, PollQuiet
<1>3. "stopping" \in States /\ "stopping" \notin Ended
  BY DEF States, Ended
<1>4. SessTypes' /\ sess'.state = "stopping" /\ sess'.running = FALSE
  BY <1>1, <1>3, SessTo DEF SessTypes, OnStopping, StoppedFor
<1>5. RuntimeTypes' /\ runtime'.state = runtime.state /\ runtime'.begun = FALSE
  BY <1>1 DEF RuntimeTypes, OnStopping
<1>6. NothingAfterTheEnd'
  BY <1>1, <1>3, <1>4, <1>5, PolledInOrder DEF EventInv
<1>7. FramesInSession'
  BY <1>2, <1>4, <1>5 DEF FramesInSession
<1> QED BY <1>2, <1>4, <1>5, <1>6, <1>7 DEF EventInv

LEMMA EndedKeepsEvents ==
  ASSUME EventInv, NEW what \in States, OnEnded(what)
  PROVE  EventInv'
<1>1. /\ Polls /\ Quiet /\ SessTypes /\ LoopTypes /\ EventTypes /\ RuntimeTypes
      /\ what \in Ended /\ UNCHANGED runtime
  BY DEF OnEnded, Polled, EventInv, Ended
<1>2. EventTypes' /\ LoopTypes' /\ loop' = "poll"
  BY <1>1, HeadAndTail, PollQuiet
<1> DEFINE over == [To(what) EXCEPT !.running = FALSE]
<1>3. /\ over \in [state : States \cup {"unknown"}, running : BOOLEAN,
                   focusedOnce : BOOLEAN,
                   reason : {"none", "exiting", "loss pending",
                             "instance loss pending", "no frame"}]
      /\ over.state = what /\ over.running = FALSE
  <2>1. /\ To(what) \in [state : States \cup {"unknown"}, running : BOOLEAN,
                  focusedOnce : BOOLEAN,
                  reason : {"none", "exiting", "loss pending",
                            "instance loss pending", "no frame"}]
        /\ To(what).state = what
    BY <1>1, SessTo
  <2> QED BY <2>1
<1>4. sess' = over \/ sess' = [over EXCEPT !.reason = what]
  BY DEF OnEnded, EndedAs, EndsFor
<1> HIDE DEF over
<1>5. SessTypes' /\ sess'.state = what /\ sess'.running = FALSE
  BY <1>1, <1>3, <1>4 DEF SessTypes, Ended
<1>6. RuntimeTypes'
  BY <1>1 DEF RuntimeTypes
<1>7. Ends(Head(events))
  BY <1>1 DEF OnEnded, Polled, Ends
<1>8. NothingAfterTheEnd'
  BY <1>1, <1>7, PolledInOrder DEF EventInv
<1>9. FramesInSession'
  BY <1>1, <1>2, <1>5 DEF FramesInSession, Ended
<1> QED BY <1>2, <1>5, <1>6, <1>8, <1>9 DEF EventInv

LEMMA OtherKeepsEvents ==
  ASSUME EventInv, NEW what \in States, OnOther(what)
  PROVE  EventInv'
<1>1. /\ Polls /\ Quiet /\ SessTypes /\ LoopTypes /\ EventTypes /\ RuntimeTypes
      /\ what \notin Ended /\ UNCHANGED runtime
  BY DEF OnOther, Polled, EventInv, Ended
<1>2. EventTypes' /\ LoopTypes' /\ loop' = "poll"
  BY <1>1, HeadAndTail, PollQuiet
<1>3. SessTypes' /\ sess'.state = what /\ sess'.running = sess.running
  BY <1>1, SessTo DEF SessTypes, OnOther
<1>4. RuntimeTypes'
  BY <1>1 DEF RuntimeTypes
<1>5. NothingAfterTheEnd'
  BY <1>1, <1>3, PolledInOrder DEF EventInv
<1>6. FramesInSession'
  <2>1. sess.state \notin Ended
    <3>1. ~(Head(events).what = "rate") /\ 1 \in 1 .. Len(events) /\ Head(events) = events[1]
      BY <1>1, HeadAndTail DEF OnOther, Polled
    <3> QED BY <3>1 DEF EventInv, NothingAfterTheEnd
  <2>2. /\ sess.running => runtime.begun
        /\ runtime.begun => sess.running
    BY <1>1, <2>1 DEF EventInv, FramesInSession, Gone, Ended, Polls
  <2> QED BY <1>1, <1>2, <1>3, <2>2 DEF FramesInSession
<1> QED BY <1>2, <1>3, <1>4, <1>5, <1>6 DEF EventInv

\* An event that is not of the session's state changes neither the state nor
\* whether it runs.
LEMMA AsideKeepsEvents ==
  ASSUME EventInv, OnInstanceLoss \/ OnRateChanged
  PROVE  EventInv'
<1>1. /\ Polls /\ Quiet /\ SessTypes /\ LoopTypes /\ EventTypes /\ RuntimeTypes
      /\ UNCHANGED runtime
  BY DEF OnInstanceLoss, OnRateChanged, EventInv
<1>2. EventTypes' /\ UNCHANGED loop /\ LoopTypes'
  BY <1>1, HeadAndTail, PollQuiet
<1>3. sess' = sess \/ sess' = [sess EXCEPT !.reason = "instance loss pending"]
  BY DEF OnInstanceLoss, OnRateChanged, EndsFor
<1>4. SessTypes' /\ sess'.state = sess.state /\ sess'.running = sess.running
  BY <1>1, <1>3 DEF SessTypes
<1>5. RuntimeTypes'
  BY <1>1 DEF RuntimeTypes
<1>6. NothingAfterTheEnd'
  BY <1>1, <1>4, PolledInOrder DEF EventInv
<1>7. FramesInSession'
  BY <1>1, <1>2, <1>4 DEF EventInv, FramesInSession, Gone
<1> QED BY <1>2, <1>4, <1>5, <1>6, <1>7 DEF EventInv

LEMMA TurnKeepsEvents ==
  ASSUME EventInv, AfterEvents \/ EndFrame
  PROVE  EventInv'
<1>1. /\ UNCHANGED <<runtime, events>> /\ loop' \in Turn \cup {"frame", "exit"}
      /\ loop \in {"poll", "frame"}
  BY DEF AfterEvents, Exit, Idle, BeginFrame, BeginFrameFails, EndFrame, FrameEnds,
         PollEnds, AfterPoll
<1>2. sess' = sess \/ sess' = [sess EXCEPT !.reason = "no frame"]
  BY DEF AfterEvents, Exit, Idle, BeginFrame, BeginFrameFails, EndFrame, EndsFor
<1>3. SessTypes' /\ sess'.state = sess.state /\ sess'.running = sess.running
  BY <1>2 DEF EventInv, SessTypes
<1>4. awayTold' \in BOOLEAN
  <2>1. awayTold' = awayTold \/ awayTold' = (Presence = "away")
    BY DEF AfterEvents, Exit, Idle, BeginFrame, BeginFrameFails, EndFrame, TrackPresence,
           TrackIdle
  <2>2. (Presence = "away") \in BOOLEAN
    OBVIOUS
  <2>3. awayTold \in BOOLEAN
    BY DEF EventInv, LoopTypes
  <2> QED BY <2>1, <2>2, <2>3, Zenon
<1>5. LoopTypes'
  BY <1>1, <1>4 DEF LoopTypes, Turn
<1>6. RuntimeTypes' /\ EventTypes' /\ NothingAfterTheEnd'
  BY <1>1, <1>3 DEF EventInv, RuntimeTypes, EventTypes, NothingAfterTheEnd, Ends
<1>7. loop' = "frame" => sess.running
  BY DEF AfterEvents, Exit, Idle, BeginFrame, BeginFrameFails, EndFrame, FrameEnds, Turn
<1>8. FramesInSession'
  BY <1>1, <1>3, <1>7 DEF EventInv, FramesInSession, Gone
<1> QED BY <1>3, <1>5, <1>6, <1>8 DEF EventInv

LEMMA DestroyKeepsEvents ==
  ASSUME EventInv, Destroy
  PROVE  EventInv'
<1>1. /\ loop' \in {"stopped", "told"} /\ UNCHANGED awayTold /\ events' = <<>>
      /\ sess' = SessionInit
      /\ runtime' = [runtime EXCEPT !.state = "destroyed", !.begun = FALSE]
  BY DEF Destroy, DestroyCtx
<1>2. RuntimeTypes'
  BY <1>1 DEF EventInv, RuntimeTypes, Final
<1>3. SessTypes' /\ LoopTypes' /\ EventTypes'
  <2>1. SessTypes'
    BY <1>1 DEF SessTypes, SessionInit
  <2>2. LoopTypes'
    BY <1>1 DEF EventInv, LoopTypes
  <2>3. EventTypes'
    BY <1>1, SessionAssumption DEF EventTypes
  <2> QED BY <2>1, <2>2, <2>3
<1>4. NothingAfterTheEnd'
  BY <1>1 DEF NothingAfterTheEnd, SessionInit, Ended
<1>5. FramesInSession'
  BY <1>1 DEF FramesInSession, Gone
<1> QED BY <1>2, <1>3, <1>4, <1>5 DEF EventInv

LEMMA StillKeepsEvents ==
  ASSUME EventInv, UNCHANGED <<runtime, events, sess, awayTold>>,
         loop' = loop \/ (loop = "none" /\ loop' \in Turn)
  PROVE  EventInv'
<1>1. RuntimeTypes' /\ EventTypes' /\ NothingAfterTheEnd' /\ SessTypes'
  BY DEF EventInv, RuntimeTypes, EventTypes, NothingAfterTheEnd, Ends, SessTypes
<1>2. LoopTypes'
  BY DEF EventInv, LoopTypes, Turn
<1>3. FramesInSession'
  BY DEF EventInv, FramesInSession, Gone, Turn
<1> QED BY <1>1, <1>2, <1>3 DEF EventInv

LEMMA SaidKeepsEvents ==
  ASSUME EventInv, FromRuntime, RuntimeTypes', NEW e \in EventType, Says(e),
         runtime'.begun = runtime.begun,
         \/ e.what = "rate" /\ runtime'.state = runtime.state
         \/ runtime.state \notin Final /\ (Ends(e) => runtime'.state \in Final)
  PROVE  EventInv'
<1>1. UNCHANGED <<sess, loop, awayTold>>
  BY DEF FromRuntime, xr
<1>2. EventTypes' /\ NothingAfterTheEnd'
  BY <1>1, Appended, SaidInOrder DEF EventInv
<1>3. SessTypes' /\ LoopTypes'
  BY <1>1 DEF EventInv, SessTypes, LoopTypes
<1>4. FramesInSession'
  BY <1>1 DEF EventInv, FramesInSession, Gone
<1> QED BY <1>2, <1>3, <1>4 DEF EventInv

LEMMA RuntimeKeepsEvents ==
  ASSUME EventInv, rate \in RateRecords, Runtime
  PROVE  EventInv'
<1>1. ASSUME NEW to \in States, RuntimeMoves(to) PROVE EventInv'
  <2> DEFINE e == [what |-> "session", to |-> to]
  <2>1. FromRuntime /\ Says(e) /\ runtime' = [runtime EXCEPT !.state = to]
    BY <1>1 DEF RuntimeMoves
  <2>2. runtime.state \notin Final
    BY <1>1 DEF RuntimeMoves, Follows, Final
  <2>3. e \in EventType /\ e.what = "session" /\ e.to = to
    BY DEF EventType, SessionEvents
  <2>4. RuntimeTypes' /\ runtime'.begun = runtime.begun /\ runtime'.state = to
    BY <2>1 DEF EventInv, RuntimeTypes
  <2>5. Ends(e) => runtime'.state \in Final
    BY <2>3, <2>4 DEF Ends, Ended, Final
  <2> HIDE DEF e
  <2> QED BY <2>1, <2>2, <2>3, <2>4, <2>5, SaidKeepsEvents
<1>2. ASSUME RuntimeLost PROVE EventInv'
  <2> DEFINE e == [what |-> "instance"]
  <2>1. /\ FromRuntime /\ Says(e) /\ runtime.state \notin Final
        /\ runtime' = [runtime EXCEPT !.state = "instance loss"]
    BY <1>2 DEF RuntimeLost
  <2>2. e \in EventType
    BY DEF EventType
  <2>3. /\ RuntimeTypes' /\ runtime'.begun = runtime.begun
        /\ runtime'.state \in Final
    BY <2>1 DEF EventInv, RuntimeTypes, Final
  <2> HIDE DEF e
  <2> QED BY <2>1, <2>2, <2>3, SaidKeepsEvents
<1>3. ASSUME NEW hz \in Rates, FromRuntime, DisplayMoved(hz), RuntimeTypes',
             runtime'.begun = runtime.begun, runtime'.state = runtime.state
      PROVE  EventInv'
  <2> DEFINE e == [what |-> "rate", hz |-> hz]
  <2>1. Says(e)
    BY <1>3 DEF DisplayMoved
  <2>2. e \in EventType /\ e.what = "rate"
    BY DEF EventType
  <2> HIDE DEF e
  <2> QED BY <1>3, <2>1, <2>2, SaidKeepsEvents
<1>4. ASSUME FromRuntime, UNCHANGED events, RuntimeTypes',
             runtime'.begun = runtime.begun, runtime'.state = runtime.state
      PROVE  EventInv'
  <2>1. UNCHANGED <<sess, loop, awayTold>>
    BY <1>4 DEF FromRuntime, xr
  <2>2. EventTypes' /\ NothingAfterTheEnd' /\ SessTypes' /\ LoopTypes'
    BY <1>4, <2>1 DEF EventInv, EventTypes, NothingAfterTheEnd, Ends, SessTypes, LoopTypes
  <2>3. FramesInSession'
    BY <1>4, <2>1 DEF EventInv, FramesInSession, Gone
  <2> QED BY <1>4, <2>2, <2>3 DEF EventInv
<1>5. ASSUME Granted PROVE EventInv'
  <2>1. /\ FromRuntime /\ rate.sent \in Rates
        /\ runtime' = [runtime EXCEPT !.actual = rate.sent]
    BY <1>5 DEF Granted, DisplayOn, RateRecords
  <2>2. /\ RuntimeTypes' /\ runtime'.begun = runtime.begun
        /\ runtime'.state = runtime.state
    BY <2>1 DEF EventInv, RuntimeTypes
  <2>3. UNCHANGED events \/ DisplayMoved(rate.sent)
    BY <1>5 DEF Granted
  <2> QED BY <1>3, <1>4, <2>1, <2>2, <2>3
<1>6. ASSUME Dropped PROVE EventInv'
  <2>1. RuntimeTypes'
    BY <1>6 DEF Dropped, EventInv, RuntimeTypes
  <2> QED BY <1>4, <1>6, <2>1 DEF Dropped
<1>7. ASSUME NEW hz \in Rates, DisplayMoves(hz) PROVE EventInv'
  <2>1. /\ FromRuntime /\ DisplayMoved(hz) /\ runtime.moves < MaxMoves
        /\ runtime' = [runtime EXCEPT !.actual = hz, !.moves = @ + 1]
    BY <1>7 DEF DisplayMoves
  <2>2. runtime.moves + 1 \in 0 .. MaxMoves
    BY <2>1, SessionAssumption DEF EventInv, RuntimeTypes
  <2>3. /\ RuntimeTypes' /\ runtime'.begun = runtime.begun
        /\ runtime'.state = runtime.state
    BY <2>1, <2>2 DEF EventInv, RuntimeTypes
  <2> QED BY <1>3, <2>1, <2>3
<1> QED BY <1>1, <1>2, <1>5, <1>6, <1>7 DEF Runtime

-----------------------------------------------------------------------------
(* The starts and their reports, step by step                               *)

LEMMA NotesNoted ==
  \A s \in Steps : Notes(s) \subseteq Noted
BY DEF Noted

LEMMA IdNotNone ==
  Id \subseteq Nat /\ 0 \notin Id
BY SessionAssumption DEF Id

LEMMA ReportsOf ==
  ASSUME NEW r \in Reports
  PROVE  r.of \in Nat
<1>1. CASE r \in {NoReport, TimedOut, Untold}
  <2>1. NoReport.of = 0 /\ TimedOut.of = 0 /\ Untold.of = 0
    BY DEF NoReport, TimedOut, Untold
  <2> QED BY <1>1, <2>1
<1>2. CASE r \in [of : Id, step : Noted]
  <2>1. r.of \in Id
    BY <1>2
  <2> QED BY <2>1, IdNotNone
<1> QED BY <1>1, <1>2 DEF Reports

LEMMA NativeSteps ==
  ASSUME NEW k \in Id, NativeInit(k)
  PROVE  \E this \in Steps, next \in Steps \cup {"up"} : Step(k, this, next, Notes(this))
<1>1. CASE Loader(k)
  <2>1. Step(k, "loader", "instance", Notes("loader"))
    BY <1>1 DEF Loader, Notes
  <2> QED BY <2>1 DEF Steps
<1>2. CASE Instance(k)
  <2>1. Step(k, "instance", "graphics", Notes("instance"))
    BY <1>2 DEF Instance, Notes
  <2> QED BY <2>1 DEF Steps
<1>3. CASE Graphics(k)
  <2>1. Step(k, "graphics", "egl", Notes("graphics"))
    BY <1>3 DEF Graphics, Notes
  <2> QED BY <2>1 DEF Steps
<1>4. CASE Egl(k)
  <2>1. Step(k, "egl", "session", Notes("egl"))
    BY <1>4 DEF Egl, Notes
  <2> QED BY <2>1 DEF Steps
<1>5. CASE CreateSession(k)
  <2>1. Step(k, "session", "swapchain", Notes("session"))
    BY <1>5 DEF CreateSession, Notes
  <2> QED BY <2>1 DEF Steps
<1>6. CASE Swapchain(k)
  <2>1. Step(k, "swapchain", "gl", Notes("swapchain"))
    BY <1>6 DEF Swapchain, Notes
  <2> QED BY <2>1 DEF Steps
<1>7. CASE Gl(k)
  <2>1. Step(k, "gl", "up", Notes("gl"))
    BY <1>7 DEF Gl, Notes
  <2> QED BY <2>1 DEF Steps
<1> QED BY <1>1, <1>2, <1>3, <1>4, <1>5, <1>6, <1>7 DEF NativeInit

LEMMA StartKeepsReports ==
  ASSUME StartsInv, NEW k \in Id, Start(k)
  PROVE  StartsInv'
<1> DEFINE others == \E j \in Id : Under(j)
<1>1. /\ thread' = [thread EXCEPT ![k] = "made"] /\ waiting' = k /\ thread[k] = "none"
      /\ beside' = [beside EXCEPT ![k] = others]
      /\ UNCHANGED <<ended, slot, report, loop>> /\ loop = "none"
  BY DEF Start, Unchanged, xr
<1>2. others \in BOOLEAN
  OBVIOUS
<1>3. ~others => \A j \in Id : ~Under(j)
  OBVIOUS
<1> HIDE DEF others
<1>4. StartTypes'
  BY <1>1, <1>2 DEF StartsInv, StartTypes, Id
<1>5. thread'[k] = "made" /\ beside'[k] = others
      /\ \A j \in Id \ {k} : thread'[j] = thread[j] /\ beside'[j] = beside[j]
  BY <1>1 DEF StartsInv, StartTypes
<1>6. Alone'
  <2> SUFFICES ASSUME NEW i \in Id, waiting' = i, ~beside'[i]
               PROVE  /\ \A j \in Id \ {i} : ~Under(j)'
                      /\ thread'[i] \in Unread
    BY DEF Alone
  <2>1. i = k
    BY <1>1
  <2>2. \A j \in Id : ~Under(j)
    BY <1>3, <1>5, <2>1
  <2> QED BY <1>1, <1>5, <2>1, <2>2 DEF Under, Unread
<1>7. ~ended[k] /\ ~(report[k].of > 0)
  BY <1>1 DEF StartsInv, Unread
<1>8. ReportIsOwn'
  BY <1>1, <1>5, <1>7 DEF StartsInv, ReportIsOwn
<1> QED BY <1>1, <1>4, <1>5, <1>6, <1>7, <1>8 DEF StartsInv, Unread

LEMMA ClearKeepsReports ==
  ASSUME StartsInv, NEW k \in Id, Clear(k)
  PROVE  StartsInv'
<1>1. /\ thread' = [thread EXCEPT ![k] = "loader"] /\ Under(k) /\ slot' = NoReport
      /\ UNCHANGED <<ended, waiting, report, beside, loop>>
  BY DEF Clear, Cleared, Unchanged, xr
<1>2. StartTypes'
  BY <1>1 DEF StartsInv, StartTypes, Steps, Reports
<1>3. thread'[k] = "loader" /\ \A j \in Id \ {k} : thread'[j] = thread[j]
  BY <1>1 DEF StartsInv, StartTypes
<1>4. ~ended[k] /\ thread[k] # "none"
  BY <1>1 DEF Under
<1>5. Alone'
  <2> SUFFICES ASSUME NEW i \in Id, waiting = i, ~beside[i]
               PROVE  \A j \in Id \ {i} : ~Under(j)'
    BY <1>1 DEF Alone, OwnOrNone, NoReport
  <2>1. i = k
    BY <1>1 DEF StartsInv, Alone
  <2> QED BY <1>1, <1>3, <2>1 DEF StartsInv, Alone, Under
<1>6. ReportIsOwn'
  BY <1>1, <1>3, <1>4 DEF StartsInv, ReportIsOwn
<1> QED BY <1>1, <1>2, <1>3, <1>4, <1>5, <1>6 DEF StartsInv, Unread

LEMMA StepKeepsReports ==
  ASSUME StartsInv, NEW k \in Id, NativeInit(k)
  PROVE  StartsInv'
<1>1. PICK this \in Steps, next \in Steps \cup {"up"} : Step(k, this, next, Notes(this))
  BY NativeSteps
<1>2. /\ Under(k) /\ thread[k] = this
      /\ UNCHANGED <<waiting, report, beside, loop>>
  BY <1>1 DEF Step, Unchanged, xr
<1>3. ~ended[k] /\ ~(report[k].of > 0) /\ this \notin Unread /\ next \notin Unread
      /\ next # "none"
  BY <1>2 DEF Under, StartsInv, Steps, Unread
<1>4. ASSUME NEW i \in Id, waiting = i, ~beside[i]
      PROVE  /\ i = k /\ slot.of = 0
             /\ \A j \in Id \ {k} : ~Under(j)
  <2>1. i = k /\ \A j \in Id \ {k} : ~Under(j)
    BY <1>2, <1>4 DEF StartsInv, Alone
  <2>2. ~(slot.of > 0) /\ slot.of \in Nat
    BY <1>2, <1>3, <1>4, <2>1, ReportsOf DEF StartsInv, Alone, StartTypes
  <2> QED BY <2>1, <2>2
<1>5. CASE thread' = [thread EXCEPT ![k] = next] /\ UNCHANGED <<ended, slot>>
  <2>1. StartTypes'
    BY <1>2, <1>5 DEF StartsInv, StartTypes
  <2>2. thread'[k] = next /\ \A j \in Id \ {k} : thread'[j] = thread[j]
    BY <1>5 DEF StartsInv, StartTypes
  <2>3. Alone'
    <3> SUFFICES ASSUME NEW i \in Id, waiting = i, ~beside[i]
                 PROVE  (\A j \in Id \ {i} : ~Under(j)') /\ slot'.of = 0
      BY <1>2 DEF Alone, OwnOrNone
    <3> QED BY <1>4, <1>5, <2>2 DEF Under
  <2>4. ReportIsOwn'
    BY <1>2, <1>3, <2>2 DEF StartsInv, ReportIsOwn
  <2> QED BY <1>2, <1>3, <1>5, <2>1, <2>2, <2>3, <2>4 DEF StartsInv
<1>6. CASE Publishes(k, Notes(this))
  <2>1. /\ ended' = [ended EXCEPT ![k] = TRUE] /\ UNCHANGED thread
        /\ slot' \in {slot} \cup {[of |-> k, step |-> s] : s \in Notes(this)}
    BY <1>6 DEF Publishes
  <2>2. StartTypes'
    <3>1. slot' \in Reports
      BY <2>1, NotesNoted DEF StartsInv, StartTypes, Reports
    <3> QED BY <1>2, <2>1, <3>1 DEF StartsInv, StartTypes
  <2>3. ended'[k] /\ \A j \in Id \ {k} : ended'[j] = ended[j]
    BY <2>1 DEF StartsInv, StartTypes
  <2>4. Alone'
    <3> SUFFICES ASSUME NEW i \in Id, waiting = i, ~beside[i]
                 PROVE  /\ \A j \in Id \ {i} : ~Under(j)'
                        /\ OwnOrNone(slot, i)' /\ ended'[i]
      BY <1>2 DEF Alone
    <3>1. i = k /\ slot.of = 0 /\ \A j \in Id \ {k} : ~Under(j)
      BY <1>4
    <3>2. OwnOrNone(slot, i)'
      BY <1>2, <2>1, <3>1 DEF OwnOrNone
    <3> QED BY <2>1, <2>3, <3>1, <3>2 DEF Under
  <2>5. ReportIsOwn'
    BY <1>2, <2>1 DEF StartsInv, ReportIsOwn
  <2> QED BY <1>2, <1>3, <2>1, <2>2, <2>3, <2>4, <2>5 DEF StartsInv
<1> QED BY <1>1, <1>5, <1>6 DEF Step

LEMMA TakeKeepsReports ==
  ASSUME StartsInv, NEW k \in Id, Take(k)
  PROVE  StartsInv'
<1>1. /\ waiting = k /\ ended[k] /\ waiting' = 0 /\ slot' = NoReport
      /\ report' = [report EXCEPT ![k] = slot]
      /\ UNCHANGED <<thread, ended, beside, loop>>
  BY DEF Take, Unchanged, xr
<1>2. StartTypes'
  BY <1>1, SessionAssumption DEF StartsInv, StartTypes, Reports
<1>3. report'[k] = slot /\ \A j \in Id \ {k} : report'[j] = report[j]
  BY <1>1 DEF StartsInv, StartTypes
<1>4. slot.of > 0 /\ ~beside[k] => slot.of = k /\ slot.step \in Notes(thread[k])
  BY <1>1, ReportsOf DEF StartsInv, StartTypes, Alone, OwnOrNone
<1>5. ReportIsOwn'
  BY <1>1, <1>3, <1>4 DEF StartsInv, ReportIsOwn
<1>6. Alone'
  BY <1>1, IdNotNone DEF Alone
<1> QED BY <1>1, <1>2, <1>3, <1>5, <1>6, IdNotNone DEF StartsInv

LEMMA GiveUpKeepsReports ==
  ASSUME StartsInv, NEW k \in Id, GiveUp(k)
  PROVE  StartsInv'
<1>1. /\ waiting' = 0 /\ report' = [report EXCEPT ![k] = TimedOut]
      /\ UNCHANGED <<thread, ended, slot, beside, loop>>
  BY DEF GiveUp, Unchanged, xr
<1>2. StartTypes'
  BY <1>1, SessionAssumption DEF StartsInv, StartTypes, Reports
<1>3. ~(report'[k].of > 0) /\ \A j \in Id \ {k} : report'[j] = report[j]
  <2>1. report'[k] = TimedOut /\ \A j \in Id \ {k} : report'[j] = report[j]
    BY <1>1 DEF StartsInv, StartTypes
  <2>2. TimedOut.of = 0
    BY DEF TimedOut
  <2> QED BY <2>1, <2>2
<1>4. ReportIsOwn'
  BY <1>1, <1>3 DEF StartsInv, ReportIsOwn
<1>5. Alone'
  BY <1>1, IdNotNone DEF Alone
<1> QED BY <1>1, <1>2, <1>3, <1>4, <1>5, IdNotNone DEF StartsInv

LEMMA ComeUpKeepsReports ==
  ASSUME StartsInv, NEW k \in Id, ComeUp(k)
  PROVE  StartsInv'
<1>1. /\ waiting' = 0 /\ slot' = NoReport /\ thread' = [j \in Id |-> "up"]
      /\ ended' = [j \in Id |-> TRUE] /\ report' = [j \in Id |-> Untold]
      /\ beside' = [j \in Id |-> FALSE]
  BY DEF ComeUp
<1>2. StartTypes'
  BY <1>1, SessionAssumption DEF StartTypes, Reports
<1>3. \A j \in Id : thread'[j] = "up" /\ ~(report'[j].of > 0)
  BY <1>1 DEF Untold
<1>4. ReportIsOwn' /\ Alone'
  BY <1>1, <1>3, IdNotNone DEF ReportIsOwn, Alone
<1> QED BY <1>1, <1>2, <1>3, <1>4, IdNotNone DEF StartsInv, Unread

LEMMA ComeUpLateKeepsReports ==
  ASSUME StartsInv, NEW k \in Id, ComeUpLate(k)
  PROVE  StartsInv'
<1>1. /\ ended' = [ended EXCEPT ![k] = TRUE] /\ Under(k) /\ thread[k] = "up" /\ waiting # k
      /\ UNCHANGED <<thread, waiting, slot, report, beside, loop>>
  BY DEF ComeUpLate, Unchanged, xr
<1>2. StartTypes'
  BY <1>1 DEF StartsInv, StartTypes
<1>3. ended'[k] /\ \A j \in Id \ {k} : ended'[j] = ended[j]
  BY <1>1 DEF StartsInv, StartTypes
<1>4. Alone'
  <2>1. \A i \in Id : waiting = i => beside[i]
    BY <1>1 DEF StartsInv, Alone
  <2> QED BY <1>1, <2>1 DEF Alone
<1>5. ReportIsOwn'
  BY <1>1 DEF StartsInv, ReportIsOwn
<1> QED BY <1>1, <1>2, <1>3, <1>4, <1>5 DEF StartsInv, Unread

LEMMA ElsewhereKeepsReports ==
  ASSUME StartsInv, UNCHANGED starting, loop' = loop \/ loop # "none"
  PROVE  StartsInv'
<1>1. UNCHANGED <<thread, ended, waiting, slot, report, beside>>
  BY DEF starting
<1>2. waiting' # 0 => loop' = "none"
  BY <1>1 DEF StartsInv
<1> QED BY <1>1, <1>2 DEF StartsInv, StartTypes, Alone, Under, OwnOrNone, ReportIsOwn

-----------------------------------------------------------------------------
(* All of it                                                                *)

LEMMA StartingKeeps ==
  ASSUME IInv, NEW k \in Id,
         \/ Start(k) \/ Clear(k) \/ NativeInit(k) \/ Take(k) \/ GiveUp(k)
         \/ ComeUp(k) \/ ComeUpLate(k)
  PROVE  IInv'
<1>1. StartsInv'
  BY StartKeepsReports, ClearKeepsReports, StepKeepsReports, TakeKeepsReports,
     GiveUpKeepsReports, ComeUpKeepsReports, ComeUpLateKeepsReports DEF IInv
<1>2. UNCHANGED <<scene, rate, runtime, events, sess, awayTold>>
  <2>1. ASSUME NativeInit(k) PROVE Unchanged
    BY <2>1, NativeSteps DEF Step
  <2> QED BY <2>1 DEF Start, Clear, Take, GiveUp, ComeUp, ComeUpLate, Unchanged, xr
<1>3. loop' = loop \/ (loop = "none" /\ loop' \in Turn)
  <2>1. ASSUME NativeInit(k) PROVE Unchanged
    BY <2>1, NativeSteps DEF Step
  <2>2. ASSUME ComeUp(k) PROVE loop = "none" /\ loop' \in Turn
    BY <2>2, IdNotNone DEF ComeUp, IInv, StartsInv
  <2> QED BY <2>1, <2>2 DEF Start, Clear, Take, GiveUp, ComeUpLate, Unchanged, xr
<1>4. EventInv'
  BY <1>2, <1>3, StillKeepsEvents DEF IInv
<1>5. RateInv'
  BY <1>2, RateStays DEF IInv
<1> QED BY <1>1, <1>4, <1>5 DEF IInv

LEMMA EventKeeps ==
  ASSUME IInv, Event
  PROVE  IInv'
<1>1. UNCHANGED <<scene, starting, loop>>
  BY DEF Event, OnReady, OnFocused, OnStopping, OnEnded, OnOther, OnInstanceLoss,
         OnRateChanged, Quiet
<1>2. StartsInv'
  BY <1>1, ElsewhereKeepsReports DEF IInv
<1>3. EventInv'
  BY ReadyKeepsEvents, FocusedKeepsEvents, StoppingKeepsEvents, EndedKeepsEvents,
     OtherKeepsEvents, AsideKeepsEvents DEF IInv, Event
<1>4. RateInv'
  <2>1. RateInv /\ SessTypes /\ RuntimeTypes /\ EventTypes
    BY DEF IInv, EventInv
  <2>2. ASSUME OnStopping PROVE RateInv'
    <3>1. sess'.state = "stopping" /\ UNCHANGED <<scene, rate>>
      BY <2>1, <2>2, SessTo DEF OnStopping, StoppedFor, SessTypes, States, Quiet
    <3> QED BY <2>1, <3>1, RateStays
  <2>3. ASSUME NEW s \in States, OnEnded(s) PROVE RateInv'
    <3>1. To(s).state = s /\ s # "focused"
      BY <2>1, <2>3, SessTo DEF OnEnded
    <3>2. sess'.state = To(s).state
      <4> DEFINE over == [To(s) EXCEPT !.running = FALSE]
      <4>1. To(s) \in [state : States \cup {"unknown"}, running : BOOLEAN,
                       focusedOnce : BOOLEAN,
                       reason : {"none", "exiting", "loss pending",
                                 "instance loss pending", "no frame"}]
        BY <2>1, SessTo
      <4>2. /\ over.state = To(s).state
            /\ [over EXCEPT !.reason = s].state = To(s).state
        BY <4>1
      <4>3. sess' = over \/ sess' = [over EXCEPT !.reason = s]
        BY <2>3 DEF OnEnded, EndedAs, EndsFor
      <4> QED BY <4>2, <4>3
    <3> QED BY <2>1, <2>3, <3>1, <3>2, RateStays DEF OnEnded, Quiet
  <2>4. ASSUME NEW s \in States, OnOther(s) PROVE RateInv'
    <3>1. sess'.state # "focused"
      BY <2>1, <2>4, SessTo DEF OnOther
    <3> QED BY <2>1, <2>4, <3>1, RateStays DEF OnOther, Quiet
  <2>5. ASSUME OnInstanceLoss PROVE RateInv'
    <3>1. sess'.state = sess.state
      BY <2>1, <2>5 DEF OnInstanceLoss, EndsFor, SessTypes
    <3> QED BY <2>1, <2>5, <3>1, RateStays DEF OnInstanceLoss, Quiet
  <2> QED BY <2>1, <2>2, <2>3, <2>4, <2>5, ReadyKeepsRate, FocusedKeepsRate,
             MovedKeepsRate DEF Event
<1> QED BY <1>2, <1>3, <1>4 DEF IInv

LEMMA TurnKeeps ==
  ASSUME IInv, AfterEvents \/ EndFrame \/ Destroy
  PROVE  IInv'
<1>1. UNCHANGED <<scene, starting>> /\ loop # "none"
  BY DEF AfterEvents, Exit, Idle, BeginFrame, BeginFrameFails, EndFrame, FrameEnds,
         PollEnds, AfterPoll, Destroy
<1>2. StartsInv'
  BY <1>1, ElsewhereKeepsReports DEF IInv
<1>3. EventInv'
  BY TurnKeepsEvents, DestroyKeepsEvents DEF IInv
<1>4. RateInv'
  <2>1. ASSUME AfterEvents PROVE RateInv'
    <3>1. sess' = sess \/ sess' = [sess EXCEPT !.reason = "no frame"]
      BY <2>1 DEF AfterEvents, Exit, Idle, BeginFrame, BeginFrameFails, EndsFor
    <3>2. sess'.state = sess.state
      BY <3>1 DEF IInv, EventInv, SessTypes
    <3>3. UNCHANGED rate
      BY <2>1 DEF AfterEvents, Exit, Idle, BeginFrame, BeginFrameFails, AfterPoll
    <3> QED BY <1>1, <3>2, <3>3, RateStays DEF IInv
  <2> QED BY <2>1, FrameKeepsRate, DestroyKeepsRate DEF IInv, EventInv
<1> QED BY <1>2, <1>3, <1>4 DEF IInv

LEMMA SceneKeeps ==
  ASSUME IInv, Scene
  PROVE  IInv'
<1>1. UNCHANGED <<fps, starting, runtime, events, sess, loop, awayTold>>
  BY DEF Scene, StereoSwitched, KnobSet, InFrame, xr
<1>2. StartsInv'
  BY <1>1, ElsewhereKeepsReports DEF IInv
<1>3. EventInv'
  BY <1>1, StillKeepsEvents DEF IInv
<1>4. RateInv'
  <2>1. ASSUME StereoSwitched PROVE RateInv'
    <3>1. UNCHANGED <<knob, rate>> /\ warp' = ~warp
      BY <2>1 DEF StereoSwitched
    <3>2. SceneTypes'
      BY <1>1, <3>1 DEF IInv, RateInv, SceneTypes
    <3> QED BY <1>1, <3>1, <3>2 DEF IInv, RateInv, Sticks, SeenTo
  <2>2. ASSUME NEW hz \in Knobs \cup {0}, KnobSet(hz) PROVE RateInv'
    BY <2>2, KnobKeepsRate DEF IInv, EventInv
  <2> QED BY <2>1, <2>2 DEF Scene
<1> QED BY <1>2, <1>3, <1>4 DEF IInv

LEMMA RuntimeKeeps ==
  ASSUME IInv, Runtime
  PROVE  IInv'
<1>1. UNCHANGED <<scene, starting, sess, loop>>
  BY DEF Runtime, RuntimeMoves, RuntimeLost, Granted, Dropped, DisplayMoves, FromRuntime, xr
<1>2. StartsInv'
  BY <1>1, ElsewhereKeepsReports DEF IInv
<1>3. EventInv'
  BY RuntimeKeepsEvents DEF IInv, RateInv
<1>4. rate' = rate \/ rate' = [rate EXCEPT !.sent = 0]
  BY DEF Runtime, RuntimeMoves, RuntimeLost, Granted, Dropped, DisplayMoves
<1>5. RateInv'
  BY <1>1, <1>4, RateStays, RequestKeepsRate DEF IInv
<1> QED BY <1>2, <1>3, <1>5 DEF IInv

\* Everything the steps keep of the session, the rate and the starts' reports.
THEOREM SessionInvariant == Spec => []IInv
<1>1. Init => IInv
  BY RateFromStart, EventsFromStart, StartsFromStart DEF IInv
<1>2. IInv /\ [Next]_vars => IInv'
  <2> SUFFICES ASSUME IInv, [Next]_vars PROVE IInv'
    OBVIOUS
  <2>1. CASE Starting
    BY <2>1, StartingKeeps DEF Starting
  <2>2. CASE Loop
    BY <2>2, EventKeeps, TurnKeeps DEF Loop
  <2>3. CASE Scene
    BY <2>3, SceneKeeps
  <2>4. CASE Runtime
    BY <2>4, RuntimeKeeps
  <2>5. CASE UNCHANGED vars
    <3>1. UNCHANGED <<scene, rate, starting, runtime, events, sess, loop, awayTold>>
      BY <2>5 DEF vars, xr
    <3> QED BY <3>1, RateStays, StillKeepsEvents, ElsewhereKeepsReports DEF IInv
  <2> QED BY <2>1, <2>2, <2>3, <2>4, <2>5 DEF Next
<1> QED BY <1>1, <1>2, PTL DEF Spec

\* Frames are only asked for of a session the runtime has begun, and one it has
\* begun is always fed unless it is lost (pollEvents, nativeWaitBeginFrame).
THEOREM SessionIsFed == Spec => []SessionInv
<1>1. IInv => SessionInv
  <2> SUFFICES ASSUME IInv PROVE SessionInv
    OBVIOUS
  <2>1. RateTypeOK
    BY DEF IInv, RateInv, RateTypeOK, SceneTypes, RateRecords
  <2>2. TypeOK
    BY <2>1 DEF IInv, EventInv, StartsInv, StartTypes, RuntimeTypes, EventTypes, SessTypes,
                LoopTypes, TypeOK
  <2> QED BY <2>2 DEF IInv, EventInv, SessionInv
<1> QED BY <1>1, SessionInvariant, PTL

\* A start that fails is told why by its own report (publishStartFailure,
\* nativeTakeStartFailure), unless it ran beside one given up.
THEOREM ReportsAreOwn == Spec => []ReportIsOwn
<1>1. IInv => ReportIsOwn
  BY DEF IInv, StartsInv
<1> QED BY <1>1, SessionInvariant, PTL

\* A step down of the display's rate is not undone (rateChoose, applyRate).
THEOREM StepDownStands == Spec => []StepDownSticks
<1>1. IInv => StepDownSticks
  BY DEF IInv, RateInv, Sticks, StepDownSticks
<1> QED BY <1>1, SessionInvariant, PTL

\* A display off the rate asked for is being seen to while the session has focus
\* (displayFocused, displayRateChanged, displayFrameEnded).
THEOREM OffRateIsSeenTo == Spec => []OffIsSeenTo
<1>1. IInv => OffIsSeenTo
  BY DEF IInv, RateInv, SeenTo, OffIsSeenTo
<1> QED BY <1>1, SessionInvariant, PTL

=============================================================================
