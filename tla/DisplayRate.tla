---------------------------- MODULE DisplayRate ----------------------------
(***************************************************************************)
(* The display refresh rate the session asks the runtime for: which rate   *)
(* (xr_rate.c), and the bookkeeping on the frame loop (xr_display.c), as   *)
(* what each call makes of it. XrSession makes the calls, and has the      *)
(* runtime they ask.                                                       *)
(*                                                                         *)
(* Rates are whole, so that two are the same when they are equal           *)
(* (RATE_TOLERANCE). The two waits, for a request to land and before it is *)
(* made again, may pass at any frame. Which windows have the frame loop    *)
(* ask for a step down is DepthGovernor's; any focused frame may here.     *)
(***************************************************************************)
EXTENDS Naturals, FiniteSetsExt

CONSTANTS Rates,        \* displayRates
          Streams,      \* the frame rates a stream may have
          Knobs,        \* what the debug property may be set to but 0
          Floor,        \* RATE_FLOOR_HZ
          MaxReasks     \* RATE_REASK_MAX

\* The rates a display offers are a list, so there is a highest.
ASSUME RateAssumption == /\ Rates \subseteq Nat \ {0}
                         /\ \E top \in Rates : \A r \in Rates : r <= top
                         /\ Streams \subseteq Nat \ {0}
                         /\ Knobs \subseteq Nat \ {0}
                         /\ {Floor, MaxReasks} \subseteq Nat

VARIABLES fps,          \* streamFps
          warp,         \* warpRunning
          knob,         \* refreshKnob
          rate          \* the bookkeeping, a record:
                        \*   asked (rateAsked, 0 for none), confirmed,
                        \*   display (displayRate), moved (rateMovedNs # 0),
                        \*   reasks, held (warpRateHeld), warpOn (rateWarpOn);
                        \*   sent, the request the runtime has; and, history,
                        \*   refused, that one was refused

scene == <<fps, warp, knob>>

-----------------------------------------------------------------------------
(* xr_rate.c *)

Highest(S) == IF S = {} THEN 0 ELSE Max(S)

\* rateForStream: the rate itself, a whole multiple where it may be, the
\* nearest above, the highest.
Multiples(f) == {r \in Rates : r % f = 0 /\ r \div f >= 2}
RateForStream(f, multiples) ==
  IF f \in Rates THEN f
  ELSE IF multiples /\ Multiples(f) # {} THEN Min(Multiples(f))
  ELSE IF \E r \in Rates : r > f THEN Min({r \in Rates : r > f})
  ELSE Max(Rates)

\* rateStepDown
RateStepDown(hz) == Highest({r \in Rates : r < hz /\ r >= Floor})

\* rateChoose, with the frame time as the highest rate it fits, 0 for nothing
\* measured.
NotHeld(want, heldHz) == want    \* mutant
Held(want, heldHz) == IF heldHz > 0 /\ heldHz < want /\ heldHz \in Rates THEN heldHz
                      ELSE want
RateChoose(f, warpOn, heldHz, fits) ==
  LET stream == RateForStream(f, TRUE)
      above == IF heldHz > 0 /\ heldHz < stream THEN RateForStream(f, FALSE)
               ELSE stream
      want == Held(above, heldHz)
  IN IF ~warpOn THEN stream
     ELSE IF fits > 0 /\ fits < want /\ RateStepDown(want) > 0
     THEN RateStepDown(want)
     ELSE want

-----------------------------------------------------------------------------
(* xr_display.c: what a call makes of the bookkeeping d, with the rates the *)
(* runtime refuses at the moment.                                          *)

\* askRate
AskRate(d, hz, refuses) ==
  IF hz \in refuses THEN [d EXCEPT !.refused = TRUE]
  ELSE [d EXCEPT !.asked = hz, !.confirmed = (d.display = hz), !.sent = hz]

\* applyRate
Want(d, forced) == IF forced > 0 THEN RateForStream(forced, FALSE)
                   ELSE RateChoose(fps, warp, d.held, 0)
OnItsWay(d, hz) == hz = d.asked /\ (hz = d.display \/ ~d.confirmed)
ApplyRate(d, forced, refuses) ==
  LET e == [d EXCEPT !.warpOn = warp]
  IN IF OnItsWay(e, Want(e, forced)) THEN e ELSE AskRate(e, Want(e, forced), refuses)

\* displayFocused, with the rate the runtime says it is on, 0 if it fails to.
Focused(d, now, refuses) ==
  LET e == [d EXCEPT !.display = IF now > 0 THEN now ELSE d.display]
  IN IF d.asked = 0 THEN d
     ELSE IF e.display # e.asked /\ e.confirmed
     THEN AskRate([e EXCEPT !.moved = FALSE], e.asked, refuses)
     ELSE e

\* displayRateChanged
Moved(d, to, focused) ==
  LET e == [d EXCEPT !.display = to]
  IN IF d.asked = 0 THEN e
     ELSE IF to = d.asked THEN [e EXCEPT !.confirmed = TRUE, !.moved = FALSE]
     ELSE IF ~focused \/ d.moved THEN e
     ELSE [e EXCEPT !.moved = TRUE, !.confirmed = TRUE]

\* The parts of displayFrameEnded: a request never acted on, one made again
\* after the pause, and the step down.
GaveUpForgets(d, now) ==    \* mutant
  LET e == [d EXCEPT !.display = IF now > 0 THEN now ELSE d.display]
  IN [e EXCEPT !.confirmed = TRUE]
GaveUp(d, now) ==
  LET e == [d EXCEPT !.display = IF now > 0 THEN now ELSE d.display]
  IN [e EXCEPT !.confirmed = TRUE, !.moved = d.moved \/ e.display # e.asked]
Reask(d, refuses) ==
  LET e == [d EXCEPT !.moved = FALSE]
  IN IF d.display = d.asked \/ d.reasks >= MaxReasks THEN e
     ELSE AskRate([e EXCEPT !.reasks = d.reasks + 1], d.asked, refuses)
StepDown(d, fits, refuses) ==
  LET next == RateChoose(fps, TRUE, d.asked, fits)
  IN IF next < d.asked THEN AskRate([d EXCEPT !.held = next], next, refuses) ELSE d

Frame(d, focused, late, paused, over, fits, now, refuses) ==
  LET switched == IF warp # d.warpOn THEN ApplyRate(d, knob, refuses) ELSE d
      waited == IF ~switched.confirmed /\ late THEN GaveUp(switched, now) ELSE switched
      again == IF waited.moved /\ paused THEN Reask(waited, refuses) ELSE waited
  IN IF d.asked = 0 THEN d
     ELSE IF ~focused THEN switched
     ELSE IF over /\ again.display = again.asked /\ again.warpOn /\ knob = 0
     THEN StepDown(again, fits, refuses)
     ELSE again

-----------------------------------------------------------------------------
\* At a step the runtime refuses whatever it is asked for, or nothing.
Refusals == {{}, Rates}

\* Over its period, a frame fits only rates below the one asked for.
Fits == {f \in Rates : f < rate.asked} \cup {1}

\* startDisplay
NoRate(now) ==
  [asked |-> 0, confirmed |-> FALSE, display |-> now, moved |-> FALSE, reasks |-> 0,
   held |-> 0, warpOn |-> FALSE, sent |-> 0, refused |-> FALSE]
RateInit(now) ==
  /\ fps \in Streams /\ warp \in BOOLEAN /\ knob \in Knobs \cup {0}
  /\ rate = NoRate(now)

\* The types, and that only a rate the display offers is ever asked for.
RateTypeOK ==
  /\ fps \in Streams /\ warp \in BOOLEAN /\ knob \in Knobs \cup {0}
  /\ rate \in [asked : Rates \cup {0}, confirmed : BOOLEAN, display : Rates,
               moved : BOOLEAN, reasks : 0 .. MaxReasks, held : Rates \cup {0},
               warpOn : BOOLEAN, sent : Rates \cup {0}, refused : BOOLEAN]
=============================================================================
