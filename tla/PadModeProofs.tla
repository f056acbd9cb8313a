---------------------------- MODULE PadModeProofs ----------------------------
(***************************************************************************)
(* Proofs about gamepad mode, for every shortcut, every set of controls    *)
(* that move, and windows and holds of any length.                         *)
(*                                                                         *)
(* None of the three properties is inductive. That a press stays out of    *)
(* the game rests on the chord never taking a control back that is down    *)
(* already: it forms only from all its parts at rest, so what it holds     *)
(* back was never owed, and what is owed stays among the controls the pad  *)
(* holds off. The same fact keeps a trigger swallowed that was down as the *)
(* mode went off: no chord hides it and lets it come up as a new press.    *)
(***************************************************************************)
EXTENDS PadMode, TLAPS

-----------------------------------------------------------------------------
(* What the frames keep                                                     *)

(* A trigger that is pressed is off rest.                                   *)
Pulled == world.deep \subseteq world.off

(* The pad that is not plugged in rests, and one that rests sends nothing.  *)
Rests == /\ ~pad.attached => pad.resting
         /\ pad.resting => pad.sent = {}

(* What the host asks for is not stale, nor is what a controller was given. *)
Rumbles == /\ rumble.want => ~past.stale
           /\ rumble.given # {} => pad.attached /\ ~past.stale

(* The chord holds back all that is off rest while it forms, and what made  *)
(* it afterwards, never both.                                               *)
Forms(c) ==
  /\ c.pending \subseteq c.parts /\ c.taken \subseteq c.stirred /\ c.stirred \subseteq c.parts
  /\ c.forming => c.stirred \subseteq c.pending /\ c.taken = {} /\ ~c.spent
  /\ ~c.forming => c.pending = {}

(* The chord leaves a control alone that is down already.                   *)
LetAlone(c, control) ==
  /\ control \notin Back(c)
  /\ control \in c.parts => control \in c.stirred \/ c.spent

(* What is owed the pad holds off, or the menu button's shortcut does.      *)
OwedHeld ==
  ~pad.resting => \A c \in past.owed :
    LetAlone(chord, c) /\ (c \in pad.held \/ (c = "menu" /\ toggle.menuTaken))

(* What made the shortcut is the chord's, or the menu button's.             *)
SwitchTaken ==
  \A c \in past.switch : IF c = "menu" THEN toggle.menuTaken ELSE c \in chord.taken

(* A trigger kept from before the mode went off is the chord's, or its hand *)
(* is swallowed.                                                            *)
KeptSwallowed ==
  ~pad.mode => \A h \in Hands : Trigger(h) \in past.kept =>
    \/ Trigger(h) \in chord.taken
    \/ LetAlone(chord, Trigger(h)) /\ h \in point.swallowed

(* What the chord has taken presses nothing, and with the pointer off there *)
(* are no presses.                                                          *)
TakenIdle ==
  \A h \in point.down \ point.swallowed : prefs.pointer /\ Trigger(h) \notin chord.taken

IInv == /\ PadTypeOK /\ Pulled /\ Rests /\ Rumbles /\ Forms(chord)
        /\ OwedHeld /\ SwitchTaken /\ PressesStayOut /\ KeptSwallowed /\ TakenIdle

-----------------------------------------------------------------------------
(* The records, by name                                                     *)

WorldT == [held : SUBSET Hands, off : SUBSET Controls, deep : SUBSET Controls]
PadT == [mode : BOOLEAN, attached : BOOLEAN, resting : BOOLEAN,
         held : SUBSET Controls, sent : SUBSET Controls]
ToggleT == [holding : BOOLEAN, age : 0 .. ToggleHold, fired : BOOLEAN, menuTaken : BOOLEAN]
ChordT == [parts : SUBSET Controls, stirred : SUBSET Controls, forming : BOOLEAN,
           age : 0 .. Window + 1, allDown : BOOLEAN, allAge : 0 .. ChordHold,
           pending : SUBSET Controls, peak : SUBSET Controls, taken : SUBSET Controls,
           spent : BOOLEAN, replay : SUBSET Controls]
PointT == [down : SUBSET Hands, swallowed : SUBSET Hands, button : BOOLEAN, panel : BOOLEAN]
PastT == [owed : SUBSET Controls, switch : SUBSET Controls, kept : SUBSET Controls,
          stale : BOOLEAN]
StateT == [world : WorldT, pad : PadT, toggle : ToggleT, chord : ChordT, point : PointT,
           before : SUBSET Hands, away : BOOLEAN]

LEMMA Types ==
  PadTypeOK <=> /\ prefs \in [shortcut : Shortcuts, pointer : Pointers]
                /\ world \in WorldT /\ pad \in PadT /\ toggle \in ToggleT /\ chord \in ChordT
                /\ point \in PointT /\ rumble \in [want : BOOLEAN, given : SUBSET Hands]
                /\ past \in PastT
BY DEF PadTypeOK, WorldT, PadT, ToggleT, ChordT, PointT, PastT

LEMMA Numbers ==
  Window \in Nat /\ ChordHold \in Nat /\ ToggleHold \in Nat
BY PadAssumption

LEMMA LaterIn ==
  ASSUME NEW limit \in Nat, NEW age \in 0 .. limit
  PROVE  Later(age, limit) \in 0 .. limit
BY DEF Later

LEMMA ControlOf ==
  \A h \in Hands : Trigger(h) \in Controls /\ HandOf(Trigger(h)) = h /\ Trigger(h) # "menu"
                   /\ Trigger(h) \in {"LT", "RT"}
BY DEF Hands, Trigger, Controls, HandOf

-----------------------------------------------------------------------------
(* The chord                                                                *)

LEMMA ResetForms ==
  ASSUME NEW parts \in SUBSET Controls
  PROVE  /\ ChordReset(parts) \in ChordT /\ Forms(ChordReset(parts))
         /\ ChordReset(parts).parts = parts /\ ChordReset(parts).spent
         /\ ~ChordReset(parts).forming /\ Back(ChordReset(parts)) = {}
         /\ ChordReset(parts).taken = {}
<1>1. ChordReset(parts) \in ChordT
  BY Numbers DEF ChordReset, ChordT
<1> QED BY <1>1 DEF ChordReset, Forms, Back

\* A chord forms from rest, and holds back all that is off rest meanwhile.
LEMMA FormingStep ==
  ASSUME NEW c \in ChordT, Forms(c), NEW stirred \in SUBSET Controls, stirred \subseteq c.parts,
         NEW pressed \in SUBSET stirred
  PROVE  LET d == [c EXCEPT !.replay = {}, !.taken = @ \cap stirred]
             f == FormingChord(d, stirred, pressed)
         IN  /\ f \in ChordT /\ f.parts = c.parts /\ f.taken = c.taken \cap stirred
             /\ f.replay = {} /\ f.spent = c.spent
             /\ f.forming => /\ f.taken = {} /\ ~c.spent /\ stirred \subseteq f.pending
                             /\ f.pending \subseteq c.parts
                             /\ c.forming \/ c.stirred = {}
             /\ ~f.forming => f.pending = {} /\ ~c.forming
<1> DEFINE d == [c EXCEPT !.replay = {}, !.taken = @ \cap stirred]
           f == FormingChord(d, stirred, pressed)
           starts == ~d.forming /\ ~d.spent /\ d.stirred = {} /\ stirred # {}
           from == IF starts THEN [d EXCEPT !.forming = TRUE, !.age = 0, !.allDown = FALSE,
                                            !.pending = {}, !.peak = {}]
                   ELSE [d EXCEPT !.age = IF @ > Window THEN @ ELSE @ + 1,
                                  !.allAge = Later(@, ChordHold)]
           all == pressed = d.parts
           meets == all /\ ~from.allDown /\ from.age <= Window
           to == [from EXCEPT !.pending = @ \cup stirred, !.peak = @ \cup pressed,
                              !.allDown = @ \/ meets, !.allAge = IF meets THEN 0 ELSE @]
<1>1. /\ d \in ChordT /\ d.parts = c.parts /\ d.taken = c.taken \cap stirred /\ d.replay = {}
      /\ d.spent = c.spent /\ d.stirred = c.stirred /\ d.forming = c.forming
      /\ d.pending = c.pending
  BY DEF ChordT
<1>2. f = IF ~(starts \/ d.forming) THEN [d EXCEPT !.peak = {}] ELSE to
  BY DEF FormingChord
<1>3. starts \in BOOLEAN /\ (starts <=> ~c.forming /\ ~c.spent /\ c.stirred = {} /\ stirred # {})
  BY <1>1
<1> HIDE DEF d, starts
<1>4. /\ from \in ChordT /\ from.parts = d.parts /\ from.taken = d.taken
      /\ from.replay = d.replay /\ from.spent = d.spent
      /\ from.forming = (starts \/ d.forming)
      /\ from.pending = IF starts THEN {} ELSE d.pending
  <2>1. CASE starts
    <3>1. from = [d EXCEPT !.forming = TRUE, !.age = 0, !.allDown = FALSE,
                           !.pending = {}, !.peak = {}]
      BY <2>1
    <3>2. 0 \in 0 .. Window + 1
      BY Numbers
    <3> HIDE DEF from
    <3>3. from \in ChordT
      BY <1>1, <3>1, <3>2 DEF ChordT
    <3> QED BY <1>1, <2>1, <3>1, <3>3 DEF ChordT
  <2>2. CASE ~starts
    <3>1. d.age \in 0 .. Window + 1 /\ d.allAge \in 0 .. ChordHold /\ d.forming \in BOOLEAN
      BY <1>1 DEF ChordT
    <3>2. (IF d.age > Window THEN d.age ELSE d.age + 1) \in 0 .. Window + 1
      BY <3>1, Numbers
    <3>3. Later(d.allAge, ChordHold) \in 0 .. ChordHold
      BY <3>1, Numbers, LaterIn
    <3> DEFINE age == IF d.age > Window THEN d.age ELSE d.age + 1
               allAge == Later(d.allAge, ChordHold)
    <3>4. from = [d EXCEPT !.age = age, !.allAge = allAge]
      BY <2>2
    <3>5. age \in 0 .. Window + 1 /\ allAge \in 0 .. ChordHold
      BY <3>2, <3>3
    <3> HIDE DEF age, allAge, from
    <3> QED BY <1>1, <2>2, <3>1, <3>4, <3>5 DEF ChordT
  <2> QED BY <2>1, <2>2
<1>5. meets \in BOOLEAN
  OBVIOUS
<1> HIDE DEF from, meets
<1>6. /\ to \in ChordT /\ to.parts = from.parts /\ to.taken = from.taken
      /\ to.replay = from.replay /\ to.spent = from.spent /\ to.forming = from.forming
      /\ to.pending = from.pending \cup stirred
  <2>1. (from.allDown \/ meets) \in BOOLEAN
    BY <1>4, <1>5 DEF ChordT
  <2>2. (IF meets THEN 0 ELSE from.allAge) \in 0 .. ChordHold
    BY <1>4, Numbers DEF ChordT
  <2> QED BY <1>4, <2>1, <2>2 DEF ChordT
<1> HIDE DEF to, f
<1>7. CASE starts \/ d.forming
  <2>1. f = to /\ f.forming
    BY <1>2, <1>4, <1>6, <1>7
  <2>2. f \in ChordT /\ f.parts = c.parts /\ f.taken = c.taken \cap stirred
        /\ f.replay = {} /\ f.spent = c.spent
    BY <1>1, <1>4, <1>6, <2>1
  <2>3. f.pending = (IF starts THEN {} ELSE c.pending) \cup stirred
    BY <1>1, <1>4, <1>6, <2>1
  <2>4. c.pending \subseteq c.parts /\ c.taken \subseteq c.stirred
    BY DEF Forms
  <2>5. f.taken = {} /\ ~c.spent /\ (c.forming \/ c.stirred = {})
    BY <1>1, <1>3, <1>7, <2>2, <2>4 DEF Forms
  <2> QED BY <2>1, <2>2, <2>3, <2>4, <2>5 DEF f, d
<1>8. CASE ~(starts \/ d.forming)
  <2>1. f = [d EXCEPT !.peak = {}]
    BY <1>2, <1>8
  <2>2. /\ f \in ChordT /\ f.parts = d.parts /\ f.taken = d.taken /\ f.replay = d.replay
        /\ f.spent = d.spent /\ f.forming = d.forming /\ f.pending = d.pending
    BY <1>1, <2>1 DEF ChordT
  <2>3. ~c.forming /\ c.pending = {}
    BY <1>1, <1>8 DEF Forms
  <2> QED BY <1>1, <1>8, <2>2, <2>3 DEF f, d
<1> QED BY <1>7, <1>8

LEMMA IdleChord ==
  ASSUME NEW c \in ChordT
  PROVE  /\ Idle(c) \in ChordT /\ Idle(c).parts = c.parts /\ Idle(c).taken = c.taken
         /\ ~Idle(c).forming /\ Idle(c).pending = {} /\ Idle(c).spent = c.spent
         /\ Idle(c).replay = c.replay
<1> DEFINE i == Idle(c)
<1>1. 0 \in 0 .. Window + 1 /\ 0 \in 0 .. ChordHold
  BY Numbers
<1>2. i = [c EXCEPT !.forming = FALSE, !.age = 0, !.allDown = FALSE, !.allAge = 0,
                    !.pending = {}]
  BY DEF Idle
<1> HIDE DEF i
<1>3. i \in ChordT
  BY <1>1, <1>2 DEF ChordT
<1>4. /\ i.parts = c.parts /\ i.taken = c.taken /\ ~i.forming /\ i.pending = {}
      /\ i.spent = c.spent /\ i.replay = c.replay
  BY <1>2 DEF ChordT
<1> QED BY <1>3, <1>4 DEF i

\* What a frame's step leaves of the chord c, as n. A control that is down, and
\* that the chord has left alone, it goes on leaving alone.
Steps(c, n, stirred) ==
  /\ n \in ChordT /\ Forms(n) /\ n.parts = c.parts /\ n.stirred = stirred
  /\ c.taken \cap stirred \subseteq n.taken
  /\ Fires(c, n) => n.taken = stirred
  /\ n.replay \cap stirred = {}
  /\ ~c.forming /\ c.spent => ~n.forming /\ n.taken = c.taken \cap stirred
  /\ \A x : LetAlone(c, x) /\ (x \in c.parts => x \in stirred) => LetAlone(n, x)

LEMMA StepForms ==
  ASSUME NEW c \in ChordT, Forms(c), NEW stirred \in SUBSET Controls, stirred \subseteq c.parts,
         NEW pressed \in SUBSET stirred
  PROVE  Steps(c, ChordStep(c, stirred, pressed), stirred)
<1> DEFINE d == [c EXCEPT !.replay = {}, !.taken = @ \cap stirred]
           f == FormingChord(d, stirred, pressed)
           g == Decide(f, stirred, pressed)
           n == ChordStep(c, stirred, pressed)
<1>1. /\ f \in ChordT /\ f.parts = c.parts /\ f.taken = c.taken \cap stirred
      /\ f.replay = {} /\ f.spent = c.spent
      /\ f.forming => /\ f.taken = {} /\ ~c.spent /\ stirred \subseteq f.pending
                      /\ f.pending \subseteq c.parts
                      /\ c.forming \/ c.stirred = {}
      /\ ~f.forming => f.pending = {} /\ ~c.forming
  BY FormingStep
<1>2. n = [g EXCEPT !.stirred = stirred]
  BY DEF ChordStep, Stirred
<1> HIDE DEF f
<1>3. ASSUME NEW x, LetAlone(c, x), x \in c.parts => x \in stirred
      PROVE  x \notin f.taken /\ (f.forming => x \notin c.parts)
  BY <1>1, <1>3 DEF LetAlone, Back, Forms
\* Neither taken up nor ended: all the same but for the end of what was spent.
<1>4. CASE ~f.forming \/ g = f
  <2>1. /\ g \in ChordT /\ g.parts = f.parts /\ g.taken = f.taken /\ g.replay = f.replay
        /\ g.forming = f.forming /\ g.pending = f.pending
        /\ f.forming => g.spent = f.spent
    <3>1. CASE g = f
      BY <1>1, <3>1
    <3>2. CASE g # f
      <4>1. g = [f EXCEPT !.spent = @ /\ stirred # {}]
        BY <1>4, <3>2 DEF Decide
      <4>2. (f.spent /\ stirred # {}) \in BOOLEAN /\ ~f.forming
        BY <1>4, <3>2
      <4> HIDE DEF g
      <4> QED BY <1>1, <4>1, <4>2 DEF ChordT
    <3> QED BY <3>1, <3>2
  <2> HIDE DEF g, n
  <2>2. /\ n \in ChordT /\ n.parts = f.parts /\ n.taken = f.taken /\ n.replay = f.replay
        /\ n.forming = f.forming /\ n.pending = f.pending /\ n.stirred = stirred
        /\ f.forming => n.spent = f.spent
    BY <1>2, <2>1 DEF ChordT
  <2>3. Forms(n)
    BY <1>1, <2>2 DEF Forms
  <2>4. ~Fires(c, n)
    BY <1>1, <2>2 DEF Fires
  <2>5. ASSUME NEW x, LetAlone(c, x), x \in c.parts => x \in stirred PROVE LetAlone(n, x)
    BY <1>1, <1>3, <2>2, <2>5 DEF LetAlone, Back
  <2> QED BY <1>1, <2>2, <2>3, <2>4, <2>5 DEF n, Steps
<1>5. CASE f.forming /\ g = [Idle(f) EXCEPT !.replay = f.pending \ stirred]
  <2>1. /\ Idle(f) \in ChordT /\ Idle(f).parts = f.parts /\ Idle(f).taken = f.taken
        /\ ~Idle(f).forming /\ Idle(f).pending = {} /\ Idle(f).spent = f.spent
    BY <1>1, IdleChord
  <2>2. f.pending \ stirred \in SUBSET Controls
    BY <1>1 DEF ChordT
  <2> HIDE DEF g, n
  <2>3. /\ g \in ChordT /\ g.parts = f.parts /\ g.taken = f.taken
        /\ ~g.forming /\ g.pending = {} /\ g.replay = f.pending \ stirred
    BY <1>5, <2>1, <2>2 DEF ChordT
  <2>4. /\ n \in ChordT /\ n.parts = f.parts /\ n.taken = {} /\ n.replay \cap stirred = {}
        /\ ~n.forming /\ n.pending = {} /\ n.stirred = stirred
    BY <1>1, <1>2, <1>5, <2>3 DEF ChordT
  <2>5. Forms(n) /\ ~Fires(c, n)
    BY <1>1, <2>4 DEF Forms, Fires
  <2>6. ASSUME NEW x, LetAlone(c, x), x \in c.parts => x \in stirred PROVE LetAlone(n, x)
    BY <1>1, <1>3, <1>5, <2>4, <2>6 DEF LetAlone, Back
  <2> QED BY <1>1, <1>5, <2>4, <2>5, <2>6 DEF n, Steps
<1>6. CASE f.forming /\ g = Fired(f, stirred)
  <2>1. /\ Idle(f) \in ChordT /\ Idle(f).parts = f.parts /\ Idle(f).replay = f.replay
        /\ ~Idle(f).forming /\ Idle(f).pending = {}
    BY <1>1, IdleChord
  <2>2. g = [Idle(f) EXCEPT !.peak = {}, !.taken = stirred, !.spent = TRUE]
    BY <1>6 DEF Fired
  <2> HIDE DEF g, n
  <2>3. /\ g \in ChordT /\ g.parts = f.parts /\ g.taken = stirred /\ g.spent
        /\ ~g.forming /\ g.pending = {} /\ g.replay = {}
    BY <1>1, <2>1, <2>2 DEF ChordT
  <2>4. /\ n \in ChordT /\ n.parts = f.parts /\ n.taken = stirred /\ n.replay = {}
        /\ ~n.forming /\ n.pending = {} /\ n.stirred = stirred
    BY <1>2, <2>3 DEF ChordT
  <2>5. Forms(n)
    BY <1>1, <2>4 DEF Forms
  <2>6. ASSUME NEW x, LetAlone(c, x), x \in c.parts => x \in stirred PROVE LetAlone(n, x)
    BY <1>1, <1>3, <1>6, <2>4, <2>6 DEF LetAlone, Back
  <2> QED BY <1>1, <1>6, <2>4, <2>5, <2>6 DEF n, Steps
<1> HIDE DEF n, Steps
<1>7. \/ ~f.forming \/ g = f
      \/ f.forming /\ g = [Idle(f) EXCEPT !.replay = f.pending \ stirred]
      \/ f.forming /\ g = Fired(f, stirred)
  BY DEF Decide
<1> QED BY <1>4, <1>5, <1>6, <1>7 DEF n, Steps

\* A chord of other parts starts over, and holds nothing back.
PartsSteps(c, n, parts, stirred) ==
  /\ n \in ChordT /\ Forms(n) /\ n.parts = parts /\ n.stirred = stirred
  /\ parts = c.parts => c.taken \cap stirred \subseteq n.taken
  /\ Fires(c, n) => n.taken = stirred
  /\ n.replay \cap stirred = {}
  /\ \A x : LetAlone(c, x) /\ (x \in parts => x \in stirred) => LetAlone(n, x)

LEMMA PartsForm ==
  ASSUME NEW c \in ChordT, Forms(c), NEW parts \in SUBSET Controls,
         NEW stirred \in SUBSET parts, NEW pressed \in SUBSET stirred
  PROVE  PartsSteps(c, ChordStep(ForParts(c, parts), stirred, pressed), parts, stirred)
<1> DEFINE m == ForParts(c, parts)
           n == ChordStep(m, stirred, pressed)
<1>0. stirred \in SUBSET Controls
  OBVIOUS
<1>1. CASE parts = c.parts
  <2>1. m = c
    BY <1>1 DEF ForParts
  <2> HIDE DEF m
  <2>2. Steps(c, n, stirred)
    BY <1>0, <1>1, <2>1, StepForms
  <2> HIDE DEF n
  <2>3. PartsSteps(c, n, parts, stirred)
    BY <1>1, <2>2 DEF Steps, PartsSteps
  <2> QED BY <2>3 DEF n, m
<1>2. CASE parts # c.parts
  <2>1. m = ChordReset(parts)
    BY <1>2 DEF ForParts
  <2>2. /\ m \in ChordT /\ Forms(m) /\ m.parts = parts /\ m.spent /\ ~m.forming
        /\ Back(m) = {} /\ m.taken = {}
    BY <2>1, ResetForms
  <2> HIDE DEF m
  <2>3. Steps(m, n, stirred)
    BY <1>0, <2>2, StepForms
  <2> HIDE DEF n
  <2>4. n.taken = {} /\ ~Fires(c, n)
    BY <2>2, <2>3 DEF Steps, Fires
  <2>5. \A x : LetAlone(m, x)
    BY <2>2 DEF LetAlone
  <2>6. PartsSteps(c, n, parts, stirred)
    BY <1>2, <2>2, <2>3, <2>4, <2>5 DEF Steps, PartsSteps
  <2> QED BY <2>6 DEF n, m
<1> QED BY <1>1, <1>2

-----------------------------------------------------------------------------
(* The stages of a frame                                                    *)

Still(w) == {h \in w.held : Trigger(h) \in w.deep}

(* What setPadMode makes of s.                                              *)
ModeSet(s, t, on) ==
  /\ t \in StateT /\ t.world = s.world /\ t.toggle = s.toggle /\ t.chord = s.chord
  /\ t.before = s.before /\ t.pad.mode = on
  /\ t.pad.attached = s.pad.attached /\ t.pad.resting = s.pad.resting
  /\ t.pad.held = s.pad.held /\ t.pad.sent = s.pad.sent
  /\ t.point.panel = s.point.panel /\ t.point.button = s.point.button
  /\ on => t.point = s.point
  /\ ~on => /\ t.point.down = s.point.down \cup Still(s.world)
            /\ t.point.swallowed = s.point.swallowed \cup Still(s.world)

LEMMA SetPadModeDoes ==
  ASSUME NEW s \in StateT, NEW on \in BOOLEAN
  PROVE  ModeSet(s, SetPadMode(s, on), on)
<1> DEFINE t == [s EXCEPT !.pad.mode = on, !.away = on]
           still == Still(s.world)
           u == [t EXCEPT !.point.down = @ \cup still, !.point.swallowed = @ \cup still]
<1>1. still \in SUBSET Hands
  BY DEF Still, StateT, WorldT
<1>2. SetPadMode(s, on) = IF on THEN t ELSE u
  BY DEF SetPadMode, Still
<1> HIDE DEF still
<1>3. s.pad \in PadT /\ s.point \in PointT
  BY DEF StateT
<1> DEFINE pm == [s.pad EXCEPT !.mode = on]
           pt == [s.point EXCEPT !.down = @ \cup still, !.swallowed = @ \cup still]
<1>4. /\ pm \in PadT /\ pm.mode = on /\ pm.attached = s.pad.attached
      /\ pm.resting = s.pad.resting /\ pm.held = s.pad.held /\ pm.sent = s.pad.sent
  BY <1>3 DEF PadT
<1>5. /\ pt \in PointT /\ pt.panel = s.point.panel /\ pt.button = s.point.button
      /\ pt.down = s.point.down \cup still /\ pt.swallowed = s.point.swallowed \cup still
  BY <1>1, <1>3 DEF PointT
<1>6. t = [s EXCEPT !.pad = pm, !.away = on]
  BY DEF StateT
<1> HIDE DEF pm
<1>7. /\ t \in StateT /\ t.world = s.world /\ t.toggle = s.toggle /\ t.chord = s.chord
      /\ t.before = s.before /\ t.pad = pm /\ t.point = s.point
  BY <1>4, <1>6 DEF StateT
<1> HIDE DEF t
<1>8. u = [t EXCEPT !.point = pt]
  BY <1>7 DEF StateT
<1> HIDE DEF pt, u
<1>9. /\ u \in StateT /\ u.world = t.world /\ u.toggle = t.toggle /\ u.chord = t.chord
      /\ u.before = t.before /\ u.pad = t.pad /\ u.point = pt
  BY <1>5, <1>7, <1>8 DEF StateT
<1>10. CASE on
  <2>1. SetPadMode(s, on) = t
    BY <1>2, <1>10
  <2> QED BY <1>4, <1>7, <1>10, <2>1 DEF ModeSet
<1>11. CASE ~on
  <2>1. SetPadMode(s, on) = u
    BY <1>2, <1>11
  <2> QED BY <1>4, <1>5, <1>7, <1>9, <1>11, <2>1 DEF ModeSet, still
<1> QED BY <1>10, <1>11

(* What settlePad makes of s, the controls reading as in seen.              *)
Settles(s, t, seen) ==
  /\ t \in StateT /\ t.world = s.world /\ t.toggle = s.toggle /\ t.chord = s.chord
  /\ t.point = s.point /\ t.before = s.before /\ t.pad.mode = s.pad.mode
  /\ ~t.pad.attached => t.pad.resting
  /\ t.pad.resting => t.pad.sent = {}
  /\ ~t.pad.resting => /\ t.pad.held = (IF s.pad.resting THEN seen ELSE s.pad.held) \cap seen
                       /\ t.pad.sent = seen \ t.pad.held

LEMMA SettleDoes ==
  ASSUME NEW s \in StateT, NEW live \in BOOLEAN, NEW seen \in SUBSET Controls
  PROVE  Settles(s, Settle(s, live, seen), seen) /\ (~live => Settle(s, live, seen).pad.resting)
<1> DEFINE on == Plugged(s) /\ live
           got == IF on THEN seen ELSE {}
           held == (IF on /\ s.pad.resting THEN got ELSE s.pad.held) \cap got
           pm == [s.pad EXCEPT !.sent = got \ held, !.held = held, !.resting = ~on,
                               !.attached = Plugged(s)]
           t == Settle(s, live, seen)
<1>1. s.pad \in PadT /\ on \in BOOLEAN /\ Plugged(s) \in BOOLEAN /\ (on => Plugged(s) /\ live)
  BY DEF StateT, Plugged, PadT
<1>2. t = [s EXCEPT !.pad.sent = got \ held, !.pad.held = held, !.pad.resting = ~on,
                    !.pad.attached = Plugged(s)]
  BY DEF Settle
<1>3. t = [s EXCEPT !.pad = pm]
  BY <1>2 DEF StateT
<1>4. got \in SUBSET Controls /\ (on => got = seen) /\ (~on => got = {})
  OBVIOUS
<1> HIDE DEF on, got, t
<1>5. held \in SUBSET Controls /\ (on => held = (IF s.pad.resting THEN seen ELSE s.pad.held) \cap seen)
      /\ (~on => held = {})
  BY <1>4
<1> HIDE DEF held
<1>6. /\ pm \in PadT /\ pm.mode = s.pad.mode /\ pm.attached = Plugged(s) /\ pm.resting = ~on
      /\ pm.held = held /\ pm.sent = got \ held
  BY <1>1, <1>4, <1>5 DEF PadT
<1> HIDE DEF pm
<1>7. /\ t \in StateT /\ t.world = s.world /\ t.toggle = s.toggle /\ t.chord = s.chord
      /\ t.point = s.point /\ t.before = s.before /\ t.pad = pm
  BY <1>3, <1>6 DEF StateT
<1>8. Settles(s, t, seen)
  BY <1>1, <1>4, <1>5, <1>6, <1>7 DEF Settles
<1>9. ~live => t.pad.resting
  BY <1>1, <1>6, <1>7
<1> QED BY <1>8, <1>9 DEF t

LEMMA ToggleDoes ==
  ASSUME NEW t \in ToggleT, NEW menu \in BOOLEAN, NEW grip \in BOOLEAN
  PROVE  ToggleStep(t, menu, grip) \in ToggleT
         /\ (t.menuTaken /\ menu => ToggleStep(t, menu, grip).menuTaken)
<1> DEFINE age == IF t.holding THEN Later(t.age, ToggleHold) ELSE 0
           over == age >= ToggleHold
           r == ToggleStep(t, menu, grip)
<1>1. age \in 0 .. ToggleHold
  BY Numbers, LaterIn DEF ToggleT
<1>2. over \in BOOLEAN
  OBVIOUS
<1>3. r = IF menu /\ grip
          THEN [holding |-> TRUE, age |-> age, fired |-> t.fired \/ over, menuTaken |-> TRUE]
          ELSE [AtRest EXCEPT !.menuTaken = t.menuTaken /\ menu]
  BY DEF ToggleStep
<1> HIDE DEF age, over, r
<1>4. CASE menu /\ grip
  <2>1. (t.fired \/ over) \in BOOLEAN
    OBVIOUS
  <2>2. r = [holding |-> TRUE, age |-> age, fired |-> t.fired \/ over, menuTaken |-> TRUE]
    BY <1>3, <1>4
  <2>3. r \in ToggleT /\ r.menuTaken
    BY <1>1, <2>1, <2>2 DEF ToggleT
  <2> QED BY <2>3 DEF r
<1>5. CASE ~(menu /\ grip)
  <2>1. (t.menuTaken /\ menu) \in BOOLEAN
    OBVIOUS
  <2>2. r = [AtRest EXCEPT !.menuTaken = t.menuTaken /\ menu]
    BY <1>3, <1>5
  <2>3. AtRest \in ToggleT
    BY Numbers DEF AtRest, ToggleT
  <2>4. r \in ToggleT /\ (r.menuTaken <=> t.menuTaken /\ menu)
    BY <2>1, <2>2, <2>3 DEF ToggleT
  <2> QED BY <2>4 DEF r
<1> QED BY <1>4, <1>5

(* The controls as the frame reads them, and what of them the pad maps.     *)
Off(w) == Read(w, w.off)
Maps(s) == SeenOff(s.chord, Off(s.world)) \ (IF s.toggle.menuTaken THEN {"menu"} ELSE {})

(* What updatePad makes of the state s stands for, its world being w.       *)
Updated(w, s) ==
  /\ s \in StateT /\ s.world = w
  /\ PartsSteps(chord, s.chord, s.chord.parts, Off(w) \cap s.chord.parts)
  /\ s.chord.parts # {} => w.held = Hands
  /\ toggle.menuTaken /\ "menu" \in Off(w) => s.toggle.menuTaken
  /\ \/ /\ s.pad.mode = pad.mode
        /\ s.point.down = point.down /\ s.point.swallowed = point.swallowed
     \/ /\ s.pad.mode = ~pad.mode /\ (Fires(chord, s.chord) \/ s.chord.parts = {})
        /\ s.pad.mode => s.point.down = point.down /\ s.point.swallowed = point.swallowed
        /\ ~s.pad.mode => /\ s.point.down = point.down \cup Still(w)
                          /\ s.point.swallowed = point.swallowed \cup Still(w)
  /\ ~s.pad.attached => s.pad.resting
  /\ s.pad.resting => s.pad.sent = {}
  /\ ~s.pad.resting =>
       /\ s.pad.held = (IF pad.resting THEN Maps(s) ELSE pad.held) \cap Maps(s)
       /\ s.pad.sent = Maps(s) \ s.pad.held

(* The state a frame begins with.                                           *)
Begins(w, s) ==
  /\ s \in StateT /\ s.world = w /\ s.pad = pad /\ s.toggle = toggle /\ s.chord = chord
  /\ s.point.down = point.down /\ s.point.swallowed = point.swallowed

LEMMA PartsOf ==
  \A shortcut : /\ Parts(shortcut) \subseteq Controls
                /\ shortcut = "menuGrip" => Parts(shortcut) = {}
BY DEF Parts, Controls

LEMMA MapsIn ==
  ASSUME NEW s \in StateT
  PROVE  Maps(s) \in SUBSET Controls /\ Off(s.world) \in SUBSET Controls
BY DEF Maps, SeenOff, Off, Read, StateT, WorldT, ChordT

LEMMA UpdateDoes ==
  ASSUME Forms(chord), chord \in ChordT, toggle \in ToggleT, pad \in PadT, NEW w \in WorldT,
         w.deep \subseteq w.off, NEW s \in StateT, Begins(w, s)
  PROVE  Updated(w, UpdatePad(s))
<1> DEFINE s1 == StepChord(s)
           s2 == StepToggle(s1)
           s3 == Turn(s2)
           s4 == SettleRead(s3)
           parts == PartsNow(s)
           stirred == Off(w) \cap parts
           pressed == Read(w, w.deep) \cap parts
           n == ChordStep(ForParts(chord, parts), stirred, pressed)
<1>1. /\ parts \in SUBSET Controls /\ stirred \in SUBSET parts /\ pressed \in SUBSET stirred
      /\ parts # {} => w.held = Hands
      /\ prefs.shortcut = "menuGrip" => parts = {}
  BY PartsOf DEF PartsNow, Off, Read, Begins
<1>2. s1 = [s EXCEPT !.chord = n]
  BY DEF StepChord, Begins, Off
<1> HIDE DEF stirred, pressed
<1>3. PartsSteps(chord, n, parts, stirred)
  BY <1>1, PartsForm
<1> HIDE DEF n
<1>4. n \in ChordT /\ n.parts = parts
  BY <1>3 DEF PartsSteps
<1>5. /\ s1 \in StateT /\ s1.world = w /\ s1.chord = n /\ s1.pad = pad /\ s1.toggle = toggle
      /\ s1.point = s.point
  BY <1>2, <1>4 DEF Begins, StateT
<1> HIDE DEF s1, parts
<1>6. /\ s2 \in StateT /\ s2.world = w /\ s2.chord = n /\ s2.pad = pad /\ s2.point = s.point
      /\ toggle.menuTaken /\ "menu" \in Off(w) => s2.toggle.menuTaken
      /\ prefs.shortcut # "menuGrip" => s2.toggle = toggle
  <2> DEFINE menu == "menu" \in Read(w, w.off)
             grip == "LG" \in SeenDeep(n, Read(w, w.deep))
             r == ToggleStep(toggle, menu, grip)
  <2>0. menu \in BOOLEAN /\ grip \in BOOLEAN /\ (menu <=> "menu" \in Off(w))
    BY DEF Off
  <2>2. s2 = IF prefs.shortcut # "menuGrip" THEN s1 ELSE [s1 EXCEPT !.toggle = r]
    BY <1>5 DEF StepToggle
  <2> HIDE DEF menu, grip
  <2>1. r \in ToggleT /\ (toggle.menuTaken /\ "menu" \in Off(w) => r.menuTaken)
    BY <2>0, ToggleDoes
  <2> HIDE DEF r, s2
  <2>3. CASE prefs.shortcut # "menuGrip"
    BY <1>5, <2>2, <2>3 DEF s2
  <2>4. CASE prefs.shortcut = "menuGrip"
    <3>1. s2 = [s1 EXCEPT !.toggle = r]
      BY <2>2, <2>4
    <3>2. s2 \in StateT /\ s2.world = s1.world /\ s2.chord = s1.chord /\ s2.pad = s1.pad
          /\ s2.point = s1.point /\ s2.toggle = r
      BY <1>5, <2>1, <3>1 DEF StateT
    <3> QED BY <1>5, <2>1, <2>4, <3>2 DEF s2
  <2> QED BY <2>3, <2>4
<1> HIDE DEF s2
<1>7. Turns(s2) => Fires(chord, n) \/ parts = {}
  BY <1>1, <1>6 DEF Turns
<1>8. /\ s3 \in StateT /\ s3.world = w /\ s3.chord = n /\ s3.toggle = s2.toggle
      /\ s3.pad.attached = pad.attached /\ s3.pad.resting = pad.resting
      /\ s3.pad.held = pad.held /\ s3.pad.sent = pad.sent
      /\ \/ s3.pad.mode = pad.mode /\ s3.point = s.point
         \/ /\ s3.pad.mode = ~pad.mode /\ (Fires(chord, n) \/ parts = {})
            /\ s3.pad.mode => s3.point = s.point
            /\ ~s3.pad.mode => /\ s3.point.down = point.down \cup Still(w)
                               /\ s3.point.swallowed = point.swallowed \cup Still(w)
  <2>1. CASE Turns(s2)
    <3>1. (~pad.mode) \in BOOLEAN
      OBVIOUS
    <3>2. s3 = SetPadMode(s2, ~pad.mode)
      BY <1>6, <2>1 DEF Turn
    <3>3. ModeSet(s2, s3, ~pad.mode)
      BY <1>6, <3>1, <3>2, SetPadModeDoes
    <3> HIDE DEF s3
    <3> QED BY <1>6, <1>7, <2>1, <3>1, <3>3 DEF ModeSet, Begins
  <2>2. CASE ~Turns(s2)
    <3>1. s3 = s2
      BY <2>2 DEF Turn
    <3> QED BY <1>6, <3>1
  <2> QED BY <2>1, <2>2
<1> HIDE DEF s3
<1>9. Settles(s3, s4, Maps(s3))
  <2> DEFINE live == ~s3.point.panel
  <2>1. live \in BOOLEAN /\ Mapped(s3) = Maps(s3)
    BY DEF Mapped, Maps, Off
  <2>2. s4 = Settle(s3, live, Maps(s3))
    BY <2>1 DEF SettleRead
  <2> HIDE DEF live, s4
  <2>3. Settles(s3, Settle(s3, live, Maps(s3)), Maps(s3))
    BY <1>8, <2>1, MapsIn, SettleDoes
  <2> QED BY <2>2, <2>3 DEF s4
<1> HIDE DEF s4
<1>10. Maps(s4) = Maps(s3)
  BY <1>9 DEF Settles, Maps
<1>11. Updated(w, s4)
  <2>1. /\ s4 \in StateT /\ s4.world = w /\ s4.chord = n /\ s4.toggle = s2.toggle
        /\ s4.point = s3.point /\ s4.pad.mode = s3.pad.mode
    BY <1>8, <1>9 DEF Settles
  <2>2. PartsSteps(chord, s4.chord, s4.chord.parts, Off(w) \cap s4.chord.parts)
    BY <1>3, <1>4, <2>1 DEF stirred
  <2>3. \/ /\ s4.pad.mode = pad.mode
           /\ s4.point.down = point.down /\ s4.point.swallowed = point.swallowed
        \/ /\ s4.pad.mode = ~pad.mode /\ (Fires(chord, s4.chord) \/ s4.chord.parts = {})
           /\ s4.pad.mode => s4.point.down = point.down /\ s4.point.swallowed = point.swallowed
           /\ ~s4.pad.mode => /\ s4.point.down = point.down \cup Still(w)
                              /\ s4.point.swallowed = point.swallowed \cup Still(w)
    BY <1>4, <1>8, <2>1 DEF Begins
  <2>4. /\ ~s4.pad.attached => s4.pad.resting
        /\ s4.pad.resting => s4.pad.sent = {}
        /\ ~s4.pad.resting =>
             /\ s4.pad.held = (IF pad.resting THEN Maps(s4) ELSE pad.held) \cap Maps(s4)
             /\ s4.pad.sent = Maps(s4) \ s4.pad.held
    BY <1>8, <1>9, <1>10 DEF Settles
  <2> QED BY <1>1, <1>4, <1>6, <2>1, <2>2, <2>3, <2>4 DEF Updated
<1> QED BY <1>11 DEF s4, s3, s2, s1, UpdatePad

(* What leaves alone all but the panels and the host's button.              *)
Aside(s, t) ==
  /\ t \in StateT /\ t.world = s.world /\ t.toggle = s.toggle /\ t.chord = s.chord
  /\ t.pad = s.pad /\ t.before = s.before
  /\ t.point.down = s.point.down /\ t.point.swallowed = s.point.swallowed

LEMMA PutPanelsAwayDoes ==
  ASSUME NEW s \in StateT
  PROVE  Aside(s, PutPanelsAway(s))
<1> DEFINE pt == [s.point EXCEPT !.panel = FALSE, !.button = FALSE]
           t == [s EXCEPT !.away = FALSE, !.point.panel = FALSE, !.point.button = FALSE]
<1>1. /\ pt \in PointT /\ pt.down = s.point.down /\ pt.swallowed = s.point.swallowed
  BY DEF StateT, PointT
<1>2. t = [s EXCEPT !.away = FALSE, !.point = pt]
  BY DEF StateT
<1> HIDE DEF pt, t
<1>3. Aside(s, t)
  BY <1>1, <1>2 DEF StateT, Aside
<1>4. Aside(s, s)
  BY DEF Aside
<1>5. PutPanelsAway(s) = IF ~s.away THEN s ELSE t
  BY DEF PutPanelsAway, t
<1> QED BY <1>3, <1>4, <1>5

LEMMA ButtonDoes ==
  ASSUME NEW s \in StateT, NEW button \in BOOLEAN
  PROVE  Aside(s, [s EXCEPT !.point.button = button])
<1> DEFINE pt == [s.point EXCEPT !.button = button]
           t == [s EXCEPT !.point.button = button]
<1>1. /\ pt \in PointT /\ pt.down = s.point.down /\ pt.swallowed = s.point.swallowed
  BY DEF StateT, PointT
<1>2. t = [s EXCEPT !.point = pt]
  BY DEF StateT
<1> HIDE DEF pt, t
<1>3. Aside(s, t)
  BY <1>1, <1>2 DEF StateT, Aside
<1> QED BY <1>3 DEF t

(* The presses a pass reads of s.                                           *)
Reads(s) == {h \in Hands : /\ Trigger(h) \in SeenDeep(s.chord, s.world.deep)
                           /\ ~(s.pad.mode /\ h \in s.world.held)}

(* What a pass of the pointer makes of s.                                   *)
Passed(s, t) ==
  /\ t \in StateT /\ t.world = s.world /\ t.toggle = s.toggle /\ t.chord = s.chord
  /\ t.pad.attached = s.pad.attached /\ t.pad.resting = s.pad.resting
  /\ t.pad.held = s.pad.held /\ t.pad.sent = s.pad.sent
  /\ \/ /\ t.pad.mode \/ ~s.pad.mode
        /\ t.point.down = Reads(s) /\ s.point.swallowed \cap Reads(s) \subseteq t.point.swallowed
     \/ /\ ~t.pad.mode /\ s.world.held # Hands
        /\ t.point.down = Reads(s) \cup Still(s.world)
        /\ (s.point.swallowed \cap Reads(s)) \cup Still(s.world) \subseteq t.point.swallowed

LEMMA PassDoes ==
  ASSUME NEW s \in StateT, NEW on \in Aims
  PROVE  Passed(s, Pass(s, on))
<1> DEFINE s0 == [s EXCEPT !.before = s.point.down]
           down == {h \in Hands : /\ Trigger(h) \in SeenDeep(s0.chord, s0.world.deep)
                                  /\ ~(s0.pad.mode /\ h \in s0.world.held)}
           s1 == ReadSources(s0)
           edge == s1.point.down \ s1.before
           grabs == [s1 EXCEPT !.point.swallowed = @ \cup edge]
           t1 == IF s1.point.panel THEN grabs ELSE s1
           flips == [t1 EXCEPT !.point.panel = ~@]
           s2 == Press(s1, edge, on)
           s3 == PutPanelsAway(s2)
           hit == on = "screen" /\ ~s.point.panel
           mask == s3.point.down \ s3.point.swallowed # {}
           button == mask /\ (hit \/ s3.point.button)
           s4 == [s3 EXCEPT !.point.button = button]
<1>1. Pass(s, on) = s4
  BY DEF Pass, Pressed, Buttons
<1>2. /\ s0 \in StateT /\ s0.world = s.world /\ s0.toggle = s.toggle /\ s0.chord = s.chord
      /\ s0.pad = s.pad /\ s0.point = s.point
  BY DEF StateT, PointT
<1>3. down = Reads(s) /\ down \in SUBSET Hands
  BY <1>2 DEF Reads
<1>4. s1 = [s0 EXCEPT !.point.down = down, !.point.swallowed = @ \cap down]
  BY DEF ReadSources
<1> HIDE DEF s0, down
<1>5. /\ s1 \in StateT /\ s1.world = s.world /\ s1.toggle = s.toggle /\ s1.chord = s.chord
      /\ s1.pad = s.pad /\ s1.point.down = Reads(s)
      /\ s1.point.swallowed = s.point.swallowed \cap Reads(s)
  <2> DEFINE pt == [s0.point EXCEPT !.down = down, !.swallowed = @ \cap down]
  <2>1. /\ pt \in PointT /\ pt.down = down /\ pt.swallowed = s0.point.swallowed \cap down
    BY <1>2, <1>3 DEF StateT, PointT
  <2>2. s1 = [s0 EXCEPT !.point = pt]
    BY <1>2, <1>4 DEF StateT
  <2> HIDE DEF pt, s1
  <2>3. s1 \in StateT /\ s1.world = s0.world /\ s1.toggle = s0.toggle /\ s1.chord = s0.chord
        /\ s1.pad = s0.pad /\ s1.point = pt
    BY <1>2, <2>1, <2>2 DEF StateT
  <2> QED BY <1>2, <1>3, <2>1, <2>3 DEF s1
<1> HIDE DEF s1
<1>6. edge \in SUBSET Hands
  BY <1>5 DEF StateT, PointT
<1> HIDE DEF edge
<1>7. /\ t1 \in StateT /\ t1.world = s.world /\ t1.toggle = s.toggle /\ t1.chord = s.chord
      /\ t1.pad = s.pad /\ t1.point.down = Reads(s)
      /\ s.point.swallowed \cap Reads(s) \subseteq t1.point.swallowed
  <2> DEFINE pt == [s1.point EXCEPT !.swallowed = @ \cup edge]
  <2>1. /\ pt \in PointT /\ pt.down = s1.point.down
        /\ pt.swallowed = s1.point.swallowed \cup edge
    BY <1>5, <1>6 DEF StateT, PointT
  <2>2. grabs = [s1 EXCEPT !.point = pt]
    BY <1>5 DEF StateT
  <2> HIDE DEF pt, grabs
  <2>3. /\ grabs \in StateT /\ grabs.world = s1.world /\ grabs.toggle = s1.toggle
        /\ grabs.chord = s1.chord /\ grabs.pad = s1.pad /\ grabs.point = pt
    BY <1>5, <2>1, <2>2 DEF StateT
  <2>4. t1 = grabs \/ t1 = s1
    OBVIOUS
  <2> HIDE DEF t1
  <2> QED BY <1>5, <2>1, <2>3, <2>4 DEF t1
<1>8. flips \in StateT /\ flips.world = t1.world /\ flips.toggle = t1.toggle
      /\ flips.chord = t1.chord /\ flips.pad = t1.pad
      /\ flips.point.down = t1.point.down /\ flips.point.swallowed = t1.point.swallowed
  <2> HIDE DEF t1
  <2> DEFINE pt == [t1.point EXCEPT !.panel = ~@]
  <2>1. t1.point \in PointT /\ (~t1.point.panel) \in BOOLEAN
    BY <1>7 DEF StateT
  <2>2. pt \in PointT /\ pt.down = t1.point.down /\ pt.swallowed = t1.point.swallowed
    BY <2>1 DEF PointT
  <2>3. flips = [t1 EXCEPT !.point = pt]
    BY <1>7 DEF StateT
  <2> HIDE DEF pt, flips
  <2>4. flips \in StateT /\ flips.world = t1.world /\ flips.toggle = t1.toggle
        /\ flips.chord = t1.chord /\ flips.pad = t1.pad /\ flips.point = pt
    BY <1>7, <2>2, <2>3 DEF StateT
  <2> QED BY <2>2, <2>4 DEF flips
<1> HIDE DEF flips, t1
<1>9. \/ s2 = t1 \/ s2 = flips
      \/ edge # {} /\ s2 = SetPadMode(t1, ~t1.pad.mode)
  BY DEF Press, t1, grabs, flips
<1> HIDE DEF s2
<1>10. Passed(s, s2)
  <2>1. CASE s2 = t1
    BY <1>7, <2>1 DEF Passed
  <2>2. CASE s2 = flips
    BY <1>7, <1>8, <2>2 DEF Passed
  <2>3. CASE edge # {} /\ s2 = SetPadMode(t1, ~t1.pad.mode)
    <3>1. (~t1.pad.mode) \in BOOLEAN
      OBVIOUS
    <3>2. ModeSet(t1, s2, ~t1.pad.mode)
      BY <1>7, <2>3, <3>1, SetPadModeDoes
    <3>3. s.pad.mode => s.world.held # Hands
      <4>1. PICK h \in Hands : h \in Reads(s)
        BY <1>5, <1>6, <2>3 DEF edge
      <4> QED BY <4>1 DEF Reads
    <3>4. CASE t1.pad.mode
      BY <1>7, <3>2, <3>3, <3>4 DEF ModeSet, Passed
    <3>5. CASE ~t1.pad.mode
      BY <1>7, <3>2, <3>5 DEF ModeSet, Passed
    <3> QED BY <3>4, <3>5
  <2> QED BY <1>9, <2>1, <2>2, <2>3
<1>11. Aside(s2, s3)
  BY <1>10, PutPanelsAwayDoes DEF Passed
<1> HIDE DEF s3
<1>12. Aside(s3, s4)
  <2>1. button \in BOOLEAN
    OBVIOUS
  <2> HIDE DEF button
  <2> QED BY <1>11, <2>1, ButtonDoes DEF Aside
<1> HIDE DEF s4
<1>13. Passed(s, s4)
  BY <1>10, <1>11, <1>12 DEF Passed, Aside
<1> QED BY <1>1, <1>13

-----------------------------------------------------------------------------
(* A frame whose controllers could be read                                  *)

(* The frame's end t, by way of u, what updatePad left.                     *)
Framed(w, u, t) ==
  /\ Updated(w, u) /\ (prefs.pointer => Passed(u, t)) /\ (~prefs.pointer => Aside(u, t))

Stepped(w, t, blind) ==
  /\ world' = w /\ pad' = t.pad /\ toggle' = t.toggle /\ chord' = t.chord /\ point' = t.point
  /\ rumble' = UpdateRumble(t, rumble, ~blind)
  /\ past' = Record(t, blind)
  /\ UNCHANGED prefs

LEMMA BeginsHere ==
  ASSUME PadTypeOK, NEW w \in WorldT
  PROVE  /\ Begins(w, [State EXCEPT !.world = w])
         /\ Begins(w, [[State EXCEPT !.world = w] EXCEPT !.point.button = FALSE])
<1> DEFINE s == [State EXCEPT !.world = w]
<1>1. Begins(w, s)
  BY Types DEF Begins, State, StateT
<1> HIDE DEF s
<1>2. Aside(s, [s EXCEPT !.point.button = FALSE])
  BY <1>1, ButtonDoes DEF Begins
<1>3. Begins(w, [s EXCEPT !.point.button = FALSE])
  BY <1>1, <1>2 DEF Aside, Begins
<1> QED BY <1>1, <1>3 DEF s

LEMMA ReadFrameDoes ==
  ASSUME IInv, NEW w \in WorldT, w.deep \subseteq w.off, NEW on \in Aims
  PROVE  \E u : Framed(w, u, ReadFrame([State EXCEPT !.world = w], on))
<1> DEFINE s == [State EXCEPT !.world = w]
           b == [s EXCEPT !.point.button = FALSE]
<1>1. Begins(w, s) /\ Begins(w, b)
  BY BeginsHere DEF IInv
<1> HIDE DEF s, b
<1>2. Forms(chord) /\ chord \in ChordT /\ toggle \in ToggleT /\ pad \in PadT
  BY Types DEF IInv
<1>3. Updated(w, UpdatePad(s)) /\ Updated(w, UpdatePad(b))
  BY <1>1, <1>2, UpdateDoes DEF Begins
<1>4. UpdatePad(s) \in StateT /\ UpdatePad(b) \in StateT
  BY <1>3 DEF Updated
<1>5. CASE prefs.pointer
  <2>1. ReadFrame(s, on) = Pass(UpdatePad(s), on)
    BY <1>5 DEF ReadFrame
  <2>2. Passed(UpdatePad(s), ReadFrame(s, on))
    BY <1>4, <2>1, PassDoes
  <2>3. Framed(w, UpdatePad(s), ReadFrame(s, on))
    BY <1>3, <1>5, <2>2 DEF Framed
  <2> QED BY <2>3 DEF s
<1>6. CASE ~prefs.pointer
  <2>1. ReadFrame(s, on) = PutPanelsAway(UpdatePad(b))
    BY <1>6 DEF ReadFrame, b
  <2>2. Aside(UpdatePad(b), ReadFrame(s, on))
    BY <1>4, <2>1, PutPanelsAwayDoes
  <2>3. Framed(w, UpdatePad(b), ReadFrame(s, on))
    BY <1>3, <1>6, <2>2 DEF Framed
  <2> QED BY <2>3 DEF s
<1> QED BY <1>5, <1>6

\* What the pass and the pointer's buttons never touch.
Same(w, u, t) ==
  /\ t \in StateT /\ t.world = w /\ t.chord = u.chord /\ t.toggle = u.toggle
  /\ t.pad.attached = u.pad.attached /\ t.pad.resting = u.pad.resting
  /\ t.pad.held = u.pad.held /\ t.pad.sent = u.pad.sent
  /\ u \in StateT /\ u.world = w
  /\ PartsSteps(chord, u.chord, u.chord.parts, Off(w) \cap u.chord.parts)

LEMMA FramedParts ==
  ASSUME NEW w, NEW u, NEW t, Framed(w, u, t)
  PROVE  Same(w, u, t)
<1>1. /\ u \in StateT /\ u.world = w
      /\ PartsSteps(chord, u.chord, u.chord.parts, Off(w) \cap u.chord.parts)
  BY DEF Framed, Updated
<1>2. Passed(u, t) \/ Aside(u, t)
  BY DEF Framed
<1>3. /\ t \in StateT /\ t.world = u.world /\ t.chord = u.chord /\ t.toggle = u.toggle
      /\ t.pad.attached = u.pad.attached /\ t.pad.resting = u.pad.resting
      /\ t.pad.held = u.pad.held /\ t.pad.sent = u.pad.sent
  <2>1. CASE Passed(u, t)
    BY <2>1 DEF Passed
  <2>2. CASE Aside(u, t)
    BY <2>2 DEF Aside
  <2> QED BY <1>2, <2>1, <2>2
<1> QED BY <1>1, <1>3 DEF Same

LEMMA RecordTyped ==
  ASSUME PadTypeOK, NEW t \in StateT, NEW blind \in BOOLEAN
  PROVE  Record(t, blind) \in PastT
<1>1. /\ prefs.shortcut \in Shortcuts /\ past \in PastT /\ chord \in ChordT
      /\ t.chord \in ChordT /\ t.world \in WorldT /\ t.pad \in PadT
  BY Types DEF StateT
<1>2. Watched[prefs.shortcut] \subseteq Controls
  BY <1>1, PadAssumption
<1> DEFINE off     == Read(t.world, t.world.off)
           restart == blind \/ t.chord.parts # chord.parts
           fired   == Fires(chord, t.chord)
           menu    == IF t.toggle.menuTaken THEN {"menu"} ELSE {}
           ends    == pad.mode /\ ~t.pad.mode
           lost    == IF restart THEN chord.taken ELSE {}
           owed    == IF blind THEN Watched[prefs.shortcut]
                      ELSE IF ~Live(t.pad) THEN off
                      ELSE (past.owed \cap off) \ (IF Live(pad) THEN {} ELSE Back(t.chord))
           switch  == ((IF fired THEN t.chord.stirred ELSE (past.switch \ lost) \cap off)
                       \ {"menu"}) \cup menu
           kept    == Read(t.world, (IF ends THEN t.world.deep ELSE past.kept)
                                    \cap t.world.deep \cap {"LT", "RT"}) \ lost
           stale   == past.stale \/ ~t.pad.attached
<1>3. off \subseteq Controls
  BY <1>1 DEF Read, WorldT
<1>4. owed \subseteq Controls
  BY <1>2, <1>3
<1>5. switch \subseteq Controls
  <2>1. t.chord.stirred \subseteq Controls /\ menu \subseteq Controls
    BY <1>1 DEF ChordT, Controls
  <2> QED BY <1>3, <2>1
<1>6. kept \subseteq Controls
  BY <1>1 DEF Read, WorldT
<1>7. stale \in BOOLEAN
  OBVIOUS
<1>8. Record(t, blind) = [owed |-> owed, switch |-> switch, kept |-> kept, stale |-> stale]
  BY DEF Record
<1> HIDE DEF owed, switch, kept, stale
<1> QED BY <1>4, <1>5, <1>6, <1>7, <1>8 DEF PastT

LEMMA SteppedTyped ==
  ASSUME PadTypeOK, NEW w \in WorldT, w.deep \subseteq w.off, NEW t \in StateT,
         NEW blind \in BOOLEAN, Stepped(w, t, blind)
  PROVE  PadTypeOK' /\ Pulled'
<1>1. past' \in PastT
  BY RecordTyped DEF Stepped
<1>2. rumble' \in [want : BOOLEAN, given : SUBSET Hands]
  <2>1. t.pad.attached \in BOOLEAN /\ t.world.held \in SUBSET Hands /\ rumble.want \in BOOLEAN
    BY Types DEF StateT, PadT, WorldT
  <2> DEFINE given == IF rumble.want /\ ~blind /\ t.pad.attached THEN t.world.held ELSE {}
             want == rumble.want /\ t.pad.attached
  <2>2. given \in SUBSET Hands /\ want \in BOOLEAN
    BY <2>1
  <2>3. rumble' = [want |-> want, given |-> given]
    BY DEF Stepped, UpdateRumble
  <2> HIDE DEF given, want
  <2> QED BY <2>2, <2>3
<1>3. /\ prefs' \in [shortcut : Shortcuts, pointer : Pointers] /\ world' \in WorldT
      /\ pad' \in PadT /\ toggle' \in ToggleT /\ chord' \in ChordT /\ point' \in PointT
  BY Types DEF Stepped, StateT
<1>4. PadTypeOK'
  BY <1>1, <1>2, <1>3 DEF PadTypeOK, WorldT, PadT, ToggleT, ChordT, PointT, PastT
<1>5. Pulled'
  BY DEF Pulled, Stepped
<1> QED BY <1>4, <1>5

\* What the host asks for goes with the pad, and so does the vibrating.
LEMMA SteppedRumbles ==
  ASSUME Rumbles, NEW w, NEW t, NEW blind \in BOOLEAN, Stepped(w, t, blind)
  PROVE  Rumbles'
<1>1. past'.stale = (past.stale \/ ~t.pad.attached)
  BY DEF Stepped, Record
<1>2. rumble'.want => rumble.want /\ t.pad.attached
  BY DEF Stepped, UpdateRumble
<1>3. rumble'.given # {} => rumble.want /\ t.pad.attached
  BY DEF Stepped, UpdateRumble
<1>4. pad' = t.pad
  BY DEF Stepped
<1> QED BY <1>1, <1>2, <1>3, <1>4 DEF Rumbles

(* What the history has of such a frame.                                    *)
Lost(t) == IF t.chord.parts # chord.parts THEN chord.taken ELSE {}
Recorded(w, t, p) ==
  /\ \A c \in p.owed : /\ c \in Off(w)
                       /\ Live(t.pad) => IF Live(pad) THEN c \in past.owed
                                         ELSE c \notin Back(t.chord)
  /\ \A c \in p.switch : \/ c = "menu" /\ t.toggle.menuTaken
                         \/ c # "menu" /\ Fires(chord, t.chord) /\ c \in t.chord.stirred
                         \/ c # "menu" /\ c \in past.switch /\ c \notin Lost(t) /\ c \in Off(w)
  /\ \A c \in p.kept : /\ c \in w.deep /\ HandOf(c) \in w.held /\ c \notin Lost(t)
                       /\ (pad.mode /\ ~t.pad.mode) \/ c \in past.kept

LEMMA RecordDoes ==
  ASSUME NEW w, NEW t, t.world = w, Stepped(w, t, FALSE)
  PROVE  Recorded(w, t, past')
<1> DEFINE fired == Fires(chord, t.chord)
           menu  == IF t.toggle.menuTaken THEN {"menu"} ELSE {}
           ends  == pad.mode /\ ~t.pad.mode
<1>1. past'.owed = IF ~Live(t.pad) THEN Off(w)
                   ELSE (past.owed \cap Off(w)) \ (IF Live(pad) THEN {} ELSE Back(t.chord))
  BY DEF Stepped, Record, Off
<1>2. past'.switch = ((IF fired THEN t.chord.stirred ELSE (past.switch \ Lost(t)) \cap Off(w))
                      \ {"menu"}) \cup menu
  BY DEF Stepped, Record, Off, Lost
<1>3. past'.kept = Read(w, (IF ends THEN w.deep ELSE past.kept) \cap w.deep \cap {"LT", "RT"})
                   \ Lost(t)
  BY DEF Stepped, Record, Lost
<1>4. \A c \in past'.owed : /\ c \in Off(w)
                            /\ Live(t.pad) => IF Live(pad) THEN c \in past.owed
                                              ELSE c \notin Back(t.chord)
  BY <1>1
<1>5. \A c \in past'.switch :
        \/ c = "menu" /\ t.toggle.menuTaken
        \/ c # "menu" /\ Fires(chord, t.chord) /\ c \in t.chord.stirred
        \/ c # "menu" /\ c \in past.switch /\ c \notin Lost(t) /\ c \in Off(w)
  BY <1>2
<1>6. \A c \in past'.kept : /\ c \in w.deep /\ HandOf(c) \in w.held /\ c \notin Lost(t)
                            /\ (pad.mode /\ ~t.pad.mode) \/ c \in past.kept
  BY <1>3 DEF Read
<1> QED BY <1>4, <1>5, <1>6 DEF Recorded

\* What the step of the chord says of the controls of the frame.
LEMMA FrameChord ==
  ASSUME Forms(chord), NEW w, NEW n, PartsSteps(chord, n, n.parts, Off(w) \cap n.parts)
  PROVE  /\ n \in ChordT /\ Forms(n) /\ Back(n) \subseteq n.parts
         /\ n.parts = chord.parts => chord.taken \cap Off(w) \subseteq n.taken
         /\ Fires(chord, n) => n.taken = n.stirred
         /\ n.stirred = Off(w) \cap n.parts
         /\ n.replay \cap n.taken = {}
         /\ \A c \in Off(w) : LetAlone(chord, c) => LetAlone(n, c)
<1> DEFINE stirred == Off(w) \cap n.parts
<1>1. /\ n \in ChordT /\ Forms(n) /\ n.stirred = stirred
      /\ n.parts = chord.parts => chord.taken \cap stirred \subseteq n.taken
      /\ Fires(chord, n) => n.taken = stirred
      /\ n.replay \cap stirred = {}
      /\ \A x : LetAlone(chord, x) /\ (x \in n.parts => x \in stirred) => LetAlone(n, x)
  BY DEF PartsSteps
<1>2. n.pending \subseteq n.parts /\ n.taken \subseteq n.stirred /\ n.stirred \subseteq n.parts
  BY <1>1 DEF Forms
<1>3. chord.taken \subseteq chord.parts
  BY DEF Forms
<1>4. Back(n) \subseteq n.parts
  BY <1>2 DEF Back
<1>5. n.parts = chord.parts => chord.taken \cap Off(w) \subseteq n.taken
  BY <1>1, <1>3
<1>6. n.replay \cap n.taken = {}
  BY <1>1, <1>2
<1>7. \A c \in Off(w) : LetAlone(chord, c) => LetAlone(n, c)
  BY <1>1
<1> QED BY <1>1, <1>4, <1>5, <1>6, <1>7

\* What is owed the pad goes on holding off, and sends none of it.
LEMMA FrameOwed ==
  ASSUME IInv, NEW w \in WorldT, NEW u, NEW t, Framed(w, u, t), Stepped(w, t, FALSE)
  PROVE  Rests' /\ OwedHeld' /\ past'.owed \cap t.pad.sent = {}
<1>0. Same(w, u, t)
  BY FramedParts
<1>1. Updated(w, u)
  BY DEF Framed
<1>2. /\ t.world = w /\ t.chord = u.chord /\ t.toggle = u.toggle
      /\ t.pad.attached = u.pad.attached /\ t.pad.resting = u.pad.resting
      /\ t.pad.held = u.pad.held /\ t.pad.sent = u.pad.sent
      /\ PartsSteps(chord, u.chord, u.chord.parts, Off(w) \cap u.chord.parts)
  BY <1>0 DEF Same
<1> DEFINE n == u.chord
           got == Maps(u)
<1>3. /\ ~u.pad.attached => u.pad.resting
      /\ u.pad.resting => u.pad.sent = {}
      /\ ~u.pad.resting => /\ u.pad.held = (IF pad.resting THEN got ELSE pad.held) \cap got
                           /\ u.pad.sent = got \ u.pad.held
      /\ toggle.menuTaken /\ "menu" \in Off(w) => u.toggle.menuTaken
      /\ u.world = w
  BY <1>1 DEF Updated
<1>4. Recorded(w, t, past')
  BY <1>2, RecordDoes
<1>5. /\ Forms(n) /\ Back(n) \subseteq n.parts /\ n.stirred = Off(w) \cap n.parts
      /\ \A c \in Off(w) : LetAlone(chord, c) => LetAlone(n, c)
  BY <1>2, FrameChord DEF IInv
<1>7. \A c \in Off(w) : c \notin Back(n) => c \in got \/ (c = "menu" /\ u.toggle.menuTaken)
  BY <1>3 DEF Maps, SeenOff
<1>8. u.toggle.menuTaken => "menu" \notin got
  BY DEF Maps
<1>9. Live(pad) <=> ~pad.resting
  BY DEF IInv, Rests, Live
<1>10. Live(t.pad) <=> ~u.pad.resting
  BY <1>2, <1>3 DEF Live
<1>11. pad' = t.pad /\ toggle' = t.toggle /\ chord' = t.chord
  BY DEF Stepped
<1>12. ASSUME ~u.pad.resting, NEW c \in past'.owed
       PROVE  LetAlone(n, c) /\ (c \in u.pad.held \/ (c = "menu" /\ u.toggle.menuTaken))
  <2>1. c \in Off(w) /\ (IF Live(pad) THEN c \in past.owed ELSE c \notin Back(n))
    BY <1>2, <1>4, <1>10, <1>12 DEF Recorded
  <2>2. CASE pad.resting
    <3>1. LetAlone(n, c)
      BY <1>5, <1>9, <2>1, <2>2 DEF LetAlone
    <3> QED BY <1>3, <1>7, <1>9, <1>12, <2>1, <2>2, <3>1
  <2>3. CASE ~pad.resting
    <3>1. LetAlone(chord, c) /\ (c \in pad.held \/ (c = "menu" /\ toggle.menuTaken))
      BY <1>9, <2>1, <2>3 DEF IInv, OwedHeld
    <3>2. LetAlone(n, c)
      BY <1>5, <2>1, <3>1
    <3>3. c \in got \/ (c = "menu" /\ u.toggle.menuTaken)
      BY <1>7, <2>1, <3>2 DEF LetAlone
    <3> QED BY <1>3, <1>12, <2>1, <2>3, <3>1, <3>2, <3>3
  <2> QED BY <2>2, <2>3
<1>13. Rests'
  BY <1>2, <1>3, <1>11 DEF Rests
<1>14. OwedHeld'
  BY <1>2, <1>11, <1>12 DEF OwedHeld
<1>15. past'.owed \cap t.pad.sent = {}
  BY <1>2, <1>3, <1>8, <1>12
<1> QED BY <1>13, <1>14, <1>15

\* What made the shortcut stays the chord's, and is not sent either.
LEMMA FrameSwitch ==
  ASSUME IInv, NEW w \in WorldT, NEW u, NEW t, Framed(w, u, t), Stepped(w, t, FALSE)
  PROVE  SwitchTaken' /\ past'.switch \cap t.pad.sent = {}
<1>0. Same(w, u, t)
  BY FramedParts
<1>1. Updated(w, u)
  BY DEF Framed
<1>2. /\ t.world = w /\ t.chord = u.chord /\ t.toggle = u.toggle
      /\ t.pad.resting = u.pad.resting /\ t.pad.sent = u.pad.sent
      /\ PartsSteps(chord, u.chord, u.chord.parts, Off(w) \cap u.chord.parts)
  BY <1>0 DEF Same
<1> DEFINE n == u.chord
<1>3. Recorded(w, t, past')
  BY <1>2, RecordDoes
<1>4. /\ n.parts = chord.parts => chord.taken \cap Off(w) \subseteq n.taken
      /\ Fires(chord, n) => n.taken = n.stirred
      /\ n.replay \cap n.taken = {}
  BY <1>2, FrameChord DEF IInv
<1>5. ASSUME NEW c \in past'.switch
      PROVE  IF c = "menu" THEN u.toggle.menuTaken ELSE c \in n.taken
  <2>1. CASE c = "menu"
    BY <1>2, <1>3, <2>1 DEF Recorded
  <2>2. CASE c # "menu" /\ Fires(chord, n) /\ c \in n.stirred
    BY <1>4, <2>2
  <2>3. CASE c # "menu" /\ c \in past.switch /\ c \notin Lost(t) /\ c \in Off(w)
    <3>1. c \in chord.taken
      BY <2>3 DEF IInv, SwitchTaken
    <3>2. n.parts = chord.parts
      BY <1>2, <2>3, <3>1 DEF Lost
    <3> QED BY <1>4, <2>3, <3>1, <3>2
  <2> QED BY <1>2, <1>3, <2>1, <2>2, <2>3 DEF Recorded
<1>6. pad' = t.pad /\ toggle' = t.toggle /\ chord' = t.chord
  BY DEF Stepped
<1>7. SwitchTaken'
  BY <1>2, <1>5, <1>6 DEF SwitchTaken
<1>8. \A c \in u.pad.sent : c \in Maps(u)
  BY <1>1 DEF Updated
<1>9. \A c \in Maps(u) : c \notin n.taken /\ ~(c = "menu" /\ u.toggle.menuTaken)
  BY <1>4 DEF Maps, SeenOff, Back
<1>10. past'.switch \cap t.pad.sent = {}
  BY <1>2, <1>5, <1>8, <1>9
<1> QED BY <1>7, <1>10

\* A trigger still down from before the mode went off stays swallowed, or the
\* chord's, and what the chord has taken reads as let go.
LEMMA FrameKept ==
  ASSUME IInv, NEW w \in WorldT, w.deep \subseteq w.off, NEW u, NEW t,
         Framed(w, u, t), Stepped(w, t, FALSE)
  PROVE  Forms(chord)' /\ KeptSwallowed' /\ TakenIdle'
<1>0. Same(w, u, t)
  BY FramedParts
<1>1. Updated(w, u)
  BY DEF Framed
<1> DEFINE n == u.chord
<1>2. /\ t.world = w /\ t.chord = n /\ u.world = w
      /\ PartsSteps(chord, u.chord, u.chord.parts, Off(w) \cap u.chord.parts)
  BY <1>0 DEF Same
<1>3. Recorded(w, t, past')
  BY <1>2, RecordDoes
<1>4. /\ Forms(n) /\ Back(n) \subseteq n.parts
      /\ n.parts = chord.parts => chord.taken \cap Off(w) \subseteq n.taken
      /\ Fires(chord, n) => n.taken = n.stirred
      /\ n.stirred = Off(w) \cap n.parts
      /\ n.replay \cap n.taken = {}
      /\ \A c \in Off(w) : LetAlone(chord, c) => LetAlone(n, c)
  BY <1>2, FrameChord DEF IInv
<1>5. /\ n.parts # {} => w.held = Hands
      /\ \/ /\ u.pad.mode = pad.mode
            /\ u.point.down = point.down /\ u.point.swallowed = point.swallowed
         \/ /\ u.pad.mode = ~pad.mode /\ (Fires(chord, n) \/ n.parts = {})
            /\ u.pad.mode => u.point.down = point.down /\ u.point.swallowed = point.swallowed
            /\ ~u.pad.mode => /\ u.point.down = point.down \cup Still(w)
                              /\ u.point.swallowed = point.swallowed \cup Still(w)
  BY <1>1 DEF Updated
<1>6. /\ pad' = t.pad /\ chord' = n /\ point' = t.point /\ prefs' = prefs
  BY <1>2 DEF Stepped
<1>7. \A c : c \notin n.parts => LetAlone(n, c)
  BY <1>4 DEF LetAlone
<1>8. \A h \in Reads(u) : Trigger(h) \notin n.taken
  BY <1>4 DEF Reads, SeenDeep, Back
<1>9. \/ /\ ~prefs.pointer /\ t.pad.mode = u.pad.mode
         /\ t.point.down = u.point.down /\ t.point.swallowed = u.point.swallowed
      \/ /\ prefs.pointer /\ (t.pad.mode \/ ~u.pad.mode)
         /\ t.point.down = Reads(u)
         /\ u.point.swallowed \cap Reads(u) \subseteq t.point.swallowed
      \/ /\ prefs.pointer /\ ~t.pad.mode /\ w.held # Hands
         /\ t.point.down = Reads(u) \cup Still(w) /\ Still(w) \subseteq t.point.swallowed
  <2>1. CASE prefs.pointer
    <3>1. Passed(u, t)
      BY <2>1 DEF Framed
    <3> QED BY <1>2, <2>1, <3>1 DEF Passed
  <2>2. CASE ~prefs.pointer
    <3>1. Aside(u, t)
      BY <2>2 DEF Framed
    <3> QED BY <2>2, <3>1 DEF Aside
  <2> QED BY <2>1, <2>2
<1>10. ASSUME NEW h \in t.point.down \ t.point.swallowed
       PROVE  prefs.pointer /\ Trigger(h) \notin n.taken
  <2>1. CASE ~prefs.pointer
    <3>1. h \in u.point.down \ u.point.swallowed
      BY <1>9, <2>1
    <3>2. h \in point.down \ point.swallowed
      BY <1>5, <3>1
    <3> QED BY <2>1, <3>2 DEF IInv, TakenIdle
  <2>2. CASE prefs.pointer
    <3>1. h \in Reads(u)
      BY <1>9, <2>2
    <3> QED BY <1>8, <2>2, <3>1
  <2> QED BY <2>1, <2>2
<1>11. ASSUME ~t.pad.mode, NEW h \in Hands, Trigger(h) \in past'.kept, Trigger(h) \notin n.taken
       PROVE  LetAlone(n, Trigger(h)) /\ h \in t.point.swallowed
  <2> DEFINE x == Trigger(h)
  <2>1. /\ x \in w.deep /\ HandOf(x) \in w.held /\ x \notin Lost(t)
        /\ pad.mode \/ x \in past.kept
    BY <1>3, <1>11 DEF Recorded
  <2>2. HandOf(x) = h
    BY ControlOf
  <2> HIDE DEF x
  <2>3. h \in Still(w) /\ x \in Off(w)
    BY <2>1, <2>2 DEF Still, Off, Read, x
  <2>4. CASE w.held # Hands /\ Still(w) \subseteq t.point.swallowed
    BY <1>5, <1>7, <2>3, <2>4 DEF x
  <2>5. CASE ~(w.held # Hands /\ Still(w) \subseteq t.point.swallowed)
    <3>1. ~u.pad.mode
      BY <1>9, <1>11, <2>5
    <3>2. LetAlone(n, x) /\ h \in u.point.swallowed
      <4>1. CASE pad.mode
        <5>1. Fires(chord, n) \/ n.parts = {}
          BY <1>5, <3>1, <4>1
        <5>2. h \in u.point.swallowed
          BY <1>5, <2>3, <3>1, <4>1
        <5>3. x \notin n.parts
          BY <1>4, <1>11, <2>3, <5>1 DEF x
        <5> QED BY <1>7, <5>2, <5>3
      <4>2. CASE ~pad.mode
        <5>1. u.point.swallowed = point.swallowed
          BY <1>5, <3>1, <4>2
        <5>2. \/ x \in chord.taken
              \/ LetAlone(chord, x) /\ h \in point.swallowed
          BY <2>1, <4>2 DEF IInv, KeptSwallowed, x
        <5>3. x \notin chord.taken
          <6>1. SUFFICES ASSUME x \in chord.taken PROVE FALSE
            OBVIOUS
          <6>2. n.parts = chord.parts
            BY <1>2, <2>1, <6>1 DEF Lost
          <6> QED BY <1>4, <1>11, <2>3, <6>1, <6>2 DEF x
        <5> QED BY <1>4, <2>3, <5>1, <5>2, <5>3
      <4> QED BY <4>1, <4>2
    <3>3. h \in Reads(u)
      BY <1>2, <2>1, <3>1, <3>2 DEF Reads, SeenDeep, LetAlone, x
    <3> QED BY <1>9, <2>5, <3>2, <3>3 DEF x
  <2> QED BY <2>4, <2>5
<1>12. TakenIdle'
  BY <1>6, <1>10 DEF TakenIdle
<1>13. KeptSwallowed'
  BY <1>6, <1>11 DEF KeptSwallowed
<1>14. Forms(chord)'
  BY <1>4, <1>6 DEF Forms
<1> QED BY <1>12, <1>13, <1>14

LEMMA ReadFrameKeeps ==
  ASSUME IInv, NEW w \in WorldT, w.deep \subseteq w.off, NEW on \in Aims, Step(w, on, FALSE)
  PROVE  IInv'
<1> DEFINE f == ReadFrame([State EXCEPT !.world = w], on)
<1>1. PICK t : t = f /\ Stepped(w, t, FALSE)
  BY DEF Step, Stepped
<1>2. PICK u : Framed(w, u, f)
  BY ReadFrameDoes
<1> HIDE DEF f
<1>3. Framed(w, u, t)
  BY <1>1, <1>2
<1>4. Same(w, u, t)
  BY <1>3, FramedParts
<1>5. t \in StateT /\ PadTypeOK /\ Rumbles
  BY <1>4 DEF Same, IInv
<1>6. PadTypeOK' /\ Pulled'
  BY <1>1, <1>5, SteppedTyped
<1>7. Rumbles'
  BY <1>1, <1>5, SteppedRumbles
<1>8. Rests' /\ OwedHeld' /\ past'.owed \cap t.pad.sent = {}
  BY <1>1, <1>3, FrameOwed
<1>9. SwitchTaken' /\ past'.switch \cap t.pad.sent = {}
  BY <1>1, <1>3, FrameSwitch
<1>10. Forms(chord)' /\ KeptSwallowed' /\ TakenIdle'
  BY <1>1, <1>3, FrameKept
<1>11. PressesStayOut'
  <2>1. pad' = t.pad
    BY <1>1 DEF Stepped
  <2> QED BY <1>8, <1>9, <2>1 DEF PressesStayOut
<1> QED BY <1>6, <1>7, <1>8, <1>9, <1>10, <1>11 DEF IInv

-----------------------------------------------------------------------------
(* A frame that reads nothing                                               *)

Rested(t) ==
  /\ t \in StateT /\ t.world = world /\ t.chord = ChordReset(chord.parts) /\ t.toggle = AtRest
  /\ t.pad.mode = pad.mode /\ t.pad.resting /\ t.pad.sent = {}
  /\ t.point.down = point.down /\ t.point.swallowed = point.swallowed

LEMMA BlindFrameDoes ==
  ASSUME PadTypeOK
  PROVE  Rested(BlindFrame([State EXCEPT !.world = world]))
<1> DEFINE s == [State EXCEPT !.world = world]
           b == [s EXCEPT !.point.button = FALSE]
           c == ChordReset(b.chord.parts)
           r == [b EXCEPT !.toggle = AtRest, !.chord = c]
           t == Settle(r, FALSE, {})
<1>1. Begins(world, b)
  BY Types, BeginsHere
<1>2. BlindFrame(s) = t
  BY DEF BlindFrame, RestPad
<1> HIDE DEF s, b
<1>3. c \in ChordT /\ c = ChordReset(chord.parts)
  <2>1. chord.parts \in SUBSET Controls /\ b.chord = chord
    BY <1>1, Types DEF ChordT, Begins
  <2> QED BY <2>1, ResetForms
<1>4. AtRest \in ToggleT
  BY Numbers DEF AtRest, ToggleT
<1> HIDE DEF c
<1>5. /\ r \in StateT /\ r.world = world /\ r.toggle = AtRest /\ r.chord = c /\ r.pad = pad
      /\ r.point.down = point.down /\ r.point.swallowed = point.swallowed
  BY <1>1, <1>3, <1>4 DEF Begins, StateT
<1> HIDE DEF r
<1>6. Settles(r, t, {}) /\ t.pad.resting
  BY <1>5, SettleDoes
<1> HIDE DEF t
<1>7. Rested(t)
  BY <1>3, <1>5, <1>6 DEF Settles, Rested
<1> QED BY <1>2, <1>7 DEF s

LEMMA BlindFrameKeeps ==
  ASSUME IInv, NothingRead
  PROVE  IInv'
<1> DEFINE f == BlindFrame([State EXCEPT !.world = world])
<1>1. PICK t : t = f /\ Stepped(world, t, TRUE)
  BY DEF NothingRead, Step, Stepped
<1>2. PadTypeOK /\ Pulled /\ Rumbles
  BY DEF IInv
<1>3. Rested(f)
  BY <1>2, BlindFrameDoes
<1> HIDE DEF f
<1>4. /\ t \in StateT /\ t.world = world /\ t.chord = ChordReset(chord.parts) /\ t.toggle = AtRest
      /\ t.pad.mode = pad.mode /\ t.pad.resting /\ t.pad.sent = {}
      /\ t.point.down = point.down /\ t.point.swallowed = point.swallowed
  BY <1>1, <1>3 DEF Rested
<1>5. PadTypeOK' /\ Pulled'
  <2>1. world \in WorldT /\ world.deep \subseteq world.off
    BY <1>2, Types DEF Pulled
  <2> QED BY <1>1, <1>2, <1>4, <2>1, SteppedTyped
<1>6. Rumbles'
  BY <1>1, <1>2, SteppedRumbles
<1> DEFINE n == ChordReset(chord.parts)
<1>7. Forms(n) /\ n.spent /\ Back(n) = {} /\ n.taken = {}
  <2>1. chord.parts \in SUBSET Controls
    BY <1>2, Types DEF ChordT
  <2> QED BY <2>1, ResetForms
<1> HIDE DEF n
<1>8. /\ pad' = t.pad /\ toggle' = AtRest /\ chord' = n /\ point' = t.point /\ prefs' = prefs
  BY <1>1, <1>4 DEF Stepped, n
<1>9. Rests' /\ OwedHeld' /\ PressesStayOut'
  BY <1>4, <1>8 DEF Rests, OwedHeld, PressesStayOut
<1>10. past'.switch = {}
  <2>1. ~Fires(chord, t.chord)
    BY <1>4, <1>7 DEF Fires, n
  <2>2. ~t.toggle.menuTaken
    BY <1>4 DEF AtRest
  <2>3. past'.switch \subseteq past.switch \ (chord.taken \cup {"menu"})
    BY <1>1, <2>1, <2>2 DEF Stepped, Record
  <2>4. past.switch \subseteq chord.taken \cup {"menu"}
    BY DEF IInv, SwitchTaken
  <2> QED BY <2>3, <2>4
<1>11. SwitchTaken'
  BY <1>10 DEF SwitchTaken
<1>12. KeptSwallowed'
  <2>1. past'.kept \subseteq past.kept \ chord.taken
    BY <1>1, <1>4 DEF Stepped, Record, Read
  <2>2. \A x : LetAlone(n, x)
    BY <1>7 DEF LetAlone
  <2>3. ASSUME ~t.pad.mode, NEW h \in Hands, Trigger(h) \in past'.kept
        PROVE  LetAlone(n, Trigger(h)) /\ h \in t.point.swallowed
    BY <1>4, <2>1, <2>2, <2>3 DEF IInv, KeptSwallowed
  <2> QED BY <1>8, <2>3 DEF KeptSwallowed
<1>13. TakenIdle'
  BY <1>4, <1>7, <1>8 DEF IInv, TakenIdle
<1>14. Forms(chord)'
  BY <1>7, <1>8 DEF Forms
<1> QED BY <1>5, <1>6, <1>9, <1>11, <1>12, <1>13, <1>14 DEF IInv

-----------------------------------------------------------------------------
(* The host's word between two frames                                       *)

LEMMA HostRumblesKeeps ==
  ASSUME IInv, HostRumbles
  PROVE  IInv'
<1>1. PICK want \in BOOLEAN : rumble' = [rumble EXCEPT !.want = want]
  BY DEF HostRumbles
<1>2. past' = [past EXCEPT !.stale = FALSE]
  BY DEF HostRumbles
<1>3. UNCHANGED <<prefs, world, pad, toggle, chord, point>>
  BY DEF HostRumbles
<1>4. PadTypeOK
  BY DEF IInv
<1>5. rumble' \in [want : BOOLEAN, given : SUBSET Hands] /\ rumble'.given = rumble.given
  BY <1>1, <1>4, Types
<1>6. /\ past' \in PastT /\ past'.owed = past.owed /\ past'.switch = past.switch
      /\ past'.kept = past.kept /\ ~past'.stale
  BY <1>2, <1>4, Types DEF PastT
<1>7. PadTypeOK'
  BY <1>3, <1>4, <1>5, <1>6 DEF PadTypeOK, PastT
<1>8. Rumbles'
  BY <1>3, <1>5, <1>6 DEF IInv, Rumbles
<1>9. OwedHeld' /\ SwitchTaken' /\ PressesStayOut' /\ KeptSwallowed'
  BY <1>3, <1>6 DEF IInv, OwedHeld, SwitchTaken, PressesStayOut, KeptSwallowed
<1>10. Pulled' /\ Rests' /\ Forms(chord)' /\ TakenIdle'
  BY <1>3 DEF IInv, Pulled, Rests, Forms, TakenIdle
<1> QED BY <1>7, <1>8, <1>9, <1>10 DEF IInv

-----------------------------------------------------------------------------
(* The theorems                                                             *)

LEMMA Start == Init => IInv
<1> SUFFICES ASSUME Init PROVE IInv
  OBVIOUS
<1>1. PadTypeOK
  <2>1. AtRest \in ToggleT
    BY Numbers DEF AtRest, ToggleT
  <2>2. ChordReset({}) \in ChordT
    BY ResetForms
  <2> QED BY <2>1, <2>2, Types DEF Init, WorldT, PadT, PointT, PastT
<1>2. Forms(chord)
  BY ResetForms DEF Init
<1> QED BY <1>1, <1>2 DEF Init, IInv, Pulled, Rests, Rumbles, OwedHeld, SwitchTaken,
           PressesStayOut, KeptSwallowed, TakenIdle

LEMMA Keep == IInv /\ [Next]_vars => IInv'
<1> SUFFICES ASSUME IInv, [Next]_vars PROVE IInv'
  OBVIOUS
<1>1. world \in WorldT /\ world.deep \subseteq world.off /\ prefs.shortcut \in Shortcuts
  BY Types DEF IInv, Pulled
<1>2. CASE ControlsMove
  <2>1. PICK off \in SUBSET Watched[prefs.shortcut], on \in Aims :
               \E shallow \in SUBSET (off \cap Light) :
                  Step([world EXCEPT !.off = off, !.deep = off \ shallow], on, FALSE)
    BY <1>2 DEF ControlsMove
  <2>2. PICK shallow \in SUBSET (off \cap Light) :
               Step([world EXCEPT !.off = off, !.deep = off \ shallow], on, FALSE)
    BY <2>1
  <2> DEFINE w == [world EXCEPT !.off = off, !.deep = off \ shallow]
  <2>3. off \in SUBSET Controls
    BY <1>1, PadAssumption
  <2>4. w \in WorldT /\ w.deep \subseteq w.off
    BY <1>1, <2>3 DEF WorldT
  <2> HIDE DEF w
  <2>5. Step(w, on, FALSE)
    BY <2>2 DEF w
  <2> QED BY <2>4, <2>5, ReadFrameKeeps
<1>3. CASE HandsChange
  <2>1. PICK held \in SUBSET Hands : Step([world EXCEPT !.held = held], "screen", FALSE)
    <3>1. PICK h \in Hands :
                 LET held == IF h \in world.held THEN world.held \ {h} ELSE world.held \cup {h}
                 IN  Step([world EXCEPT !.held = held], "screen", FALSE)
      BY <1>3 DEF HandsChange
    <3> DEFINE held == IF h \in world.held THEN world.held \ {h} ELSE world.held \cup {h}
    <3>2. held \in SUBSET Hands
      BY <1>1 DEF WorldT
    <3>3. Step([world EXCEPT !.held = held], "screen", FALSE)
      BY <3>1
    <3> HIDE DEF held
    <3> QED BY <3>2, <3>3
  <2> DEFINE w == [world EXCEPT !.held = held]
  <2>2. w \in WorldT /\ w.deep \subseteq w.off
    BY <1>1 DEF WorldT
  <2>3. "screen" \in Aims
    BY DEF Aims
  <2> HIDE DEF w
  <2>4. Step(w, "screen", FALSE)
    BY <2>1 DEF w
  <2> QED BY <2>2, <2>3, <2>4, ReadFrameKeeps
<1>4. CASE NothingRead
  BY <1>4, BlindFrameKeeps
<1>5. CASE HostRumbles
  BY <1>5, HostRumblesKeeps
<1>6. CASE UNCHANGED vars
  BY <1>6 DEF vars, IInv, PadTypeOK, Pulled, Rests, Rumbles, Forms, OwedHeld, SwitchTaken,
              PressesStayOut, KeptSwallowed, TakenIdle
<1> QED BY <1>2, <1>3, <1>4, <1>5, <1>6 DEF Next

\* In every frame the chord takes only controls that came off rest together,
\* what is owed is held off, and what was kept is swallowed (padChordStep,
\* padHoldBack, setPadMode).
THEOREM PadInvariant == Spec => []IInv
<1> QED BY Start, Keep, PTL DEF Spec

\* The pad that is out or at rest sends nothing, and a controller vibrates only
\* as the pad's, at a word the host gave since the pad last came out
\* (settlePad, updateRumble).
THEOREM PadIsSound == Spec => []PadInv
<1>1. IInv => PadInv
  <2> SUFFICES ASSUME IInv PROVE PadInv
    OBVIOUS
  <2>1. ~Live(pad) => pad.sent = {}
    BY DEF IInv, Rests, Live
  <2> QED BY <2>1 DEF IInv, Rumbles, PadInv
<1> QED BY <1>1, PadInvariant, PTL

\* A press made while the pad was not live, and the press that made the shortcut,
\* are never sent to the game before they are let go (settlePad, padHoldBack,
\* padChordApply).
THEOREM PressesAreKeptOut == Spec => []PressesStayOut
<1>1. IInv => PressesStayOut
  BY DEF IInv
<1> QED BY <1>1, PadInvariant, PTL

\* A trigger still held as the mode goes off, and one that made the shortcut,
\* never counts as a press of the pointer's before it is let go (setPadMode,
\* seenTrigger).
THEOREM TheSwitchNeverClicks == Spec => []NoSwitchClicks
<1>1. IInv => NoSwitchClicks
  <2> SUFFICES ASSUME IInv, NEW h \in point.down \ point.swallowed, ~pad.mode
               PROVE  Trigger(h) \notin past.kept \cup past.switch
    BY DEF NoSwitchClicks
  <2>1. h \in Hands /\ Trigger(h) # "menu"
    BY Types, ControlOf DEF IInv, PointT
  <2>2. Trigger(h) \notin chord.taken
    BY DEF IInv, TakenIdle
  <2>3. Trigger(h) \notin past.kept
    BY <2>1, <2>2 DEF IInv, KeptSwallowed
  <2>4. Trigger(h) \notin past.switch
    BY <2>1, <2>2 DEF IInv, SwitchTaken
  <2> QED BY <2>3, <2>4
<1> QED BY <1>1, PadInvariant, PTL
=============================================================================
