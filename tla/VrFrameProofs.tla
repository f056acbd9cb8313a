--------------------------- MODULE VrFrameProofs ---------------------------
(***************************************************************************)
(* The safety of what a frame of the VR renderer is made of: the pointer   *)
(* pass (XrInput), the layers and fades (FrameLayers) and the room behind  *)
(* them (RoomLoader).  The three are proved apart, each from an inductive  *)
(* invariant of its own; XrInput and FrameLayers share the panels.         *)
(*                                                                         *)
(* The pass is a chain of stages over one record.  InputInv says what      *)
(* holds of it between frames, Sound what holds between stages, and each   *)
(* stage has a lemma: the stages ahead of the panels only take presses     *)
(* away (Tightened), a panel only writes what a panel may and keeps the    *)
(* press that closes it (Panelled), and what follows takes hold of the     *)
(* screen or presses the host's button on what is left (Passed).           *)
(*                                                                         *)
(* LayersInv follows the fades, the splash and the 3D switch; what a frame *)
(* may be made of comes from a lemma on each builder of layers.            *)
(***************************************************************************)
EXTENDS XrInput, FrameLayers, RoomLoader, FiniteSetTheorems, SequenceTheorems, TLAPS

-----------------------------------------------------------------------------
(* The pointer pass.                                                         *)

(* At most one panel claims the ray. *)
AtMostOne(s) == \A p, q \in Modal(s) : p = q

(* What holds of the record between any two stages of a pass. *)
Sound(s) ==
    /\ s \in CtxType /\ AtMostOne(s) /\ s.edge \subseteq s.down
    /\ s.drag # Nobody => "cog" \in s.open
    /\ s.mods => "report" \notin s.open
    /\ "hint" \in s.open => s.hintShown /\ ~s.locked

(* And between two passes: a press that put a panel away is swallowed, and  *)
(* what a pass did needed a press that is still there.                      *)
InputInv ==
    /\ Sound(ctx)
    /\ ctx.grab # Nobody \/ ~ctx.on => ~ctx.button
    /\ ctx.mods => "kb" \in ctx.open
    /\ closers \subseteq ctx.swallowed
    /\ ctx.button => ctx.down \ ctx.swallowed # {}
    /\ ctx.out.key \/ ctx.out.exit => ctx.down # {}
    /\ ctx.locked => ctx.down \cap Tracked = {}
    /\ ctx.drag # Nobody => ctx.drag \in ctx.down

-----------------------------------------------------------------------------
LEMMA SilentType == Silent \in OutType
BY DEF Silent, OutType

LEMMA HandsAre == Tracked \subseteq Hands /\ Nobody \notin Hands /\ Nobody \in Someone /\ Hands \subseteq Someone
BY InputAssumption DEF Tracked, Someone

LEMMA SilentSays == Silent.key = FALSE /\ Silent.exit = FALSE
BY DEF Silent

(* The right hand first: of no hands nobody, else one of them. *)
LEMMA FirstOf ==
  ASSUME NEW H \in SUBSET Hands
  PROVE  /\ First(H) \in Someone
         /\ First(H) = Nobody => H = {}
         /\ First(H) # Nobody => First(H) \in H
BY HandsAre DEF First, Hands, Someone

LEMMA PointsAtOf ==
  ASSUME NEW s, NEW places
  PROVE  /\ PointsAt(s, places) \in Someone
         /\ PointsAt(s, places) # Nobody =>
                /\ PointsAt(s, places) \in s.valid /\ s.at[PointsAt(s, places)] \in places
                /\ PointsAt(s, places) \in Hands
<1> DEFINE H == {h \in Hands : CanPoint(s, h) /\ s.at[h] \in places}
<1>1. H \in SUBSET Hands
  OBVIOUS
<1>2. /\ First(H) \in Someone
      /\ First(H) # Nobody => First(H) \in H
  BY ONLY <1>1, FirstOf
<1>3. ASSUME First(H) # Nobody PROVE First(H) \in Hands /\ CanPoint(s, First(H)) /\ s.at[First(H)] \in places
  <2>1. First(H) \in H
    BY <1>2, <1>3
  <2> QED BY <2>1
<1> QED BY <1>2, <1>3 DEF PointsAt, CanPoint

LEMMA NowhereType == Nowhere \in [Hands -> Places]
BY DEF Nowhere, Places

(* What is said in a slot is said, and the others are as they were. *)
LEMMA SayType ==
  ASSUME NEW s \in CtxType, NEW slot \in {"pick", "pose", "key", "exit"}
  PROVE  /\ Say(s, slot) \in CtxType
         /\ [s.out EXCEPT ![slot] = TRUE] \in OutType
         /\ Say(s, slot) = [s EXCEPT !.out = [s.out EXCEPT ![slot] = TRUE]]
<1>1. s.out \in OutType
  BY DEF CtxType
<1>2. [s.out EXCEPT ![slot] = TRUE] \in OutType
  BY <1>1 DEF OutType
<1>3. Say(s, slot) = [s EXCEPT !.out = [s.out EXCEPT ![slot] = TRUE]]
  BY DEF Say, CtxType
<1> QED BY <1>2, <1>3 DEF CtxType

LEMMA WriteType ==
  ASSUME NEW s \in CtxType, NEW how \in {"dragged", "pressed"}
  PROVE  /\ Write(s, how) \in CtxType
         /\ [s.out EXCEPT !.setting = how] \in OutType
         /\ Write(s, how) = [s EXCEPT !.out = [s.out EXCEPT !.setting = how]]
<1>1. s.out \in OutType
  BY DEF CtxType
<1>2. [s.out EXCEPT !.setting = how] \in OutType
  BY <1>1 DEF OutType
<1>3. Write(s, how) = [s EXCEPT !.out = [s.out EXCEPT !.setting = how]]
  BY DEF Write, CtxType
<1> QED BY <1>2, <1>3 DEF CtxType

LEMMA Initially == Init => InputInv
<1> SUFFICES ASSUME Init PROVE InputInv
  OBVIOUS
<1>1. ctx \in CtxType
  BY HandsAre, NowhereType, SilentType DEF Init, CtxType, Panels, Modals
<1>2. Sound(ctx)
  BY <1>1 DEF Init, Sound, AtMostOne, Modal
<1> QED BY <1>2 DEF Init, InputInv, Silent

-----------------------------------------------------------------------------
(* What the stages ahead of the panels may do on the way from s to t: a     *)
(* press is given up but never made, and a hold is ended but never taken.   *)
Tightened(s, t) ==
    /\ t \in CtxType
    /\ t.down \subseteq s.down
    /\ s.edge \subseteq s.down => t.edge \subseteq t.down
    /\ s.swallowed \cap t.down \subseteq t.swallowed
    /\ t.edge \subseteq s.edge
    /\ t.drag = s.drag /\ t.placing = s.placing /\ t.mods = s.mods /\ t.out = s.out
    /\ s.hintShown => t.hintShown
    /\ t.button => s.button
    /\ s.dirty => t.dirty
    /\ t.grab = s.grab \/ (t.grab = Nobody /\ t.dirty)

(* The lock as it was, or turned with the hint put away. *)
Turned(s, t) ==
    \/ t.locked = s.locked /\ t.open = s.open
    \/ t.locked = ~s.locked /\ t.open = s.open \ {"hint"}

(* A locked hand has no ray, no press and nothing it is on. *)
Shut(s) ==
    s.locked => /\ Tracked \cap s.down = {} /\ Tracked \cap s.valid = {}
                /\ \A h \in Tracked : s.at[h] = "none"

LEMMA TightenedOn ==
  ASSUME NEW r, NEW s, NEW t, Tightened(r, s), Tightened(s, t)
  PROVE  Tightened(r, t)
BY DEF Tightened

LEMMA LetGoStep ==
  ASSUME NEW s \in CtxType
  PROVE  /\ Tightened(s, LetGo(s)) /\ LetGo(s).grab = Nobody
         /\ LetGo(s).open = s.open /\ LetGo(s).locked = s.locked
<1> DEFINE u == [s EXCEPT !.grab = Nobody, !.byTrigger = FALSE, !.dirty = TRUE]
<1>1. u \in CtxType
  BY HandsAre DEF CtxType
<1>2. /\ u.grab = Nobody /\ u.dirty /\ u.open = s.open /\ u.locked = s.locked
      /\ u.down = s.down /\ u.edge = s.edge /\ u.swallowed = s.swallowed /\ u.drag = s.drag /\ u.placing = s.placing
      /\ u.mods = s.mods /\ u.out = s.out /\ u.hintShown = s.hintShown /\ u.button = s.button
  BY DEF CtxType
<1>3. LetGo(s) = IF s.grab = Nobody THEN s ELSE u
  BY DEF LetGo
<1> HIDE DEF u
<1> QED BY <1>1, <1>2, <1>3 DEF Tightened

LEMMA ReadSourcesStep ==
  ASSUME NEW i, i.at \in [Hands -> Places \cup {"lost"}], Sound(ctx)
  PROVE  /\ ReadSources(i) \in CtxType
         /\ ReadSources(i).edge \subseteq ReadSources(i).down
         /\ ReadSources(i).open = ctx.open /\ ReadSources(i).locked = ctx.locked
         /\ ReadSources(i).swallowed = ctx.swallowed /\ ReadSources(i).drag = ctx.drag
         /\ ReadSources(i).mods = ctx.mods /\ ReadSources(i).hintShown = ctx.hintShown
         /\ ReadSources(i).button = ctx.button /\ ReadSources(i).grab = ctx.grab
         /\ ReadSources(i).out = Silent /\ ReadSources(i).placing = ctx.placing
         /\ ReadSources(i).edge \cap ctx.down = {}
<1> DEFINE down == {h \in Hands : i.press[h] = "trigger"}
           at == [h \in Hands |-> IF i.at[h] = "lost" THEN "none" ELSE i.at[h]]
<1>1. at \in [Hands -> Places]
  BY DEF Places
<1>2. ReadSources(i) = [ctx EXCEPT !.down = down, !.edge = down \ ctx.down, !.out = Silent,
                                   !.chosen = FALSE, !.valid = {h \in Hands : i.at[h] # "lost"},
                                   !.at = at, !.on = IF i.event = "stick" THEN ~ctx.on ELSE ctx.on]
  BY DEF ReadSources
<1>3. down \subseteq Hands
  OBVIOUS
<1> DEFINE valid == {h \in Hands : i.at[h] # "lost"}
           on == IF i.event = "stick" THEN ~ctx.on ELSE ctx.on
<1>4. valid \subseteq Hands
  OBVIOUS
<1>5. on \in BOOLEAN
  BY DEF Sound, CtxType
<1>6. ctx \in CtxType
  BY DEF Sound
<1> HIDE DEF down, at, valid, on
<1>7. [ctx EXCEPT !.down = down, !.edge = down \ ctx.down, !.out = Silent, !.chosen = FALSE,
                  !.valid = valid, !.at = at, !.on = on] \in CtxType
  BY <1>1, <1>3, <1>4, <1>5, <1>6, SilentType DEF CtxType
<1>8. ReadSources(i) = [ctx EXCEPT !.down = down, !.edge = down \ ctx.down, !.out = Silent,
                                   !.chosen = FALSE, !.valid = valid, !.at = at, !.on = on]
  BY <1>2 DEF valid, on
<1>9. ReadSources(i) \in CtxType
  BY <1>7, <1>8
<1> QED BY <1>6, <1>8, <1>9 DEF CtxType

LEMMA LockStep ==
  ASSUME NEW s \in CtxType, NEW locked \in BOOLEAN
  PROVE  /\ Tightened(s, SetHandsLocked(s, locked))
         /\ SetHandsLocked(s, locked).open = s.open
         /\ SetHandsLocked(s, locked).locked = locked
<1> DEFINE u == LetGo(s)
           v == [u EXCEPT !.locked = TRUE, !.awake = FALSE, !.button = FALSE]
           w == [s EXCEPT !.locked = FALSE]
<1>1. Tightened(s, u) /\ u.open = s.open
  BY LetGoStep
<1>2. SetHandsLocked(s, locked) = IF locked THEN v ELSE w
  BY DEF SetHandsLocked
<1> HIDE DEF u
<1>3. u \in CtxType
  BY <1>1 DEF Tightened
<1>4. v \in CtxType /\ w \in CtxType
  BY <1>3 DEF CtxType
<1>5. Tightened(s, v) /\ v.open = s.open /\ v.locked = TRUE
  <2>1. /\ v.locked = TRUE /\ v.button = FALSE /\ v.open = u.open /\ v.grab = u.grab
        /\ v.down = u.down /\ v.edge = u.edge /\ v.swallowed = u.swallowed /\ v.drag = u.drag
        /\ v.placing = u.placing /\ v.mods = u.mods /\ v.out = u.out /\ v.hintShown = u.hintShown /\ v.dirty = u.dirty
    BY <1>3 DEF CtxType
  <2> HIDE DEF v
  <2> QED BY <1>1, <1>4, <2>1 DEF Tightened
<1>6. Tightened(s, w) /\ w.open = s.open /\ w.locked = FALSE
  <2>1. /\ w.locked = FALSE /\ w.button = s.button /\ w.open = s.open /\ w.grab = s.grab
        /\ w.down = s.down /\ w.edge = s.edge /\ w.swallowed = s.swallowed /\ w.drag = s.drag
        /\ w.placing = s.placing /\ w.mods = s.mods /\ w.out = s.out /\ w.hintShown = s.hintShown /\ w.dirty = s.dirty
    BY DEF CtxType
  <2> HIDE DEF w
  <2> QED BY <1>4, <2>1 DEF Tightened
<1> HIDE DEF v, w
<1> QED BY <1>2, <1>5, <1>6

LEMMA LockGestureStep ==
  ASSUME NEW s \in CtxType, NEW i
  PROVE  /\ Tightened(s, UpdateLockGesture(s, i))
         /\ Turned(s, UpdateLockGesture(s, i))
<1> DEFINE fresh == (s.down \cap Tracked) \ s.pinched
           third == IF i.event = "triple" THEN {First(fresh)} \ {Nobody} ELSE {}
           held  == (s.held \cap s.down) \cup third
           u     == SetHandsLocked(Close(s, "hint"), ~s.locked)
           t     == IF third = {} THEN s ELSE u
<1>1. UpdateLockGesture(s, i) = [t EXCEPT !.pinched = s.down \cap Tracked, !.held = held,
                                          !.down = @ \ held, !.edge = @ \ held]
  BY DEF UpdateLockGesture
<1>2. third \subseteq Tracked
  <2>1. fresh \in SUBSET Hands
    BY HandsAre
  <2>2. /\ First(fresh) # Nobody => First(fresh) \in fresh
    BY <2>1, FirstOf
  <2> QED BY <2>2
<1>3. held \subseteq Tracked
  BY <1>2 DEF CtxType
<1>4. /\ Tightened(s, u) /\ u.open = s.open \ {"hint"} /\ u.locked = ~s.locked
  <2>1. /\ Tightened(s, Close(s, "hint")) /\ Close(s, "hint").open = s.open \ {"hint"}
        /\ Close(s, "hint").locked = s.locked
    BY DEF Close, Tightened, CtxType
  <2>2. Close(s, "hint") \in CtxType
    BY <2>1 DEF Tightened
  <2>3. (~s.locked) \in BOOLEAN
    BY Zenon
  <2>4. /\ Tightened(Close(s, "hint"), u) /\ u.open = Close(s, "hint").open
        /\ u.locked = ~s.locked
    BY ONLY <2>2, <2>3, LockStep
  <2> QED BY <2>1, <2>4, TightenedOn
<1>5. Tightened(s, s)
  BY DEF Tightened
<1>6. Tightened(s, t) /\ Turned(s, t)
  BY <1>4, <1>5 DEF Turned
<1> HIDE DEF held, t
<1>7. s.down \cap Tracked \in SUBSET Tracked
  OBVIOUS
<1>8. Tightened(t, [t EXCEPT !.pinched = s.down \cap Tracked, !.held = held,
                             !.down = @ \ held, !.edge = @ \ held])
  BY <1>3, <1>6, <1>7 DEF Tightened, CtxType
<1> QED BY <1>1, <1>6, <1>8, TightenedOn DEF Turned, Tightened, CtxType

LEMMA HandLockStep ==
  ASSUME NEW s \in CtxType
  PROVE  /\ Tightened(s, ApplyHandLock(s)) /\ Shut(ApplyHandLock(s))
         /\ ApplyHandLock(s).locked = s.locked /\ ApplyHandLock(s).open = s.open
<1> DEFINE at == [h \in Hands |-> IF h \in Tracked THEN "none" ELSE s.at[h]]
<1>1. at \in [Hands -> Places] /\ \A h \in Tracked : at[h] = "none"
  BY HandsAre DEF CtxType, Places
<1>2. ApplyHandLock(s) = IF ~s.locked THEN s
                         ELSE [s EXCEPT !.valid = @ \ Tracked, !.down = @ \ Tracked,
                                        !.edge = @ \ Tracked, !.at = at]
  BY DEF ApplyHandLock
<1> DEFINE u == [s EXCEPT !.valid = @ \ Tracked, !.down = @ \ Tracked, !.edge = @ \ Tracked,
                          !.at = at]
<1> HIDE DEF at
<1>3. u \in CtxType
  BY <1>1 DEF CtxType
<1>4. /\ u.valid = s.valid \ Tracked /\ u.down = s.down \ Tracked /\ u.edge = s.edge \ Tracked
      /\ u.at = at /\ u.locked = s.locked /\ u.button = s.button /\ u.open = s.open
      /\ u.grab = s.grab /\ u.swallowed = s.swallowed /\ u.drag = s.drag /\ u.placing = s.placing /\ u.mods = s.mods
      /\ u.out = s.out /\ u.hintShown = s.hintShown /\ u.dirty = s.dirty
  BY DEF CtxType
<1>5. ApplyHandLock(s) = IF ~s.locked THEN s ELSE u
  BY <1>2
<1> HIDE DEF u
<1> QED BY <1>1, <1>3, <1>4, <1>5 DEF Tightened, Shut

LEMMA WakeStep ==
  ASSUME NEW s \in CtxType, NEW i, Shut(s)
  PROVE  /\ Tightened(s, UpdatePointerWake(s, i)) /\ Shut(UpdatePointerWake(s, i))
         /\ UpdatePointerWake(s, i).locked = s.locked
         /\ UpdatePointerWake(s, i).open = s.open
<1> DEFINE pinching == s.down \cap Tracked
           waker == IF s.awake \/ pinching = {} THEN {}
                    ELSE {IF "left" \in pinching THEN "left" ELSE "right"}
           woke  == (s.woke \cap pinching) \cup waker
           down  == s.down \ woke
           stays == \/ ~PointerSleep /\ Tracked # Hands
                    \/ s.open \cap {"hint", "kofi"} # {}
           awake == \/ stays
                    \/ pinching # {}
                    \/ i.event = "moved" /\ Tracked # Hands
                    \/ s.awake /\ i.event # "still"
<1>1. waker \subseteq pinching
  BY HandsAre DEF Hands
<1>2. woke \subseteq Tracked
  BY <1>1
<1>3. awake \in BOOLEAN
  OBVIOUS
<1>4. UpdatePointerWake(s, i) = [s EXCEPT !.woke = woke, !.down = down, !.edge = @ \ woke,
                                          !.swallowed = @ \cap down, !.awake = awake]
  BY DEF UpdatePointerWake
<1>5. down = s.down \ woke
  OBVIOUS
<1> HIDE DEF woke, down, awake
<1> DEFINE u == UpdatePointerWake(s, i)
<1>6. u \in CtxType
  <2> DEFINE edge == s.edge \ woke
             swallowed == s.swallowed \cap down
  <2>1. down \subseteq Hands /\ edge \subseteq Hands /\ swallowed \subseteq Hands
    BY <1>5 DEF CtxType
  <2>2. u = [s EXCEPT !.woke = woke, !.down = down, !.edge = edge, !.swallowed = swallowed,
                      !.awake = awake]
    BY <1>4
  <2> HIDE DEF u, edge, swallowed
  <2> QED BY <1>2, <1>3, <2>1, <2>2 DEF CtxType
<1>7. /\ u.down = s.down \ woke /\ u.edge = s.edge \ woke /\ u.swallowed = s.swallowed \cap u.down
      /\ u.valid = s.valid /\ u.at = s.at /\ u.locked = s.locked /\ u.button = s.button
      /\ u.open = s.open /\ u.grab = s.grab /\ u.drag = s.drag /\ u.placing = s.placing /\ u.mods = s.mods
      /\ u.out = s.out /\ u.hintShown = s.hintShown /\ u.dirty = s.dirty
  BY <1>4, <1>5 DEF CtxType
<1> HIDE DEF u
<1> QED BY <1>6, <1>7 DEF Tightened, Shut, u

LEMMA PickStep ==
  ASSUME NEW s \in CtxType, Shut(s)
  PROVE  /\ Tightened(s, PickPointing(s)) /\ Shut(PickPointing(s))
         /\ PickPointing(s).locked = s.locked /\ PickPointing(s).open = s.open
<1> DEFINE drawing == {h \in s.down : s.at[h] = "screen"}
           onSome  == {h \in Hands : s.at[h] # "none"}
           h       == First(IF drawing # {} THEN drawing ELSE onSome)
<1>1. h \in Someone
  BY FirstOf DEF CtxType
<1>2. PickPointing(s) = IF ~s.awake /\ s.grab = Nobody THEN [s EXCEPT !.at = Nowhere]
                        ELSE [s EXCEPT !.hand = h]
  BY DEF PickPointing
<1> HIDE DEF h
<1>3. \A g \in Tracked : Nowhere[g] = "none"
  BY HandsAre DEF Nowhere
<1> QED BY <1>1, <1>2, <1>3, NowhereType DEF Tightened, Shut, CtxType

LEMMA HintStep ==
  ASSUME NEW s \in CtxType, NEW i, Shut(s)
  PROVE  /\ Tightened(s, UpdateHintOpening(s, i)) /\ Shut(UpdateHintOpening(s, i))
         /\ UpdateHintOpening(s, i).locked = s.locked
         /\ \/ UpdateHintOpening(s, i).open = s.open
            \/ /\ s.open = {} /\ UpdateHintOpening(s, i).open = {"hint"}
               /\ UpdateHintOpening(s, i).hintShown /\ ~s.locked
<1> DEFINE u == [Open(s, "hint") EXCEPT !.hintShown = TRUE, !.awake = TRUE]
<1>1. CASE UpdateHintOpening(s, i) = s
  BY <1>1 DEF Tightened
<1>2. CASE UpdateHintOpening(s, i) # s
  <2>1. UpdateHintOpening(s, i) = u /\ s.open = {} /\ ~s.locked
    BY <1>2 DEF UpdateHintOpening
  <2>2. u \in CtxType
    BY DEF Open, CtxType, Panels, Modals
  <2>3. /\ u.open = s.open \cup {"hint"} /\ u.hintShown = TRUE
        /\ u.valid = s.valid /\ u.at = s.at /\ u.locked = s.locked /\ u.button = s.button
        /\ u.down = s.down /\ u.edge = s.edge /\ u.swallowed = s.swallowed /\ u.dirty = s.dirty
        /\ u.grab = s.grab /\ u.drag = s.drag /\ u.placing = s.placing /\ u.mods = s.mods /\ u.out = s.out
    BY DEF Open, CtxType
  <2> HIDE DEF u
  <2> QED BY <2>1, <2>2, <2>3 DEF Tightened, Shut
<1> QED BY <1>1, <1>2

(* What a pass has come to ahead of the panels' turn.                        *)
Readied(w) ==
    /\ Sound(w) /\ Shut(w)
    /\ closers \cap w.down \subseteq w.swallowed
    /\ w.drag = ctx.drag /\ w.placing = ctx.placing /\ w.out = Silent
    /\ w.edge \cap ctx.down = {}
    /\ w.button => ctx.button
    /\ w.grab = ctx.grab \/ (w.grab = Nobody /\ w.dirty)
    /\ Modal(ctx) # {} /\ (Modal(ctx) = {"hint"} => ~w.locked) => Modal(w) # {}
    /\ ctx.locked /\ w.locked => w.open = ctx.open

LEMMA PassReadied ==
  ASSUME InputInv, NEW i, i.at \in [Hands -> Places \cup {"lost"}]
  PROVE  Readied(UpdateHintOpening(PickPointing(UpdatePointerWake(
                     ApplyHandLock(UpdateLockGesture(ReadSources(i), i)), i)), i))
<1> DEFINE r == ReadSources(i)
           s == UpdateLockGesture(r, i)
           t == ApplyHandLock(s)
           u == UpdatePointerWake(t, i)
           v == PickPointing(u)
           w == UpdateHintOpening(v, i)
<1>0. Sound(ctx)
  BY DEF InputInv
<1>1. /\ r \in CtxType /\ r.edge \subseteq r.down /\ r.open = ctx.open /\ r.locked = ctx.locked
      /\ r.swallowed = ctx.swallowed /\ r.drag = ctx.drag /\ r.mods = ctx.mods
      /\ r.hintShown = ctx.hintShown /\ r.button = ctx.button /\ r.grab = ctx.grab
      /\ r.out = Silent /\ r.placing = ctx.placing /\ r.edge \cap ctx.down = {}
  BY <1>0, ReadSourcesStep
<1> HIDE DEF r
<1>2. Tightened(r, s) /\ Turned(r, s)
  BY <1>1, LockGestureStep
<1> HIDE DEF s
<1>3. /\ Tightened(s, t) /\ Shut(t) /\ t.locked = s.locked /\ t.open = s.open
  BY <1>2, HandLockStep DEF Tightened
<1> HIDE DEF t
<1>4. /\ Tightened(t, u) /\ Shut(u) /\ u.locked = t.locked /\ u.open = t.open
  <2>1. t \in CtxType
    BY <1>3 DEF Tightened
  <2> QED BY <1>3, <2>1, WakeStep
<1> HIDE DEF u
<1>5. /\ Tightened(u, v) /\ Shut(v) /\ v.locked = u.locked /\ v.open = u.open
  <2>1. u \in CtxType
    BY <1>4 DEF Tightened
  <2> QED BY <1>4, <2>1, PickStep
<1> HIDE DEF v
<1>6. /\ Tightened(v, w) /\ Shut(w) /\ w.locked = v.locked
      /\ \/ w.open = v.open
         \/ v.open = {} /\ w.open = {"hint"} /\ w.hintShown /\ ~v.locked
  <2>1. v \in CtxType
    BY <1>5 DEF Tightened
  <2> QED BY <1>5, <2>1, HintStep
<1> HIDE DEF w
<1>7. Tightened(r, w)
  <2>1. Tightened(r, t)
    BY <1>2, <1>3, TightenedOn
  <2>2. Tightened(t, v)
    BY <1>4, <1>5, TightenedOn
  <2>3. Tightened(t, w)
    BY <2>2, <1>6, TightenedOn
  <2> QED BY <2>1, <2>3, TightenedOn
<1>8. /\ w \in CtxType /\ w.down \subseteq r.down /\ w.edge \subseteq w.down
      /\ ctx.swallowed \cap w.down \subseteq w.swallowed
      /\ w.drag = ctx.drag /\ w.mods = ctx.mods /\ w.out = Silent
      /\ w.placing = ctx.placing /\ w.edge \cap ctx.down = {}
      /\ ctx.hintShown => w.hintShown
      /\ w.button => ctx.button
      /\ w.grab = ctx.grab \/ (w.grab = Nobody /\ w.dirty)
  BY <1>1, <1>7 DEF Tightened
<1>9. /\ w.locked = s.locked
      /\ \/ w.open = s.open
         \/ s.open = {} /\ w.open = {"hint"} /\ w.hintShown /\ ~s.locked
  BY <1>3, <1>4, <1>5, <1>6
<1>10. \/ s.locked = ctx.locked /\ s.open = ctx.open
       \/ s.locked = ~ctx.locked /\ s.open = ctx.open \ {"hint"}
  BY <1>1, <1>2 DEF Turned
<1>11. Sound(w)
  <2>1. AtMostOne(w)
    BY <1>0, <1>9, <1>10 DEF Sound, AtMostOne, Modal
  <2>2. w.drag # Nobody => "cog" \in w.open
    BY <1>0, <1>8, <1>9, <1>10 DEF Sound
  <2>3. w.mods => "report" \notin w.open
    BY <1>0, <1>8, <1>9, <1>10 DEF Sound
  <2>4. "hint" \in w.open => w.hintShown /\ ~w.locked
    BY <1>0, <1>8, <1>9, <1>10 DEF Sound
  <2> QED BY <1>8, <2>1, <2>2, <2>3, <2>4 DEF Sound
<1>12. closers \cap w.down \subseteq w.swallowed
  BY <1>8 DEF InputInv
<1>13. ASSUME Modal(ctx) # {}, Modal(ctx) = {"hint"} => ~w.locked
       PROVE  Modal(w) # {}
  <2>1. CASE s.locked = ctx.locked /\ s.open = ctx.open
    BY <1>9, <1>13, <2>1 DEF Modal
  <2>2. CASE s.locked = ~ctx.locked /\ s.open = ctx.open \ {"hint"}
    <3>1. "hint" \in ctx.open => w.locked
      BY <1>0, <1>9, <2>2 DEF Sound
    <3>2. Modal(ctx) # {"hint"}
      BY <1>13, <3>1 DEF Modal
    <3>3. PICK p \in Modal(ctx) : p # "hint"
      BY <1>13, <3>2
    <3> QED BY <1>9, <2>2, <3>3 DEF Modal
  <2> QED BY <1>10, <2>1, <2>2
<1>14. ctx.locked /\ w.locked => w.open = ctx.open
  BY <1>0, <1>9, <1>10 DEF Sound
<1>15. Readied(w)
  BY <1>6, <1>8, <1>11, <1>12, <1>13, <1>14 DEF Readied
<1> QED BY <1>15 DEF w, v, u, t, s, r
-----------------------------------------------------------------------------
(* What the panels leave alone.                                              *)
Aside(s, t) ==
    /\ t.down = s.down /\ t.edge = s.edge /\ t.valid = s.valid /\ t.at = s.at
    /\ t.locked = s.locked /\ t.grab = s.grab /\ (s.dirty => t.dirty) /\ t.button = s.button
    /\ t.on = s.on /\ t.hintShown = s.hintShown /\ t.byTrigger = s.byTrigger
    /\ t.gripped = s.gripped

(* And what they do not: every part of the record a panel may write.        *)
Becomes(s, t, open, drag, mods, swallowed, hand, out) ==
    /\ t \in CtxType /\ Aside(s, t)
    /\ t.open = open /\ t.drag = drag /\ t.mods = mods /\ t.swallowed = swallowed
    /\ t.hand = hand /\ t.out = out

LEMMA AsideOn ==
  ASSUME NEW r, NEW s, NEW t, Aside(r, s), Aside(s, t)
  PROVE  Aside(r, t)
BY DEF Aside

LEMMA SaysSo ==
  ASSUME NEW s \in CtxType, NEW slot \in {"pick", "pose", "key", "exit"}
  PROVE  Becomes(s, Say(s, slot), s.open, s.drag, s.mods, s.swallowed, s.hand,
                 [s.out EXCEPT ![slot] = TRUE])
<1> DEFINE said == [s.out EXCEPT ![slot] = TRUE]
<1>1. Say(s, slot) \in CtxType /\ Say(s, slot) = [s EXCEPT !.out = said]
  BY SayType
<1> HIDE DEF said
<1>2. Becomes(s, Say(s, slot), s.open, s.drag, s.mods, s.swallowed, s.hand, said)
  BY <1>1 DEF Becomes, Aside, CtxType
<1> QED BY <1>2 DEF said

LEMMA Writes ==
  ASSUME NEW s \in CtxType, NEW how \in {"dragged", "pressed"}
  PROVE  Becomes(s, Write(s, how), s.open, s.drag, s.mods, s.swallowed, s.hand,
                 [s.out EXCEPT !.setting = how])
<1> DEFINE said == [s.out EXCEPT !.setting = how]
<1>1. Write(s, how) \in CtxType /\ Write(s, how) = [s EXCEPT !.out = said]
  BY WriteType
<1> HIDE DEF said
<1>2. Becomes(s, Write(s, how), s.open, s.drag, s.mods, s.swallowed, s.hand, said)
  BY <1>1 DEF Becomes, Aside, CtxType
<1> QED BY <1>2 DEF said

LEMMA Swallows ==
  ASSUME NEW s \in CtxType, NEW H \in SUBSET Hands
  PROVE  Becomes(s, Swallow(s, H), s.open, s.drag, s.mods, s.swallowed \cup H, s.hand, s.out)
<1>1. Swallow(s, H) \in CtxType
  BY DEF Swallow, CtxType
<1> QED BY <1>1 DEF Swallow, Becomes, Aside, CtxType

LEMMA Closes ==
  ASSUME NEW s \in CtxType, NEW p
  PROVE  Becomes(s, Close(s, p), s.open \ {p}, s.drag, s.mods, s.swallowed, s.hand, s.out)
<1>1. Close(s, p) \in CtxType
  BY DEF Close, CtxType
<1> QED BY <1>1 DEF Close, Becomes, Aside, CtxType

LEMMA Opens ==
  ASSUME NEW s \in CtxType, NEW p \in Panels
  PROVE  Becomes(s, Open(s, p), s.open \cup {p}, s.drag, s.mods, s.swallowed, s.hand, s.out)
<1>1. Open(s, p) \in CtxType
  BY DEF Open, CtxType
<1> QED BY <1>1 DEF Open, Becomes, Aside, CtxType

LEMMA Points ==
  ASSUME NEW s \in CtxType, NEW h \in Someone
  PROVE  Becomes(s, [s EXCEPT !.hand = h], s.open, s.drag, s.mods, s.swallowed, h, s.out)
<1>1. [s EXCEPT !.hand = h] \in CtxType
  BY DEF CtxType
<1> QED BY <1>1 DEF Becomes, Aside, CtxType

LEMMA Drags ==
  ASSUME NEW s \in CtxType, NEW h \in Someone, NEW placing \in BOOLEAN
  PROVE  Becomes(s, [s EXCEPT !.drag = h, !.placing = placing], s.open, h, s.mods, s.swallowed,
                 s.hand, s.out)
<1>1. [s EXCEPT !.drag = h, !.placing = placing] \in CtxType
  BY DEF CtxType
<1> QED BY <1>1 DEF Becomes, Aside, CtxType

LEMMA Lights ==
  ASSUME NEW s \in CtxType, NEW lit \in BOOLEAN
  PROVE  Becomes(s, [s EXCEPT !.mods = lit], s.open, s.drag, lit, s.swallowed, s.hand, s.out)
<1>1. [s EXCEPT !.mods = lit] \in CtxType
  BY DEF CtxType
<1> QED BY <1>1 DEF Becomes, Aside, CtxType

LEMMA Chooses ==
  ASSUME NEW s \in CtxType
  PROVE  Becomes(s, [s EXCEPT !.chosen = TRUE], s.open, s.drag, s.mods, s.swallowed, s.hand, s.out)
<1>1. [s EXCEPT !.chosen = TRUE] \in CtxType
  BY DEF CtxType
<1> QED BY <1>1 DEF Becomes, Aside, CtxType

LEMMA BecomesOn ==
  ASSUME NEW r, NEW s, NEW t, Aside(r, s),
         NEW open, NEW drag, NEW mods, NEW swallowed, NEW hand, NEW out,
         Becomes(s, t, open, drag, mods, swallowed, hand, out)
  PROVE  Becomes(r, t, open, drag, mods, swallowed, hand, out)
BY AsideOn DEF Becomes

(* The end of a drag leaves a placement to hand back, or the setting written. *)
LEMMA DragEnds ==
  ASSUME NEW s \in CtxType
  PROVE  /\ Becomes(s, DragEnded(s), s.open, Nobody, s.mods, s.swallowed, s.hand, DragEnded(s).out)
         /\ s.drag # Nobody /\ s.placing => DragEnded(s).dirty
         /\ s.drag # Nobody /\ ~s.placing => DragEnded(s).out.setting = "dragged"
         /\ DragEnded(s).out.key = s.out.key /\ DragEnded(s).out.exit = s.out.exit
         /\ DragEnded(s).gripped = s.gripped
<1> DEFINE off == FALSE
           u == [s EXCEPT !.drag = Nobody, !.placing = off]
           v == [u EXCEPT !.dirty = TRUE]
           w == Write(u, "dragged")
<1>1. Becomes(s, u, s.open, Nobody, s.mods, s.swallowed, s.hand, s.out)
  <2>1. off \in BOOLEAN
    OBVIOUS
  <2> HIDE DEF off
  <2> QED BY <2>1, HandsAre, Drags
<1>2. DragEnded(s) = IF s.drag = Nobody THEN s ELSE IF s.placing THEN v ELSE w
  BY DEF DragEnded
<1> HIDE DEF u
<1>3. u \in CtxType /\ u.out \in OutType
  BY <1>1 DEF Becomes, CtxType
<1>4. Becomes(u, w, u.open, u.drag, u.mods, u.swallowed, u.hand, [u.out EXCEPT !.setting = "dragged"])
  BY <1>3, Writes
<1>5. Becomes(u, v, u.open, u.drag, u.mods, u.swallowed, u.hand, u.out) /\ v.dirty
  BY <1>3 DEF Becomes, Aside, CtxType
<1>6. LET out == [u.out EXCEPT !.setting = "dragged"]
      IN  out.setting = "dragged" /\ out.key = u.out.key /\ out.exit = u.out.exit
  BY <1>3 DEF OutType
<1> HIDE DEF v, w
<1>7. /\ Becomes(s, v, s.open, Nobody, s.mods, s.swallowed, s.hand, v.out) /\ v.out = s.out
      /\ Becomes(s, w, s.open, Nobody, s.mods, s.swallowed, s.hand, w.out)
      /\ w.out.setting = "dragged" /\ w.out.key = s.out.key /\ w.out.exit = s.out.exit
  BY <1>1, <1>4, <1>5, <1>6, AsideOn DEF Becomes
<1>8. s.drag = Nobody => Becomes(s, s, s.open, Nobody, s.mods, s.swallowed, s.hand, s.out)
  BY DEF Becomes, Aside
<1> QED BY <1>2, <1>5, <1>7, <1>8 DEF Becomes, Aside

-----------------------------------------------------------------------------
(* Where a slider let go of left things is kept: a placement with the pose,  *)
(* a setting in its slot unless a press has it.                              *)
EndKept(s, dirty, out) ==
    IF s.placing THEN dirty
    ELSE out.setting = "dragged" \/ (out.setting = "pressed" /\ s.edge # {})

LEMMA EndStaysKept ==
  ASSUME NEW s, NEW t, NEW u, NEW out, Aside(t, u),
         s.drag # Nobody => EndKept(s, t.dirty, out)
  PROVE  s.drag # Nobody => EndKept(s, u.dirty, out)
BY DEF Aside, EndKept

(* The panels' turn: what a panel closes it closes with the press taken, a   *)
(* slider let go of says so, and without a press nothing opens or closes.    *)
Panelled(s, t) ==
    /\ Sound(t) /\ Aside(s, t)
    /\ s.swallowed \subseteq t.swallowed
    /\ Closing(s, t) \subseteq t.swallowed
    /\ s.drag # Nobody /\ t.drag # s.drag => EndKept(s, t.dirty, t.out)
    /\ t.drag # Nobody => t.drag \in s.down
    /\ s.edge = {} => /\ t.open = s.open /\ t.drag \in {s.drag, Nobody}
                      /\ t.out.key = s.out.key /\ t.out.exit = s.out.exit

LEMMA PanelRule ==
  ASSUME NEW s, NEW t, Sound(s),
         NEW open, NEW drag, NEW mods, NEW swallowed, NEW hand, NEW out,
         Becomes(s, t, open, drag, mods, swallowed, hand, out),
         \A p, q \in open \cap Modals : p = q,
         drag # Nobody => "cog" \in open,
         mods => "report" \notin open,
         "hint" \in open => "hint" \in s.open,
         s.swallowed \subseteq swallowed,
         Modal(s) # {} /\ Modal(s) \cap open = {} =>
             (IF hand \in s.edge THEN {hand} ELSE s.edge) \subseteq swallowed,
         s.drag # Nobody /\ drag # s.drag => EndKept(s, t.dirty, out),
         drag # Nobody => drag \in s.down,
         s.edge = {} => /\ open = s.open /\ drag \in {s.drag, Nobody}
                        /\ out.key = s.out.key /\ out.exit = s.out.exit
  PROVE  Panelled(s, t)
<1>1. /\ t \in CtxType /\ Aside(s, t) /\ t.open = open /\ t.drag = drag /\ t.mods = mods
      /\ t.swallowed = swallowed /\ t.hand = hand /\ t.out = out /\ t.edge = s.edge
      /\ t.down = s.down /\ t.locked = s.locked /\ t.hintShown = s.hintShown
  BY DEF Becomes, Aside
<1>2. Sound(t)
  BY <1>1 DEF Sound, AtMostOne, Modal
<1>3. Closing(s, t) \subseteq t.swallowed
  BY <1>1 DEF Closing
<1> QED BY <1>1, <1>2, <1>3 DEF Panelled

(* With a modal up that is not the settings panel nobody drags a slider.     *)
LEMMA OnePanel ==
  ASSUME NEW s, Sound(s), NEW p \in Modals, p \in s.open
  PROVE  /\ Modal(s) = {p} /\ s.open \cap Modals = {p} /\ (s.open \ {p}) \cap Modals = {}
         /\ p # "cog" => s.drag = Nobody
         /\ p # "report" => "report" \notin s.open
         /\ p # "hint" => "hint" \notin s.open
         /\ s \in CtxType /\ s.edge \subseteq Hands
BY DEF Sound, AtMostOne, Modal, Modals, CtxType

LEMMA ClosesTaken ==
  ASSUME NEW s \in CtxType, NEW p, NEW H \in SUBSET Hands
  PROVE  Becomes(s, Swallow(Close(s, p), H), s.open \ {p}, s.drag, s.mods,
                 s.swallowed \cup H, s.hand, s.out)
<1> DEFINE u == Close(s, p)
<1>1. Becomes(s, u, s.open \ {p}, s.drag, s.mods, s.swallowed, s.hand, s.out)
  BY Closes
<1> HIDE DEF u
<1>2. u \in CtxType
  BY <1>1 DEF Becomes
<1>3. Becomes(u, Swallow(u, H), u.open, u.drag, u.mods, u.swallowed \cup H, u.hand, u.out)
  BY <1>2, Swallows
<1>4. Becomes(s, Swallow(u, H), s.open \ {p}, s.drag, s.mods, s.swallowed \cup H, s.hand, s.out)
  BY <1>1, <1>3, AsideOn DEF Becomes
<1> QED BY <1>4 DEF u

LEMMA PutsAway ==
  ASSUME NEW s \in CtxType, NEW p
  PROVE  IF s.edge = {} THEN PutAwayFromOutside(s, p) = s
         ELSE Becomes(s, PutAwayFromOutside(s, p), s.open \ {p}, s.drag, s.mods,
                      s.swallowed \cup s.edge, s.hand, s.out)
<1>1. s.edge \in SUBSET Hands
  BY DEF CtxType
<1> QED BY <1>1, ClosesTaken DEF PutAwayFromOutside

(* A press anywhere while nobody is on the panel, and a press of the panel   *)
(* that closes it: both are kept from the host.                              *)
LEMMA OutsidePanelled ==
  ASSUME NEW s, Sound(s), NEW p \in Modals, p \in s.open, NEW t, NEW out,
         Becomes(s, t, s.open, Nobody, s.mods, s.swallowed, Nobody, out),
         s.drag # Nobody => EndKept(s, t.dirty, out),
         out.key = s.out.key, out.exit = s.out.exit
  PROVE  Panelled(s, PutAwayFromOutside(t, p)) /\ Panelled(s, t)
<1>1. /\ Modal(s) = {p} /\ s.open \cap Modals = {p} /\ (s.open \ {p}) \cap Modals = {}
      /\ s.edge \subseteq Hands
  BY OnePanel
<1>2. s.mods => "report" \notin s.open
  BY DEF Sound
<1>3. t \in CtxType /\ t.edge = s.edge
  BY DEF Becomes, Aside
<1>4. Panelled(s, t)
  BY <1>1, <1>2, PanelRule
<1>5. CASE s.edge # {}
  <2>1. Becomes(t, PutAwayFromOutside(t, p), t.open \ {p}, t.drag, t.mods,
                t.swallowed \cup t.edge, t.hand, t.out)
    BY <1>3, <1>5, PutsAway
  <2>2. Becomes(s, PutAwayFromOutside(t, p), s.open \ {p}, Nobody, s.mods,
                s.swallowed \cup s.edge, Nobody, out)
    BY <1>3, <2>1, AsideOn DEF Becomes
  <2>3. Nobody \notin s.edge
    BY <1>1, HandsAre
  <2>4. \A q, r \in (s.open \ {p}) \cap Modals : q = r
    BY <1>1
  <2>5. s.drag # Nobody => EndKept(s, PutAwayFromOutside(t, p).dirty, out)
    BY <2>1, EndStaysKept DEF Becomes
  <2>6. Panelled(s, PutAwayFromOutside(t, p))
    BY <1>1, <1>2, <1>5, <2>2, <2>3, <2>4, <2>5, PanelRule
  <2> QED BY <1>4, <2>6
<1>6. CASE s.edge = {}
  <2>1. PutAwayFromOutside(t, p) = t
    BY <1>3, <1>6, PutsAway
  <2> QED BY <1>4, <2>1
<1> QED BY <1>5, <1>6

LEMMA ClosingPanelled ==
  ASSUME NEW s, Sound(s), NEW p \in Modals, p \in s.open, NEW t, NEW h \in Hands, h \in s.edge,
         NEW out, Becomes(s, t, s.open, Nobody, s.mods, s.swallowed, h, out),
         s.drag # Nobody => EndKept(s, t.dirty, out)
  PROVE  Panelled(s, Swallow(Close(t, p), {h}))
<1>1. /\ Modal(s) = {p} /\ s.open \cap Modals = {p} /\ (s.open \ {p}) \cap Modals = {}
      /\ s.edge \subseteq Hands
  BY OnePanel
<1>2. s.mods => "report" \notin s.open
  BY DEF Sound
<1>3. t \in CtxType /\ t.edge = s.edge
  BY DEF Becomes, Aside
<1>4. Becomes(t, Swallow(Close(t, p), {h}), t.open \ {p}, t.drag, t.mods, t.swallowed \cup {h},
              t.hand, t.out)
  BY <1>3, ClosesTaken
<1>5. Becomes(s, Swallow(Close(t, p), {h}), s.open \ {p}, Nobody, s.mods, s.swallowed \cup {h}, h, out)
  BY <1>3, <1>4, AsideOn DEF Becomes
<1>6. \A q, r \in (s.open \ {p}) \cap Modals : q = r
  BY <1>1
<1>7. s.drag # Nobody => EndKept(s, Swallow(Close(t, p), {h}).dirty, out)
  BY <1>4, EndStaysKept DEF Becomes
<1> QED BY <1>1, <1>2, <1>5, <1>6, <1>7, PanelRule

LEMMA PickerStep ==
  ASSUME NEW s, Sound(s), "picker" \in s.open
  PROVE  Panelled(s, UpdatePicker(s))
<1> DEFINE h == PointsAt(s, Zones.picker)
           t == [s EXCEPT !.hand = h]
           c == Close(t, "picker")
           v == [c EXCEPT !.chosen = TRUE]
<1>1. /\ Modal(s) = {"picker"} /\ (s.open \ {"picker"}) \cap Modals = {}
      /\ s.drag = Nobody /\ "report" \notin s.open /\ s \in CtxType /\ "picker" \in Modals
  BY OnePanel DEF Modals
<1>2. h \in Someone /\ (h # Nobody => h \in Hands)
  BY PointsAtOf
<1>3. Becomes(s, t, s.open, Nobody, s.mods, s.swallowed, h, s.out)
  BY <1>1, <1>2, Points
<1>4. UpdatePicker(s) = IF h = Nobody THEN PutAwayFromOutside(t, "picker")
                        ELSE IF h \notin s.edge THEN t ELSE Swallow(v, {h})
  BY DEF UpdatePicker
<1> HIDE DEF h, t
<1>5. t \in CtxType /\ t.edge = s.edge
  BY <1>3 DEF Becomes, Aside
<1>6. CASE h = Nobody
  <2>1. Panelled(s, PutAwayFromOutside(t, "picker"))
    BY <1>1, <1>3, <1>6, OutsidePanelled
  <2> QED BY <1>4, <1>6, <2>1
<1>7. CASE h # Nobody /\ h \notin s.edge
  <2>1. \A p, q \in s.open \cap Modals : p = q
    BY DEF Sound, AtMostOne, Modal
  <2>2. Modal(s) \cap s.open # {}
    BY <1>1
  <2>3. Panelled(s, t)
    BY <1>1, <1>3, <2>1, <2>2, PanelRule
  <2> QED BY <1>4, <1>7, <2>3
<1>8. CASE h # Nobody /\ h \in s.edge
  <2>1. Becomes(t, c, t.open \ {"picker"}, t.drag, t.mods, t.swallowed, t.hand, t.out)
    BY <1>5, Closes
  <2>2. c \in CtxType
    BY <2>1 DEF Becomes
  <2>3. Becomes(c, v, c.open, c.drag, c.mods, c.swallowed, c.hand, c.out)
    BY <2>2, Chooses
  <2>4. Becomes(v, Swallow(v, {h}), v.open, v.drag, v.mods, v.swallowed \cup {h}, v.hand, v.out)
    <3>1. v \in CtxType /\ {h} \in SUBSET Hands
      BY <1>2, <1>8, <2>3 DEF Becomes
    <3> QED BY <3>1, Swallows
  <2> HIDE DEF c, v
  <2>5. Becomes(s, Swallow(v, {h}), s.open \ {"picker"}, Nobody, s.mods, s.swallowed \cup {h}, h, s.out)
    BY <1>3, <2>1, <2>3, <2>4, AsideOn DEF Becomes
  <2>6. \A p, q \in (s.open \ {"picker"}) \cap Modals : p = q
    BY <1>1
  <2>7. Panelled(s, Swallow(v, {h}))
    BY <1>1, <1>8, <2>5, <2>6, PanelRule
  <2> QED BY <1>4, <1>8, <2>7
<1> QED BY <1>6, <1>7, <1>8

LEMMA ExitStep ==
  ASSUME NEW s, Sound(s), "exit" \in s.open
  PROVE  Panelled(s, UpdateExitPrompt(s))
<1> DEFINE h == PointsAt(s, Zones.exit)
           t == [s EXCEPT !.hand = h]
           u == IF s.at[h] = "yes" THEN Say(t, "exit") ELSE t
<1>1. /\ Modal(s) = {"exit"} /\ s.drag = Nobody /\ "report" \notin s.open /\ s \in CtxType
      /\ "exit" \in Modals
  BY OnePanel DEF Modals
<1>2. h \in Someone /\ (h # Nobody => h \in Hands)
  BY PointsAtOf
<1>3. Becomes(s, t, s.open, Nobody, s.mods, s.swallowed, h, s.out)
  BY <1>1, <1>2, Points
<1>4. UpdateExitPrompt(s) = IF h = Nobody THEN PutAwayFromOutside(t, "exit")
                            ELSE IF h \notin s.edge THEN t
                            ELSE Swallow(Close(u, "exit"), {h})
  BY DEF UpdateExitPrompt
<1>5. t \in CtxType
  BY <1>3 DEF Becomes
<1>6. Becomes(s, u, s.open, Nobody, s.mods, s.swallowed, h, u.out)
  <2>1. Becomes(t, Say(t, "exit"), t.open, t.drag, t.mods, t.swallowed, t.hand,
                [t.out EXCEPT !["exit"] = TRUE])
    BY <1>5, SaysSo
  <2> HIDE DEF t, h
  <2> QED BY <1>3, <2>1, AsideOn DEF Becomes
<1> HIDE DEF h, t, u
<1>7. CASE h = Nobody
  <2>1. Panelled(s, PutAwayFromOutside(t, "exit"))
    BY <1>1, <1>3, <1>7, OutsidePanelled
  <2> QED BY <1>4, <1>7, <2>1
<1>8. CASE h # Nobody /\ h \notin s.edge
  <2>1. \A p, q \in s.open \cap Modals : p = q
    BY DEF Sound, AtMostOne, Modal
  <2>2. Modal(s) \cap s.open # {}
    BY <1>1
  <2>3. Panelled(s, t)
    BY <1>1, <1>3, <2>1, <2>2, PanelRule
  <2> QED BY <1>4, <1>8, <2>3
<1>9. CASE h # Nobody /\ h \in s.edge
  <2>1. Panelled(s, Swallow(Close(u, "exit"), {h}))
    BY <1>1, <1>2, <1>6, <1>9, ClosingPanelled
  <2> QED BY <1>4, <1>9, <2>1
<1> QED BY <1>7, <1>8, <1>9

LEMMA OpensReport ==
  ASSUME NEW s \in CtxType
  PROVE  Becomes(s, OpenReport(s), (s.open \ {"cog"}) \cup {"report", "kb"}, s.drag, FALSE,
                 s.swallowed, s.hand, s.out)
<1>1. OpenReport(s) \in CtxType
  BY DEF OpenReport, CtxType, Panels, Modals
<1> QED BY <1>1 DEF OpenReport, Becomes, Aside, CtxType

LEMMA PressCogStep ==
  ASSUME NEW s, Sound(s), "cog" \in s.open, NEW t, NEW h \in Hands, h \in s.edge, NEW out,
         Becomes(s, t, s.open, Nobody, s.mods, s.swallowed, h, out),
         s.drag # Nobody => EndKept(s, t.dirty, out), s.at[h] \in Zones.cog
  PROVE  Panelled(s, PressCog(t, h))
<1>1. /\ Modal(s) = {"cog"} /\ s.open \cap Modals = {"cog"} /\ "report" \notin s.open
      /\ "hint" \notin s.open /\ s \in CtxType /\ (s.open \ {"cog"}) \cap Modals = {}
  BY OnePanel DEF Modals
<1>2. t \in CtxType /\ t.at = s.at /\ t.open = s.open /\ t.edge = s.edge /\ Aside(s, t)
      /\ t.out = out /\ t.drag = Nobody /\ t.mods = s.mods /\ t.swallowed = s.swallowed
      /\ t.hand = h
  BY DEF Becomes, Aside
<1>3. s.at[h] \in {"cell", "slider", "placement", "reportButton", "kofiButton"}
  BY DEF Zones
<1>4. {h} \in SUBSET Hands
  OBVIOUS
<1>5. CASE s.at[h] = "cell"
  <2> DEFINE u == Write(t, "pressed")
             said == [out EXCEPT !.setting = "pressed"]
  <2>1. PressCog(t, h) = u
    BY <1>2, <1>5 DEF PressCog
  <2>2. Becomes(t, u, t.open, t.drag, t.mods, t.swallowed, t.hand, [t.out EXCEPT !.setting = "pressed"])
    BY <1>2, Writes
  <2>3. said.setting = "pressed"
    BY <1>2 DEF CtxType, OutType
  <2> HIDE DEF u
  <2>4. Becomes(s, u, s.open, Nobody, s.mods, s.swallowed, h, said)
    BY <1>2, <2>2, AsideOn DEF Becomes
  <2> HIDE DEF said
  <2>5. Modal(s) \cap s.open # {} /\ \A p, q \in s.open \cap Modals : p = q
    BY <1>1
  <2>6. s.drag # Nobody => EndKept(s, u.dirty, said)
    BY <2>2, <2>3 DEF EndKept, Becomes, Aside
  <2>7. Panelled(s, u)
    BY <1>1, <2>4, <2>5, <2>6, PanelRule
  <2> QED BY <2>1, <2>7
<1>6. CASE s.at[h] \in {"slider", "placement"}
  <2> DEFINE placing == s.at[h] = "placement"
             u == [t EXCEPT !.drag = h, !.placing = placing]
  <2>1. PressCog(t, h) = u
    BY <1>2, <1>6 DEF PressCog
  <2>2. placing \in BOOLEAN
    BY Zenon
  <2> HIDE DEF placing
  <2>3. Becomes(t, u, t.open, h, t.mods, t.swallowed, t.hand, t.out)
    BY <1>2, <2>2, HandsAre, Drags
  <2> HIDE DEF u
  <2>4. Becomes(s, u, s.open, h, s.mods, s.swallowed, h, out)
    BY <1>2, <2>3, AsideOn DEF Becomes
  <2>5. Modal(s) \cap s.open # {} /\ \A p, q \in s.open \cap Modals : p = q
    BY <1>1
  <2>6. s.drag # Nobody => EndKept(s, u.dirty, out)
    BY <2>3 DEF EndKept, Becomes, Aside
  <2>7. h \in s.down
    BY DEF Sound
  <2>8. Panelled(s, u)
    BY <1>1, <2>4, <2>5, <2>6, <2>7, PanelRule
  <2> QED BY <2>1, <2>8
<1>7. CASE s.at[h] = "reportButton"
  <2> DEFINE u == OpenReport(t)
             open == (s.open \ {"cog"}) \cup {"report", "kb"}
             lit == FALSE
  <2>1. PressCog(t, h) = Swallow(u, {h})
    BY <1>2, <1>7 DEF PressCog
  <2>2. Becomes(t, u, (t.open \ {"cog"}) \cup {"report", "kb"}, t.drag, FALSE, t.swallowed,
                t.hand, t.out)
    BY <1>2, OpensReport
  <2> HIDE DEF u
  <2>3. Becomes(u, Swallow(u, {h}), u.open, u.drag, u.mods, u.swallowed \cup {h}, u.hand, u.out)
    <3>1. u \in CtxType
      BY <2>2 DEF Becomes
    <3> QED BY <1>4, <3>1, Swallows
  <2>4. Becomes(s, Swallow(u, {h}), open, Nobody, lit, s.swallowed \cup {h}, h, out)
    BY <1>2, <2>2, <2>3, AsideOn DEF Becomes
  <2>5. (\A p, q \in open \cap Modals : p = q) /\ "hint" \notin open /\ ~lit
    BY <1>1 DEF Modals
  <2> HIDE DEF open, lit
  <2>6. s.drag # Nobody => EndKept(s, Swallow(u, {h}).dirty, out)
    BY <2>2, <2>3, AsideOn, EndStaysKept DEF Becomes
  <2>7. Panelled(s, Swallow(u, {h}))
    BY <1>1, <2>4, <2>5, <2>6, PanelRule
  <2> QED BY <2>1, <2>7
<1>8. CASE s.at[h] = "kofiButton"
  <2> DEFINE u == Close(t, "cog")
             v == Open(u, "kofi")
             open == (s.open \ {"cog"}) \cup {"kofi"}
  <2>1. PressCog(t, h) = Swallow(v, {h})
    BY <1>2, <1>8 DEF PressCog
  <2>2. Becomes(t, u, t.open \ {"cog"}, t.drag, t.mods, t.swallowed, t.hand, t.out)
    BY <1>2, Closes
  <2>3. Becomes(u, v, u.open \cup {"kofi"}, u.drag, u.mods, u.swallowed, u.hand, u.out)
    <3>1. u \in CtxType /\ "kofi" \in Panels
      BY <2>2 DEF Becomes, Panels, Modals
    <3> QED BY <3>1, Opens
  <2> HIDE DEF u, v
  <2>4. Becomes(v, Swallow(v, {h}), v.open, v.drag, v.mods, v.swallowed \cup {h}, v.hand, v.out)
    <3>1. v \in CtxType
      BY <2>3 DEF Becomes
    <3> QED BY <1>4, <3>1, Swallows
  <2>5. Becomes(s, Swallow(v, {h}), open, Nobody, s.mods, s.swallowed \cup {h}, h, out)
    BY <1>2, <2>2, <2>3, <2>4, AsideOn DEF Becomes
  <2>6. (\A p, q \in open \cap Modals : p = q) /\ "hint" \notin open /\ "report" \notin open
    BY <1>1 DEF Modals
  <2> HIDE DEF open
  <2>7. s.drag # Nobody => EndKept(s, Swallow(v, {h}).dirty, out)
    <3>1. Aside(t, Swallow(v, {h}))
      BY <2>2, <2>3, <2>4, AsideOn DEF Becomes
    <3> QED BY <3>1, EndStaysKept
  <2>8. Panelled(s, Swallow(v, {h}))
    BY <1>1, <2>5, <2>6, <2>7, PanelRule
  <2> QED BY <2>1, <2>8
<1> QED BY <1>3, <1>5, <1>6, <1>7, <1>8

LEMMA CogStep ==
  ASSUME NEW s, Sound(s), "cog" \in s.open
  PROVE  Panelled(s, UpdateCogPanel(s))
<1> DEFINE h == PointsAt(s, Zones.cog)
           e == DragEnded(s)
           t == [e EXCEPT !.hand = h]
<1>1. /\ Modal(s) = {"cog"} /\ "report" \notin s.open /\ s \in CtxType
      /\ "cog" \in Modals
  BY OnePanel DEF Modals
<1>2. /\ h \in Someone
      /\ h # Nobody => h \in Hands /\ s.at[h] \in Zones.cog
  BY PointsAtOf
<1>3. (\A p, q \in s.open \cap Modals : p = q) /\ Modal(s) \cap s.open # {}
  BY <1>1 DEF Modal
<1>4. CASE s.drag # Nobody /\ s.drag \in s.down /\ s.drag \in s.valid
  <2>1. UpdateCogPanel(s) = [s EXCEPT !.hand = s.drag]
    BY <1>4 DEF UpdateCogPanel
  <2>2. Becomes(s, [s EXCEPT !.hand = s.drag], s.open, s.drag, s.mods, s.swallowed, s.drag, s.out)
    BY <1>1, Points DEF CtxType
  <2>3. Panelled(s, [s EXCEPT !.hand = s.drag])
    BY <1>1, <1>3, <1>4, <2>2, PanelRule
  <2> QED BY <2>1, <2>3
<1>5. CASE ~(s.drag # Nobody /\ s.drag \in s.down /\ s.drag \in s.valid)
  <2>1. UpdateCogPanel(s) = IF h = Nobody THEN PutAwayFromOutside(t, "cog")
                            ELSE IF h \notin s.edge THEN t ELSE PressCog(t, h)
    BY <1>5 DEF UpdateCogPanel
  <2>2. Becomes(s, e, s.open, Nobody, s.mods, s.swallowed, s.hand, e.out)
    BY <1>1, DragEnds
  <2>3. /\ s.drag # Nobody => EndKept(s, e.dirty, e.out)
        /\ e.out.key = s.out.key /\ e.out.exit = s.out.exit
    BY <1>1, DragEnds DEF EndKept
  <2> HIDE DEF e
  <2>4. Becomes(e, t, e.open, e.drag, e.mods, e.swallowed, h, e.out)
    <3>1. e \in CtxType
      BY <2>2 DEF Becomes
    <3> QED BY <1>2, <3>1, Points
  <2> HIDE DEF h, t
  <2>5. /\ Becomes(s, t, s.open, Nobody, s.mods, s.swallowed, h, e.out)
        /\ s.drag # Nobody => EndKept(s, t.dirty, e.out)
    BY <2>2, <2>3, <2>4, AsideOn, EndStaysKept DEF Becomes
  <2>6. CASE h = Nobody
    <3>1. Panelled(s, PutAwayFromOutside(t, "cog"))
      BY <1>1, <2>3, <2>5, <2>6, OutsidePanelled
    <3> QED BY <2>1, <2>6, <3>1
  <2>7. CASE h # Nobody /\ h \notin s.edge
    <3>1. Panelled(s, t)
      BY <1>1, <1>3, <2>3, <2>5, PanelRule
    <3> QED BY <2>1, <2>7, <3>1
  <2>8. CASE h # Nobody /\ h \in s.edge
    <3>1. Panelled(s, PressCog(t, h))
      BY <1>2, <2>3, <2>5, <2>8, PressCogStep
    <3> QED BY <2>1, <2>8, <3>1
  <2> QED BY <2>6, <2>7, <2>8
<1> QED BY <1>4, <1>5

LEMMA KeyStep ==
  ASSUME NEW s \in CtxType, NEW key, NEW into \in BOOLEAN
  PROVE  /\ Becomes(s, PressKey(s, key, into), PressKey(s, key, into).open, s.drag,
                    PressKey(s, key, into).mods, s.swallowed, s.hand, PressKey(s, key, into).out)
         /\ PressKey(s, key, into).open \in {s.open, s.open \ {"kb"}}
         /\ PressKey(s, key, into).mods => ~into
<1> DEFINE lit == key = "mod" /\ ~s.mods /\ ~into
           t == [s EXCEPT !.mods = lit]
           u == PressKey(s, key, into)
<1>1. lit \in BOOLEAN /\ (lit => ~into)
  OBVIOUS
<1>2. u = CASE key = "char" -> Say(t, "key")
            [] key = "hide" -> Close(t, "kb")
            [] OTHER        -> t
  BY DEF PressKey
<1> HIDE DEF lit
<1>3. Becomes(s, t, s.open, s.drag, lit, s.swallowed, s.hand, s.out)
  BY <1>1, Lights
<1> HIDE DEF t, u
<1>4. t \in CtxType
  BY <1>3 DEF Becomes
<1>5. CASE key = "char"
  <2>1. Becomes(t, u, t.open, t.drag, t.mods, t.swallowed, t.hand, [t.out EXCEPT !["key"] = TRUE])
    BY <1>2, <1>4, <1>5, SaysSo
  <2>2. Becomes(s, u, u.open, s.drag, u.mods, s.swallowed, s.hand, u.out) /\ u.open = s.open
        /\ u.mods = lit
    BY <1>3, <2>1, AsideOn DEF Becomes
  <2> QED BY <1>1, <2>2 DEF u
<1>6. CASE key = "hide"
  <2>1. Becomes(t, u, t.open \ {"kb"}, t.drag, t.mods, t.swallowed, t.hand, t.out)
    BY <1>2, <1>4, <1>6, Closes
  <2>2. Becomes(s, u, u.open, s.drag, u.mods, s.swallowed, s.hand, u.out)
        /\ u.open = s.open \ {"kb"} /\ u.mods = lit
    BY <1>3, <2>1, AsideOn DEF Becomes
  <2> QED BY <1>1, <2>2 DEF u
<1>7. CASE key \notin {"char", "hide"}
  <2>1. u = t
    BY <1>2, <1>7
  <2>2. Becomes(s, u, u.open, s.drag, u.mods, s.swallowed, s.hand, u.out) /\ u.open = s.open
        /\ u.mods = lit
    BY <1>3, <2>1 DEF Becomes
  <2> QED BY <1>1, <2>2 DEF u
<1> QED BY <1>5, <1>6, <1>7

LEMMA PressReportStep ==
  ASSUME NEW s \in CtxType, NEW zone
  PROVE  /\ Becomes(s, PressReport(s, zone), PressReport(s, zone).open, s.drag, s.mods,
                    s.swallowed, s.hand, s.out)
         /\ PressReport(s, zone).open \in {s.open, s.open \cup {"kb"}, s.open \ {"report", "kb"}}
<1> DEFINE u == PressReport(s, zone)
           c == [s EXCEPT !.open = @ \ {"report", "kb"}]
<1>1. u = CASE zone = "field" -> Open(s, "kb")
            [] zone = "close" -> c
            [] OTHER          -> s
  BY DEF PressReport
<1>2. CASE zone = "field"
  <2>1. "kb" \in Panels
    BY DEF Panels
  <2>2. Becomes(s, u, s.open \cup {"kb"}, s.drag, s.mods, s.swallowed, s.hand, s.out)
    BY <1>1, <1>2, <2>1, Opens
  <2> QED BY <2>2 DEF Becomes
<1>3. CASE zone = "close"
  <2>1. c \in CtxType
    BY DEF CtxType
  <2>2. Becomes(s, c, s.open \ {"report", "kb"}, s.drag, s.mods, s.swallowed, s.hand, s.out)
    BY <2>1 DEF Becomes, Aside, CtxType
  <2> HIDE DEF c
  <2>3. u = c
    BY <1>1, <1>3
  <2> QED BY <2>2, <2>3 DEF Becomes
<1>4. CASE zone \notin {"field", "close"}
  <2>1. u = s
    BY <1>1, <1>4
  <2> QED BY <2>1 DEF Becomes, Aside
<1> QED BY <1>2, <1>3, <1>4

LEMMA ReportStep ==
  ASSUME NEW s, Sound(s), "report" \in s.open
  PROVE  Panelled(s, UpdateReport(s))
<1> DEFINE keys == IF "kb" \in s.open THEN Keys ELSE {}
           h == PointsAt(s, (Zones.report \ Keys) \cup keys)
           t == [s EXCEPT !.hand = h]
           u == IF s.at[h] \in Keys THEN PressKey(t, s.at[h], TRUE) ELSE PressReport(t, s.at[h])
<1>1. /\ Modal(s) = {"report"} /\ s.open \cap Modals = {"report"} /\ s.drag = Nobody
      /\ "hint" \notin s.open /\ s \in CtxType /\ s.edge \subseteq Hands /\ ~s.mods
  BY OnePanel DEF Modals, Sound
<1>2. h \in Someone /\ (h # Nobody => h \in Hands)
  BY PointsAtOf
<1>3. Becomes(s, t, s.open, Nobody, s.mods, s.swallowed, h, s.out)
  BY <1>1, <1>2, Points
<1>4. UpdateReport(s) = IF h = Nobody THEN Swallow(t, s.edge)
                        ELSE IF h \notin s.edge THEN t ELSE Swallow(u, {h})
  BY DEF UpdateReport
<1> HIDE DEF h, t
<1>5. t \in CtxType /\ t.edge = s.edge
  BY <1>3 DEF Becomes, Aside
<1>6. (\A p, q \in s.open \cap Modals : p = q) /\ Modal(s) \cap s.open # {}
  BY <1>1
<1>7. CASE h = Nobody
  <2>1. s.edge \in SUBSET Hands
    BY <1>1
  <2>2. Becomes(t, Swallow(t, s.edge), t.open, t.drag, t.mods, t.swallowed \cup s.edge, t.hand, t.out)
    BY <1>5, <2>1, Swallows
  <2>3. Becomes(s, Swallow(t, s.edge), s.open, Nobody, s.mods, s.swallowed \cup s.edge, h, s.out)
    BY <1>3, <2>2, AsideOn DEF Becomes
  <2>4. Panelled(s, Swallow(t, s.edge))
    BY <1>1, <1>6, <2>3, PanelRule
  <2> QED BY <1>4, <1>7, <2>4
<1>8. CASE h # Nobody /\ h \notin s.edge
  <2>1. Panelled(s, t)
    BY <1>1, <1>3, <1>6, PanelRule
  <2> QED BY <1>4, <1>8, <2>1
<1>9. CASE h # Nobody /\ h \in s.edge
  <2>1. /\ Becomes(t, u, u.open, t.drag, u.mods, t.swallowed, t.hand, u.out) /\ ~u.mods
        /\ u.open \in {t.open, t.open \ {"kb"}, t.open \cup {"kb"}, t.open \ {"report", "kb"}}
    <3>1. CASE s.at[h] \in Keys
      <4>1. u = PressKey(t, s.at[h], TRUE)
        BY <3>1
      <4>2. /\ Becomes(t, PressKey(t, s.at[h], TRUE), PressKey(t, s.at[h], TRUE).open, t.drag,
                       PressKey(t, s.at[h], TRUE).mods, t.swallowed, t.hand,
                       PressKey(t, s.at[h], TRUE).out)
            /\ PressKey(t, s.at[h], TRUE).open \in {t.open, t.open \ {"kb"}}
            /\ PressKey(t, s.at[h], TRUE).mods => ~TRUE
        BY <1>5, KeyStep
      <4> QED BY <4>1, <4>2
    <3>2. CASE s.at[h] \notin Keys
      <4>1. u = PressReport(t, s.at[h])
        BY <3>2
      <4>2. /\ Becomes(t, PressReport(t, s.at[h]), PressReport(t, s.at[h]).open, t.drag, t.mods,
                       t.swallowed, t.hand, t.out)
            /\ PressReport(t, s.at[h]).open \in {t.open, t.open \cup {"kb"}, t.open \ {"report", "kb"}}
        BY <1>5, PressReportStep
      <4>3. ~t.mods
        BY <1>1, <1>3 DEF Becomes
      <4> HIDE DEF u
      <4> QED BY <4>1, <4>2, <4>3 DEF Becomes
    <3> QED BY <3>1, <3>2
  <2> HIDE DEF u
  <2>2. Becomes(u, Swallow(u, {h}), u.open, u.drag, u.mods, u.swallowed \cup {h}, u.hand, u.out)
    <3>1. u \in CtxType /\ {h} \in SUBSET Hands
      BY <1>2, <1>9, <2>1 DEF Becomes
    <3> QED BY <3>1, Swallows
  <2>3. Becomes(s, Swallow(u, {h}), u.open, Nobody, u.mods, s.swallowed \cup {h}, h, u.out)
    BY <1>3, <2>1, <2>2, AsideOn DEF Becomes
  <2>4. t.open = s.open
    BY <1>3 DEF Becomes
  <2>5. (\A p, q \in u.open \cap Modals : p = q) /\ "hint" \notin u.open
    BY <1>1, <2>1, <2>4 DEF Modals
  <2>6. Panelled(s, Swallow(u, {h}))
    BY <1>1, <1>9, <2>1, <2>3, <2>5, PanelRule
  <2> QED BY <1>4, <1>9, <2>6
<1> QED BY <1>7, <1>8, <1>9

LEMMA NoteStep ==
  ASSUME NEW s, Sound(s), NEW p \in {"hint", "kofi"}, p \in s.open
  PROVE  Panelled(s, UpdateNote(s, p))
<1> DEFINE h == PointsAt(s, Zones[p])
           t == [s EXCEPT !.hand = h]
<1>0. p \in Modals /\ p # "cog" /\ p # "report"
  BY DEF Modals
<1>1. /\ Modal(s) = {p} /\ s.open \cap Modals = {p} /\ (s.open \ {p}) \cap Modals = {}
      /\ s.drag = Nobody /\ "report" \notin s.open /\ s \in CtxType /\ s.edge \subseteq Hands
  BY <1>0, OnePanel
<1>2. h \in Someone
  BY PointsAtOf
<1>3. Becomes(s, t, s.open, Nobody, s.mods, s.swallowed, h, s.out)
  BY <1>1, <1>2, Points
<1>4. UpdateNote(s, p) = IF s.edge = {} THEN t ELSE Swallow(Close(t, p), s.edge)
  BY DEF UpdateNote
<1> HIDE DEF h, t
<1>5. t \in CtxType /\ s.edge \in SUBSET Hands
  BY <1>1, <1>3 DEF Becomes
<1>6. CASE s.edge = {}
  <2>1. (\A q, r \in s.open \cap Modals : q = r) /\ Modal(s) \cap s.open # {}
    BY <1>1
  <2>2. Panelled(s, t)
    BY <1>1, <1>3, <2>1, PanelRule
  <2> QED BY <1>4, <1>6, <2>2
<1>7. CASE s.edge # {}
  <2>1. Becomes(t, Swallow(Close(t, p), s.edge), t.open \ {p}, t.drag, t.mods,
                t.swallowed \cup s.edge, t.hand, t.out)
    BY <1>5, ClosesTaken
  <2>2. Becomes(s, Swallow(Close(t, p), s.edge), s.open \ {p}, Nobody, s.mods,
                s.swallowed \cup s.edge, h, s.out)
    BY <1>3, <2>1, AsideOn DEF Becomes
  <2>3. \A q, r \in (s.open \ {p}) \cap Modals : q = r
    BY <1>1
  <2>4. Panelled(s, Swallow(Close(t, p), s.edge))
    BY <1>1, <1>7, <2>2, <2>3, PanelRule
  <2> QED BY <1>4, <1>7, <2>4
<1> QED BY <1>6, <1>7

LEMMA FurnitureStep ==
  ASSUME NEW s, Sound(s), Modal(s) = {}
  PROVE  Panelled(s, UpdateFurniture(s))
<1> DEFINE h  == s.hand
           on == IF h = Nobody THEN "none" ELSE s.at[h]
           u  == UpdateFurniture(s)
<1>1. /\ s \in CtxType /\ s.drag = Nobody /\ s.open \cap Modals = {} /\ s.edge \subseteq Hands
      /\ "report" \notin s.open /\ "hint" \notin s.open
  BY DEF Sound, Modal, Modals, CtxType
<1>2. u = IF h \notin s.edge THEN s
          ELSE CASE on \in {"picker", "cog"}       -> Open(s, on)
                 [] on = "kb"                      -> IF "kb" \in s.open THEN Close(s, "kb") ELSE Open(s, "kb")
                 [] on = "exit"                    -> Swallow(Open(s, "exit"), {h})
                 [] on \in Keys /\ "kb" \in s.open -> PressKey(s, on, FALSE)
                 [] OTHER                          -> s
  BY DEF UpdateFurniture
<1> HIDE DEF on, u
<1>3. Becomes(s, s, s.open, Nobody, s.mods, s.swallowed, s.hand, s.out)
  BY <1>1 DEF Becomes, Aside
<1>4. Panelled(s, s)
  BY <1>1, <1>3, PanelRule
<1>5. "kb" \in Panels /\ "exit" \in Panels /\ "picker" \in Panels /\ "cog" \in Panels
  BY DEF Panels, Modals
<1>6. CASE u = s
  BY <1>4, <1>6 DEF u
<1>7. CASE h \in s.edge /\ on \in {"picker", "cog"} /\ u = Open(s, on)
  <2>1. Becomes(s, u, s.open \cup {on}, Nobody, s.mods, s.swallowed, s.hand, s.out)
    BY <1>1, <1>5, <1>7, Opens
  <2>2. /\ \A p, q \in (s.open \cup {on}) \cap Modals : p = q
        /\ "report" \notin s.open \cup {on} /\ "hint" \notin s.open \cup {on}
    BY <1>1, <1>7
  <2> QED BY <1>1, <1>7, <2>1, <2>2, PanelRule DEF u
<1>8. CASE h \in s.edge /\ u = Close(s, "kb")
  <2>1. Becomes(s, u, s.open \ {"kb"}, Nobody, s.mods, s.swallowed, s.hand, s.out)
    BY <1>1, <1>8, Closes
  <2>2. /\ \A p, q \in (s.open \ {"kb"}) \cap Modals : p = q
    BY <1>1
  <2> QED BY <1>1, <1>8, <2>1, <2>2, PanelRule DEF u
<1>9. CASE h \in s.edge /\ u = Open(s, "kb")
  <2>1. Becomes(s, u, s.open \cup {"kb"}, Nobody, s.mods, s.swallowed, s.hand, s.out)
    BY <1>1, <1>5, <1>9, Opens
  <2>2. /\ \A p, q \in (s.open \cup {"kb"}) \cap Modals : p = q
        /\ "report" \notin s.open \cup {"kb"} /\ "hint" \notin s.open \cup {"kb"}
    BY <1>1 DEF Modals
  <2> QED BY <1>1, <1>9, <2>1, <2>2, PanelRule DEF u
<1>10. CASE h \in s.edge /\ u = Swallow(Open(s, "exit"), {h})
  <2> DEFINE v == Open(s, "exit")
  <2>1. Becomes(s, v, s.open \cup {"exit"}, Nobody, s.mods, s.swallowed, s.hand, s.out)
    BY <1>1, <1>5, Opens
  <2> HIDE DEF v
  <2>2. v \in CtxType /\ {h} \in SUBSET Hands
    BY <1>1, <1>10, <2>1 DEF Becomes
  <2>3. Becomes(v, Swallow(v, {h}), v.open, v.drag, v.mods, v.swallowed \cup {h}, v.hand, v.out)
    BY <2>2, Swallows
  <2>4. u = Swallow(v, {h})
    BY <1>10 DEF v
  <2>5. Becomes(s, u, s.open \cup {"exit"}, Nobody, s.mods, s.swallowed \cup {h}, s.hand, s.out)
    BY <2>1, <2>3, <2>4, AsideOn DEF Becomes
  <2>6. /\ \A p, q \in (s.open \cup {"exit"}) \cap Modals : p = q
        /\ "report" \notin s.open \cup {"exit"} /\ "hint" \notin s.open \cup {"exit"}
    BY <1>1
  <2> QED BY <1>1, <1>10, <2>5, <2>6, PanelRule DEF u
<1>11. CASE h \in s.edge /\ u = PressKey(s, on, FALSE)
  <2>1. /\ Becomes(s, PressKey(s, on, FALSE), PressKey(s, on, FALSE).open, s.drag,
                   PressKey(s, on, FALSE).mods, s.swallowed, s.hand, PressKey(s, on, FALSE).out)
        /\ PressKey(s, on, FALSE).open \in {s.open, s.open \ {"kb"}}
    BY <1>1, KeyStep
  <2>2. Becomes(s, u, u.open, Nobody, u.mods, s.swallowed, s.hand, u.out)
        /\ u.open \in {s.open, s.open \ {"kb"}}
    BY <1>1, <1>11, <2>1
  <2>3. /\ \A p, q \in u.open \cap Modals : p = q
        /\ "report" \notin u.open /\ "hint" \notin u.open
    BY <1>1, <2>2
  <2> QED BY <1>1, <1>11, <2>2, <2>3, PanelRule DEF u
<1>12. ASSUME u # s
       PROVE  \/ h \in s.edge /\ on \in {"picker", "cog"} /\ u = Open(s, on)
              \/ h \in s.edge /\ u = Close(s, "kb")
              \/ h \in s.edge /\ u = Open(s, "kb")
              \/ h \in s.edge /\ u = Swallow(Open(s, "exit"), {h})
              \/ h \in s.edge /\ u = PressKey(s, on, FALSE)
  <2>1. /\ h \in s.edge
        /\ u = CASE on \in {"picker", "cog"}       -> Open(s, on)
                 [] on = "kb"                      -> IF "kb" \in s.open THEN Close(s, "kb") ELSE Open(s, "kb")
                 [] on = "exit"                    -> Swallow(Open(s, "exit"), {h})
                 [] on \in Keys /\ "kb" \in s.open -> PressKey(s, on, FALSE)
                 [] OTHER                          -> s
    BY <1>2, <1>12
  <2>2. on \in {"picker", "cog"} => u = Open(s, on)
    BY <2>1 DEF Keys
  <2>3. on = "kb" => u \in {Close(s, "kb"), Open(s, "kb")}
    BY <2>1 DEF Keys
  <2>4. on = "exit" => u = Swallow(Open(s, "exit"), {h})
    BY <2>1 DEF Keys
  <2>5. on \in Keys /\ "kb" \in s.open => u = PressKey(s, on, FALSE)
    BY <2>1 DEF Keys
  <2>6. on \notin {"picker", "cog", "kb", "exit"} /\ ~(on \in Keys /\ "kb" \in s.open) => u = s
    BY <2>1
  <2> QED BY <1>12, <2>1, <2>2, <2>3, <2>4, <2>5, <2>6
<1>13. CASE u # s
  BY <1>7, <1>8, <1>9, <1>10, <1>11, <1>12, <1>13
<1> QED BY <1>6, <1>13

LEMMA UpdatePanelsStep ==
  ASSUME NEW s, Sound(s)
  PROVE  Panelled(s, UpdatePanels(s))
<1>1. "hint" \in s.open => Panelled(s, UpdateNote(s, "hint"))
  BY NoteStep
<1>2. "kofi" \in s.open => Panelled(s, UpdateNote(s, "kofi"))
  BY NoteStep
<1>3. s.open \cap {"picker", "cog", "exit", "report", "hint", "kofi"} = {}
          => Panelled(s, UpdateFurniture(s))
  BY FurnitureStep DEF Modal, Modals
<1> QED BY <1>1, <1>2, <1>3, PickerStep, CogStep, ExitStep, ReportStep DEF UpdatePanels

LEMMA DismissStep ==
  ASSUME NEW s, Sound(s), NEW t, Panelled(s, t)
  PROVE  Panelled(s, DismissKeyboard(t)) /\ Dismissing(t) \subseteq DismissKeyboard(t).swallowed
<1> DEFINE H == {g \in t.edge : CanPoint(t, g) /\ t.at[g] = "none"}
           h == Dismisser(t)
           u == DismissKeyboard(t)
<1>1. /\ Sound(t) /\ t \in CtxType /\ t.edge \subseteq Hands /\ t.edge = s.edge /\ Aside(s, t)
  BY DEF Panelled, Sound, CtxType, Aside
<1>2. h # Nobody => h \in t.edge
  <2>1. H \in SUBSET Hands
    BY <1>1
  <2>2. First(H) # Nobody => First(H) \in H
    BY <2>1, FirstOf
  <2> QED BY <2>2 DEF Dismisser
<1>3. u = IF h = Nobody THEN t ELSE Swallow(Close(t, "kb"), {h})
  BY DEF DismissKeyboard
<1> HIDE DEF h
<1>4. CASE h = Nobody
  BY <1>4, <1>3 DEF Dismissing, h
<1>5. CASE h # Nobody
  <2>1. u = Swallow(Close(t, "kb"), {h}) /\ h \in t.edge
    BY <1>2, <1>3, <1>5
  <2>2. {h} \in SUBSET Hands
    BY <1>1, <2>1
  <2>3. Becomes(t, u, t.open \ {"kb"}, t.drag, t.mods, t.swallowed \cup {h}, t.hand, t.out)
    BY <1>1, <2>1, <2>2, ClosesTaken
  <2> HIDE DEF u
  <2>4. /\ u \in CtxType /\ u.open = t.open \ {"kb"} /\ u.drag = t.drag /\ u.mods = t.mods
        /\ u.swallowed = t.swallowed \cup {h} /\ u.hand = t.hand /\ u.out = t.out
        /\ u.edge = t.edge /\ u.down = t.down /\ u.locked = t.locked /\ u.hintShown = t.hintShown
        /\ t.dirty => u.dirty
    BY <2>3 DEF Becomes, Aside
  <2>5. Sound(u)
    BY <1>1, <2>4 DEF Sound, AtMostOne, Modal
  <2>6. Closing(s, u) = Closing(s, t)
    BY <2>4 DEF Closing, Modal, Modals
  <2>7. Aside(s, u)
    BY <1>1, <2>3, AsideOn DEF Becomes
  <2>8. s.edge # {}
    BY <1>1, <2>1
  <2>9. Panelled(s, u)
    BY <2>4, <2>5, <2>6, <2>7, <2>8, <1>1 DEF Panelled, EndKept, Aside
  <2>10. Dismissing(t) \subseteq u.swallowed
    BY <2>4 DEF Dismissing, h
  <2> QED BY <2>9, <2>10 DEF u
<1> QED BY <1>4, <1>5

-----------------------------------------------------------------------------
(* The screen is taken by its handles with no panel up, and a hold that ends *)
(* leaves a placement to hand back.                                          *)
Grasped(s, t, modal) ==
    \/ t.grab = s.grab
    \/ t.grab = Nobody /\ t.dirty
    \/ /\ s.grab = Nobody /\ ~modal /\ t.grab \in Hands /\ s.at[t.grab] \in Handles
       /\ t.grab \in t.gripped \/ t.grab \in s.edge

LEMMA GrabStep ==
  ASSUME NEW s, s \in CtxType, NEW i, NEW modal
  PROVE  /\ ApplyGrab(s, i, modal) \in CtxType /\ Grasped(s, ApplyGrab(s, i, modal), modal)
         /\ s.dirty => ApplyGrab(s, i, modal).dirty
         /\ \A part \in {"open", "down", "swallowed", "edge", "drag", "mods", "locked", "on",
                         "hintShown", "button", "out", "hand", "at", "chosen"} :
                ApplyGrab(s, i, modal)[part] = s[part]
<1> DEFINE gripped == {h \in Hands : i.press[h] = "grip"}
           t       == [s EXCEPT !.gripped = gripped]
           kept    == /\ s.grab \in (IF s.byTrigger THEN s.down ELSE gripped)
                      /\ s.grab \in s.valid
           h       == s.hand
           byGrip  == h \in gripped \ s.gripped
           takes   == /\ ~modal /\ h # Nobody /\ s.at[h] \in Handles
                      /\ byGrip \/ (h \in s.edge /\ s.at[h] = "bar")
           left    == [t EXCEPT !.grab = Nobody, !.byTrigger = FALSE, !.dirty = TRUE]
           taken   == [t EXCEPT !.grab = h, !.byTrigger = ~byGrip]
           u       == ApplyGrab(s, i, modal)
<1>1. u = IF s.grab # Nobody THEN (IF kept THEN t ELSE left) ELSE IF takes THEN taken ELSE t
  <2>1. u = IF s.grab # Nobody THEN (IF kept THEN t ELSE LetGo(t)) ELSE IF takes THEN taken ELSE t
    BY DEF ApplyGrab
  <2>2. t.grab = s.grab
    BY DEF CtxType
  <2> QED BY <2>1, <2>2 DEF LetGo
<1>2. gripped \subseteq Hands /\ (byGrip => h \in gripped)
  OBVIOUS
<1>3. (~byGrip) \in BOOLEAN
  BY Zenon
<1>4. takes => h \in Hands /\ ~modal /\ s.at[h] \in Handles /\ (h \in gripped \/ h \in s.edge)
  BY DEF CtxType, Someone
<1> HIDE DEF gripped, byGrip, takes, kept
<1>5. t \in CtxType /\ left \in CtxType
  BY <1>2, HandsAre DEF CtxType
<1>6. h \in Hands => taken \in CtxType
  <2> DEFINE not == ~byGrip
  <2>1. not \in BOOLEAN
    BY <1>3
  <2>2. taken = [t EXCEPT !.grab = h, !.byTrigger = not]
    OBVIOUS
  <2> HIDE DEF not, t, taken
  <2> QED BY <1>5, <2>1, <2>2, HandsAre DEF CtxType
<1>7. \A part \in {"open", "down", "swallowed", "edge", "drag", "mods", "locked", "on",
                  "hintShown", "button", "out", "hand", "at", "chosen"} :
          t[part] = s[part] /\ left[part] = s[part] /\ taken[part] = s[part]
  BY DEF CtxType
<1>8. /\ t.grab = s.grab /\ t.dirty = s.dirty /\ left.grab = Nobody /\ left.dirty = TRUE
      /\ taken.grab = h /\ taken.dirty = s.dirty /\ taken.gripped = gripped
  BY DEF CtxType
<1> HIDE DEF t, left, taken
<1>9. u \in {t, left} \/ (u = taken /\ takes /\ s.grab = Nobody)
  BY <1>1
<1>10. u \in CtxType
  BY <1>4, <1>5, <1>6, <1>9
<1>11. Grasped(s, u, modal)
  BY <1>4, <1>8, <1>9 DEF Grasped
<1>12. s.dirty => u.dirty
  BY <1>8, <1>9
<1>13. \A part \in {"open", "down", "swallowed", "edge", "drag", "mods", "locked", "on",
                   "hintShown", "button", "out", "hand", "at", "chosen"} : u[part] = s[part]
  BY <1>7, <1>9
<1> HIDE DEF u
<1> QED BY <1>10, <1>11, <1>12, <1>13 DEF u

(* The slots that are not the pose's or the pick's, as they were. *)
SameSaid(o, q) == o.setting = q.setting /\ o.key = q.key /\ o.exit = q.exit

LEMMA PoseStep ==
  ASSUME NEW s, s \in CtxType
  PROVE  /\ WritePose(s) \in CtxType /\ ~WritePose(s).dirty
         /\ s.dirty => WritePose(s).out.pose
         /\ SameSaid(WritePose(s).out, s.out)
         /\ \A part \in {"open", "down", "swallowed", "edge", "drag", "mods", "locked", "on",
                         "hintShown", "button", "grab", "gripped"} : WritePose(s)[part] = s[part]
<1> DEFINE v == Say(s, "pose")
           u == [v EXCEPT !.dirty = FALSE]
<1>0. s.out \in OutType
  BY DEF CtxType
<1>1. v \in CtxType /\ v = [s EXCEPT !.out = [s.out EXCEPT !["pose"] = TRUE]]
  BY SayType
<1>2. /\ v.out.pose = TRUE
      /\ SameSaid(v.out, s.out)
      /\ \A part \in {"open", "down", "swallowed", "edge", "drag", "mods", "locked", "on",
                      "hintShown", "button", "grab", "gripped"} : v[part] = s[part]
  <2> DEFINE said == [s.out EXCEPT !["pose"] = TRUE]
  <2>1. said.pose = TRUE /\ SameSaid(said, s.out)
    BY <1>0 DEF OutType, SameSaid
  <2> HIDE DEF said
  <2>2. v = [s EXCEPT !.out = said]
    BY <1>1 DEF said
  <2> HIDE DEF v
  <2> QED BY <2>1, <2>2 DEF CtxType
<1>3. WritePose(s) = IF s.dirty THEN u ELSE s
  BY DEF WritePose
<1> HIDE DEF v
<1>4. u \in CtxType /\ u.dirty = FALSE /\ u.out = v.out
  BY <1>1 DEF CtxType
<1>5. \A part \in {"open", "down", "swallowed", "edge", "drag", "mods", "locked", "on",
                  "hintShown", "button", "grab", "gripped"} : u[part] = v[part]
  BY <1>1 DEF CtxType
<1> HIDE DEF u
<1> QED BY <1>2, <1>3, <1>4, <1>5 DEF SameSaid

(* The button is only kept down, or pressed, by a press that is not          *)
(* swallowed, with the screen let go and the pointer on.                     *)
LEMMA SendStep ==
  ASSUME NEW s, s \in CtxType, NEW modal
  PROVE  /\ SendButton(s, modal) \in CtxType
         /\ SendButton(s, modal).button => /\ s.grab = Nobody /\ s.on
                                           /\ s.down \ s.swallowed # {}
                                           /\ s.button \/ ~modal
         /\ s.dirty => SendButton(s, modal).out.pose
         /\ SameSaid(SendButton(s, modal).out, s.out)
         /\ \A part \in {"open", "down", "swallowed", "edge", "drag", "mods", "locked", "on",
                         "hintShown", "grab", "gripped"} : SendButton(s, modal)[part] = s[part]
<1> DEFINE t    == WritePose(s)
           hit  == ~modal /\ s.hand # Nobody /\ s.at[s.hand] \in {"screen", "corner"}
           mask == s.down \ s.swallowed # {}
           last == mask /\ (s.button \/ hit)
           out  == [t.out EXCEPT !.pick = s.chosen]
           v    == [t EXCEPT !.button = FALSE]
           w    == [t EXCEPT !.button = last, !.out = out]
           u    == SendButton(s, modal)
<1>1. /\ t \in CtxType /\ (s.dirty => t.out.pose)
      /\ SameSaid(t.out, s.out)
      /\ \A part \in {"open", "down", "swallowed", "edge", "drag", "mods", "locked", "on",
                      "hintShown", "grab", "gripped"} : t[part] = s[part]
  BY PoseStep
<1>2. u = IF s.grab # Nobody \/ ~s.on THEN v ELSE w
  <2>1. w = [t EXCEPT !.button = last, !.out.pick = s.chosen]
    BY <1>1 DEF CtxType
  <2> QED BY <2>1 DEF SendButton
<1>3. last \in BOOLEAN
  BY Zenon
<1>4. last => s.down \ s.swallowed # {} /\ (s.button \/ ~modal)
  OBVIOUS
<1>5. out \in OutType /\ out.pose = t.out.pose
      /\ SameSaid(out, t.out)
  BY <1>1 DEF CtxType, OutType, SameSaid
<1> HIDE DEF t, last, out
<1>6. v \in CtxType /\ w \in CtxType
  BY <1>1, <1>3, <1>5 DEF CtxType
<1>7. /\ v.button = FALSE /\ w.button = last /\ v.out = t.out /\ w.out = out
      /\ \A part \in {"open", "down", "swallowed", "edge", "drag", "mods", "locked", "on",
                      "hintShown", "grab", "gripped"} : v[part] = t[part] /\ w[part] = t[part]
  BY <1>1 DEF CtxType
<1> HIDE DEF v, w, u
<1>8. u \in CtxType
  BY <1>2, <1>6
<1>9. u.button => s.grab = Nobody /\ s.on /\ s.down \ s.swallowed # {} /\ (s.button \/ ~modal)
  BY <1>2, <1>4, <1>7
<1>10. s.dirty => u.out.pose
  BY <1>1, <1>2, <1>5, <1>7
<1>11. SameSaid(u.out, s.out)
  BY <1>1, <1>2, <1>5, <1>7 DEF SameSaid
<1>12. \A part \in {"open", "down", "swallowed", "edge", "drag", "mods", "locked", "on",
                   "hintShown", "grab", "gripped"} : u[part] = s[part]
  BY <1>1, <1>2, <1>7
<1> QED BY <1>8, <1>9, <1>10, <1>11, <1>12 DEF u

LEMMA HandBackStep ==
  ASSUME NEW s, s \in CtxType
  PROVE  /\ HandBack(s) \in CtxType /\ HandBack(s).edge = {}
         /\ HandBack(s).mods => s.mods /\ "kb" \in s.open
         /\ \A part \in {"open", "down", "swallowed", "drag", "locked", "on", "hintShown",
                         "button", "grab", "gripped", "dirty", "out"} : HandBack(s)[part] = s[part]
<1> DEFINE lit == s.mods /\ "kb" \in s.open
           u == [s EXCEPT !.mods = lit, !.edge = {}, !.valid = {}, !.at = Nowhere, !.hand = Nobody]
<1>1. HandBack(s) = u
  BY DEF HandBack
<1>2. lit \in BOOLEAN /\ (lit => s.mods /\ "kb" \in s.open)
  BY Zenon
<1> HIDE DEF lit
<1>3. u \in CtxType
  BY <1>2, NowhereType, HandsAre DEF CtxType
<1>4. /\ u.mods = lit /\ u.edge = {}
      /\ \A part \in {"open", "down", "swallowed", "drag", "locked", "on", "hintShown",
                      "button", "grab", "gripped", "dirty", "out"} : u[part] = s[part]
  BY DEF CtxType
<1> HIDE DEF u
<1> QED BY <1>1, <1>2, <1>3, <1>4

-----------------------------------------------------------------------------
(* Where a ray may be is a place, or it is lost.                             *)
LEMMA AimsType ==
  ASSUME InputInv, NEW h, NEW press
  PROVE  Aims(h, press) \subseteq Places \cup {"lost"}
<1> DEFINE onIt   == UNION {Zones[p] : p \in Modal(ctx)}
           hovers == IF Modal(ctx) = {} THEN {"none", "screen", "bar"}
                     ELSE {"none"} \cup {CHOOSE z \in onIt : TRUE}
<1>1. onIt \subseteq UNION {Zones[p] : p \in Modals}
  BY DEF Modal
<1>2. Modal(ctx) # {} => onIt # {}
  BY DEF Modal, Modals, Zones
<1>3. Modal(ctx) # {} => (CHOOSE z \in onIt : TRUE) \in onIt
  BY <1>2
<1>4. hovers \subseteq Places
  BY <1>1, <1>3 DEF Places, Handles
<1>5. Pressable \subseteq Places
  BY <1>1 DEF Pressable, Places
<1>6. Aims(h, press) = IF press # "no" /\ h \in {ctx.grab, ctx.drag} THEN {"none", "screen", "lost"}
                       ELSE IF press = "no" \/ h \in ctx.down \cup ctx.gripped THEN hovers
                       ELSE {"none", "screen"} \cup (Pressable \cap Spots)
  BY DEF Aims
<1>7. "none" \in Places /\ "screen" \in Places
  BY DEF Places
<1> HIDE DEF hovers
<1> QED BY <1>4, <1>5, <1>6, <1>7

(* A whole pass: s as it was ahead of the panels' turn, t after it and c     *)
(* handed back.                                                              *)
Passed(s, t, c) ==
    /\ Readied(s) /\ Panelled(s, t)
    /\ c \in CtxType /\ c.edge = {}
    /\ c.open = t.open /\ c.down = s.down /\ c.swallowed = t.swallowed /\ c.locked = s.locked
    /\ c.drag = t.drag /\ c.hintShown = s.hintShown
    /\ c.mods => t.mods /\ "kb" \in t.open
    /\ c.button => /\ c.grab = Nobody /\ c.on /\ c.down \ c.swallowed # {}
                   /\ s.button \/ Modal(s) = {}
    /\ c.out.setting = t.out.setting /\ c.out.key = t.out.key /\ c.out.exit = t.out.exit
    /\ t.dirty => c.out.pose
    /\ \/ c.grab = s.grab
       \/ c.grab = Nobody /\ c.out.pose
       \/ /\ s.grab = Nobody /\ Modal(s) = {} /\ c.grab \in Hands /\ s.at[c.grab] \in Handles
          /\ c.grab \in c.gripped \/ c.grab \in s.edge

LEMMA PassPassed ==
  ASSUME NEW s, Readied(s), NEW i
  PROVE  LET modal == Modal(s) # {}
             t == DismissKeyboard(UpdatePanels(s))
         IN  Passed(s, t, HandBack(SendButton(ApplyGrab(t, i, modal), modal)))
<1> DEFINE modal == Modal(s) # {}
           t == DismissKeyboard(UpdatePanels(s))
           u == ApplyGrab(t, i, modal)
           v == SendButton(u, modal)
           c == HandBack(v)
<1>1. Panelled(s, t)
  <2>1. Sound(s)
    BY DEF Readied
  <2>2. Panelled(s, UpdatePanels(s))
    BY <2>1, UpdatePanelsStep
  <2> QED BY <2>1, <2>2, DismissStep
<1> HIDE DEF t
<1>2. /\ t \in CtxType /\ t.down = s.down /\ t.edge = s.edge /\ t.at = s.at /\ t.locked = s.locked
      /\ t.grab = s.grab /\ t.button = s.button /\ t.hintShown = s.hintShown
  BY <1>1 DEF Panelled, Sound, Aside
<1> DEFINE carried == {"open", "down", "swallowed", "drag", "locked", "on", "hintShown"}
<1> HIDE DEF modal
<1>3. /\ u \in CtxType /\ Grasped(t, u, modal) /\ (t.dirty => u.dirty) /\ u.out = t.out
      /\ u.button = t.button /\ u.mods = t.mods
      /\ \A part \in carried : u[part] = t[part]
  BY <1>2, GrabStep
<1> HIDE DEF u
<1>4. /\ v \in CtxType
      /\ v.button => /\ u.grab = Nobody /\ u.on /\ u.down \ u.swallowed # {}
                     /\ u.button \/ ~modal
      /\ u.dirty => v.out.pose
      /\ SameSaid(v.out, u.out)
      /\ v.grab = u.grab /\ v.gripped = u.gripped /\ v.mods = u.mods
      /\ \A part \in carried : v[part] = u[part]
  <2>1. /\ SendButton(u, modal) \in CtxType
        /\ SendButton(u, modal).button => /\ u.grab = Nobody /\ u.on
                                          /\ u.down \ u.swallowed # {}
                                          /\ u.button \/ ~modal
        /\ u.dirty => SendButton(u, modal).out.pose
        /\ SameSaid(SendButton(u, modal).out, u.out)
        /\ \A part \in {"open", "down", "swallowed", "edge", "drag", "mods", "locked", "on",
                        "hintShown", "grab", "gripped"} : SendButton(u, modal)[part] = u[part]
    BY <1>3, SendStep
  <2> QED BY <2>1
<1> HIDE DEF v
<1>5. /\ c \in CtxType /\ c.edge = {} /\ (c.mods => v.mods /\ "kb" \in v.open)
      /\ c.button = v.button /\ c.grab = v.grab /\ c.gripped = v.gripped /\ c.out = v.out
      /\ \A part \in carried : c[part] = v[part]
  BY <1>4, HandBackStep
<1> HIDE DEF c
<1>6. /\ c.open = t.open /\ c.down = t.down /\ c.swallowed = t.swallowed /\ c.drag = t.drag
      /\ c.locked = t.locked /\ c.hintShown = t.hintShown /\ c.on = u.on
      /\ u.down = c.down /\ u.swallowed = c.swallowed /\ v.open = t.open
  BY <1>3, <1>4, <1>5
<1>7. /\ c.mods => t.mods /\ "kb" \in t.open
      /\ c.button => /\ c.grab = Nobody /\ c.on /\ c.down \ c.swallowed # {}
                     /\ s.button \/ Modal(s) = {}
  BY <1>2, <1>3, <1>4, <1>5, <1>6 DEF modal
<1>8. c.out.setting = t.out.setting /\ c.out.key = t.out.key /\ c.out.exit = t.out.exit
  BY <1>3, <1>4, <1>5 DEF SameSaid
<1>9. (t.dirty => c.out.pose) /\ (u.dirty => c.out.pose)
  BY <1>2, <1>3, <1>4, <1>5
<1>10. \/ c.grab = s.grab
       \/ c.grab = Nobody /\ c.out.pose
       \/ /\ s.grab = Nobody /\ Modal(s) = {} /\ c.grab \in Hands /\ s.at[c.grab] \in Handles
          /\ c.grab \in c.gripped \/ c.grab \in s.edge
  <2>1. c.grab = u.grab /\ c.gripped = u.gripped
    BY <1>4, <1>5
  <2> QED BY <1>2, <1>3, <1>9, <2>1 DEF Grasped, modal
<1>11. Passed(s, t, c)
  BY <1>1, <1>2, <1>5, <1>6, <1>7, <1>8, <1>9, <1>10 DEF Passed
<1> QED BY <1>11 DEF c, v, u, t, modal

LEMMA FramePassed ==
  ASSUME InputInv, Frame
  PROVE  \E s, t : /\ Passed(s, t, ctx')
                   /\ closers' \subseteq (closers \cap ctx'.down) \cup t.swallowed
<1>1. PICK r \in Presses("right"), l \in Presses("left") :
        LET press == [h \in Hands |-> IF h = "right" THEN r ELSE l] IN
        \E ra \in Aims("right", r), la \in Aims("left", l), event \in Events(press) :
          LET i == [press |-> press, event |-> event,
                    at    |-> [h \in Hands |-> IF h = "right" THEN ra ELSE la]]
              pointing == PickPointing(UpdatePointerWake(
                              ApplyHandLock(UpdateLockGesture(ReadSources(i), i)), i))
              before   == UpdateHintOpening(pointing, i)
              modal    == Modal(before) # {}
              panelled == UpdatePanels(before)
              done     == SendButton(ApplyGrab(DismissKeyboard(panelled), i, modal), modal)
          IN  /\ ctx' = HandBack(done)
              /\ closers' = (closers \cap done.down)
                                \cup Closing(before, panelled) \cup Dismissing(panelled)
  BY DEF Frame
<1> DEFINE press == [h \in Hands |-> IF h = "right" THEN r ELSE l]
<1>2. PICK ra \in Aims("right", r), la \in Aims("left", l), event \in Events(press) :
          LET i == [press |-> press, event |-> event,
                    at    |-> [h \in Hands |-> IF h = "right" THEN ra ELSE la]]
              pointing == PickPointing(UpdatePointerWake(
                              ApplyHandLock(UpdateLockGesture(ReadSources(i), i)), i))
              before   == UpdateHintOpening(pointing, i)
              modal    == Modal(before) # {}
              panelled == UpdatePanels(before)
              done     == SendButton(ApplyGrab(DismissKeyboard(panelled), i, modal), modal)
          IN  /\ ctx' = HandBack(done)
              /\ closers' = (closers \cap done.down)
                                \cup Closing(before, panelled) \cup Dismissing(panelled)
  BY <1>1
<1> DEFINE at == [h \in Hands |-> IF h = "right" THEN ra ELSE la]
           i == [press |-> press, event |-> event, at |-> at]
           s == UpdateHintOpening(PickPointing(UpdatePointerWake(
                     ApplyHandLock(UpdateLockGesture(ReadSources(i), i)), i)), i)
           modal == Modal(s) # {}
           q == UpdatePanels(s)
           t == DismissKeyboard(q)
           done == SendButton(ApplyGrab(t, i, modal), modal)
<1>3. /\ ctx' = HandBack(done)
      /\ closers' = (closers \cap done.down) \cup Closing(s, q) \cup Dismissing(q)
  BY <1>2
<1>4. i.at \in [Hands -> Places \cup {"lost"}]
  <2>1. ra \in Places \cup {"lost"} /\ la \in Places \cup {"lost"}
    BY AimsType
  <2>2. at \in [Hands -> Places \cup {"lost"}]
    BY <2>1
  <2> QED BY <2>2
<1> HIDE DEF i
<1>5. Readied(s)
  BY <1>4, PassReadied
<1> HIDE DEF s
<1>6. Passed(s, t, HandBack(done))
  BY <1>5, PassPassed
<1>7. done.down = ctx'.down
  <2> DEFINE u == ApplyGrab(t, i, modal)
  <2>1. t \in CtxType
    BY <1>6 DEF Passed, Panelled, Sound
  <2> HIDE DEF t
  <2>2. u \in CtxType
    BY <2>1, GrabStep
  <2> HIDE DEF u
  <2>3. SendButton(u, modal) \in CtxType
    BY <2>2, SendStep
  <2>4. done \in CtxType
    BY <2>3 DEF u
  <2> HIDE DEF done
  <2>5. HandBack(done).down = done.down
    BY <2>4, HandBackStep
  <2> QED BY <1>3, <2>5
<1> HIDE DEF q, done
<1>8. Closing(s, q) \cup Dismissing(q) \subseteq DismissKeyboard(q).swallowed
  <2>1. Sound(s)
    BY <1>5 DEF Readied
  <2>2. Panelled(s, q)
    BY <2>1, UpdatePanelsStep DEF q
  <2>3. Panelled(s, DismissKeyboard(q)) /\ Dismissing(q) \subseteq DismissKeyboard(q).swallowed
    BY ONLY <2>1, <2>2, DismissStep
  <2>4. q.swallowed \subseteq DismissKeyboard(q).swallowed
    <3>1. DismissKeyboard(q) = IF Dismisser(q) = Nobody THEN q ELSE Swallow(Close(q, "kb"), {Dismisser(q)})
      BY DEF DismissKeyboard
    <3>2. q \in CtxType
      BY <2>2 DEF Panelled, Sound
    <3> QED BY <3>1, <3>2 DEF Swallow, Close, CtxType
  <2> QED BY <2>2, <2>3, <2>4 DEF Panelled, Sound, CtxType
<1>9. closers' \subseteq (closers \cap ctx'.down) \cup t.swallowed
  BY <1>3, <1>7, <1>8
<1> QED BY <1>3, <1>6, <1>9

-----------------------------------------------------------------------------
LEMMA PassKeeps ==
  ASSUME InputInv, NEW s, NEW t, Passed(s, t, ctx'),
         closers' \subseteq (closers \cap ctx'.down) \cup t.swallowed
  PROVE  InputInv'
<1> DEFINE c == ctx'
<1>1. /\ Readied(s) /\ Panelled(s, t) /\ c \in CtxType /\ c.edge = {}
      /\ c.open = t.open /\ c.down = s.down /\ c.swallowed = t.swallowed /\ c.locked = s.locked
      /\ c.drag = t.drag /\ c.hintShown = s.hintShown /\ (c.mods => t.mods /\ "kb" \in t.open)
      /\ c.out.key = t.out.key /\ c.out.exit = t.out.exit
  BY DEF Passed
<1>2. Sound(t) /\ t.locked = s.locked /\ t.hintShown = s.hintShown
  BY <1>1 DEF Panelled, Aside
<1>3. Sound(c)
  BY <1>1, <1>2 DEF Sound, AtMostOne, Modal
<1>4. /\ c.grab # Nobody \/ ~c.on => ~c.button
      /\ c.button => c.down \ c.swallowed # {}
  BY DEF Passed
<1>5. closers' \subseteq c.swallowed
  BY <1>1 DEF Readied, Panelled
<1>6. c.out.key \/ c.out.exit => c.down # {}
  <2>1. s.edge = {} => ~c.out.key /\ ~c.out.exit
    <3>1. s.out = Silent /\ (s.edge = {} => t.out.key = s.out.key /\ t.out.exit = s.out.exit)
      BY <1>1 DEF Readied, Panelled
    <3> QED BY <1>1, <3>1, SilentSays
  <2>2. s.edge \subseteq s.down
    BY <1>1 DEF Readied, Sound
  <2> QED BY <1>1, <2>1, <2>2
<1>7. c.locked => c.down \cap Tracked = {}
  BY <1>1 DEF Readied, Shut
<1>8. c.drag # Nobody => c.drag \in c.down
  BY <1>1 DEF Panelled
<1> QED BY <1>1, <1>3, <1>4, <1>5, <1>6, <1>7, <1>8 DEF InputInv

LEMMA PassReaches ==
  ASSUME InputInv, NEW s, NEW t, Passed(s, t, ctx')
  PROVE  PanelsShield /\ LockedHandsReachNothing
<1> DEFINE c == ctx'
<1>1. /\ Readied(s) /\ Panelled(s, t) /\ c.open = t.open /\ c.down = s.down
      /\ c.locked = s.locked /\ c.drag = t.drag
      /\ c.button => c.down \ c.swallowed # {} /\ (s.button \/ Modal(s) = {})
      /\ c.out.key = t.out.key /\ c.out.exit = t.out.exit
      /\ \/ c.grab = s.grab
         \/ c.grab = Nobody
         \/ /\ s.grab = Nobody /\ Modal(s) = {} /\ c.grab \in Hands /\ s.at[c.grab] \in Handles
            /\ c.grab \in c.gripped \/ c.grab \in s.edge
  BY DEF Passed
<1>2. /\ s.grab = ctx.grab \/ s.grab = Nobody
      /\ s.button => ctx.button
      /\ s.drag = ctx.drag /\ s.out = Silent /\ Shut(s) /\ s.edge \subseteq s.down
      /\ Modal(ctx) # {} /\ (Modal(ctx) = {"hint"} => ~s.locked) => Modal(s) # {}
      /\ ctx.locked /\ s.locked => s.open = ctx.open
  BY <1>1 DEF Readied, Sound
<1>3. PanelsShield
  BY <1>1, <1>2 DEF PanelsShield
<1>4. ASSUME ctx.locked, c.locked, c.down \cup c.gripped \subseteq Tracked
      PROVE  /\ c.open = ctx.open /\ c.drag \in {ctx.drag, Nobody}
             /\ c.grab \in {ctx.grab, Nobody}
             /\ ~c.button /\ ~c.out.key /\ ~c.out.exit
  <2>1. s.down = {} /\ s.edge = {} /\ \A h \in Tracked : s.at[h] = "none"
    BY <1>1, <1>2, <1>4 DEF Shut
  <2>2. /\ t.open = s.open /\ t.drag \in {s.drag, Nobody}
        /\ t.out.key = s.out.key /\ t.out.exit = s.out.exit
    BY <1>1, <2>1 DEF Panelled
  <2>3. "none" \notin Handles
    BY DEF Handles
  <2>4. c.grab \in {s.grab, Nobody}
    BY <1>1, <1>4, <2>1, <2>3
  <2>5. ~c.out.key /\ ~c.out.exit
    BY <1>1, <1>2, <2>2 DEF Silent
  <2> QED BY <1>1, <1>2, <1>4, <2>1, <2>2, <2>4, <2>5
<1> QED BY <1>3, <1>4 DEF LockedHandsReachNothing

(* What the end of a hold leaves. *)
HoldKept ==
    /\ ScreenLeft => ctx'.dirty \/ ctx'.out.pose
    /\ SliderLeft => \/ ctx'.out.setting = "dragged"
                     \/ ctx'.out.setting = "pressed" /\ OtherPressed

LEMMA PassKeepsHolds ==
  ASSUME InputInv, NEW s, NEW t, Passed(s, t, ctx')
  PROVE  HoldKept
<1>1. /\ s.drag = ctx.drag /\ s.placing = ctx.placing /\ s.edge \cap ctx.down = {}
      /\ s.edge \subseteq s.down /\ ctx'.down = s.down /\ ctx'.drag = t.drag
      /\ ctx'.out.setting = t.out.setting /\ (t.dirty => ctx'.out.pose)
      /\ s.drag # Nobody /\ t.drag # s.drag => EndKept(s, t.dirty, t.out)
  BY DEF Passed, Readied, Panelled, Sound
<1>2. ctx.grab # Nobody /\ ctx'.grab # ctx.grab => ctx'.dirty \/ ctx'.out.pose
  BY DEF Passed, Readied, Panelled, Aside
<1>3. ctx.drag # Nobody /\ s.edge # {} => OtherPressed
  BY <1>1 DEF OtherPressed, InputInv
<1> QED BY <1>1, <1>2, <1>3 DEF HoldKept, ScreenLeft, SliderLeft, EndKept

(* The frame that lets go of everything, the frame that knows nothing of     *)
(* the hands, and a screen placed anew.                                      *)
LEMMA RestKeeps ==
  ASSUME InputInv, Unwatched \/ Unsynced \/ Replaced
  PROVE  InputInv' /\ PanelsShield /\ LockedHandsReachNothing /\ HoldKept
<1> DEFINE c == ctx'
           kept == {"open", "down", "swallowed", "locked", "hintShown", "gripped"}
<1>1. /\ Sound(ctx) /\ ctx \in CtxType /\ ctx.edge \subseteq ctx.down
      /\ ctx.grab # Nobody \/ ~ctx.on => ~ctx.button
      /\ ctx.mods => "kb" \in ctx.open
      /\ closers \subseteq ctx.swallowed
      /\ ctx.button => ctx.down \ ctx.swallowed # {}
      /\ ctx.out.key \/ ctx.out.exit => ctx.down # {}
      /\ ctx.locked => ctx.down \cap Tracked = {}
      /\ ctx.drag # Nobody => ctx.drag \in ctx.down
  BY DEF InputInv, Sound
(* What the three have in common.                                            *)
<1>2. ASSUME c \in CtxType, \A part \in kept : c[part] = ctx[part],
             c.edge \subseteq c.down, c.mods => ctx.mods, c.drag \in {ctx.drag, Nobody},
             c.grab \in {ctx.grab, Nobody}, c.button => ctx.button /\ c.grab = Nobody /\ c.on,
             c.out.key => ctx.out.key, c.out.exit => ctx.out.exit, closers' = closers
      PROVE  InputInv' /\ PanelsShield /\ LockedHandsReachNothing
  <2>1. Sound(c)
    BY <1>1, <1>2 DEF Sound, AtMostOne, Modal
  <2>2. InputInv'
    BY <1>1, <1>2, <2>1 DEF InputInv
  <2>3. PanelsShield
    BY <1>2 DEF PanelsShield
  <2>4. ASSUME ctx.locked, c.down \cup c.gripped \subseteq Tracked
        PROVE  ~c.button /\ ~c.out.key /\ ~c.out.exit
    <3>1. ctx.down = {}
      BY <1>1, <1>2, <2>4
    <3> QED BY <1>1, <1>2, <3>1
  <2>5. LockedHandsReachNothing
    BY <1>2, <2>4 DEF LockedHandsReachNothing
  <2> QED BY <2>2, <2>3, <2>5
<1>3. CASE Unwatched
  <2> DEFINE r == [ctx EXCEPT !.out = Silent, !.chosen = FALSE]
             s == LetGo(r)
             t == DragEnded(s)
             u == [t EXCEPT !.button = FALSE]
  <2>1. /\ r \in CtxType /\ r.out = Silent /\ r.grab = ctx.grab /\ r.drag = ctx.drag
        /\ r.placing = ctx.placing /\ r.mods = ctx.mods /\ \A part \in kept : r[part] = ctx[part]
    BY <1>1, SilentType DEF CtxType
  <2> HIDE DEF r
  <2>2. /\ s \in CtxType /\ s.out = r.out /\ s.grab = Nobody /\ s.drag = r.drag
        /\ s.placing = r.placing /\ s.mods = r.mods /\ (s.grab # r.grab => s.dirty)
        /\ \A part \in kept : s[part] = r[part]
    <3> DEFINE v == [r EXCEPT !.grab = Nobody, !.byTrigger = FALSE, !.dirty = TRUE]
    <3>1. /\ v \in CtxType /\ v.out = r.out /\ v.grab = Nobody /\ v.drag = r.drag
          /\ v.placing = r.placing /\ v.mods = r.mods /\ v.dirty = TRUE /\ \A part \in kept : v[part] = r[part]
      BY <2>1, HandsAre DEF CtxType
    <3>2. s = IF r.grab = Nobody THEN r ELSE v
      BY DEF LetGo
    <3> HIDE DEF v, s
    <3> QED BY <2>1, <3>1, <3>2
  <2> HIDE DEF s
  <2>3. /\ t \in CtxType /\ t.drag = Nobody /\ t.grab = s.grab /\ t.mods = s.mods
        /\ s.dirty => t.dirty
        /\ s.drag # Nobody /\ s.placing => t.dirty
        /\ s.drag # Nobody /\ ~s.placing => t.out.setting = "dragged"
        /\ t.out.key = s.out.key /\ t.out.exit = s.out.exit
        /\ \A part \in kept : t[part] = s[part]
    <3>1. /\ Becomes(s, t, s.open, Nobody, s.mods, s.swallowed, s.hand, t.out)
          /\ s.drag # Nobody /\ s.placing => t.dirty
          /\ s.drag # Nobody /\ ~s.placing => t.out.setting = "dragged"
          /\ t.out.key = s.out.key /\ t.out.exit = s.out.exit
      BY <2>2, DragEnds
    <3> QED BY <3>1 DEF Becomes, Aside
  <2> HIDE DEF t
  <2>4. /\ u \in CtxType /\ u.button = FALSE /\ u.drag = t.drag /\ u.grab = t.grab
        /\ u.mods = t.mods /\ u.dirty = t.dirty /\ u.out = t.out
        /\ \A part \in kept : u[part] = t[part]
    BY <2>3 DEF CtxType
  <2>5. c = HandBack(u) /\ closers' = closers
    BY <1>3 DEF Unwatched, u, t, s, r
  <2> HIDE DEF u
  <2>6. /\ c \in CtxType /\ c.edge = {} /\ (c.mods => u.mods) /\ c.button = u.button
        /\ c.grab = u.grab /\ c.drag = u.drag /\ c.out = u.out /\ c.dirty = u.dirty
        /\ \A part \in kept : c[part] = u[part]
    BY <2>4, <2>5, HandBackStep
  <2> HIDE DEF c
  <2>7. ~c.out.key /\ ~c.out.exit
    BY <2>1, <2>2, <2>3, <2>4, <2>6, SilentSays
  <2>8. /\ c.mods => ctx.mods
        /\ c.drag = Nobody /\ c.grab = Nobody /\ ~c.button
        /\ \A part \in kept : c[part] = ctx[part]
    BY <2>1, <2>2, <2>3, <2>4, <2>6
  <2>9. InputInv' /\ PanelsShield /\ LockedHandsReachNothing
    BY <1>2, <2>5, <2>6, <2>7, <2>8
  <2>10. /\ ctx.grab # Nobody => c.dirty
         /\ ctx.drag # Nobody /\ ctx.placing => c.dirty
         /\ ctx.drag # Nobody /\ ~ctx.placing => c.out.setting = "dragged"
    BY <2>1, <2>2, <2>3, <2>4, <2>6
  <2> QED BY <2>9, <2>10 DEF c, HoldKept, ScreenLeft, SliderLeft
<1>4. CASE Unsynced
  <2> DEFINE r == [ctx EXCEPT !.out = Silent, !.chosen = FALSE, !.button = FALSE]
  <2>1. /\ r \in CtxType /\ r.out = Silent /\ r.grab = ctx.grab /\ r.drag = ctx.drag
        /\ r.button = FALSE /\ r.mods = ctx.mods /\ \A part \in kept : r[part] = ctx[part]
    BY <1>1, SilentType DEF CtxType
  <2>2. c = HandBack(r) /\ closers' = closers
    BY <1>4 DEF Unsynced
  <2> HIDE DEF r
  <2>3. /\ c \in CtxType /\ c.edge = {} /\ (c.mods => r.mods) /\ c.button = r.button
        /\ c.grab = r.grab /\ c.drag = r.drag /\ c.out = r.out
        /\ \A part \in kept : c[part] = r[part]
    BY <2>1, <2>2, HandBackStep
  <2> HIDE DEF c
  <2>4. ~c.out.key /\ ~c.out.exit
    BY <2>1, <2>3, SilentSays
  <2>5. /\ c.mods => ctx.mods
        /\ c.drag = ctx.drag /\ c.grab = ctx.grab /\ ~c.button
        /\ \A part \in kept : c[part] = ctx[part]
    BY <2>1, <2>3
  <2>6. InputInv' /\ PanelsShield /\ LockedHandsReachNothing
    BY <1>2, <2>2, <2>3, <2>4, <2>5
  <2> QED BY <2>5, <2>6 DEF c, HoldKept, ScreenLeft, SliderLeft
<1>5. CASE Replaced
  <2>1. c = [ctx EXCEPT !.grab = Nobody, !.byTrigger = FALSE, !.dirty = TRUE] /\ closers' = closers
    BY <1>5 DEF Replaced
  <2> HIDE DEF c
  <2>2. /\ c \in CtxType /\ c.edge = ctx.edge /\ c.mods = ctx.mods /\ c.button = ctx.button
        /\ c.grab = Nobody /\ c.drag = ctx.drag /\ c.out = ctx.out /\ c.dirty = TRUE
        /\ c.on = ctx.on /\ \A part \in kept : c[part] = ctx[part]
    BY <1>1, <2>1, HandsAre DEF CtxType
  <2>3. InputInv' /\ PanelsShield /\ LockedHandsReachNothing
    BY <1>1, <1>2, <2>1, <2>2
  <2> QED BY <2>2, <2>3 DEF c, HoldKept, ScreenLeft, SliderLeft
<1> QED BY <1>3, <1>4, <1>5

LEMMA InputStep ==
  ASSUME InputInv, Next
  PROVE  InputInv' /\ PanelsShield /\ LockedHandsReachNothing /\ HoldKept
<1>1. CASE Frame
  <2>1. PICK s, t : /\ Passed(s, t, ctx')
                    /\ closers' \subseteq (closers \cap ctx'.down) \cup t.swallowed
    BY <1>1, FramePassed
  <2> QED BY <2>1, PassKeeps, PassReaches, PassKeepsHolds
<1>2. CASE Unwatched \/ Unsynced \/ Replaced
  BY <1>2, RestKeeps
<1> QED BY <1>1, <1>2 DEF Next

(* The pass keeps its own books: between any two frames at most one panel    *)
(* claims the ray, and what is held, pressed and swallowed agree             *)
(* (nativeUpdateInput and the paths that return early from it).              *)
THEOREM InputInvariant == Spec => []InputInv
<1>1. InputInv /\ [Next]_vars => InputInv'
  <2> SUFFICES ASSUME InputInv, [Next]_vars PROVE InputInv'
    OBVIOUS
  <2>1. CASE Next
    BY <2>1, InputStep
  <2>2. CASE UNCHANGED vars
    <3>1. ctx' = ctx /\ closers' = closers
      BY <2>2 DEF vars
    <3> QED BY <3>1 DEF InputInv
  <2> QED BY <2>1, <2>2
<1> QED BY Initially, <1>1, PTL DEF Spec

(* Who owns the ray and what is held agree (nativeUpdateInput): one panel    *)
(* claims the ray, a slider is dragged on the settings panel only and by a   *)
(* hand that presses, a grabbed screen or a pointer switched off leave no    *)
(* button down on the host, and a modifier is down there only with the       *)
(* keyboard up and not into the report.                                      *)
THEOREM PanelsAgree == Spec => []PanelsInv
<1>1. InputInv => PanelsInv
  <2> SUFFICES ASSUME InputInv PROVE PanelsInv
    OBVIOUS
  <2>1. Sound(ctx)
    BY DEF InputInv
  <2>2. TypeOK
    <3>1. ctx.swallowed \subseteq Hands /\ ctx \in CtxType
      BY <2>1 DEF Sound, CtxType
    <3> QED BY <3>1 DEF TypeOK, InputInv
  <2>3. Cardinality(Modal(ctx)) <= 1
    <3>1. CASE Modal(ctx) = {}
      BY <3>1, FS_EmptySet
    <3>2. CASE Modal(ctx) # {}
      <4>1. PICK p \in Modal(ctx) : TRUE
        BY <3>2
      <4>2. Modal(ctx) = {p}
        BY <2>1, <4>1 DEF Sound, AtMostOne
      <4>3. Cardinality(Modal(ctx)) = 1
        BY <4>2, FS_Singleton
      <4> QED BY <4>3
    <3> QED BY <3>1, <3>2
  <2> QED BY <2>1, <2>2, <2>3 DEF PanelsInv, InputInv, Sound
<1> QED BY InputInvariant, <1>1, PTL

(* The press that put away a panel, or the keyboard from empty ground, never *)
(* reaches the host, wherever it goes and however long it lasts              *)
(* (swallowTrigger, updatePointerWake, dismissKeyboard).                     *)
THEOREM ClosingPressTaken == Spec => []ClosingPressStaysTaken
<1>1. InputInv => ClosingPressStaysTaken
  BY DEF InputInv, ClosingPressStaysTaken
<1> QED BY InputInvariant, <1>1, PTL

(* No ray reaches through a panel, or from a locked hand (applyHandLock and  *)
(* the modal flag of nativeUpdateInput): no press the host did not have, no  *)
(* hold of the screen, and nothing opened, closed or typed.                  *)
THEOREM RaysKeptOut == Spec => OutOfReach
<1>1. InputInv /\ [Next]_vars => [PanelsShield /\ LockedHandsReachNothing]_vars
  BY InputStep
<1> QED BY InputInvariant, <1>1, PTL DEF Spec, OutOfReach

(* However a hold of the screen or of a slider ends (applyGrab, cogDragEnded,*)
(* releaseInput, setHandsLocked, recentreScreen), where it ended is kept: as *)
(* a placement handed back or to hand back, or as the setting written, which *)
(* only a press of the other hand in the same frame takes the place of.      *)
THEOREM HoldsKept == Spec => HoldsEndKept
<1>1. InputInv /\ [Next]_vars => [HoldKept]_vars
  BY InputStep
<1> QED BY InputInvariant, <1>1, PTL DEF Spec, HoldsEndKept, HoldKept

-----------------------------------------------------------------------------
(* The layers of a frame.                                                    *)

(* Nothing is under the splash that a frame could show.                      *)
Covered ==
    splash.phase # "gone" =>
        /\ hover = "away" /\ ~toast /\ panel = Nothing /\ ~kb /\ toastLevel = 0
        /\ \A p \in Panels : level[p] = 0

(* Of the panels that claim the ray one is on its way in or out at most.     *)
OneGoing == \A p, q \in Modals : Showing(p) /\ Showing(q) => p = q

(* What is under way was captured by the press at the earliest; and a map    *)
(* from before it is only warped with after the wait.                        *)
MapsInOrder ==
    /\ \A k \in DOMAIN maps.flying : maps.flying[k] # "stale"
    /\ stereo.on /\ maps.from = "stale" /\ ~(stereo.waiting /\ maps.index = stereo.waitIndex) =>
           stereo.since > Wait
    /\ ~stereo.redraw /\ stereo.eyes = 2 /\ stereo.from = "stale" => stereo.since > Wait

(* What the ray is on with a modal up is of that modal, or still the button  *)
(* that opened it.                                                           *)
HoverFollows == panel # Nothing => hover \in {"away", "ringed", "panel", "bar"}

(* What holds between any two steps: of the frame, that it fits what is up.  *)
LayersInv ==
    /\ LayersTypeOK /\ Covered /\ OneGoing /\ HoverFollows /\ MapsInOrder
    /\ LayersFit /\ PanelsApart /\ SplashCovers /\ WaitsForAnotherMap

-----------------------------------------------------------------------------
LEMMA BoundsAre ==
  /\ MaxLayers \in Nat /\ MaxArray \in Nat /\ Fade \in Nat /\ Floor \in Nat /\ Ceiling \in Nat
  /\ Wait \in Nat /\ 0 < Fade /\ Floor < Ceiling
BY LayersAssumption

LEMMA LayersInitially == LayersInit => LayersInv
<1> SUFFICES ASSUME LayersInit PROVE LayersInv
  OBVIOUS
<1>1. LayersTypeOK
  <2>1. session \in SessionType
    BY LayersAssumption DEF LayersInit
  <2>2. session.stereo \in BOOLEAN
    BY <2>1 DEF SessionType
  <2>3. stereo \in [on : BOOLEAN, waiting : BOOLEAN, redraw : BOOLEAN, waitIndex : 0..2,
                    since : 0..Wait + 1, eyes : 1..2, from : Origins]
    BY <2>2, BoundsAre DEF LayersInit, Origins
  <2>4. maps \in [index : 0..2, from : Origins, flying : Seq(Origins)] /\ Len(maps.flying) <= 2
    BY DEF LayersInit, Origins
  <2>5. level \in [Panels -> 0..Fade] /\ toastLevel \in 0..Fade
    BY BoundsAre DEF LayersInit
  <2>6. splash \in [phase : {"up", "fading", "gone"}, age : 0..Ceiling + 2 * Fade]
    BY BoundsAre DEF LayersInit
  <2>7. waiting \subseteq {"panels", "room", "depth"}
    BY DEF LayersInit, SplashWaits
  <2>8. pass \in [half : {"input", "end"}, focused : BOOLEAN, new : BOOLEAN]
    BY DEF LayersInit
  <2> QED BY <2>1, <2>3, <2>4, <2>5, <2>6, <2>7, <2>8 DEF LayersInit, LayersTypeOK, Tabs, Hovers
<1>2. Covered /\ OneGoing /\ HoverFollows /\ MapsInOrder
  BY DEF LayersInit, Covered, OneGoing, HoverFollows, MapsInOrder, Showing, Modals, Panels
<1>3. frame.layers = {} /\ frame.built = 0
  BY DEF LayersInit
<1>4. PanelsApart /\ SplashCovers /\ WaitsForAnotherMap
  BY <1>1, <1>3, FS_EmptySet DEF LayersInit, PanelsApart, ModalsShown, SplashCovers, WaitsForAnotherMap
<1>5. LayersFit
  BY <1>3, FS_EmptySet, BoundsAre DEF LayersFit
<1> QED BY <1>1, <1>2, <1>4, <1>5 DEF LayersInv

-----------------------------------------------------------------------------
(* A fade stays on its way, and with nothing of it left and nothing to show  *)
(* nothing comes.                                                            *)
LEMMA FadeOf ==
  ASSUME NEW n \in 0..Fade, NEW shown \in BOOLEAN
  PROVE  /\ FadeStep(n, shown) \in 0..Fade
         /\ ~shown /\ n = 0 => FadeStep(n, shown) = 0
BY BoundsAre DEF FadeStep

LEMMA SplashOf ==
  ASSUME splash \in [phase : {"up", "fading", "gone"}, age : 0..Ceiling + 2 * Fade]
  PROVE  /\ SplashStep(splash) \in [phase : {"up", "fading", "gone"}, age : 0..Ceiling + 2 * Fade]
         /\ splash.phase = "gone" => SplashStep(splash).phase = "gone"
         /\ SplashStep(splash).phase = "up" => splash.phase = "up"
<1> DEFINE t == SplashStep(splash)
<1>1. CASE splash.phase = "gone"
  <2>1. t = [splash EXCEPT !.age = 1]
    BY <1>1 DEF SplashStep
  <2> QED BY <1>1, <2>1, BoundsAre
<1>2. CASE splash.phase = "up"
  <2>1. t = IF splash.age < Floor \/ (waiting # {} /\ splash.age < Ceiling)
            THEN [splash EXCEPT !.age = splash.age + 1]
            ELSE [phase |-> IF session.scale THEN "fading" ELSE "gone", age |-> 0]
    BY <1>2 DEF SplashStep
  <2> QED BY <1>2, <2>1, BoundsAre
<1>3. CASE splash.phase = "fading"
  <2>1. t = IF splash.age + 1 >= 2 * Fade THEN [phase |-> "gone", age |-> 0]
            ELSE [splash EXCEPT !.age = splash.age + 1]
    BY <1>3 DEF SplashStep
  <2> QED BY <1>3, <2>1, BoundsAre
<1> QED BY <1>1, <1>2, <1>3

LEMMA ShedOf ==
  ASSUME NEW layers
  PROVE  Shed(layers) \subseteq layers
BY DEF Shed, Lighter

-----------------------------------------------------------------------------
(* The depth threads and what the splash waits for leave the frame alone.    *)
LEMMA StageKeeps ==
  ASSUME LayersInv, Stage
  PROVE  LayersInv'
<1>1. /\ maps.flying # << >> /\ maps.flying \in Seq(Origins) /\ Len(maps.flying) <= 2
      /\ maps.index \in 0..2
      /\ maps' = [index |-> (maps.index + 1) % 3, from |-> Head(maps.flying),
                  flying |-> Tail(maps.flying)]
  BY DEF Stage, LayersInv, LayersTypeOK
<1>2. Head(maps.flying) \in Origins /\ Head(maps.flying) # "stale"
  <2>1. 1 \in DOMAIN maps.flying /\ Head(maps.flying) = maps.flying[1]
    BY <1>1
  <2> QED BY <1>1, <2>1 DEF LayersInv, MapsInOrder
<1>3. /\ Tail(maps.flying) \in Seq(Origins) /\ Len(Tail(maps.flying)) <= 2
      /\ \A k \in DOMAIN Tail(maps.flying) : Tail(maps.flying)[k] # "stale"
  <2>1. /\ Tail(maps.flying) \in Seq(Origins) /\ Len(Tail(maps.flying)) = Len(maps.flying) - 1
        /\ \A k \in 1..Len(maps.flying) - 1 : Tail(maps.flying)[k] = maps.flying[k + 1]
    BY <1>1
  <2>2. \A k \in 1..Len(maps.flying) - 1 : k + 1 \in DOMAIN maps.flying
    BY <1>1
  <2> QED BY <1>1, <2>1, <2>2 DEF LayersInv, MapsInOrder
<1>4. (maps.index + 1) % 3 \in 0..2
  BY <1>1
<1>5. /\ maps' \in [index : 0..2, from : Origins, flying : Seq(Origins)]
      /\ Len(maps'.flying) <= 2 /\ maps'.from # "stale"
      /\ \A k \in DOMAIN maps'.flying : maps'.flying[k] # "stale"
  BY <1>1, <1>2, <1>3, <1>4
<1>6. UNCHANGED <<session, pass, panel, kb, tab, hover, toast, level, toastLevel, splash, waiting,
                  rendered, stereo, frame>>
  BY DEF Stage, inputVars
<1>7. LayersTypeOK' /\ Covered' /\ OneGoing' /\ HoverFollows'
  BY <1>5, <1>6 DEF LayersInv, LayersTypeOK, Covered, OneGoing, HoverFollows, Showing
<1>8. MapsInOrder'
  BY <1>5, <1>6 DEF LayersInv, MapsInOrder
<1>9. LayersFit' /\ PanelsApart' /\ SplashCovers' /\ WaitsForAnotherMap'
  BY <1>6, <1>7 DEF LayersInv, LayersFit, Stacked, Showing, PanelsApart, ModalsShown, SplashCovers, SplashLayers,
                    WaitsForAnotherMap
<1> QED BY <1>7, <1>8, <1>9 DEF LayersInv

LEMMA ArriveKeeps ==
  ASSUME LayersInv, Arrive
  PROVE  LayersInv'
<1>1. UNCHANGED <<session, pass, panel, kb, tab, hover, toast, level, toastLevel, splash, rendered,
                  stereo, maps, frame>>
  BY DEF Arrive, inputVars
<1>2. waiting' \subseteq waiting
  BY DEF Arrive
<1>3. LayersTypeOK' /\ Covered' /\ OneGoing' /\ HoverFollows' /\ MapsInOrder'
  BY <1>1, <1>2 DEF LayersInv, LayersTypeOK, Covered, OneGoing, HoverFollows, Showing, MapsInOrder
<1>4. LayersFit' /\ PanelsApart' /\ SplashCovers' /\ WaitsForAnotherMap'
  BY <1>1, <1>3 DEF LayersInv, LayersFit, Stacked, Showing, PanelsApart, ModalsShown, SplashCovers, SplashLayers,
                    WaitsForAnotherMap
<1> QED BY <1>3, <1>4 DEF LayersInv

-----------------------------------------------------------------------------
(* A press leaves one panel up at most, and the maps it ages were captured   *)
(* by then.                                                                  *)
LEMMA PressType ==
  ASSUME LayersTypeOK, Press
  PROVE  panel' \in Modals \cup {Nothing} /\ kb' \in BOOLEAN /\ tab' \in Tabs
<1>1. (~kb) \in BOOLEAN
  BY Zenon
<1>2. panel \in Modals \cup {Nothing} /\ kb \in BOOLEAN /\ tab \in Tabs
  BY DEF LayersTypeOK
<1>3. "screen" \in Tabs /\ {"picker", "cog", "exit", "hint", "kofi", "report"} \subseteq Modals
  BY DEF Tabs, Modals
<1>4. CASE PressFurniture
  BY <1>1, <1>2, <1>3, <1>4 DEF PressFurniture, OpenPanel, Put
<1>5. CASE PressOnCog
  BY <1>2, <1>3, <1>5 DEF PressOnCog, OpenPanel, Put
<1>6. CASE PressOnReport
  BY <1>1, <1>2, <1>3, <1>6 DEF PressOnReport, Put
<1>7. CASE ClosePanel \/ PutAway \/ Put(panel, kb, tab)
  BY <1>2, <1>7 DEF ClosePanel, PutAway, Put
<1> QED BY <1>4, <1>5, <1>6, <1>7 DEF Press

MapsType == [index : 0..2, from : Origins, flying : Seq(Origins)]
Unstaled(m) == \A k \in DOMAIN m.flying : m.flying[k] # "stale"

LEMMA AgedOf ==
  ASSUME NEW m \in MapsType, Len(m.flying) <= 2
  PROVE  /\ Aged(m) \in MapsType /\ Len(Aged(m).flying) <= 2 /\ Unstaled(Aged(m))
         /\ Aged(m).index = m.index
<1> DEFINE flying == [k \in DOMAIN m.flying |-> "carried"]
<1>1. Aged(m) = [m EXCEPT !.from = "stale", !.flying = flying]
  BY DEF Aged
<1>2. Len(m.flying) \in Nat /\ "carried" \in Origins /\ "stale" \in Origins
  BY DEF MapsType, Origins
<1>3. flying \in Seq(Origins) /\ Len(flying) = Len(m.flying)
  <2>1. DOMAIN m.flying = 1..Len(m.flying)
    BY DEF MapsType
  <2> QED BY <1>2, <2>1
<1>4. \A k \in DOMAIN flying : flying[k] = "carried"
  OBVIOUS
<1> HIDE DEF flying
<1> QED BY <1>1, <1>2, <1>3, <1>4 DEF MapsType, Unstaled

LEMMA CapturedOf ==
  ASSUME NEW m \in MapsType, Len(m.flying) <= 2, Unstaled(m), NEW live, NEW back, NEW new,
         NEW n \in Captured(m, live, back, new)
  PROVE  n \in MapsType /\ Len(n.flying) <= 2 /\ Unstaled(n) /\ n.index = m.index /\ n.from = m.from
<1> DEFINE flying == Append(m.flying, "fresh")
<1>1. n = m \/ (Len(m.flying) < 2 /\ n = [m EXCEPT !.flying = flying])
  BY DEF Captured
<1>2. /\ flying \in Seq(Origins) /\ Len(flying) = Len(m.flying) + 1 /\ Len(m.flying) \in Nat
      /\ \A k \in DOMAIN flying : k \in DOMAIN m.flying \/ k = Len(m.flying) + 1
      /\ flying[Len(m.flying) + 1] = "fresh" /\ \A k \in DOMAIN m.flying : flying[k] = m.flying[k]
  BY DEF MapsType, Origins
<1> HIDE DEF flying
<1>3. CASE n = m
  BY <1>3
<1>4. CASE Len(m.flying) < 2 /\ n = [m EXCEPT !.flying = flying]
  <2>1. n.flying = flying /\ n.index = m.index /\ n.from = m.from /\ n \in MapsType
    BY <1>2, <1>4 DEF MapsType
  <2>2. Unstaled(n)
    BY <1>2, <2>1 DEF Unstaled
  <2> QED BY <1>2, <1>4, <2>1, <2>2
<1> QED BY <1>1, <1>3, <1>4

LEMMA InputKeeps ==
  ASSUME LayersInv, Input
  PROVE  LayersInv'
<1>1. PICK focused \in BOOLEAN, new \in BOOLEAN, switch \in (IF Presses3d THEN BOOLEAN ELSE {FALSE}) :
        LET back == switch /\ ~stereo.on IN
        /\ pass' = [half |-> "end", focused |-> focused, new |-> new]
        /\ IF InputRuns(focused)
           THEN /\ IF switch THEN Put(panel, kb, tab) ELSE Press
                /\ hover' \in IF switch THEN {"bar"} ELSE HoversAfter
                /\ stereo' = IF switch THEN Switched(stereo) ELSE stereo
                /\ maps' \in Captured(IF back THEN Aged(maps) ELSE maps,
                                      session.switched /\ stereo'.on, back, new)
           ELSE /\ UNCHANGED <<panel, kb, tab, hover, stereo>>
                /\ maps' \in Captured(maps, session.switched /\ stereo.on, FALSE, new)
        /\ toast' \in IF session.notices /\ splash.phase = "gone" THEN BOOLEAN ELSE {toast}
  BY DEF Input
<1>2. frame' = [layers |-> {}, built |-> 0] /\ UNCHANGED <<session, level, toastLevel, splash, waiting, rendered>>
  BY DEF Input
<1>3. LayersTypeOK /\ Covered /\ OneGoing /\ HoverFollows /\ MapsInOrder
  BY DEF LayersInv
<1>4. /\ maps \in MapsType /\ Len(maps.flying) <= 2 /\ Unstaled(maps)
      /\ stereo \in [on : BOOLEAN, waiting : BOOLEAN, redraw : BOOLEAN, waitIndex : 0..2,
                     since : 0..Wait + 1, eyes : 1..2, from : Origins]
  BY <1>3 DEF LayersTypeOK, MapsType, MapsInOrder, Unstaled
<1>5. pass' \in [half : {"input", "end"}, focused : BOOLEAN, new : BOOLEAN]
  BY <1>1
<1>6. panel' \in Modals \cup {Nothing} /\ kb' \in BOOLEAN /\ tab' \in Tabs
  BY <1>1, <1>3, PressType DEF LayersTypeOK, Put
<1>7. hover' \in Hovers /\ toast' \in BOOLEAN
  BY <1>1, <1>3 DEF LayersTypeOK, HoversAfter, Hovers
<1>8. splash.phase # "gone" => UNCHANGED <<panel, kb, hover, toast>>
  BY <1>1 DEF InputRuns
(* The switch, or a pass that leaves the 3D as it is.                        *)
<1> DEFINE back == switch /\ ~stereo.on
<1>9. ASSUME NEW m \in {maps, Aged(maps)}, NEW live, NEW again, maps' \in Captured(m, live, again, new)
      PROVE  /\ maps' \in MapsType /\ Len(maps'.flying) <= 2 /\ Unstaled(maps')
             /\ maps'.index = maps.index /\ maps'.from = m.from
  <2>1. m \in MapsType /\ Len(m.flying) <= 2 /\ Unstaled(m) /\ m.index = maps.index
    BY <1>4, AgedOf
  <2>2. /\ maps' \in MapsType /\ Len(maps'.flying) <= 2 /\ Unstaled(maps')
        /\ maps'.index = m.index /\ maps'.from = m.from
    BY <1>9, <2>1, CapturedOf
  <2> QED BY <2>1, <2>2
<1>10. /\ maps' \in MapsType /\ Len(maps'.flying) <= 2 /\ Unstaled(maps') /\ maps'.index = maps.index
       /\ \/ stereo' = stereo /\ maps'.from = maps.from
          \/ stereo' = Switched(stereo)
  <2> DEFINE m == IF back THEN Aged(maps) ELSE maps
  <2>1. m \in {maps, Aged(maps)}
    OBVIOUS
  <2>2. CASE InputRuns(focused)
    <3>1. /\ maps' \in Captured(m, session.switched /\ stereo'.on, back, new)
          /\ stereo' = IF switch THEN Switched(stereo) ELSE stereo
      BY <1>1, <2>2
    <3>2. ~switch => m = maps
      OBVIOUS
    <3> HIDE DEF m, back
    <3> DEFINE live == session.switched /\ stereo'.on
    <3>3. maps' \in Captured(m, live, back, new)
      BY <3>1
    <3> HIDE DEF live
    <3>4. /\ maps' \in MapsType /\ Len(maps'.flying) <= 2 /\ Unstaled(maps')
          /\ maps'.index = maps.index /\ maps'.from = m.from
      BY <1>9, <2>1, <3>3
    <3> QED BY <3>1, <3>2, <3>4
  <2>3. CASE ~InputRuns(focused)
    <3> DEFINE live == session.switched /\ stereo.on
               no == FALSE
    <3>1. maps' \in Captured(maps, live, no, new) /\ stereo' = stereo
      BY <1>1, <2>3
    <3> HIDE DEF live, no
    <3> QED BY <1>9, <3>1
  <2> QED BY <2>2, <2>3
<1>11. stereo' \in [on : BOOLEAN, waiting : BOOLEAN, redraw : BOOLEAN, waitIndex : 0..2,
                    since : 0..Wait + 1, eyes : 1..2, from : Origins]
       /\ (stereo' = stereo \/ (stereo'.redraw /\ (~stereo'.on \/ (stereo'.waiting /\ stereo'.waitIndex = maps.index))))
  <2> DEFINE not == ~stereo.on
             u == [stereo EXCEPT !.on = not, !.redraw = TRUE, !.waiting = not, !.waitIndex = maps.index,
                                 !.since = 0]
  <2>1. not \in BOOLEAN
    BY Zenon
  <2>2. Switched(stereo) = u
    BY <1>4 DEF Switched
  <2> HIDE DEF not
  <2> DEFINE index == maps.index
             since == 0
  <2>5. index \in 0..2 /\ since \in 0..Wait + 1
    BY <1>4, BoundsAre DEF MapsType
  <2>6. u = [stereo EXCEPT !.on = not, !.redraw = TRUE, !.waiting = not, !.waitIndex = index,
                           !.since = since]
    OBVIOUS
  <2> HIDE DEF index, since, u
  <2>3. u \in [on : BOOLEAN, waiting : BOOLEAN, redraw : BOOLEAN, waitIndex : 0..2,
               since : 0..Wait + 1, eyes : 1..2, from : Origins]
        /\ u.redraw = TRUE /\ u.on = not /\ u.waiting = not /\ u.waitIndex = index
    BY <1>4, <2>1, <2>5, <2>6
  <2> QED BY <1>4, <1>10, <2>1, <2>2, <2>3 DEF index
<1>12. LayersTypeOK'
  BY <1>2, <1>3, <1>5, <1>6, <1>7, <1>10, <1>11 DEF LayersTypeOK, MapsType
<1>13. Covered' /\ OneGoing'
  BY <1>2, <1>3, <1>8 DEF Covered, OneGoing, Showing
<1>14. MapsInOrder'
  <2>1. CASE stereo' = stereo /\ maps'.from = maps.from
    BY <1>3, <1>10, <2>1 DEF MapsInOrder, Unstaled
  <2>2. CASE stereo'.redraw /\ (~stereo'.on \/ (stereo'.waiting /\ stereo'.waitIndex = maps.index))
    BY <1>10, <2>2 DEF MapsInOrder, Unstaled
  <2>3. stereo' = stereo => maps'.from = maps.from \/ stereo' = Switched(stereo)
    BY <1>10
  <2>4. Switched(stereo) # stereo
    BY <1>4 DEF Switched
  <2> QED BY <1>11, <2>1, <2>2, <2>3, <2>4
<1>15. frame'.layers = {} /\ frame'.built = 0
  BY <1>2
<1>16. PanelsApart' /\ SplashCovers' /\ WaitsForAnotherMap'
  <2>1. SplashCovers'
    BY <1>2, <1>13, <1>15 DEF SplashCovers, Covered
  <2>2. Cardinality(frame'.layers \cap ((Modals \ {"cog"}) \cup {"cogPanel"})) <= 1
    BY <1>15, FS_EmptySet
  <2> QED BY <1>12, <1>15, <2>1, <2>2 DEF PanelsApart, ModalsShown, WaitsForAnotherMap
<1>17. LayersFit'
  BY <1>15, FS_EmptySet, BoundsAre DEF LayersFit
<1>18. HoverFollows'
  BY <1>1, <1>3 DEF HoverFollows, HoversAfter, Presses3d, Put
<1> QED BY <1>12, <1>13, <1>14, <1>16, <1>17, <1>18 DEF LayersInv

-----------------------------------------------------------------------------
(* What each of a frame's layers takes to be in it.                          *)
Bar == {"kbButton", "padButton", "rayButton", "aimButton", "stereoButton"}
Sheets == Modals \cup {"cogPanel", "keyboard"}
Telling == Bar \cup Sheets \cup {"left"}

LEMMA TracksOf == LiveTracks \cap Telling = {} /\ ChoiceRings \cap Telling = {}
<1>1. LiveTracks \subseteq {"distance", "height", "tilt", "rotate", "curve", "size", "sensitivity",
                           "deadzone", "brightness", "lightLevel", "separation", "convergence",
                           "contrast", "gamma", "saturation", "glowLevel"}
  BY DEF LiveTracks
<1>2. ChoiceRings \subseteq {"glowRing", "lightRing", "presetRing", "switchRing"}
  BY DEF ChoiceRings
<1> QED BY <1>1, <1>2 DEF Telling, Bar, Sheets, Modals

LEMMA BehindNames ==
  /\ RoomLayer \subseteq {"room"} /\ \A render : GlowLayer(render) \subseteq {"glow"}
  /\ OverlayLayer \subseteq {"stats"} /\ HandleLayer \subseteq {"handle"}
  /\ ModelLayer \subseteq {"models"} /\ PointerLayers \subseteq {"beam", "dot"}
  /\ ToastLayer \subseteq {"toast"} /\ SplashLayers \subseteq {"splashGround", "splashSheet"}
BY DEF When, RoomLayer, GlowLayer, OverlayLayer, HandleLayer, ModelLayer, PointerLayers,
       ToastLayer, SplashLayers

LEMMA BehindOf ==
  /\ RoomLayer \cap Telling = {} /\ \A render : GlowLayer(render) \cap Telling = {}
  /\ OverlayLayer \cap Telling = {} /\ HandleLayer \cap Telling = {}
  /\ ModelLayer \cap Telling = {} /\ PointerLayers \cap Telling = {}
  /\ ToastLayer \cap Telling = {} /\ SplashLayers \cap Telling = {}
BY BehindNames DEF Telling, Bar, Sheets, Modals

LEMMA VideoOf ==
  \A l \in VideoLayers \cap Telling : l = "left" /\ stereo.eyes = 2
BY DEF VideoLayers, Telling, Bar, Sheets, Modals

LEMMA BarOf ==
  \A l \in BarButtonLayers \cap Telling : l \in Bar /\ BarArea
<1>1. \A button, p : PanelButton(button, p) \subseteq {button}
  BY DEF PanelButton, When
<1>2. BarButtonLayers \subseteq {"envButton", "exitButton", "cogButton"} \cup When(BarArea, Bar)
  BY <1>1 DEF BarButtonLayers, When, Bar
<1> QED BY <1>2 DEF When, Telling, Bar, Sheets, Modals

(* Only a sheet that is in, or the ring on it, comes from the sheets.        *)
LEMMA SheetNames ==
  \A l \in SheetLayers : l = "hoverRing" \/ (l \in {"exit", "report", "hint", "kofi"} /\ Showing(l))
<1>1. \A p : HoverRing(p) \subseteq {"hoverRing"}
  BY DEF HoverRing, When
<1>2. \A l \in SheetLayers :
        \/ \E p \in {"exit", "report"} : l \in When(Showing(p), {p})
        \/ \E p \in {"hint", "kofi"} : l \in When(Showing(p), {p} \cup HoverRing(p))
  BY DEF SheetLayers
<1>3. \A l, p : l \in When(Showing(p), {p}) => l = p /\ Showing(p)
  BY DEF When
<1>4. \A l, p : l \in When(Showing(p), {p} \cup HoverRing(p)) =>
                  l = "hoverRing" \/ (l = p /\ Showing(p))
  BY <1>1 DEF When
<1> QED BY <1>2, <1>3, <1>4

LEMMA SheetsOf ==
  /\ \A l \in SheetLayers \cap Telling : l \in {"exit", "report", "hint", "kofi"} /\ Showing(l)
  /\ \A l \in PickerLayers \cap Telling : l = "picker" /\ Showing("picker")
  /\ \A l \in CogLayers \cap Telling : l = "cogPanel" /\ Showing("cog")
  /\ \A l \in KeyboardLayers \cap Telling : l = "keyboard" /\ Showing("kb")
<1>1. \A p : HoverRing(p) \subseteq {"hoverRing"}
  BY DEF HoverRing, When
<1>2. \A l \in SheetLayers : l = "hoverRing" \/ (l \in {"exit", "report", "hint", "kofi"} /\ Showing(l))
  BY SheetNames
<1>3. \A l \in PickerLayers : l \in {"picker", "choiceRing", "cellRing"} /\ Showing("picker")
  BY DEF PickerLayers, When
<1>4. \A l \in CogLayers :
        /\ Showing("cog")
        /\ l \in {"cogPanel", "cogClock", "cogMarks", "cogReadout", "hoverRing"} \cup LiveTracks \cup ChoiceRings
  BY <1>1 DEF CogLayers, When
<1>5. \A l \in KeyboardLayers : l \in {"keyboard", "keyRing"} /\ Showing("kb")
  BY DEF KeyboardLayers, When
<1>6. \A l \in {"hoverRing", "choiceRing", "cellRing", "cogClock", "cogMarks", "cogReadout", "keyRing"} :
        l \notin Telling
  BY DEF Telling, Bar, Sheets, Modals
<1>7. \A l \in SheetLayers \cap Telling : l \in {"exit", "report", "hint", "kofi"} /\ Showing(l)
  BY <1>2, <1>6
<1>8. \A l \in PickerLayers \cap Telling : l = "picker" /\ Showing("picker")
  BY <1>3, <1>6
<1>9. \A l \in CogLayers \cap Telling : l = "cogPanel" /\ Showing("cog")
  BY <1>4, <1>6, TracksOf
<1>10. \A l \in KeyboardLayers \cap Telling : l = "keyboard" /\ Showing("kb")
  BY <1>5, <1>6
<1> QED BY <1>7, <1>8, <1>9, <1>10

(* A button of the bar is only in a frame with no panel in it, a sheet only  *)
(* with its fade begun, and two eyes only in a frame that shows the picture. *)
Tells ==
  \A render : \A l \in Built(render) \cap Telling :
      \/ l \in Bar /\ BarArea
      \/ l \in Modals \ {"cog"} /\ Showing(l)
      \/ l = "cogPanel" /\ Showing("cog")
      \/ l = "keyboard" /\ Showing("kb")
      \/ l = "left" /\ stereo.eyes = 2 /\ rendered /\ render

LEMMA BuiltTells == Tells
<1> SUFFICES \A render : \A l \in Built(render) \cap Telling :
      \/ l \in Bar /\ BarArea
      \/ l \in Modals \ {"cog"} /\ Showing(l)
      \/ l = "cogPanel" /\ Showing("cog")
      \/ l = "keyboard" /\ Showing("kb")
      \/ l = "left" /\ stereo.eyes = 2 /\ rendered /\ render
  BY DEF Tells
<1> TAKE render
<1> TAKE l \in Built(render) \cap Telling
<1>1. \/ l \in RoomLayer \/ l \in GlowLayer(render) \/ l \in OverlayLayer \/ l \in HandleLayer
      \/ l \in ModelLayer \/ l \in PointerLayers \/ l \in ToastLayer \/ l \in SplashLayers
      \/ l \in VideoLayers /\ rendered /\ render
      \/ l \in BarButtonLayers \/ l \in SheetLayers \/ l \in PickerLayers \/ l \in CogLayers
      \/ l \in KeyboardLayers
  BY DEF Built, When
<1>2. l \in Telling
  OBVIOUS
<1>3. CASE l \in VideoLayers /\ rendered /\ render
  BY <1>2, <1>3, VideoOf
<1>4. CASE l \in BarButtonLayers
  BY <1>2, <1>4, BarOf
<1>5. CASE l \in SheetLayers
  <2>1. l \in {"exit", "report", "hint", "kofi"} /\ Showing(l)
    BY <1>2, <1>5, SheetsOf
  <2> QED BY <2>1 DEF Modals
<1>6. CASE l \in PickerLayers
  <2>1. l = "picker" /\ Showing(l)
    BY <1>2, <1>6, SheetsOf
  <2> QED BY <2>1 DEF Modals
<1>7. CASE l \in CogLayers
  BY <1>2, <1>7, SheetsOf
<1>8. CASE l \in KeyboardLayers
  BY <1>2, <1>8, SheetsOf
<1> QED BY <1>1, <1>2, <1>3, <1>4, <1>5, <1>6, <1>7, <1>8, BehindOf

(* Under the splash only the picture and what is behind it.                  *)
Covers ==
  Covered => \A render :
      /\ splash.phase = "up" => Built(render) \subseteq SplashLayers
      /\ splash.phase # "gone" =>
             Built(render) \subseteq SplashLayers \cup {"room", "glow", "left", "right", "both", "stats"}

LEMMA BuiltCovered == Covers
<1> SUFFICES ASSUME Covered, NEW render, splash.phase # "gone"
             PROVE  /\ splash.phase = "up" => Built(render) \subseteq SplashLayers
                    /\ Built(render) \subseteq
                           SplashLayers \cup {"room", "glow", "left", "right", "both", "stats"}
  BY DEF Covers
<1>1. /\ hover = "away" /\ panel = Nothing /\ ~kb /\ toastLevel = 0 /\ Nothing \notin Panels
      /\ \A p \in Panels : ~Showing(p)
  BY LayersAssumption DEF Covered, Showing
<1>2. ToastLayer = {} /\ ModelLayer = {} /\ PointerLayers = {}
  BY <1>1 DEF ToastLayer, ModelLayer, ModelsShowing, PointerLayers, When
<1>3. ~BarArea
  BY <1>1 DEF BarArea
<1>4. HandleLayer = {}
  BY <1>1, <1>3 DEF HandleLayer, When
<1>5. \A button, p : p \in Panels => PanelButton(button, p) = {}
  BY <1>1, <1>3 DEF PanelButton, When
<1>6. BarButtonLayers = {}
  BY <1>3, <1>5 DEF BarButtonLayers, When, Panels, Modals
<1>7. SheetLayers = {} /\ PickerLayers = {} /\ CogLayers = {} /\ KeyboardLayers = {}
  BY <1>1 DEF SheetLayers, PickerLayers, CogLayers, KeyboardLayers, When, Panels, Modals
<1>8. /\ RoomLayer \subseteq {"room"} /\ GlowLayer(render) \subseteq {"glow"}
      /\ VideoLayers \subseteq {"left", "right", "both"} /\ OverlayLayer \subseteq {"stats"}
  BY DEF RoomLayer, GlowLayer, VideoLayers, OverlayLayer, When
<1>9. CASE splash.phase = "up"
  BY <1>2, <1>9 DEF Built, When
<1>10. CASE splash.phase # "up"
  <2>1. \A l \in Built(render) :
          \/ l \in RoomLayer \/ l \in GlowLayer(render) \/ l \in OverlayLayer \/ l \in HandleLayer
          \/ l \in ModelLayer \/ l \in PointerLayers \/ l \in ToastLayer \/ l \in SplashLayers
          \/ l \in VideoLayers \/ l \in BarButtonLayers \/ l \in SheetLayers \/ l \in PickerLayers
          \/ l \in CogLayers \/ l \in KeyboardLayers
    BY DEF Built, When
  <2>2. \A l \in Built(render) :
          l \in SplashLayers \cup {"room", "glow", "left", "right", "both", "stats"}
    BY <1>2, <1>4, <1>6, <1>7, <1>8, <2>1
  <2> QED BY <1>10, <2>1, <2>2
<1> QED BY <1>9, <1>10

-----------------------------------------------------------------------------
(* How many layers a frame can have: at most so many of each kind.           *)
Few(S, n) == IsFiniteSet(S) /\ Cardinality(S) <= n

LEMMA FewIn ==
  ASSUME NEW T, NEW S, S \subseteq T, NEW n \in Nat, Few(T, n)
  PROVE  Few(S, n)
<1>1. IsFiniteSet(T) /\ Cardinality(T) <= n /\ S \in SUBSET T
  BY DEF Few
<1>2. IsFiniteSet(S) /\ Cardinality(S) <= Cardinality(T)
  BY <1>1, FS_Subset
<1>3. Cardinality(S) \in Nat /\ Cardinality(T) \in Nat
  BY <1>1, <1>2, FS_CardinalityType
<1> QED BY <1>1, <1>2, <1>3 DEF Few

LEMMA FewMore ==
  ASSUME NEW S, NEW m \in Nat, NEW n \in Nat, m <= n, Few(S, m)
  PROVE  Few(S, n)
<1>1. Cardinality(S) \in Nat
  BY FS_CardinalityType DEF Few
<1> QED BY <1>1 DEF Few

LEMMA FewWith ==
  ASSUME NEW S, NEW T, NEW m \in Nat, NEW n \in Nat, Few(S, m), Few(T, n)
  PROVE  Few(S \cup T, m + n)
<1>1. IsFiniteSet(S) /\ IsFiniteSet(T)
  BY DEF Few
<1>2. /\ IsFiniteSet(S \cup T)
      /\ Cardinality(S \cup T) = Cardinality(S) + Cardinality(T) - Cardinality(S \cap T)
  BY <1>1, FS_Union
<1>3. IsFiniteSet(S \cap T)
  BY <1>1, FS_Subset
<1>4. Cardinality(S) \in Nat /\ Cardinality(T) \in Nat /\ Cardinality(S \cap T) \in Nat
  BY <1>1, <1>3, FS_CardinalityType
<1> QED BY <1>2, <1>4 DEF Few

LEMMA FewOf ==
  ASSUME NEW a, NEW b, NEW c, NEW d
  PROVE  Few({}, 0) /\ Few({a}, 1) /\ Few({a, b}, 2) /\ Few({a, b, c}, 3) /\ Few({a, b, c, d}, 4)
<1>1. Few({}, 0)
  BY FS_EmptySet DEF Few
<1>2. \A x : Few({x}, 1)
  <2> TAKE x
  <2>1. IsFiniteSet({x}) /\ Cardinality({x}) = 1
    BY FS_Singleton
  <2> QED BY <2>1 DEF Few
<1>3. \A x, y : Few({x, y}, 2)
  <2> TAKE x, y
  <2>1. Few({x} \cup {y}, 1 + 1)
    BY <1>2, FewWith
  <2>2. {x} \cup {y} = {x, y}
    OBVIOUS
  <2> QED BY <2>1, <2>2
<1>4. Few({a, b, c}, 3)
  <2>1. Few({a, b} \cup {c}, 2 + 1)
    BY <1>2, <1>3, FewWith
  <2>2. {a, b} \cup {c} = {a, b, c}
    OBVIOUS
  <2> QED BY <2>1, <2>2
<1>5. Few({a, b, c, d}, 4)
  <2>1. Few({a, b} \cup {c, d}, 2 + 2)
    BY <1>3, FewWith
  <2>2. {a, b} \cup {c, d} = {a, b, c, d}
    OBVIOUS
  <2> QED BY <2>1, <2>2
<1> QED BY <1>1, <1>2, <1>3, <1>4, <1>5

(* The layers a frame sheds, and that it sheds all of them or fits.          *)
Sheddable == {"toast", "models", "hoverRing", "cogButton", "cogClock"}

LEMMA LighterOf ==
  ASSUME NEW S, IsFiniteSet(S), NEW l
  PROVE  \/ Cardinality(Lighter(S, l)) <= MaxLayers /\ Lighter(S, l) = S
         \/ Lighter(S, l) = S \ {l} /\ IsFiniteSet(S \ {l}) /\ ~(Cardinality(S) <= MaxLayers)
<1>1. Cardinality(S) \in Nat /\ MaxLayers \in Nat /\ IsFiniteSet(S \ {l})
  BY FS_CardinalityType, FS_RemoveElement, BoundsAre
<1> QED BY <1>1 DEF Lighter

LEMMA ShedFits ==
  ASSUME NEW B, IsFiniteSet(B)
  PROVE  Cardinality(Shed(B)) <= MaxLayers \/ Shed(B) = B \ Sheddable
<1> DEFINE Fits(S) == Cardinality(S) <= MaxLayers
           B1 == Lighter(B, "toast")
           B2 == Lighter(B1, "models")
           B3 == Lighter(B2, "hoverRing")
           B4 == Lighter(B3, "cogButton")
           B5 == Lighter(B4, "cogClock")
<1>1. Shed(B) = B5
  BY DEF Shed
<1>2. ASSUME NEW S, IsFiniteSet(S), NEW l
      PROVE  /\ IsFiniteSet(Lighter(S, l))
             /\ Fits(Lighter(S, l)) \/ Lighter(S, l) = S \ {l}
             /\ Fits(S) => Fits(Lighter(S, l))
  BY <1>2, LighterOf
<1>3. IsFiniteSet(B1) /\ (Fits(B1) \/ B1 = B \ {"toast"})
  BY <1>2
<1> HIDE DEF B1, Fits
<1>4. IsFiniteSet(B2) /\ (Fits(B2) \/ B2 = B \ {"toast", "models"})
  BY <1>2, <1>3
<1> HIDE DEF B2
<1>5. IsFiniteSet(B3) /\ (Fits(B3) \/ B3 = B \ {"toast", "models", "hoverRing"})
  BY <1>2, <1>4
<1> HIDE DEF B3
<1>6. IsFiniteSet(B4) /\ (Fits(B4) \/ B4 = B \ {"toast", "models", "hoverRing", "cogButton"})
  BY <1>2, <1>5
<1> HIDE DEF B4
<1>7. Fits(B5) \/ B5 = B \ Sheddable
  BY <1>2, <1>6 DEF Sheddable
<1> QED BY <1>1, <1>7 DEF Fits

LEMMA VideoFew == Few(VideoLayers, 2)
<1>1. VideoLayers = {"left", "right"} \/ VideoLayers = {"both", "both"}
  BY DEF VideoLayers
<1> QED BY <1>1, FewOf

(* The settings panel, with the room it is in: ten at the most, of which the *)
(* fullest is the first tab with the picture locked to the head.             *)
LEMMA CogFew ==
  ASSUME LayersTypeOK
  PROVE  Few(RoomLayer \cup (CogLayers \ Sheddable), 10)
<1> DEFINE all == RoomLayer \cup (CogLayers \ Sheddable)
<1>1. Face \in Tabs \cup {"room"} /\ (Face = "screen" => ~Roomy)
  BY DEF Face, LayersTypeOK
<1>2. \A l \in all :
        \/ l = "room" /\ Roomy
        \/ l = "cogPanel" \/ l \in LiveTracks \/ l \in ChoiceRings
        \/ l = "cogMarks" /\ Face = "display"
        \/ l = "cogReadout" /\ (Face \in {"room", "picture"} \/ Face = "screen")
  BY DEF RoomLayer, CogLayers, HoverRing, When, Sheddable
<1> HIDE DEF all
<1>3. CASE Face = "screen"
  <2> DEFINE S == {"cogPanel", "cogReadout", "distance", "height"}
             T == {"tilt", "rotate", "curve", "size"}
             U == {"sensitivity", "deadzone"}
  <2>1. LiveTracks \subseteq {"distance", "height", "tilt", "rotate", "curve", "size", "sensitivity", "deadzone"}
        /\ ChoiceRings = {}
    BY <1>3 DEF LiveTracks, ChoiceRings
  <2>2. all \subseteq (S \cup T) \cup U
    BY <1>1, <1>2, <1>3, <2>1
  <2>3. Few(S, 4) /\ Few(T, 4) /\ Few(U, 2)
    BY FewOf
  <2> HIDE DEF S, T, U
  <2>4. Few(S \cup T, 4 + 4)
    BY <2>3, FewWith
  <2>5. Few((S \cup T) \cup U, (4 + 4) + 2)
    BY <2>3, <2>4, FewWith
  <2>6. Few(all, (4 + 4) + 2)
    BY <2>2, <2>5, FewIn
  <2> QED BY <2>6, FewMore DEF all
<1>4. CASE Face = "room"
  <2> DEFINE S == {"room", "cogPanel", "cogReadout", "brightness"}
             T == {"lightLevel", "size", "glowRing", "lightRing"}
  <2>1. LiveTracks \subseteq {"brightness", "lightLevel", "size"} /\ ChoiceRings = {"glowRing", "lightRing"}
    BY <1>4 DEF LiveTracks, ChoiceRings
  <2>2. all \subseteq S \cup T
    BY <1>2, <1>4, <2>1
  <2>3. Few(S, 4) /\ Few(T, 4)
    BY FewOf
  <2> HIDE DEF S, T
  <2>4. Few(S \cup T, 4 + 4)
    BY <2>3, FewWith
  <2>5. Few(all, 4 + 4)
    BY <2>2, <2>4, FewIn
  <2> QED BY <2>5, FewMore DEF all
<1>5. CASE Face = "3d"
  <2> DEFINE S == {"room", "cogPanel", "separation", "convergence"}
             T == {"presetRing", "switchRing"}
  <2>1. LiveTracks \subseteq {"separation", "convergence"} /\ ChoiceRings \subseteq T
    BY <1>5 DEF LiveTracks, ChoiceRings
  <2>2. all \subseteq S \cup T
    BY <1>2, <1>5, <2>1
  <2>3. Few(S, 4) /\ Few(T, 2)
    BY FewOf
  <2> HIDE DEF S, T
  <2>4. Few(S \cup T, 4 + 2)
    BY <2>3, FewWith
  <2>5. Few(all, 4 + 2)
    BY <2>2, <2>4, FewIn
  <2> QED BY <2>5, FewMore DEF all
<1>6. CASE Face = "picture"
  <2> DEFINE S == {"room", "cogPanel", "cogReadout", "brightness"}
             T == {"contrast", "gamma", "saturation"}
  <2>1. LiveTracks \subseteq {"brightness", "contrast", "gamma", "saturation"} /\ ChoiceRings = {}
    BY <1>6 DEF LiveTracks, ChoiceRings
  <2>2. all \subseteq S \cup T
    BY <1>2, <1>6, <2>1
  <2>3. Few(S, 4) /\ Few(T, 3)
    BY FewOf
  <2> HIDE DEF S, T
  <2>4. Few(S \cup T, 4 + 3)
    BY <2>3, FewWith
  <2>5. Few(all, 4 + 3)
    BY <2>2, <2>4, FewIn
  <2> QED BY <2>5, FewMore DEF all
<1>7. CASE Face = "display"
  <2> DEFINE S == {"room", "cogPanel", "cogMarks", "glowLevel"}
  <2>1. LiveTracks \subseteq {"glowLevel"} /\ ChoiceRings = {}
    BY <1>7 DEF LiveTracks, ChoiceRings
  <2>2. all \subseteq S /\ Few(S, 4)
    BY <1>2, <1>7, <2>1, FewOf
  <2> HIDE DEF S
  <2>3. Few(all, 4)
    BY <2>2, FewIn
  <2> QED BY <2>3, FewMore DEF all
<1>8. CASE Face = "about"
  <2> DEFINE S == {"room", "cogPanel"}
  <2>1. LiveTracks = {} /\ ChoiceRings = {}
    BY <1>8 DEF LiveTracks, ChoiceRings
  <2>2. all \subseteq S /\ Few(S, 2)
    BY <1>2, <1>8, <2>1, FewOf
  <2> HIDE DEF S
  <2>3. Few(all, 2)
    BY <2>2, FewIn
  <2> QED BY <2>3, FewMore DEF all
<1> QED BY <1>1, <1>3, <1>4, <1>5, <1>6, <1>7, <1>8 DEF Tabs

(* Of the buttons those that are not shed: the row's seven with the row, and *)
(* without it the two of the panels they stay with.                          *)
LEMMA ButtonsOf ==
  /\ BarButtonLayers \ Sheddable \subseteq
         {"envButton", "exitButton", "kbButton", "padButton", "rayButton", "aimButton", "stereoButton"}
  /\ ~BarArea => \A l \in BarButtonLayers \ Sheddable :
         \/ l = "envButton" /\ (panel = "picker" \/ Showing("picker"))
         \/ l = "exitButton" /\ (panel = "exit" \/ Showing("exit"))
<1>1. \A button, p : \A l \in PanelButton(button, p) :
          l = button /\ (BarArea \/ panel = p \/ Showing(p))
  BY DEF PanelButton, When
<1>2. \A l \in BarButtonLayers :
          \/ l \in PanelButton("envButton", "picker") \/ l \in PanelButton("exitButton", "exit")
          \/ l \in PanelButton("cogButton", "cog") \/ l \in PanelButton("cogButton", "kofi")
          \/ BarArea /\ l \in {"kbButton", "padButton", "rayButton", "aimButton", "stereoButton"}
  BY DEF BarButtonLayers, When
<1>3. "cogButton" \in Sheddable
  BY DEF Sheddable
<1> QED BY <1>1, <1>2, <1>3

(* The sheets and the picker: one of them at most, and the picker's rings.   *)
LEMMA SheetsFew ==
  ASSUME OneGoing
  PROVE  Few((SheetLayers \ Sheddable) \cup PickerLayers, 3)
<1> DEFINE all == (SheetLayers \ Sheddable) \cup PickerLayers
<1>1. \A l \in SheetLayers \ Sheddable : l \in {"exit", "report", "hint", "kofi"} /\ Showing(l)
  BY SheetNames DEF Sheddable
<1>2. \A l \in PickerLayers : l \in {"picker", "choiceRing", "cellRing"} /\ Showing("picker")
  BY DEF PickerLayers, When
<1>3. {"exit", "report", "hint", "kofi", "picker"} \subseteq Modals
  BY DEF Modals
<1>4. CASE Showing("picker")
  <2>1. SheetLayers \ Sheddable = {}
    BY <1>1, <1>3, <1>4 DEF OneGoing
  <2> DEFINE S == {"picker", "choiceRing", "cellRing"}
  <2>2. all \subseteq S /\ Few(S, 3)
    BY <1>2, <2>1, FewOf
  <2> HIDE DEF all, S
  <2>3. Few(all, 3)
    BY <2>2, FewIn
  <2> QED BY <2>3 DEF all
<1>5. CASE ~Showing("picker")
  <2>1. \A l, m \in all : l = m
    BY <1>1, <1>2, <1>3, <1>5 DEF OneGoing
  <2> HIDE DEF all
  <2>2. PICK l : all \subseteq {l}
    BY <2>1
  <2>3. Few(all, 1)
    BY <2>2, FewOf, FewIn
  <2> QED BY <2>3, FewMore DEF all
<1> QED BY <1>4, <1>5

(* A panel that is up has what was up before it gone at once.                *)
Settled == panel # Nothing => \A p \in Panels : Showing(p) => Shown(p)

(* Whatever is up, a frame is 24 layers at most, and 16 without those it     *)
(* sheds but for the keyboard or a corner coming up while the settings panel *)
(* still goes.                                                               *)
Fills ==
  LayersTypeOK /\ Covered /\ OneGoing /\ Settled /\ HoverFollows =>
      \A render : /\ Few(Built(render), 24)
                  /\ Few(Built(render) \ Sheddable, 16) \/ Stacked

LEMMA BuiltFills == Fills
<1> SUFFICES ASSUME LayersTypeOK, Covered, OneGoing, Settled, HoverFollows, NEW render
             PROVE  /\ Few(Built(render), 24)
                    /\ Few(Built(render) \ Sheddable, 16) \/ Stacked
  BY DEF Fills
<1> DEFINE B == Built(render)
           rest == B \ Sheddable
           thin == {"glow", "stats", "beam", "dot"} \cup VideoLayers
<1>1. Few(Sheddable, 5)
  <2> DEFINE S == {"toast", "models", "hoverRing", "cogButton"}
             T == {"cogClock"}
  <2>1. Few(S, 4) /\ Few(T, 1) /\ Sheddable = S \cup T
    BY FewOf DEF Sheddable
  <2> HIDE DEF S, T
  <2>2. Few(S \cup T, 4 + 1)
    BY <2>1, FewWith
  <2> QED BY <2>1, <2>2
<1>2. B \subseteq rest \cup Sheddable
  OBVIOUS
<1>3. Few(thin, 6)
  <2> DEFINE S == {"glow", "stats", "beam", "dot"}
  <2>1. Few(S, 4)
    BY FewOf
  <2> HIDE DEF S
  <2>2. Few(S \cup VideoLayers, 4 + 2)
    BY <2>1, VideoFew, FewWith
  <2> QED BY <2>2 DEF S
<1>4. ASSUME Few(rest, 16)
      PROVE  /\ Few(Built(render), 24)
             /\ Few(Built(render) \ Sheddable, 16) \/ Stacked
  <2> HIDE DEF B
  <2>1. Few(rest \cup Sheddable, 16 + 5)
    BY <1>1, <1>4, FewWith
  <2>2. Few(B, 21)
    BY <1>2, <2>1, FewIn
  <2>3. Few(B, 24)
    BY <2>2, FewMore
  <2> QED BY <1>4, <2>3 DEF B
<1>5. CASE splash.phase # "gone"
  <2> DEFINE S == {"splashGround", "splashSheet", "room", "glow"}
             T == {"left", "right", "both", "stats"}
  <2>1. B \subseteq SplashLayers \cup {"room", "glow", "left", "right", "both", "stats"}
    BY <1>5, BuiltCovered DEF Covers
  <2>2. B \subseteq S \cup T
    BY <2>1, BehindNames
  <2>3. Few(S, 4) /\ Few(T, 4)
    BY FewOf
  <2> HIDE DEF B, S, T
  <2>4. Few(S \cup T, 4 + 4)
    BY <2>3, FewWith
  <2>5. Few(B, 4 + 4) /\ Few(B \ Sheddable, 4 + 4)
    BY <2>2, <2>4, FewIn
  <2>6. Few(B, 24) /\ Few(B \ Sheddable, 16)
    BY <2>5, FewMore
  <2> QED BY <2>6 DEF B
<1>6. CASE splash.phase = "gone"
  <2>1. \A l \in B \ Sheddable :
          \/ l \in thin \/ l \in RoomLayer \/ l \in HandleLayer \/ l \in BarButtonLayers \ Sheddable
          \/ l \in SheetLayers \ Sheddable \/ l \in PickerLayers \/ l \in CogLayers \ Sheddable
          \/ l \in KeyboardLayers
    <3>1. \A l \in B :
            \/ l \in RoomLayer \/ l \in GlowLayer(render) \/ l \in OverlayLayer \/ l \in HandleLayer
            \/ l \in ModelLayer \/ l \in PointerLayers \/ l \in ToastLayer \/ l \in SplashLayers
            \/ l \in VideoLayers \/ l \in BarButtonLayers \/ l \in SheetLayers \/ l \in PickerLayers
            \/ l \in CogLayers \/ l \in KeyboardLayers
      BY DEF Built, When
    <3>2. SplashLayers = {}
      BY <1>6 DEF SplashLayers, When
    <3>3. ModelLayer \subseteq Sheddable /\ ToastLayer \subseteq Sheddable
      BY BehindNames DEF Sheddable
    <3>4. /\ \A l \in GlowLayer(render) : l \in thin
          /\ \A l \in OverlayLayer : l \in thin
          /\ \A l \in PointerLayers : l \in thin
          /\ \A l \in VideoLayers : l \in thin
      BY BehindNames
    <3> HIDE DEF B, thin
    <3> QED BY <3>1, <3>2, <3>3, <3>4
  <2>2. \A l \in KeyboardLayers : l \in {"keyboard", "keyRing"} /\ Showing("kb")
    BY DEF KeyboardLayers, When
  <2>3. \A l \in CogLayers : Showing("cog")
    BY DEF CogLayers, When
  <2>4. \A l \in HandleLayer : l = "handle" /\ (BarArea \/ hover = "corner")
    BY DEF HandleLayer, When
  <2> HIDE DEF B, thin
  <2>5. CASE BarArea
    <3> DEFINE S == {"room", "handle", "envButton", "exitButton"}
               T == {"kbButton", "padButton", "rayButton", "aimButton"}
               U == {"stereoButton"}
    <3>1. \A p \in Panels : ~Showing(p)
      BY <2>5 DEF BarArea
    <3>2. SheetLayers = {} /\ PickerLayers = {} /\ CogLayers = {} /\ KeyboardLayers = {}
      BY <3>1 DEF SheetLayers, PickerLayers, CogLayers, KeyboardLayers, When, Panels, Modals
    <3>3. rest \subseteq ((thin \cup S) \cup T) \cup U
      BY <2>1, <3>2, BehindNames, ButtonsOf
    <3>4. Few(S, 4) /\ Few(T, 4) /\ Few(U, 1)
      BY FewOf
    <3> HIDE DEF S, T, U, rest
    <3>5. Few(thin \cup S, 10)
      <4>1. Few(thin \cup S, 6 + 4)
        BY <1>3, <3>4, FewWith
      <4> QED BY <4>1
    <3>6. Few((thin \cup S) \cup T, 14)
      <4>1. Few((thin \cup S) \cup T, 10 + 4)
        BY <3>4, <3>5, FewWith
      <4> QED BY <4>1
    <3>7. Few(((thin \cup S) \cup T) \cup U, 14 + 1)
      BY <3>4, <3>6, FewWith
    <3>8. Few(rest, 15)
      BY <3>3, <3>7, FewIn
    <3>9. Few(rest, 16)
      BY <3>8, FewMore
    <3> QED BY <1>4, <3>9
  <2>6. CASE ~BarArea /\ ~Showing("cog")
    <3> DEFINE S == {"room", "handle", "envButton", "exitButton"}
               T == {"keyboard", "keyRing"}
               U == (SheetLayers \ Sheddable) \cup PickerLayers
    <3>1. CogLayers = {}
      BY <2>3, <2>6
    <3>2. rest \subseteq ((thin \cup S) \cup T) \cup U
      BY <2>1, <2>2, <2>6, <3>1, BehindNames, ButtonsOf
    <3>3. Few(S, 4) /\ Few(T, 2) /\ Few(U, 3)
      BY FewOf, SheetsFew
    <3> HIDE DEF S, T, U, rest
    <3>4. Few(thin \cup S, 10)
      <4>1. Few(thin \cup S, 6 + 4)
        BY <1>3, <3>3, FewWith
      <4> QED BY <4>1
    <3>5. Few((thin \cup S) \cup T, 12)
      <4>1. Few((thin \cup S) \cup T, 10 + 2)
        BY <3>3, <3>4, FewWith
      <4> QED BY <4>1
    <3>6. Few(((thin \cup S) \cup T) \cup U, 12 + 3)
      BY <3>3, <3>5, FewWith
    <3>7. Few(rest, 15)
      BY <3>2, <3>6, FewIn
    <3>8. Few(rest, 16)
      BY <3>7, FewMore
    <3> QED BY <1>4, <3>8
  <2>7. CASE ~BarArea /\ Showing("cog")
    <3> DEFINE S == RoomLayer \cup (CogLayers \ Sheddable)
               T == {"handle", "keyboard", "keyRing"}
    <3>1. {"cog", "exit", "report", "hint", "kofi", "picker"} \subseteq Modals /\ Modals \subseteq Panels
          /\ panel \in Modals \cup {Nothing} /\ "cog" \in Panels /\ "kb" \in Panels /\ kb \in BOOLEAN
      BY DEF Modals, Panels, LayersTypeOK
    <3>2. \A p \in {"exit", "report", "hint", "kofi", "picker"} : ~Showing(p)
      BY <2>7, <3>1 DEF OneGoing
    <3>3. SheetLayers = {} /\ PickerLayers = {}
      BY <3>2 DEF SheetLayers, PickerLayers, When
    <3>4. panel \in {"cog", Nothing}
      BY <2>7, <3>1 DEF Settled, Shown
    <3>5. BarButtonLayers \ Sheddable = {}
      BY <2>7, <3>2, <3>4, ButtonsOf, LayersAssumption DEF Panels, Modals
    <3>6. rest \subseteq (thin \cup S) \cup T
      BY <2>1, <2>2, <2>4, <3>3, <3>5
    <3>7. Few(S, 10) /\ Few(T, 3)
      BY CogFew, FewOf
    <3> HIDE DEF S, T
    <3>8. Few(thin \cup S, 6 + 10)
      BY <1>3, <3>7, FewWith
    <3>9. CASE Stacked
      <4> HIDE DEF rest
      <4>1. Few((thin \cup S) \cup T, 16 + 3)
        BY <3>7, <3>8, FewWith
      <4>2. Few(rest, 19)
        BY <3>6, <4>1, FewIn
      <4>3. Few(rest \cup Sheddable, 19 + 5)
        BY <1>1, <4>2, FewWith
      <4>4. Few(B, 24)
        BY <1>2, <4>3, FewIn
      <4> QED BY <3>9, <4>4 DEF B
    <3>10. CASE ~Stacked
      <4>1. HandleLayer = {} /\ KeyboardLayers = {}
        <5>1. panel # Nothing => hover # "corner" /\ ~Showing("kb")
          BY <3>1, <3>4 DEF HoverFollows, Settled, Shown
        <5>2. panel = Nothing => hover # "corner" /\ ~Showing("kb")
          BY <2>7, <3>10 DEF Stacked
        <5> QED BY <2>2, <2>4, <2>7, <5>1, <5>2
      <4>2. rest \subseteq thin \cup S
        BY <2>1, <3>3, <3>5, <4>1 DEF S
      <4> HIDE DEF rest
      <4>3. Few(rest, 16)
        BY <3>8, <4>2, FewIn
      <4> QED BY <1>4, <4>3
    <3> QED BY <3>9, <3>10
  <2> QED BY <2>5, <2>6, <2>7
<1> QED BY <1>5, <1>6

-----------------------------------------------------------------------------
(* The end of the frame: the fades and the splash, the eyes and the map of   *)
(* the picture drawn, and the layers built of them.                          *)
LEMMA FadesStep ==
  ASSUME LayersTypeOK, Covered, OneGoing, StepPanelFades, StepSplash,
         toastLevel' = FadeStep(toastLevel, toast), UNCHANGED <<session, inputVars>>
  PROVE  /\ level' \in [Panels -> 0..Fade] /\ toastLevel' \in 0..Fade
         /\ splash' \in [phase : {"up", "fading", "gone"}, age : 0..Ceiling + 2 * Fade]
         /\ Covered' /\ OneGoing' /\ Settled'
         /\ panel \notin {Nothing, "report"} => level'["kb"] = 0
<1>1. /\ panel' = panel /\ kb' = kb /\ hover' = hover /\ toast' = toast
      /\ level \in [Panels -> 0..Fade] /\ toastLevel \in 0..Fade /\ toast \in BOOLEAN
      /\ panel \in Modals \cup {Nothing} /\ kb \in BOOLEAN /\ Nothing \notin Panels
      /\ splash \in [phase : {"up", "fading", "gone"}, age : 0..Ceiling + 2 * Fade]
  BY LayersAssumption DEF LayersTypeOK, inputVars
<1>2. \A p \in Panels : Shown(p) \in BOOLEAN
  BY <1>1 DEF Shown
<1>3. \A p \in Panels :
        /\ level'[p] \in 0..Fade
        /\ level'[p] = 0 \/ panel = Nothing \/ Shown(p)
        /\ ~Shown(p) /\ level[p] = 0 => level'[p] = 0
  <2> TAKE p \in Panels
  <2> DEFINE n == level[p]
             s == Shown(p)
  <2>1. level'[p] = IF panel # Nothing /\ ~s THEN 0 ELSE FadeStep(n, s)
    BY DEF StepPanelFades
  <2>2. n \in 0..Fade /\ s \in BOOLEAN
    BY <1>1, <1>2
  <2> HIDE DEF n, s
  <2>3. FadeStep(n, s) \in 0..Fade /\ (~s /\ n = 0 => FadeStep(n, s) = 0)
    BY <2>2, FadeOf
  <2>4. /\ level'[p] \in 0..Fade /\ (level'[p] = 0 \/ panel = Nothing \/ s)
        /\ ~s /\ n = 0 => level'[p] = 0
    BY <2>1, <2>3, BoundsAre
  <2> QED BY <2>4 DEF n, s
<1>4. DOMAIN level' = Panels /\ level' = [p \in Panels |-> level'[p]]
  BY DEF StepPanelFades
<1>5. level' \in [Panels -> 0..Fade]
  BY <1>3, <1>4
<1>6. toastLevel' \in 0..Fade /\ (~toast /\ toastLevel = 0 => toastLevel' = 0)
  BY <1>1, FadeOf
<1>7. /\ splash' \in [phase : {"up", "fading", "gone"}, age : 0..Ceiling + 2 * Fade]
      /\ splash.phase = "gone" => splash'.phase = "gone"
  BY <1>1, SplashOf DEF StepSplash
<1>8. Covered'
  <2> SUFFICES ASSUME splash'.phase # "gone"
               PROVE  /\ hover' = "away" /\ ~toast' /\ panel' = Nothing /\ ~kb' /\ toastLevel' = 0
                      /\ \A p \in Panels : level'[p] = 0
    BY DEF Covered
  <2>1. /\ hover = "away" /\ ~toast /\ panel = Nothing /\ ~kb /\ toastLevel = 0
        /\ \A p \in Panels : level[p] = 0
    BY <1>7 DEF Covered
  <2>2. \A p \in Panels : ~Shown(p)
    BY <1>1, <2>1 DEF Shown
  <2> QED BY <1>1, <1>3, <1>6, <2>1, <2>2
<1>9. OneGoing'
  <2>1. \A p \in Modals : p \in Panels /\ p # "kb"
    BY DEF Panels, Modals
  <2>2. CASE panel = Nothing
    <3>1. \A p \in Modals : ~Shown(p)
      BY <1>1, <2>1, <2>2 DEF Shown
    <3>2. \A p \in Modals : level'[p] > 0 => level[p] > 0
      BY <1>1, <1>3, <2>1, <3>1
    <3> QED BY <3>2 DEF OneGoing, Showing
  <2>3. CASE panel # Nothing
    <3>1. \A p \in Modals : level'[p] > 0 => p = panel
      BY <1>3, <2>1, <2>3 DEF Shown
    <3> QED BY <3>1 DEF OneGoing, Showing
  <2> QED BY <2>2, <2>3
<1>10. panel \notin {Nothing, "report"} => level'["kb"] = 0
  <2>1. "kb" \in Panels
    BY DEF Panels
  <2> QED BY <1>3, <2>1 DEF Shown
<1>11. Settled'
  BY <1>1, <1>3 DEF Settled, Showing, Shown
<1> QED BY <1>5, <1>6, <1>7, <1>8, <1>9, <1>10, <1>11

LEMMA PictureStep ==
  ASSUME LayersTypeOK, MapsInOrder, NEW render \in BOOLEAN, NEW draws \in BOOLEAN,
         draws = (render /\ (pass.new \/ (Unwaited(stereo).redraw /\ rendered))),
         stereo' = [(IF draws THEN RenderVideoFrame(Unwaited(stereo)) ELSE Unwaited(stereo))
                       EXCEPT !.since = IF @ > Wait THEN @ ELSE @ + 1],
         rendered' = (rendered \/ draws), UNCHANGED maps
  PROVE  /\ stereo' \in [on : BOOLEAN, waiting : BOOLEAN, redraw : BOOLEAN, waitIndex : 0..2,
                         since : 0..Wait + 1, eyes : 1..2, from : Origins]
         /\ MapsInOrder'
         /\ render /\ rendered' => ~stereo'.redraw
<1> DEFINE Type == [on : BOOLEAN, waiting : BOOLEAN, redraw : BOOLEAN, waitIndex : 0..2,
                    since : 0..Wait + 1, eyes : 1..2, from : Origins]
           over == stereo.waiting /\ (maps.index # stereo.waitIndex \/ stereo.since > Wait)
           s == Unwaited(stereo)
           both == IF s.on /\ ~s.waiting THEN 2 ELSE 1
           t == IF draws THEN RenderVideoFrame(s) ELSE s
           later == IF t.since > Wait THEN t.since ELSE t.since + 1
<1>1. /\ stereo \in Type /\ maps.from \in Origins /\ rendered \in BOOLEAN
      /\ pass.new \in BOOLEAN
  BY DEF LayersTypeOK
<1>2. /\ s \in Type /\ s.on = stereo.on /\ s.waitIndex = stereo.waitIndex /\ s.since = stereo.since
      /\ s.eyes = stereo.eyes /\ s.from = stereo.from
      /\ s.waiting = (stereo.waiting /\ ~over) /\ s.redraw = (stereo.redraw \/ over)
  <2> DEFINE u == [stereo EXCEPT !.waiting = FALSE, !.redraw = TRUE]
  <2>1. s = IF over THEN u ELSE stereo
    BY DEF Unwaited
  <2>2. /\ u \in Type /\ u.on = stereo.on /\ u.waitIndex = stereo.waitIndex /\ u.since = stereo.since
        /\ u.eyes = stereo.eyes /\ u.from = stereo.from /\ u.waiting = FALSE /\ u.redraw = TRUE
    BY <1>1
  <2>3. CASE over
    BY <2>1, <2>2, <2>3
  <2>4. CASE ~over
    BY <1>1, <2>1, <2>4
  <2> QED BY <2>3, <2>4
<1> HIDE DEF s
<1>3. /\ t \in Type /\ t.on = s.on /\ t.waiting = s.waiting /\ t.waitIndex = s.waitIndex
      /\ t.since = s.since
      /\ t.redraw = (s.redraw /\ ~draws)
      /\ draws => t.eyes = both /\ t.from = maps.from
      /\ ~draws => t.eyes = s.eyes /\ t.from = s.from
  <2> DEFINE u == [s EXCEPT !.redraw = FALSE, !.eyes = both, !.from = maps.from]
  <2>1. t = IF draws THEN u ELSE s
    BY DEF RenderVideoFrame
  <2>2. both \in 1..2
    OBVIOUS
  <2> HIDE DEF both
  <2>3. /\ u \in Type /\ u.on = s.on /\ u.waiting = s.waiting /\ u.waitIndex = s.waitIndex
        /\ u.since = s.since /\ u.redraw = FALSE /\ u.eyes = both /\ u.from = maps.from
    BY <1>1, <1>2, <2>2
  <2> HIDE DEF u, t
  <2>4. CASE draws
    BY <2>1, <2>3, <2>4
  <2>5. CASE ~draws
    <3>1. t = s
      BY <2>1, <2>5
    <3> QED BY <1>2, <2>5, <3>1
  <2> QED BY <2>4, <2>5
<1> HIDE DEF t
<1>4. stereo' = [t EXCEPT !.since = later]
  BY DEF s, t
<1>5. later \in 0..Wait + 1 /\ (t.since > Wait => later > Wait)
  BY <1>3, BoundsAre
<1> HIDE DEF later
<1>6. /\ stereo' \in Type /\ stereo'.on = t.on /\ stereo'.waiting = t.waiting
      /\ stereo'.waitIndex = t.waitIndex /\ stereo'.redraw = t.redraw /\ stereo'.eyes = t.eyes
      /\ stereo'.from = t.from /\ stereo'.since = later
  BY <1>3, <1>4, <1>5
<1>7. render /\ rendered' => ~stereo'.redraw
  BY <1>1, <1>2, <1>3, <1>6 DEF s
<1>8. ASSUME stereo'.on, maps.from = "stale", ~(stereo'.waiting /\ maps.index = stereo'.waitIndex)
      PROVE  stereo'.since > Wait
  <2>1. stereo.on /\ ~(stereo.waiting /\ ~over /\ maps.index = stereo.waitIndex)
    BY <1>2, <1>3, <1>6, <1>8
  <2>2. stereo.since > Wait
    BY <1>8, <2>1 DEF MapsInOrder
  <2> QED BY <1>2, <1>3, <1>5, <1>6, <2>2
<1>9. ASSUME ~stereo'.redraw, stereo'.eyes = 2, stereo'.from = "stale"
      PROVE  stereo'.since > Wait
  <2>1. CASE draws
    <3>1. s.on /\ ~s.waiting /\ maps.from = "stale"
      BY <1>3, <1>6, <1>9, <2>1
    <3>2. stereo'.on /\ ~stereo'.waiting
      BY <1>3, <1>6, <3>1
    <3> QED BY <1>8, <3>1, <3>2
  <2>2. CASE ~draws
    <3>1. ~s.redraw /\ s.eyes = 2 /\ s.from = "stale"
      BY <1>3, <1>6, <1>9, <2>2
    <3>2. stereo.since > Wait
      BY <1>2, <3>1 DEF MapsInOrder
    <3> QED BY <1>2, <1>3, <1>5, <1>6, <3>2
  <2> QED BY <2>1, <2>2
<1>10. MapsInOrder'
  BY <1>8, <1>9 DEF MapsInOrder
<1> QED BY <1>6, <1>7, <1>10

LEMMA EndKeeps ==
  ASSUME LayersInv, EndFrame
  PROVE  LayersInv'
<1>1. PICK render \in BOOLEAN :
        LET s     == Unwaited(stereo)
            draws == render /\ (pass.new \/ (s.redraw /\ rendered))
            t     == IF draws THEN RenderVideoFrame(s) ELSE s
        IN  /\ stereo' = [t EXCEPT !.since = IF @ > Wait THEN @ ELSE @ + 1]
            /\ rendered' = (rendered \/ draws)
            /\ StepPanelFades
            /\ StepSplash
            /\ toastLevel' = FadeStep(toastLevel, toast)
            /\ pass' = [pass EXCEPT !.half = "input"]
            /\ UNCHANGED <<session, inputVars, waiting, maps>>
            /\ LET all == Built(render)'
               IN  frame' = [layers |-> Shed(all), built |-> Cardinality(all)]
  BY DEF EndFrame
<1>2. LayersTypeOK /\ Covered /\ OneGoing /\ HoverFollows /\ MapsInOrder
  BY DEF LayersInv
<1>3. UNCHANGED <<session, panel, kb, tab, hover, toast, waiting, maps>>
  BY <1>1 DEF inputVars
<1>4. /\ level' \in [Panels -> 0..Fade] /\ toastLevel' \in 0..Fade
      /\ splash' \in [phase : {"up", "fading", "gone"}, age : 0..Ceiling + 2 * Fade]
      /\ Covered' /\ OneGoing' /\ Settled'
      /\ panel \notin {Nothing, "report"} => level'["kb"] = 0
  BY <1>1, <1>2, FadesStep
<1>5. /\ stereo' \in [on : BOOLEAN, waiting : BOOLEAN, redraw : BOOLEAN, waitIndex : 0..2,
                      since : 0..Wait + 1, eyes : 1..2, from : Origins]
      /\ MapsInOrder' /\ rendered' \in BOOLEAN
      /\ render /\ rendered' => ~stereo'.redraw
  <2> DEFINE draws == render /\ (pass.new \/ (Unwaited(stereo).redraw /\ rendered))
  <2>1. draws \in BOOLEAN
    BY Zenon
  <2>2. /\ stereo' = [(IF draws THEN RenderVideoFrame(Unwaited(stereo)) ELSE Unwaited(stereo))
                         EXCEPT !.since = IF @ > Wait THEN @ ELSE @ + 1]
        /\ rendered' = (rendered \/ draws) /\ UNCHANGED maps
        /\ draws = (render /\ (pass.new \/ (Unwaited(stereo).redraw /\ rendered)))
    BY <1>1
  <2>3. rendered \in BOOLEAN
    BY <1>2 DEF LayersTypeOK
  <2> HIDE DEF draws
  <2>4. /\ stereo' \in [on : BOOLEAN, waiting : BOOLEAN, redraw : BOOLEAN, waitIndex : 0..2,
                        since : 0..Wait + 1, eyes : 1..2, from : Origins]
        /\ MapsInOrder' /\ (render /\ rendered' => ~stereo'.redraw)
    BY <1>2, <2>1, <2>2, PictureStep
  <2>5. rendered' \in BOOLEAN
    BY <2>1, <2>2, <2>3
  <2> QED BY <2>4, <2>5
<1>6. LayersTypeOK'
  <2>1. pass' \in [half : {"input", "end"}, focused : BOOLEAN, new : BOOLEAN]
    BY <1>1, <1>2 DEF LayersTypeOK
  <2> QED BY <1>2, <1>3, <1>4, <1>5, <2>1 DEF LayersTypeOK
<1>7. frame'.layers \subseteq Built(render)'
  <2> DEFINE all == Built(render)'
  <2>1. frame' = [layers |-> Shed(all), built |-> Cardinality(all)]
    BY <1>1
  <2> HIDE DEF all
  <2>2. Shed(all) \subseteq all
    BY ShedOf
  <2> QED BY <2>1, <2>2 DEF all
<1>8. \A l \in frame'.layers \cap Telling :
        \/ l \in Bar /\ BarArea'
        \/ l \in Modals \ {"cog"} /\ level'[l] > 0
        \/ l = "cogPanel" /\ level'["cog"] > 0
        \/ l = "keyboard" /\ level'["kb"] > 0
        \/ l = "left" /\ stereo'.eyes = 2 /\ rendered' /\ render
  <2>1. Tells'
    BY BuiltTells, PTL
  <2> QED BY <1>7, <2>1 DEF Tells, Showing
<1>9. /\ splash'.phase = "up" => frame'.layers \subseteq SplashLayers'
      /\ splash'.phase # "gone" =>
             frame'.layers \subseteq SplashLayers' \cup {"room", "glow", "left", "right", "both", "stats"}
  <2>1. Covers'
    BY BuiltCovered, PTL
  <2> QED BY <1>4, <1>7, <2>1 DEF Covers
<1>10. SplashCovers'
  BY <1>4, <1>9 DEF SplashCovers, Covered
<1>11. WaitsForAnotherMap'
  <2> SUFFICES ASSUME "left" \in frame'.layers, stereo'.from = "stale" PROVE stereo'.since > Wait
    BY DEF WaitsForAnotherMap
  <2>1. "left" \in Telling /\ "left" \notin Bar /\ "left" \notin Modals
    BY DEF Telling, Bar, Modals
  <2>2. stereo'.eyes = 2 /\ rendered' /\ render
    BY <1>8, <2>1
  <2> QED BY <1>5, <2>2 DEF MapsInOrder
<1>12. PanelsApart'
  <2>1. ASSUME NEW l \in frame'.layers \cap (Modals \cup {"cogPanel", "keyboard"}),
               NEW b \in frame'.layers \cap Bar
        PROVE  FALSE
    <3>1. l \in Telling /\ l \notin Bar /\ l # "left" /\ b \in Telling /\ b \notin Modals
          /\ b \notin {"cogPanel", "keyboard", "left"}
      BY DEF Telling, Sheets, Bar, Modals
    <3>2. \E p \in Panels : level'[p] > 0
      BY <1>8, <3>1 DEF Panels, Modals
    <3>3. BarArea'
      BY <1>8, <3>1
    <3> QED BY <3>2, <3>3 DEF BarArea, Showing
  <2> DEFINE up == frame'.layers \cap ((Modals \ {"cog"}) \cup {"cogPanel"})
             of(l) == IF l = "cogPanel" THEN "cog" ELSE l
  <2>2. \A l \in up : of(l) \in Modals /\ level'[of(l)] > 0
    <3> TAKE l \in up
    <3>1. l \in Telling /\ l \notin Bar /\ l \notin {"left", "keyboard"} /\ "cogPanel" \notin Modals
      BY DEF Telling, Sheets, Bar, Modals
    <3>2. \/ l \in Modals \ {"cog"} /\ level'[l] > 0
          \/ l = "cogPanel" /\ level'["cog"] > 0
      BY <1>8, <3>1
    <3> QED BY <3>1, <3>2 DEF Modals
  <2>3. \A l, m \in up : l = m
    <3> TAKE l, m \in up
    <3>1. of(l) = of(m)
      <4> HIDE DEF of, up
      <4> QED BY <1>4, <2>2 DEF OneGoing, Showing
    <3>2. l # "cog" /\ m # "cog"
      BY DEF Modals
    <3> QED BY <3>1, <3>2
  <2>4. Cardinality(up) <= 1
    <3> HIDE DEF up
    <3>1. CASE up = {}
      BY <3>1, FS_EmptySet
    <3>2. CASE up # {}
      <4>1. PICK l \in up : TRUE
        BY <3>2
      <4>2. up = {l}
        BY <2>3, <4>1
      <4>3. Cardinality(up) = 1
        BY <4>2, FS_Singleton
      <4> QED BY <4>3
    <3> QED BY <3>1, <3>2
  <2>5. panel' \notin {Nothing, "report"} => "keyboard" \notin frame'.layers
    <3>1. "keyboard" \in Telling /\ "keyboard" \notin Bar /\ "keyboard" \notin Modals
      BY DEF Telling, Sheets, Bar, Modals
    <3> QED BY <1>3, <1>4, <1>8, <3>1
  <2> QED BY <1>6, <2>1, <2>4, <2>5 DEF PanelsApart, ModalsShown, Bar
<1>13. HoverFollows'
  BY <1>2, <1>3 DEF HoverFollows
<1>14. LayersFit'
  <2> DEFINE all == Built(render)'
  <2>1. Fills'
    BY BuiltFills, PTL
  <2>2. Few(all, 24) /\ (Few(all \ Sheddable, 16) \/ Stacked')
    BY <1>4, <1>6, <1>13, <2>1 DEF Fills, Few
  <2>3. frame' = [layers |-> Shed(all), built |-> Cardinality(all)]
    BY <1>1
  <2> HIDE DEF all
  <2>4. IsFiniteSet(all) /\ Cardinality(all) <= 24
    BY <2>2 DEF Few
  <2>5. frame'.built <= MaxArray
    <3>1. Cardinality(all) \in Nat
      BY <2>4, FS_CardinalityType
    <3> QED BY <2>3, <2>4, <3>1, LimitsAssumption, BoundsAre
  <2>6. Cardinality(frame'.layers) <= MaxLayers \/ Stacked'
    <3>1. CASE Shed(all) = all \ Sheddable
      <4>1. CASE Few(all \ Sheddable, 16)
        <5>1. Cardinality(all \ Sheddable) \in Nat /\ Cardinality(all \ Sheddable) <= 16
          BY <4>1, FS_CardinalityType DEF Few
        <5> QED BY <2>3, <3>1, <5>1, LimitsAssumption, BoundsAre
      <4> QED BY <2>2, <4>1
    <3> QED BY <2>3, <2>4, <3>1, ShedFits
  <2> QED BY <2>5, <2>6 DEF LayersFit
<1> QED BY <1>4, <1>5, <1>6, <1>10, <1>11, <1>12, <1>13, <1>14 DEF LayersInv

(* The fades, the splash, the 3D switch and the layers of the last frame     *)
(* agree between any two steps of the frame loop (nativeUpdateInput,         *)
(* nativeEndFrame and the depth threads).                                    *)
THEOREM LayersInvariant == LayersSpec => []LayersInv
<1>1. LayersInv /\ [LayersNext]_layersVars => LayersInv'
  <2> SUFFICES ASSUME LayersInv, [LayersNext]_layersVars PROVE LayersInv'
    OBVIOUS
  <2>1. CASE LayersNext
    BY <2>1, InputKeeps, StageKeeps, ArriveKeeps, EndKeeps DEF LayersNext
  <2>2. CASE UNCHANGED layersVars
    <3>1. UNCHANGED <<session, pass, panel, kb, tab, hover, toast, level, toastLevel, splash, waiting,
                      rendered, stereo, maps, frame>>
      BY <2>2 DEF layersVars, inputVars
    <3>2. LayersTypeOK' /\ Covered' /\ OneGoing' /\ HoverFollows' /\ MapsInOrder'
      BY <3>1 DEF LayersInv, LayersTypeOK, Covered, OneGoing, HoverFollows, Showing, MapsInOrder
    <3>3. LayersFit' /\ PanelsApart' /\ SplashCovers' /\ WaitsForAnotherMap'
      BY <3>1, <3>2 DEF LayersInv, LayersFit, Stacked, Showing, PanelsApart, ModalsShown, SplashCovers,
                        SplashLayers, WaitsForAnotherMap
    <3> QED BY <3>2, <3>3 DEF LayersInv
  <2> QED BY <2>1, <2>2
<1> QED BY LayersInitially, <1>1, PTL DEF LayersSpec

(* No frame is over the runtime's limit or the array it is built in, for any *)
(* session and however long a fade takes (FRAME_MAX_LAYERS, dropLayer and    *)
(* nativeEndFrame), but for what the comment of Stacked tells.               *)
THEOREM FramesFit == LayersSpec => []LayersFit
<1>1. LayersInv => LayersFit
  BY DEF LayersInv
<1> QED BY LayersInvariant, <1>1, PTL

(* What a panel opening takes away is away, whatever is pressed when and     *)
(* however long a fade takes (stepPanelFades, barArea): one modal to a       *)
(* frame, the bar's row with none, and no keyboard with a modal that is up   *)
(* but the report.  A modal on its way out may share a frame with it.        *)
THEOREM PanelsKeptApart == LayersSpec => []PanelsApart
<1>1. LayersInv => PanelsApart
  BY DEF LayersInv
<1> QED BY LayersInvariant, <1>1, PTL

(* The launch splash covers what it should for any floor, ceiling and fade   *)
(* (stepSplash, nativeEndFrame and the early return of nativeUpdateInput).   *)
THEOREM SplashKeepsCover == LayersSpec => []SplashCovers
<1>1. LayersInv => SplashCovers
  BY DEF LayersInv
<1> QED BY LayersInvariant, <1>1, PTL

(* The 3D switched back on warps no picture with the map that was staged     *)
(* when it was pressed until the wait is over (setStereoLive,                *)
(* nativeEndFrame), however the captures, the staging and the frames         *)
(* interleave.  A map staged since may be of a capture from before.          *)
THEOREM StaleMapsWaitOut == LayersSpec => []WaitsForAnotherMap
<1>1. LayersInv => WaitsForAnotherMap
  BY DEF LayersInv
<1> QED BY LayersInvariant, <1>1, PTL

-----------------------------------------------------------------------------
(* The room behind the picture, for any set of rooms and any number of      *)
(* picks.  That only the room chosen is parked needs to know of every       *)
(* thread still reading that it holds the ticket of the moment only if it   *)
(* reads that room.                                                         *)

LEMMA RoomInitInv == RoomInit => LoaderInv
<1> SUFFICES ASSUME RoomInit PROVE LoaderInv
  OBVIOUS
<1> USE RoomAssumption DEF RoomInit, LoaderInv, Cells, RoomOrNone, Reader, Loader
<1>1. RoomTypeOK
  <2>1. 1 \in 1 .. MaxPicks
    OBVIOUS
  <2>2. loaders \subseteq Loader
    <3>1. CASE chosen \in Rooms
      BY <2>1, <3>1
    <3>2. CASE chosen \notin Rooms
      BY <3>2
    <3> QED
      BY <3>1, <3>2
  <2>3. /\ built \in [style : RoomOrNone, model : RoomOrNone]
        /\ {pending, parked, offered, model, atlas, wanted} \subseteq RoomOrNone
    OBVIOUS
  <2>4. seen \in BOOLEAN /\ failed \in BOOLEAN
    OBVIOUS
  <2> QED
    BY <2>1, <2>2, <2>3, <2>4 DEF RoomTypeOK
<1>2. ParkedIsComing
  BY DEF ParkedIsComing
<1>3. LoadersInTime
  BY DEF LoadersInTime
<1>4. BuiltAsWanted
  BY DEF BuiltAsWanted
<1> QED
  BY <1>1, <1>2, <1>3, <1>4

\* A pick spends the tickets of the readers before it.
LEMMA PickInv == ASSUME LoaderInv, NEW c \in Cells, Pick(c) PROVE LoaderInv'
<1> USE RoomAssumption DEF LoaderInv, Pick, native
<1>1. RoomTypeOK'
  BY DEF RoomTypeOK, ParkedAfterPick, Cells, RoomOrNone, Reader, Loader
<1>2. ParkedIsComing'
  BY DEF ParkedIsComing, ParkedAfterPick
<1>3. LoadersInTime'
  BY DEF LoadersInTime, Reader, RoomTypeOK, Loader
<1>4. BuiltAsWanted'
  BY DEF BuiltAsWanted
<1> QED
  BY <1>1, <1>2, <1>3, <1>4

LEMMA LoadFailsInv == ASSUME LoaderInv, NEW l \in loaders, LoadFails(l) PROVE LoaderInv'
<1> USE RoomAssumption DEF LoaderInv, LoadFails, native
<1>1. RoomTypeOK'
  BY DEF RoomTypeOK
<1>2. ParkedIsComing'
  BY DEF ParkedIsComing
<1>3. LoadersInTime'
  BY DEF LoadersInTime
<1>4. BuiltAsWanted'
  BY DEF BuiltAsWanted
<1> QED
  BY <1>1, <1>2, <1>3, <1>4

LEMMA LoadDoneInv == ASSUME LoaderInv, NEW l \in loaders, LoadDone(l) PROVE LoaderInv'
<1> USE RoomAssumption DEF LoaderInv, LoadDone, native
<1>1. RoomTypeOK'
  BY DEF RoomTypeOK, Loader, RoomOrNone
<1>2. ParkedIsComing'
  BY DEF ParkedIsComing, RoomTypeOK, Loader, RoomOrNone
<1>3. LoadersInTime'
  BY DEF LoadersInTime
<1>4. BuiltAsWanted'
  BY DEF BuiltAsWanted
<1> QED
  BY <1>1, <1>2, <1>3, <1>4

LEMMA UploadInv ==
  ASSUME LoaderInv, NEW m \in BOOLEAN, NEW a \in BOOLEAN, Upload(m, a) PROVE LoaderInv'
<1> USE RoomAssumption DEF LoaderInv, Upload
<1>1. RoomTypeOK'
  BY DEF RoomTypeOK, RoomOrNone
<1>2. ParkedIsComing'
  BY DEF ParkedIsComing
<1>3. LoadersInTime'
  BY DEF LoadersInTime
<1>4. BuiltAsWanted'
  BY DEF BuiltAsWanted
<1> QED
  BY <1>1, <1>2, <1>3, <1>4

LEMMA PrepareInv == ASSUME LoaderInv, NEW f \in BOOLEAN, Prepare(f) PROVE LoaderInv'
<1> USE RoomAssumption DEF LoaderInv, Prepare, java
<1>1. RoomTypeOK'
  BY DEF RoomTypeOK, RoomOrNone, Ready
<1>2. ParkedIsComing'
  BY DEF ParkedIsComing
<1>3. LoadersInTime'
  BY DEF LoadersInTime
<1>4. BuiltAsWanted'
  BY DEF BuiltAsWanted, RoomTypeOK, RoomOrNone, Ready
<1> QED
  BY <1>1, <1>2, <1>3, <1>4

LEMMA RoomNextInv == ASSUME LoaderInv, [RoomNext]_roomVars PROVE LoaderInv'
<1>1. ASSUME NEW c \in Cells, Pick(c) PROVE LoaderInv'
  BY <1>1, PickInv
<1>2. ASSUME NEW l \in loaders, LoadFails(l) PROVE LoaderInv'
  BY <1>2, LoadFailsInv
<1>3. ASSUME NEW l \in loaders, LoadDone(l) PROVE LoaderInv'
  BY <1>3, LoadDoneInv
<1>4. ASSUME NEW m \in BOOLEAN, NEW a \in BOOLEAN, Upload(m, a) PROVE LoaderInv'
  BY <1>4, UploadInv
<1>5. ASSUME NEW f \in BOOLEAN, Prepare(f) PROVE LoaderInv'
  BY <1>5, PrepareInv
<1>6. CASE UNCHANGED roomVars
  BY <1>6 DEF roomVars, java, native, LoaderInv, RoomTypeOK, ParkedIsComing, LoadersInTime,
              BuiltAsWanted
<1> QED
  BY <1>1, <1>2, <1>3, <1>4, <1>5, <1>6 DEF RoomNext

\* The loader's inductive invariant, in every reachable state (requestRoom,
\* loadRoomAssets, prepareRoom).
THEOREM RoomInvariant == RoomSpec => []LoaderInv
<1>1. RoomInit => LoaderInv
  BY RoomInitInv
<1>2. LoaderInv /\ [RoomNext]_roomVars => LoaderInv'
  BY RoomNextInv
<1> QED
  BY <1>1, <1>2, PTL DEF RoomSpec

\* The types of the loader, for every set of rooms.
THEOREM RoomTypes == RoomSpec => []RoomTypeOK
<1>1. LoaderInv => RoomTypeOK
  BY DEF LoaderInv
<1> QED
  BY <1>1, RoomInvariant, PTL

\* A room requestRoom takes for resident is on its way or was the last handed
\* to the native side.
THEOREM ResidentIsNotReadAgain == RoomSpec => []ParkedIsComing
<1>1. LoaderInv => ParkedIsComing
  BY DEF LoaderInv
<1> QED
  BY <1>1, RoomInvariant, PTL

\* The buffers hold the room last looked for or none, made of its own model.
THEOREM BuffersOfOneRoom == RoomSpec => []BuiltFromOwn
<1>1. LoaderInv => BuiltFromOwn
  BY DEF LoaderInv, BuiltAsWanted, BuiltFromOwn
<1> QED
  BY <1>1, RoomInvariant, PTL

\* Only the room chosen at the moment is ever parked, however many threads are
\* still reading for earlier picks.
THEOREM OnlyChosenParked == RoomSpec => ParksOnlyChosen
<1>1. LoaderInv /\ [RoomNext]_roomVars => [pending' # pending /\ pending' # None
                                => pending' = chosen]_roomVars
  <2> SUFFICES ASSUME LoaderInv, [RoomNext]_roomVars, pending' # pending, pending' # None
               PROVE pending' = chosen
    OBVIOUS
  <2>1. ASSUME NEW c \in Cells, Pick(c) PROVE pending' = chosen
    BY <2>1 DEF Pick
  <2>2. ASSUME NEW l \in loaders, LoadFails(l) PROVE pending' = chosen
    BY <2>2 DEF LoadFails
  <2>3. ASSUME NEW l \in loaders, LoadDone(l) PROVE pending' = chosen
    BY <2>3 DEF LoadDone, InTime, LoaderInv, LoadersInTime
  <2>4. ASSUME NEW m \in BOOLEAN, NEW a \in BOOLEAN, Upload(m, a)
        PROVE pending' = chosen
    BY <2>4 DEF Upload
  <2>5. ASSUME NEW f \in BOOLEAN, Prepare(f) PROVE pending' = chosen
    BY <2>5 DEF Prepare, java
  <2>6. CASE UNCHANGED roomVars
    BY <2>6 DEF roomVars, java
  <2> QED
    BY <2>1, <2>2, <2>3, <2>4, <2>5, <2>6 DEF RoomNext
<1> QED
  BY <1>1, RoomInvariant, PTL DEF RoomSpec, ParksOnlyChosen
=============================================================================
