------------------------------ MODULE XrInput -------------------------------
(***************************************************************************)
(* The pointer pass of the native renderer (nativeUpdateInput in           *)
(* xr_input.c): once a frame it reads both hands' triggers and pinches,    *)
(* locks and unlocks the hands, wakes the pointer, picks the hand that     *)
(* points, gives the press to the panel that is up or to the furniture     *)
(* round the picture, moves a grabbed screen, and hands the host's button  *)
(* and the frame's events to Java.                                         *)
(*                                                                         *)
(* The pass is a chain of stages over one record s: ctx with what a frame  *)
(* works out on the way.  Where a ray lands is the frame's input: the name *)
(* of the thing it is on.  The headset has no eye tracking, the session    *)
(* stays in pointer mode (no gamepad mode) and outside the 3D rooms, so no *)
(* room goes from under a slider and none writes its screen's size.        *)
(***************************************************************************)
EXTENDS VrPanels, Naturals, FiniteSets

CONSTANTS
    Kind,           \* what drives each hand: "controller" or "hand" (tracked)
    PointerSleep,   \* whether a pointer left still goes to sleep
    Grips,          \* bound: the hands whose grip is ever closed
    Spots,          \* bound: the things a press is ever aimed at
    Nobody          \* no hand

Hands == {"right", "left"}
Tracked == {h \in Hands : Kind[h] = "hand"}

ASSUME InputAssumption ==
    Kind \in [Hands -> {"controller", "hand"}] /\ PointerSleep \in BOOLEAN /\ Grips \subseteq Hands /\ Nobody \notin Hands

(* What there is to be pressed on each panel, and round the picture.  On the *)
(* settings panel a cell is anything that writes a setting at the press (a   *)
(* cell, a step button, a reset), a slider a track whose end writes one, and *)
(* a placement one of the Screen tab's tracks, which move the screen.        *)
Zones == [
    picker |-> {"room"},
    cog    |-> {"cell", "slider", "placement", "reportButton", "kofiButton"},
    exit   |-> {"yes", "sheet"},
    report |-> {"field", "close", "sheet", "char", "mod", "hide"},
    hint   |-> {"never", "sheet"},
    kofi   |-> {"sheet"}]
Keys == {"char", "mod", "hide"}
Buttons == {"picker", "cog", "kb", "exit", "switch"}
Handles == {"bar", "corner"}
Places == {"none", "screen"} \cup Handles \cup Buttons \cup Keys \cup UNION {Zones[p] : p \in Modals}

VARIABLES
    ctx,       \* the input half of XrCtx, with the frame's own working
    closers    \* history: hands still holding the press that put a panel away

vars == <<ctx, closers>>

(* The slots of a frame that say something happened.  There is one for a     *)
(* setting, whoever writes it: the end of a drag, or a press.                *)
Silent == [pick |-> FALSE, pose |-> FALSE, key |-> FALSE, exit |-> FALSE, setting |-> "none"]
OutType == [pick : BOOLEAN, pose : BOOLEAN, key : BOOLEAN, exit : BOOLEAN,
            setting : {"none", "dragged", "pressed"}]

Someone == Hands \cup {Nobody}

CtxType == [
    open      : SUBSET Panels,
    down      : SUBSET Hands,     \* triggerDown
    swallowed : SUBSET Hands,     \* triggerSwallowed
    gripped   : SUBSET Hands,     \* grabDown
    woke      : SUBSET Tracked,   \* pinchSwallowed: the pinch that woke the pointer
    pinched   : SUBSET Tracked,   \* triplePinch.wasDown
    held      : SUBSET Tracked,   \* triplePinch.holding
    locked    : BOOLEAN,          \* handsLocked
    awake     : BOOLEAN,          \* pointerAwake
    on        : BOOLEAN,          \* pointerOn, the thumbstick's switch
    grab      : Someone,          \* who holds the screen by its bar or a corner
    byTrigger : BOOLEAN,         \* grabByTrigger, which means nothing with no grab
    drag      : Someone,          \* who drags a slider
    placing   : BOOLEAN,          \* cogDragSlider: it is one that places the screen
    button    : BOOLEAN,          \* buttonsDown, its left button
    mods      : BOOLEAN,          \* kbMods: a modifier is lit, and down on the host
    dirty     : BOOLEAN,          \* poseDirty: a placement not handed back yet
    hintShown : BOOLEAN,
    chosen    : BOOLEAN,          \* pickerPick: a room was picked this frame
    out       : OutType,
    edge      : SUBSET Hands,     \* the rest is the frame's own: triggerEdge,
    valid     : SUBSET Hands,     \* aimValid,
    at        : [Hands -> Places], \* hovers, or where on the panel that is up,
    hand      : Someone]          \* and who points

TypeOK == ctx \in CtxType /\ closers \subseteq Hands

Nowhere == [h \in Hands |-> "none"]

Init ==
    /\ ctx = [open |-> {}, down |-> {}, swallowed |-> {}, gripped |-> {}, woke |-> {},
              pinched |-> {}, held |-> {}, locked |-> FALSE, awake |-> FALSE, on |-> TRUE,
              grab |-> Nobody, byTrigger |-> FALSE, drag |-> Nobody, placing |-> FALSE,
              button |-> FALSE, mods |-> FALSE, dirty |-> TRUE, hintShown |-> FALSE, chosen |-> FALSE,
              out |-> Silent, edge |-> {}, valid |-> {}, at |-> Nowhere, hand |-> Nobody]
    /\ closers = {}

-----------------------------------------------------------------------------
Modal(s) == s.open \cap Modals
PressHeld(s) == s.down # {} \/ s.grab # Nobody \/ s.drag # Nobody
CanPoint(s, h) == h \in s.valid /\ s.awake

(* The right hand first, wherever two could answer. *)
First(H) == IF "right" \in H THEN "right" ELSE IF "left" \in H THEN "left" ELSE Nobody
PointsAt(s, places) == First({h \in Hands : CanPoint(s, h) /\ s.at[h] \in places})

Say(s, slot) == [s EXCEPT !.out[slot] = TRUE]
Write(s, how) == [s EXCEPT !.out.setting = how]
SwallowNone(s, H) == s      \* mutant: the press is not kept
Swallow(s, H) == [s EXCEPT !.swallowed = @ \cup H]
Close(s, panel) == [s EXCEPT !.open = @ \ {panel}]
Open(s, panel) == [s EXCEPT !.open = @ \cup {panel}]

LetGoLoosely(s) == [s EXCEPT !.grab = Nobody, !.byTrigger = FALSE]     \* mutant: where it ended up is not kept
LetGo(s) ==
    IF s.grab = Nobody THEN s ELSE [s EXCEPT !.grab = Nobody, !.byTrigger = FALSE, !.dirty = TRUE]

(* cogDragEnded: where a slider ended up is written now, but a placement     *)
(* goes the way a moved screen does, with the pose.                          *)
DragEnded(s) ==
    LET t == [s EXCEPT !.drag = Nobody, !.placing = FALSE]
    IN  IF s.drag = Nobody THEN s
        ELSE IF s.placing THEN [t EXCEPT !.dirty = TRUE] ELSE Write(t, "dragged")

-----------------------------------------------------------------------------
(* The stages, in the order of the pass. *)

(* readSources: the triggers, the pinches and the rays. *)
ReadSources(i) ==
    LET down == {h \in Hands : i.press[h] = "trigger"}
    IN  [ctx EXCEPT !.down = down, !.edge = down \ ctx.down, !.out = Silent, !.chosen = FALSE,
                    !.valid = {h \in Hands : i.at[h] # "lost"},
                    !.at = [h \in Hands |-> IF i.at[h] = "lost" THEN "none" ELSE i.at[h]],
                    !.on = IF i.event = "stick" THEN ~ctx.on ELSE ctx.on]

(* setHandsLocked: locking lets go of everything there and then. *)
SetHandsLocked(s, locked) ==
    IF locked THEN [LetGo(s) EXCEPT !.locked = TRUE, !.awake = FALSE, !.button = FALSE]
    ELSE [s EXCEPT !.locked = FALSE]

(* updateLockGesture: the third quick pinch of a hand turns the lock, and is *)
(* held back from everything until it is let go.  Counting and timing the    *)
(* pinches is left to the event.                                             *)
UpdateLockGesture(s, i) ==
    LET fresh == (s.down \cap Tracked) \ s.pinched
        third == IF i.event = "triple" THEN {First(fresh)} \ {Nobody} ELSE {}
        held  == (s.held \cap s.down) \cup third
        t     == IF third = {} THEN s ELSE SetHandsLocked(Close(s, "hint"), ~s.locked)
    IN  [t EXCEPT !.pinched = s.down \cap Tracked, !.held = held,
                  !.down = @ \ held, !.edge = @ \ held]

(* applyHandLock: a locked hand has no ray and no press. *)
ApplyHandLockRays(s) ==     \* mutant: its presses still count
    IF ~s.locked THEN s ELSE [s EXCEPT !.valid = @ \ Tracked]
ApplyHandLock(s) ==
    IF ~s.locked THEN s
    ELSE [s EXCEPT !.valid = @ \ Tracked, !.down = @ \ Tracked, !.edge = @ \ Tracked,
                   !.at = [h \in Hands |-> IF h \in Tracked THEN "none" ELSE s.at[h]]]

(* updatePointerWake: a pinch wakes the pointer and is spent on it, movement *)
(* of a controller wakes it, and left still long enough it sleeps.  A press  *)
(* swallowed stays so until it is let go.                                    *)
UpdatePointerWake(s, i) ==
    LET pinching == s.down \cap Tracked
        waker    == IF s.awake \/ pinching = {} THEN {}
                    ELSE {IF "left" \in pinching THEN "left" ELSE "right"}
        woke     == (s.woke \cap pinching) \cup waker
        down     == s.down \ woke
        stays    == \/ ~PointerSleep /\ Tracked # Hands
                    \/ s.open \cap {"hint", "kofi"} # {}
    IN  [s EXCEPT !.woke = woke, !.down = down, !.edge = @ \ woke,
                  !.swallowed = @ \cap down,
                  !.awake = \/ stays
                            \/ pinching # {}
                            \/ i.event = "moved" /\ Tracked # Hands
                            \/ s.awake /\ i.event # "still"]

(* pickPointingSource: a hand pressing on the picture keeps the pointer from *)
(* the other, which is otherwise any hand that is on something.              *)
PickPointing(s) ==
    LET drawing == {h \in s.down : s.at[h] = "screen"}
        onSome  == {h \in Hands : s.at[h] # "none"}
    IN  IF ~s.awake /\ s.grab = Nobody THEN [s EXCEPT !.at = Nowhere]
        ELSE [s EXCEPT !.hand = First(IF drawing # {} THEN drawing ELSE onSome)]

(* updateHintOpening: once a session, a while after a free hand began to     *)
(* point with nothing up and nothing held.                                   *)
UpdateHintOpening(s, i) ==
    IF /\ i.event = "hint" /\ ~s.hintShown
       /\ Tracked \cap s.valid # {} /\ s.open = {} /\ ~s.locked /\ ~PressHeld(s)
    THEN [Open(s, "hint") EXCEPT !.hintShown = TRUE, !.awake = TRUE]
    ELSE s

-----------------------------------------------------------------------------
(* The panels.  Each takes the ray whole: whoever pointed before, the hand   *)
(* that points now is one that is on the panel, or nobody.                   *)

(* A press by anyone while nobody is on the panel puts it away. *)
PutAwayFromOutside(s, panel) ==
    IF s.edge = {} THEN s ELSE Swallow(Close(s, panel), s.edge)

UpdatePicker(s) ==
    LET h == PointsAt(s, Zones.picker)
        t == [s EXCEPT !.hand = h]
    IN  IF h = Nobody THEN PutAwayFromOutside(t, "picker")
        ELSE IF h \notin s.edge THEN t
        ELSE Swallow([Close(t, "picker") EXCEPT !.chosen = TRUE], {h})

OpenReport(s) ==
    [s EXCEPT !.open = (@ \ {"cog"}) \cup {"report", "kb"}, !.mods = FALSE]

PressCog(s, h) ==
    CASE s.at[h] = "cell"         -> Write(s, "pressed")
      [] s.at[h] = "slider"       -> [s EXCEPT !.drag = h, !.placing = FALSE]
      [] s.at[h] = "placement"    -> [s EXCEPT !.drag = h, !.placing = TRUE]
      [] s.at[h] = "reportButton" -> Swallow(OpenReport(s), {h})
      [] s.at[h] = "kofiButton"   -> Swallow(Open(Close(s, "cog"), "kofi"), {h})

(* A slider stays with the hand that took it, wherever its ray goes, until   *)
(* the press or the hand is gone; letting go is what writes the value.  The  *)
(* other hand may press in the frame the drag ends in.                       *)
UpdateCogPanel(s) ==
    IF s.drag # Nobody /\ s.drag \in s.down /\ s.drag \in s.valid THEN [s EXCEPT !.hand = s.drag]
    ELSE LET h == PointsAt(s, Zones.cog)
             t == [DragEnded(s) EXCEPT !.hand = h]
         IN  IF h = Nobody THEN PutAwayFromOutside(t, "cog")
             ELSE IF h \notin s.edge THEN t
             ELSE PressCog(t, h)

UpdateExitPrompt(s) ==
    LET h == PointsAt(s, Zones.exit)
        t == [s EXCEPT !.hand = h]
    IN  IF h = Nobody THEN PutAwayFromOutside(t, "exit")
        ELSE IF h \notin s.edge THEN t
        ELSE Swallow(Close(IF s.at[h] = "yes" THEN Say(t, "exit") ELSE t, "exit"), {h})

(* pressKey: a modifier lights or goes out, a character lets go of them, and *)
(* into the report nothing is held.                                          *)
PressKey(s, key, intoReport) ==
    LET t == [s EXCEPT !.mods = key = "mod" /\ ~s.mods /\ ~intoReport]
    IN  CASE key = "char" -> Say(t, "key")
          [] key = "hide" -> Close(t, "kb")
          [] OTHER        -> t

PressReport(s, zone) ==
    CASE zone = "field" -> Open(s, "kb")
      [] zone = "close" -> [s EXCEPT !.open = @ \ {"report", "kb"}]
      [] OTHER          -> s

(* The sheet and the keyboard under it; anywhere else a press does nothing,  *)
(* and reaches nothing behind.                                               *)
UpdateReport(s) ==
    LET keys == IF "kb" \in s.open THEN Keys ELSE {}
        h    == PointsAt(s, (Zones.report \ Keys) \cup keys)
        t    == [s EXCEPT !.hand = h]
    IN  IF h = Nobody THEN Swallow(t, s.edge)
        ELSE IF h \notin s.edge THEN t
        ELSE Swallow(IF s.at[h] \in Keys THEN PressKey(t, s.at[h], TRUE)
                     ELSE PressReport(t, s.at[h]), {h})

(* updateHandHint and updateKofiSheet: any press puts it away. *)
UpdateNote(s, panel) ==
    LET t == [s EXCEPT !.hand = PointsAt(s, Zones[panel])]
    IN  IF s.edge = {} THEN t ELSE Swallow(Close(t, panel), s.edge)

(* updateFurniture: the row of buttons under the picture, and the keyboard. *)
UpdateFurniture(s) ==
    LET h  == s.hand
        on == IF h = Nobody THEN "none" ELSE s.at[h]
    IN  IF h \notin s.edge THEN s
        ELSE CASE on \in {"picker", "cog"}        -> Open(s, on)
               [] on = "kb"                       -> IF "kb" \in s.open THEN Close(s, "kb") ELSE Open(s, "kb")
               [] on = "exit"                     -> Swallow(Open(s, "exit"), {h})
               [] on \in Keys /\ "kb" \in s.open  -> PressKey(s, on, FALSE)
               [] OTHER                           -> s

UpdatePanels(s) ==
    CASE "picker" \in s.open -> UpdatePicker(s)
      [] "cog" \in s.open    -> UpdateCogPanel(s)
      [] "exit" \in s.open   -> UpdateExitPrompt(s)
      [] "report" \in s.open -> UpdateReport(s)
      [] "hint" \in s.open   -> UpdateNote(s, "hint")
      [] "kofi" \in s.open   -> UpdateNote(s, "kofi")
      [] OTHER               -> UpdateFurniture(s)

(* dismissKeyboard: a press of either hand on empty ground puts it away. *)
Dismisser(s) ==
    IF Modal(s) # {} \/ "kb" \notin s.open THEN Nobody
    ELSE First({g \in s.edge : CanPoint(s, g) /\ s.at[g] = "none"})
DismissKeyboard(s) ==
    IF Dismisser(s) = Nobody THEN s ELSE Swallow(Close(s, "kb"), {Dismisser(s)})

-----------------------------------------------------------------------------
(* applyGrab: the screen is taken by the bar or a corner, with the grip or,  *)
(* where the handle is clear of the picture, the trigger, and held for as    *)
(* long as what took it is and the hand is there.                            *)
ApplyGrab(s, i, modal) ==
    LET gripped == {h \in Hands : i.press[h] = "grip"}
        t       == [s EXCEPT !.gripped = gripped]
        kept    == /\ s.grab \in (IF s.byTrigger THEN s.down ELSE gripped)
                   /\ s.grab \in s.valid
        h       == s.hand
        byGrip  == h \in gripped \ s.gripped
    IN  IF s.grab # Nobody THEN IF kept THEN t ELSE LetGo(t)
        ELSE IF /\ ~modal /\ h # Nobody /\ s.at[h] \in Handles
                /\ byGrip \/ (h \in s.edge /\ s.at[h] = "bar")
             THEN [t EXCEPT !.grab = h, !.byTrigger = ~byGrip]
             ELSE t

WritePose(s) == IF s.dirty THEN [Say(s, "pose") EXCEPT !.dirty = FALSE] ELSE s

(* The rest of the pass: nothing goes to the host while the screen is held   *)
(* or the pointer is switched off, and else the left button is down while a  *)
(* press that is not swallowed lasts, once it has been over the picture.     *)
SendButtonModal(s, modal) ==     \* mutant: the picture is hit through a panel
    LET hit  == s.hand # Nobody /\ s.at[s.hand] \in {"screen", "corner"}
        mask == s.down \ s.swallowed # {}
        t    == WritePose(s)
    IN  IF s.grab # Nobody \/ ~s.on THEN [t EXCEPT !.button = FALSE]
        ELSE [t EXCEPT !.button = mask /\ (s.button \/ hit), !.out.pick = s.chosen]

SendButton(s, modal) ==
    LET hit  == ~modal /\ s.hand # Nobody /\ s.at[s.hand] \in {"screen", "corner"}
        mask == s.down \ s.swallowed # {}
        t    == WritePose(s)
    IN  IF s.grab # Nobody \/ ~s.on THEN [t EXCEPT !.button = FALSE]
        ELSE [t EXCEPT !.button = mask /\ (s.button \/ hit), !.out.pick = s.chosen]

(* handBack: with the keyboard gone, however it went, nothing is held by it. *)
HandBackKeeps(s) == [s EXCEPT !.edge = {}, !.valid = {}, !.at = Nowhere, !.hand = Nobody]     \* mutant
HandBack(s) ==
    [s EXCEPT !.mods = @ /\ "kb" \in s.open,
              !.edge = {}, !.valid = {}, !.at = Nowhere, !.hand = Nobody]

-----------------------------------------------------------------------------
(* What a frame may find: a hand presses its trigger, closes its grip or     *)
(* does neither, and its ray is on something there is just now, or lost.     *)
(* Without a new press it only matters whether that is the picture, the      *)
(* panel that is up, something else or nothing, and a ray is only lost where *)
(* something is held by it.                                                  *)
Presses(h) == {"no", "trigger"} \cup (IF h \in Grips THEN {"grip"} ELSE {})

Pressable ==
    IF Modal(ctx) # {} THEN UNION {Zones[p] : p \in Modal(ctx)}
    ELSE Buttons \cup Handles \cup (IF "kb" \in ctx.open THEN Keys ELSE {})

Aims(h, press) ==
    LET hovers == IF Modal(ctx) = {} THEN {"none", "screen", "bar"}
                  ELSE {"none"} \cup {CHOOSE z \in UNION {Zones[p] : p \in Modal(ctx)} : TRUE}
    IN  IF press # "no" /\ h \in {ctx.grab, ctx.drag} THEN {"none", "screen", "lost"}
        ELSE IF press = "no" \/ h \in ctx.down \cup ctx.gripped THEN hovers
        ELSE {"none", "screen"} \cup (Pressable \cap Spots)

(* What else it may find, where it could make a difference: the third of     *)
(* three pinches, the time the hint comes up, the thumbstick clicked, a      *)
(* controller moved, or the pointer left still.                              *)
Events(press) ==
    LET pressing == {h \in Hands : press[h] = "trigger"}
    IN  {"none"}
        \cup (IF (pressing \cap Tracked) \ ctx.pinched # {} THEN {"triple"} ELSE {})
        \cup (IF Tracked # {} /\ ~ctx.hintShown /\ ctx.open = {} /\ pressing \subseteq Tracked
              THEN {"hint"} ELSE {})
        \cup (IF Tracked # Hands THEN {"stick"} ELSE {})
        \cup (IF PointerSleep THEN {"moved", "still"} ELSE {})

(* A press that puts a panel away: the pointing hand's, or with nobody on    *)
(* the panel everyone's; and one that puts the keyboard away from outside.   *)
Closing(before, panelled) ==
    IF Modal(before) # {} /\ Modal(before) \cap panelled.open = {}
    THEN IF panelled.hand \in panelled.edge THEN {panelled.hand} ELSE panelled.edge
    ELSE {}
Dismissing(panelled) == {Dismisser(panelled)} \ {Nobody}

(* nativeUpdateInput, read in full. *)
Frame ==
    \E r \in Presses("right"), l \in Presses("left") :
    LET press == [h \in Hands |-> IF h = "right" THEN r ELSE l] IN
    \E ra \in Aims("right", r), la \in Aims("left", l), event \in Events(press) :
        LET i == [press |-> press, event |-> event,
                  at    |-> [h \in Hands |-> IF h = "right" THEN ra ELSE la]]
            pointing == PickPointing(UpdatePointerWake(
                            ApplyHandLock(UpdateLockGesture(ReadSources(i), i)), i))
            before   == UpdateHintOpening(pointing, i)
            modal    == Modal(before) # {}
            panelled == UpdatePanels(before)
            done     == SendButton(ApplyGrab(DismissKeyboard(panelled), i, modal), modal)
        IN  /\ ctx' = HandBack(done)
            /\ closers' = (closers \cap done.down)
                              \cup Closing(before, panelled) \cup Dismissing(panelled)

(* The session without focus, under the splash, or without a placement: the  *)
(* pass lets go of everything (releaseInput).                                *)
Unwatched ==
    /\ ctx' = HandBack([DragEnded(LetGo([ctx EXCEPT !.out = Silent, !.chosen = FALSE])) EXCEPT !.button = FALSE])
    /\ UNCHANGED closers

(* xrSyncActions failed: nothing is known of the hands this frame. *)
Unsynced ==
    /\ ctx' = HandBack([ctx EXCEPT !.out = Silent, !.chosen = FALSE, !.button = FALSE])
    /\ UNCHANGED closers

(* A recentre (recentreScreen), or a moved slider (updatePlacement), takes   *)
(* the screen out of the hand and places it anew.                            *)
Replaced ==
    /\ ctx' = [ctx EXCEPT !.grab = Nobody, !.byTrigger = FALSE, !.dirty = TRUE]
    /\ UNCHANGED closers

Next == Frame \/ Unwatched \/ Unsynced \/ Replaced

Spec == Init /\ [][Next]_vars

-----------------------------------------------------------------------------
(* Who owns the ray and what is held agree.  At most one panel claims the    *)
(* ray; a slider is only dragged on the settings panel, by a hand that still *)
(* presses; a grabbed screen and a pointer switched off leave no button down *)
(* on the host (a drag may, with a press of the other hand); a modifier is   *)
(* only down on the host with the keyboard up and not into the report, where *)
(* nothing would act on it; the hint is never up with the hands locked.      *)
PanelsInv ==
    /\ TypeOK
    /\ Cardinality(Modal(ctx)) <= 1
    /\ ctx.drag # Nobody => "cog" \in ctx.open /\ ctx.drag \in ctx.down
    /\ ctx.grab # Nobody \/ ~ctx.on => ~ctx.button
    /\ ctx.mods => "kb" \in ctx.open /\ "report" \notin ctx.open
    /\ "hint" \in ctx.open => ctx.hintShown /\ ~ctx.locked

(* A press that put away one of the six panels, or the keyboard from empty   *)
(* ground, is never the host's, however long it lasts and wherever it goes   *)
(* (swallowTrigger); a hand locked meanwhile lets go.  The keyboard's own    *)
(* keys and its button are not among them.                                   *)
ClosingPressStaysTaken == ctx.button => ctx.down \ closers # {}

(* "A trigger spent on the grid or a panel is out of the count while the     *)
(* other one still clicks" (updateButtons), said of the press that drags a   *)
(* slider: it holds down a button that the other hand pressed and let go of, *)
(* so the code does not satisfy this, and no configuration has it.           *)
DragSpendsItsPress == ctx.button => ctx.down \ {ctx.drag} # {}

(* What the rays may not reach stays as it was.  A panel shields the host    *)
(* and the screen: a pass that starts with one up presses nothing on the     *)
(* host that was not pressed before and takes no hold of the screen; only    *)
(* the hint is put away ahead of the panels' turn, by the triple pinch it    *)
(* describes, and leaves the other hand its press.  Locked hands reach       *)
(* nothing (applyHandLock): with no controller pressing, a pass between two  *)
(* locked states presses, opens, closes, takes hold of and types nothing.    *)
PanelsShield ==
    Modal(ctx) # {} /\ (Modal(ctx) = {"hint"} => ~ctx'.locked) =>
        /\ ctx'.button => ctx.button
        /\ ctx'.grab \in {ctx.grab, Nobody}
LockedHandsReachNothing ==
    ctx.locked /\ ctx'.locked /\ (ctx'.down \cup ctx'.gripped) \subseteq Tracked =>
        /\ ctx'.open = ctx.open /\ ctx'.drag \in {ctx.drag, Nobody}
        /\ ctx'.grab \in {ctx.grab, Nobody}
        /\ ~ctx'.button /\ ~ctx'.out.key /\ ~ctx'.out.exit
OutOfReach == [][PanelsShield /\ LockedHandsReachNothing]_vars

(* However a hold ends, where it left things is kept, or given up only for   *)
(* something newer.  A screen let go of, by its handle or by a slider that   *)
(* places it, is a placement to hand back or handed back (the anchor is      *)
(* stale otherwise); any other slider let go of writes its setting, unless   *)
(* the other hand has just pressed and written one in its place.             *)
ScreenLeft == \/ ctx.grab # Nobody /\ ctx'.grab # ctx.grab
              \/ ctx.drag # Nobody /\ ctx'.drag # ctx.drag /\ ctx.placing
SliderLeft == ctx.drag # Nobody /\ ctx'.drag # ctx.drag /\ ~ctx.placing
OtherPressed == (ctx'.down \ ctx.down) \ {ctx.drag} # {}
HoldsEndKept ==
    [][/\ ScreenLeft => ctx'.dirty \/ ctx'.out.pose
       /\ SliderLeft => \/ ctx'.out.setting = "dragged"
                        \/ ctx'.out.setting = "pressed" /\ OtherPressed]_vars

(* "Persisting where it ended up rather than every frame on the way there    *)
(* [...] this is where the writing happens" (cogDragEnded), taken at its     *)
(* word.  The one setting slot of the frame is the other hand's if it        *)
(* presses a cell in the frame the slider is let go of: the code does not    *)
(* satisfy this, so no configuration has it.                                 *)
SliderEndWritten == [][SliderLeft => ctx'.out.setting = "dragged"]_vars
=============================================================================
