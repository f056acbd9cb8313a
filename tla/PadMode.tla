------------------------------- MODULE PadMode ------------------------------
(***************************************************************************)
(* Gamepad mode: the two controllers together as one Xbox pad on the host  *)
(* (xr_gamepad.c, and updatePad, settlePad and restPad of xr_input.c),     *)
(* with as much of the pointer's pass as shares the controllers with it.   *)
(* The shortcut chosen turns the mode over, and so does a switch under the *)
(* ray; a press that was for either of them, for a panel or for the        *)
(* pointer must never land in the game, nor one of the pad's on the host's *)
(* desktop.                                                                *)
(*                                                                         *)
(* A control is off rest (off) and, a trigger apart, pressed (deep) with   *)
(* it: a trigger reaches the host before it counts as pressed.  The tilt   *)
(* of the sticks is left out.  A tick of the shortcuts' clocks is a frame. *)
(***************************************************************************)
EXTENDS Naturals, FiniteSets

CONSTANTS
    Shortcuts,      \* the shortcuts the preference may name
    Pointers,       \* whether the pointer is switched on in the settings
    Watched,        \* bound: the controls that move, for each shortcut
    Light,          \* bound: the triggers ever pulled part of the way
    MaxPutDown,     \* bound: how many controllers are ever put down at once
    Window,         \* PAD_CHORD_WINDOW_NS, in frames
    ChordHold,      \* PAD_CHORD_HOLD_NS
    ToggleHold      \* PAD_TOGGLE_HOLD_NS

Hands == {"left", "right"}
Controls == {"LS", "RS", "LT", "RT", "LG", "RG", "A", "menu"}
HandOf(c) == IF c \in {"LS", "LT", "LG", "menu"} THEN "left" ELSE "right"
Trigger(h) == IF h = "left" THEN "LT" ELSE "RT"

(* padChordParts *)
Parts(shortcut) ==
    IF shortcut = "sticks" THEN {"LS", "RS"}
    ELSE IF shortcut = "triggersGrips" THEN {"LT", "RT", "LG", "RG"} ELSE {}

ASSUME PadAssumption ==
    /\ Shortcuts \subseteq {"menuGrip", "sticks", "triggersGrips"}
    /\ Pointers \subseteq BOOLEAN
    /\ Watched \in [Shortcuts -> SUBSET Controls]
    /\ Light \subseteq {"LT", "RT"}
    /\ {MaxPutDown, Window, ChordHold, ToggleHold} \subseteq Nat

VARIABLES
    prefs,     \* padShortcut, and whether the pointer is switched on
    world,     \* what drives each hand, and where its controls are
    pad,       \* padMode, padAttached, padResting, padHeld, and what is sent
    toggle,    \* padToggle: the menu button held with the left grip
    chord,     \* padChord: the shortcuts made of two or four controls
    point,     \* the pointer: triggerDown, triggerSwallowed, the left button, a panel up
    rumble,    \* what the host asks for, and what each controller was given
    past       \* history: presses made while the pad was not live, and the switch's own

vars == <<prefs, world, pad, toggle, chord, point, rumble, past>>

PadTypeOK ==
    /\ prefs \in [shortcut : Shortcuts, pointer : Pointers]
    /\ world \in [held : SUBSET Hands, off : SUBSET Controls, deep : SUBSET Controls]
    /\ pad \in [mode : BOOLEAN, attached : BOOLEAN, resting : BOOLEAN,
                held : SUBSET Controls, sent : SUBSET Controls]
    /\ toggle \in [holding : BOOLEAN, age : 0..ToggleHold, fired : BOOLEAN, menuTaken : BOOLEAN]
    /\ chord \in [parts : SUBSET Controls, stirred : SUBSET Controls, forming : BOOLEAN,
                  age : 0..Window + 1, allDown : BOOLEAN, allAge : 0..ChordHold,
                  pending : SUBSET Controls, peak : SUBSET Controls, taken : SUBSET Controls,
                  spent : BOOLEAN, replay : SUBSET Controls]
    /\ point \in [down : SUBSET Hands, swallowed : SUBSET Hands, button : BOOLEAN, panel : BOOLEAN]
    /\ rumble \in [want : BOOLEAN, given : SUBSET Hands]
    /\ past \in [owed : SUBSET Controls, switch : SUBSET Controls, kept : SUBSET Controls,
                 stale : BOOLEAN]

AtRest == [holding |-> FALSE, age |-> 0, fired |-> FALSE, menuTaken |-> FALSE]

(* padChordReset: whatever is down now must be let go before a chord forms. *)
ChordReset(parts) ==
    [parts |-> parts, stirred |-> {}, forming |-> FALSE, age |-> 0, allDown |-> FALSE,
     allAge |-> 0, pending |-> {}, peak |-> {}, taken |-> {}, spent |-> TRUE, replay |-> {}]

Init ==
    /\ prefs \in [shortcut : Shortcuts, pointer : Pointers]
    /\ world = [held |-> Hands, off |-> {}, deep |-> {}]
    /\ pad = [mode |-> FALSE, attached |-> FALSE, resting |-> TRUE, held |-> {}, sent |-> {}]
    /\ toggle = AtRest
    /\ chord = ChordReset({})
    /\ point = [down |-> {}, swallowed |-> {}, button |-> FALSE, panel |-> FALSE]
    /\ rumble = [want |-> FALSE, given |-> {}]
    /\ past = [owed |-> {}, switch |-> {}, kept |-> {}, stale |-> TRUE]

-----------------------------------------------------------------------------
(* What the frame reads off the world. *)

(* readPadHand: a hand without a controller reads as all let go. *)
Read(w, controls) == {c \in controls : HandOf(c) \in w.held}

Later(age, limit) == IF age < limit THEN age + 1 ELSE limit

(* padChordStep: the chord forms from all its parts at rest, holds them back *)
(* meanwhile, and fires or is given up.                                      *)
FormingChord(c, stirred, pressed) ==
    LET starts == ~c.forming /\ ~c.spent /\ c.stirred = {} /\ stirred # {}
        from   == IF starts THEN [c EXCEPT !.forming = TRUE, !.age = 0, !.allDown = FALSE,
                                           !.pending = {}, !.peak = {}]
                  ELSE [c EXCEPT !.age = IF @ > Window THEN @ ELSE @ + 1,
                                 !.allAge = Later(@, ChordHold)]
        all    == pressed = c.parts
        meets  == all /\ ~from.allDown /\ from.age <= Window
    IN  IF ~(starts \/ c.forming) THEN [c EXCEPT !.peak = {}]
        ELSE [from EXCEPT !.pending = @ \cup stirred, !.peak = @ \cup pressed,
                          !.allDown = @ \/ meets, !.allAge = IF meets THEN 0 ELSE @]

GivenUp(c, stirred, pressed) ==
    \/ c.pending \ stirred # {}
    \/ c.allDown /\ pressed # c.parts
    \/ ~c.allDown /\ c.age > Window
Made(c) == c.allDown /\ c.allAge >= ChordHold

(* Nothing forming leaves the clocks and the peaks unread. *)
Idle(c) == [c EXCEPT !.forming = FALSE, !.age = 0, !.allDown = FALSE, !.allAge = 0, !.pending = {}]

Fired(c, stirred) == [Idle(c) EXCEPT !.peak = {}, !.taken = stirred, !.spent = TRUE]

Decide(c, stirred, pressed) ==
    IF c.parts = {} THEN c
    ELSE IF ~c.forming THEN [c EXCEPT !.spent = @ /\ stirred # {}]
    ELSE IF GivenUp(c, stirred, pressed) THEN [Idle(c) EXCEPT !.replay = c.pending \ stirred]
    ELSE IF Made(c) THEN Fired(c, stirred) ELSE c
Stirred(c, stirred) == [c EXCEPT !.stirred = stirred]
ChordStep(c, stirred, pressed) ==
    Stirred(Decide(FormingChord([c EXCEPT !.replay = {}, !.taken = @ \cap stirred], stirred, pressed),
                   stirred, pressed), stirred)

Fires(old, new) == old.forming /\ ~new.forming /\ new.taken # {}
Back(c) == c.pending \cup c.taken       \* padChord.held: read as at rest

(* padChordSeen: held back, replayed as a tap, or as it is. *)
SeenOff(c, off) == (off \ Back(c)) \cup c.replay
SeenDeep(c, deep) == (deep \ Back(c)) \cup (c.replay \cap c.peak)

(* padToggleStep: the menu button and the left grip, held together. *)
ToggleStep(t, menu, grip) ==
    LET age  == IF t.holding THEN Later(t.age, ToggleHold) ELSE 0
        over == age >= ToggleHold
    IN  IF menu /\ grip
        THEN [holding |-> TRUE, age |-> age, fired |-> t.fired \/ over, menuTaken |-> TRUE]
        ELSE [AtRest EXCEPT !.menuTaken = t.menuTaken /\ menu]

-----------------------------------------------------------------------------
(* The stages of a frame, over the record of the variables they change. *)

State == [world |-> world, pad |-> pad, toggle |-> toggle, chord |-> chord, point |-> point,
          before |-> {}, away |-> FALSE]

(* setPadMode: going on, the pass puts the panels away (away); going off, a *)
(* trigger still held is taken as already down and kept from the host.     *)
SetPadModeBare(s, on) == [s EXCEPT !.pad.mode = on, !.away = on]     \* mutant: the trigger is left to click
SetPadMode(s, on) ==
    LET still == {h \in s.world.held : Trigger(h) \in s.world.deep}
        t     == [s EXCEPT !.pad.mode = on, !.away = on]
    IN  IF on THEN t ELSE [t EXCEPT !.point.down = @ \cup still, !.point.swallowed = @ \cup still]

Plugged(s) == s.pad.mode /\ s.world.held # {}

(* settlePad: at rest unless live, with anything held from before it was *)
(* live kept off until it is let go (padHoldBack).                       *)
SettleAtOnce(s, live, seen) ==     \* mutant: what is still down goes through
    [s EXCEPT !.pad.sent = IF Plugged(s) /\ live THEN seen ELSE {}, !.pad.held = {},
              !.pad.resting = ~(Plugged(s) /\ live), !.pad.attached = Plugged(s)]
Settle(s, live, seen) ==
    LET on   == Plugged(s) /\ live
        got  == IF on THEN seen ELSE {}
        held == (IF on /\ s.pad.resting THEN got ELSE s.pad.held) \cap got
    IN  [s EXCEPT !.pad.sent = got \ held, !.pad.held = held,
                  !.pad.resting = ~on, !.pad.attached = Plugged(s)]

(* restPad: nothing is read this frame. *)
RestPad(s) ==
    Settle([s EXCEPT !.toggle = AtRest, !.chord = ChordReset(s.chord.parts)], FALSE, {})

(* updatePad: the chord, or the menu button with the grip, *)
PartsNow(s) == IF s.world.held = Hands THEN Parts(prefs.shortcut) ELSE {}
ForParts(c, parts) == IF parts # c.parts THEN ChordReset(parts) ELSE c
StepChord(s) ==
    [s EXCEPT !.chord = ChordStep(ForParts(@, PartsNow(s)), Read(s.world, s.world.off) \cap PartsNow(s),
                                  Read(s.world, s.world.deep) \cap PartsNow(s))]
StepToggle(s) ==
    IF prefs.shortcut # "menuGrip" THEN s
    ELSE [s EXCEPT !.toggle = ToggleStep(@, "menu" \in Read(s.world, s.world.off),
                                         "LG" \in SeenDeep(s.chord, Read(s.world, s.world.deep)))]

(* turns the mode over, *)
Turns(s) == Fires(chord, s.chord) \/ (s.toggle.fired /\ ~toggle.fired)
Turn(s) == IF Turns(s) THEN SetPadMode(s, ~s.pad.mode) ELSE s

(* and the pad is made of both controllers (padMap), Start only while the *)
(* menu button is not the shortcut's.                                     *)
Mapped(s) ==
    SeenOff(s.chord, Read(s.world, s.world.off)) \ (IF s.toggle.menuTaken THEN {"menu"} ELSE {})
SettleRead(s) == Settle(s, ~s.point.panel, Mapped(s))
UpdatePad(s) == SettleRead(Turn(StepToggle(StepChord(s))))

(* padPutPanelsAway *)
PutPanelsAway(s) ==
    IF ~s.away THEN s ELSE [s EXCEPT !.away = FALSE, !.point.panel = FALSE, !.point.button = FALSE]

(* readSources: a controller that is the pad's presses nothing, and the rest *)
(* are read as the shortcut leaves them.  A trigger's name stands for the    *)
(* pinch of a hand with no controller in it.                                 *)
ReadSources(s) ==
    LET seen == SeenDeep(s.chord, s.world.deep)
        down == {h \in Hands : Trigger(h) \in seen /\ ~(s.pad.mode /\ h \in s.world.held)}
    IN  [s EXCEPT !.point.down = down, !.point.swallowed = @ \cap down]

(* A press on a panel is taken by it, whether or not it is over it, and may *)
(* turn the mode over on the Display tab or put the panel away; one on the   *)
(* bar turns the mode over or opens a panel.                                 *)
Press(s, edge, on) ==
    LET t == IF s.point.panel THEN [s EXCEPT !.point.swallowed = @ \cup edge] ELSE s
    IN  IF edge = {} \/ on = "screen" THEN t
        ELSE IF on = "switch" THEN SetPadMode(t, ~s.pad.mode)
        ELSE [t EXCEPT !.point.panel = ~@]

(* updateButtons: a press counts aimed at the picture, a release always. *)
Buttons(s, hit) ==
    LET mask == s.point.down \ s.point.swallowed # {}
    IN  [s EXCEPT !.point.button = mask /\ (hit \/ s.point.button)]

Pressed(s, on) == Press(s, s.point.down \ s.before, on)
Pass(s, on) ==
    Buttons(PutPanelsAway(Pressed(ReadSources([s EXCEPT !.before = s.point.down]), on)),
            on = "screen" /\ ~s.point.panel)

(* nativeUpdateInput, a frame whose controllers could be read *)
ReadFrame(s, on) ==
    IF prefs.pointer THEN Pass(UpdatePad(s), on)
    ELSE PutPanelsAway(UpdatePad([s EXCEPT !.point.button = FALSE]))

(* one without the focus, under the splash, or whose sync failed *)
BlindFrame(s) == RestPad([s EXCEPT !.point.button = FALSE])

(* updateRumble: whichever controllers are the pad's vibrate as asked, and *)
(* what the host asked for goes when the pad comes out.                    *)
RumbleKept(s, r, live) ==     \* mutant: the host's word stands with the pad out
    [want |-> r.want,
     given |-> IF r.want /\ live /\ s.pad.attached THEN s.world.held ELSE {}]
UpdateRumble(s, r, live) ==
    [want |-> r.want /\ s.pad.attached,
     given |-> IF r.want /\ live /\ s.pad.attached THEN s.world.held ELSE {}]

-----------------------------------------------------------------------------
(* History. A press is owed once it was down in a frame the pad was not live *)
(* in, and the switch's own once it made the shortcut; both until let go. A  *)
(* part the chord holds back as the pad goes live is the chord's to keep,    *)
(* and a chord started over, with a controller put down or a frame not read, *)
(* keeps nothing. A trigger is kept that was down as the mode went off. What *)
(* the host last asked is stale once the pad has been out since.             *)
Live(p) == p.attached /\ ~p.resting
Record(s, blind) ==
    LET off     == Read(s.world, s.world.off)
        restart == blind \/ s.chord.parts # chord.parts
        fired   == Fires(chord, s.chord)
        menu    == IF s.toggle.menuTaken THEN {"menu"} ELSE {}
        ends    == pad.mode /\ ~s.pad.mode
        lost    == IF restart THEN chord.taken ELSE {}
    IN  [owed   |-> IF blind THEN Watched[prefs.shortcut]
                    ELSE IF ~Live(s.pad) THEN off
                    ELSE (past.owed \cap off) \ (IF Live(pad) THEN {} ELSE Back(s.chord)),
         switch |-> ((IF fired THEN s.chord.stirred ELSE (past.switch \ lost) \cap off) \ {"menu"}) \cup menu,
         kept   |-> Read(s.world, (IF ends THEN s.world.deep ELSE past.kept)
                                  \cap s.world.deep \cap {"LT", "RT"}) \ lost,
         stale  |-> past.stale \/ ~s.pad.attached]

Step(w, on, blind) ==
    \E t \in {IF blind THEN BlindFrame([State EXCEPT !.world = w]) ELSE ReadFrame([State EXCEPT !.world = w], on)} :
        /\ world' = w /\ pad' = t.pad /\ toggle' = t.toggle /\ chord' = t.chord /\ point' = t.point
        /\ rumble' = UpdateRumble(t, rumble, ~blind)
        /\ past' = Record(t, blind)
        /\ UNCHANGED prefs

(* Actions. A frame brings one kind of news: controls that moved, a         *)
(* controller put down or picked up, or that nothing could be read.         *)
Aims == {"screen", "switch", "panel"}

ControlsMove ==
    \E off \in SUBSET Watched[prefs.shortcut], on \in Aims :
        \E shallow \in SUBSET (off \cap Light) :
            Step([world EXCEPT !.off = off, !.deep = off \ shallow], on, FALSE)

HandsChange ==
    \E h \in Hands :
        LET held == IF h \in world.held THEN world.held \ {h} ELSE world.held \cup {h} IN
        /\ Cardinality(Hands \ held) <= MaxPutDown
        /\ Step([world EXCEPT !.held = held], "screen", FALSE)

NothingRead == Step(world, "screen", TRUE)

(* nativeSetRumble, between two frames *)
HostRumbles ==
    /\ \E want \in BOOLEAN : rumble' = [rumble EXCEPT !.want = want]
    /\ past' = [past EXCEPT !.stale = FALSE]
    /\ UNCHANGED <<prefs, world, pad, toggle, chord, point>>

Next == ControlsMove \/ HandsChange \/ NothingRead \/ HostRumbles

Spec == Init /\ [][Next]_vars

-----------------------------------------------------------------------------
(* Properties *)

(* The pad sends nothing while it rests or is out, rests while a panel is   *)
(* up.  A controller vibrates only as the pad's, and never at a word from  *)
(* before the pad last came out.                                           *)
PadInv ==
    /\ PadTypeOK
    /\ ~Live(pad) => pad.sent = {}
    /\ rumble.given # {} => pad.attached /\ ~past.stale

(* A press made for a panel, for the switch or for the pointer, still down   *)
(* when the pad goes live, and the press that made the shortcut, never reach *)
(* the game until let go (settlePad, padHoldBack, padChordApply).            *)
PressesStayOut == (past.owed \cup past.switch) \cap pad.sent = {}

(* The trigger still held as the mode goes off, and one that made the chord, *)
(* never presses the host's button until let go (setPadMode, seenTrigger).   *)
NoSwitchClicks ==
    \A h \in point.down \ point.swallowed :
        ~pad.mode => Trigger(h) \notin past.kept \cup past.switch
=============================================================================
