---------------------------- MODULE FrameLayers -----------------------------
(***************************************************************************)
(* What each frame of the VR renderer shows (xr_layers.c): the composition *)
(* layers it hands to the compositor, the fades of the panels and the      *)
(* toast, the launch splash, and the 3D switch with the flat frames drawn  *)
(* until another depth map has landed.                                     *)
(*                                                                         *)
(* A frame is two steps of the frame loop: the input pass, which opens and *)
(* closes panels and says what the ray is on, and the end of the frame,    *)
(* which steps the fades and the splash and builds the layers.  A layer is *)
(* its name; where it hangs and what it is drawn from are left out, and    *)
(* every texture but those the splash waits for has arrived.  Time is      *)
(* counted in frames.                                                      *)
(***************************************************************************)
EXTENDS VrPanels, Integers, Sequences, FiniteSets

CONSTANTS
    Sessions,     \* bound: the sessions looked at, records of SessionType
    MaxLayers,    \* the runtime's limit (maxLayerCount)
    MaxArray,     \* FRAME_MAX_LAYERS
    Fade,         \* frames a panel takes to fade (fadeNs)
    Floor,        \* frames the splash stays at least (SPLASH_FLOOR_NS)
    Ceiling,      \* and at most (SPLASH_CEILING_NS)
    Wait,         \* frames the 3D waits flat for a map (STEREO_WAIT_NS)
    Nothing       \* no panel, no eyes drawn yet

Tabs == {"screen", "display", "3d", "picture", "about"}

(* A session: the environment, the screen locked to the head, a runtime that *)
(* can fade a layer (colorScaleSupported), the 3D (stereoMode), and whether  *)
(* the layers that only come with a setting are up (the glow, the stats, the *)
(* ray, the controller models).  Bounds: the panels its presses ever open,   *)
(* and whether its 3D is switched and its notices come.                      *)
Environments == {"void", "room", "fixed", "passthrough"}
SessionType == [env : Environments, headLocked : BOOLEAN, scale : BOOLEAN,
                stereo : BOOLEAN, extras : BOOLEAN,
                opens : SUBSET Panels, switched : BOOLEAN, notices : BOOLEAN]

ASSUME LayersAssumption ==
    /\ Sessions \subseteq SessionType /\ Nothing \notin Panels
    /\ {MaxLayers, MaxArray, Fade, Floor, Ceiling, Wait} \subseteq Nat
    /\ 0 < Fade /\ Floor < Ceiling

(* OpenXR has every runtime take 16 layers, and more than that are not used  *)
(* (initXrInstance: XR_MIN_COMPOSITION_LAYERS_SUPPORTED); the array holds 24. *)
ASSUME LimitsAssumption == 16 <= MaxLayers /\ 24 <= MaxArray

(* What the ray is on, as far as a layer hangs on it: no ray at all, nothing *)
(* it reaches, the picture, a corner, the bar's row, or something of a panel *)
(* with a ring to go round it (a cell, a button, a key) or without.          *)
Hovers == {"away", "free", "screen", "corner", "bar", "ringed", "panel"}

(* Where a map comes from, against the last time the 3D came back on: staged *)
(* by then, captured by then, or captured since.                             *)
Origins == {"stale", "carried", "fresh"}

VARIABLES
    session,    \* what the session is
    pass,       \* the half of the frame that is next, and what this frame has:
                \* the session focused, a new picture from the decoder
    panel,      \* the modal that is up
    kb,         \* kbOpen
    tab,        \* cogTab
    level,      \* panelFades: how far each panel is faded in
    hover,      \* hoverKind and the hover marks
    toast,      \* a notice is up, and its art drawn
    toastLevel, \* toastFade
    splash,     \* its phase, and the frames since it began or began to go, 1 once gone
                \* for longer than the frame
    waiting,    \* what the splash still waits for (splashWaiting)
    rendered,   \* everRendered
    stereo,     \* the 3D switch: stereoLive, stereoWaiting, stereoWaitIndex, the
                \* frames since it was pressed, and the eyes and map last drawn
    maps,       \* the depth threads: captures under way and the map staged last
    frame       \* the layers of the frame just handed in, and how many were built

inputVars == <<panel, kb, tab, hover, toast>>
layersVars == <<session, pass, inputVars, level, toastLevel, splash, waiting, rendered, stereo, maps, frame>>

LayersTypeOK ==
    /\ session \in SessionType /\ pass \in [half : {"input", "end"}, focused : BOOLEAN, new : BOOLEAN]
    /\ panel \in Modals \cup {Nothing} /\ kb \in BOOLEAN /\ tab \in Tabs
    /\ level \in [Panels -> 0..Fade] /\ hover \in Hovers
    /\ toast \in BOOLEAN /\ toastLevel \in 0..Fade
    /\ splash \in [phase : {"up", "fading", "gone"}, age : 0..Ceiling + 2 * Fade]
    /\ waiting \subseteq {"panels", "room", "depth"} /\ rendered \in BOOLEAN
    /\ stereo \in [on : BOOLEAN, waiting : BOOLEAN, redraw : BOOLEAN, waitIndex : 0..2,
                   since : 0..Wait + 1, eyes : 1..2, from : Origins]
    /\ maps \in [index : 0..2, from : Origins, flying : Seq(Origins)] /\ Len(maps.flying) <= 2

Roomy == session.env \in {"room", "fixed"}

(* splashWaiting: the panels' art, the room chosen and the first depth map.  *)
SplashWaits ==
    {"panels"} \cup (IF Roomy THEN {"room"} ELSE {}) \cup (IF session.stereo THEN {"depth"} ELSE {})

LayersInit ==
    /\ session \in Sessions
    /\ pass = [half |-> "input", focused |-> FALSE, new |-> FALSE]
    /\ panel = Nothing /\ kb = FALSE /\ tab = "screen"
    /\ level = [p \in Panels |-> 0] /\ hover = "away"
    /\ toast = FALSE /\ toastLevel = 0
    /\ splash = [phase |-> "up", age |-> 0]
    /\ waiting = SplashWaits
    /\ rendered = FALSE
    /\ stereo = [on |-> session.stereo, waiting |-> FALSE, redraw |-> FALSE, waitIndex |-> 0,
                 since |-> Wait + 1, eyes |-> IF session.stereo THEN 2 ELSE 1, from |-> "fresh"]
    /\ maps = [index |-> 0, from |-> "fresh", flying |-> << >>]
    /\ frame = [layers |-> {}, built |-> 0]

-----------------------------------------------------------------------------
(* The settings panel's rows (xr_ui.c). *)

(* cogFace: in a room the first tab is the Room tab. *)
Face == IF tab = "screen" /\ Roomy THEN "room" ELSE tab

(* headAimCanAct *)
HeadAimCanAct == session.headLocked /\ ~Roomy

(* The tracks of a face that can be dragged, each with its thumb             *)
(* (cogTabRowCount, cogRowIsTrack, cogRowLive).                              *)
LiveTracks ==
    CASE Face = "screen"  -> {"distance", "height", "tilt", "rotate", "curve", "size"}
                             \cup (IF session.headLocked THEN {"sensitivity", "deadzone"} ELSE {})
      [] Face = "room"    -> {"brightness", "lightLevel"}
                             \cup (IF session.env = "room" THEN {"size"} ELSE {})
      [] Face = "3d"      -> IF session.stereo THEN {"separation", "convergence"} ELSE {}
      [] Face = "picture" -> {"brightness", "contrast", "gamma", "saturation"}
      [] Face = "display" -> {"glowLevel"}
      [] OTHER            -> {}

(* The rings on the rows of cells in force (cogCellInForce); the display tab *)
(* has them all on one strip.                                                *)
ChoiceRings ==
    CASE Face = "room"                 -> {"glowRing", "lightRing"}
      [] Face = "3d" /\ session.stereo -> {"presetRing", "switchRing"}
      [] OTHER                         -> {}

-----------------------------------------------------------------------------
(* The layers, a set from each builder of xr_layers.c.                       *)
When(cond, layers) == IF cond THEN layers ELSE {}
Showing(p) == level[p] > 0

(* The bar's row is up: the ray is on it, and no panel is up or still going. *)
BarArea == hover = "bar" /\ panel = Nothing /\ ~kb /\ (\A p \in Panels : ~Showing(p))

(* A room that failed has no layer of its own; the frame is no fuller.       *)
RoomLayer == When(Roomy /\ "room" \notin waiting, {"room"})
GlowLayer(render) == When(session.extras /\ rendered /\ render, {"glow"})
VideoLayers == IF session.stereo /\ stereo.eyes = 2 THEN {"left", "right"} ELSE {"both"}
OverlayLayer == When(session.extras, {"stats"})

(* The bar outside a room, a corner wherever the picture can be resized.     *)
HandleLayer ==
    When(\/ BarArea /\ ~Roomy
         \/ hover = "corner" /\ session.env # "fixed", {"handle"})

(* A button that stays with its panel is up with it and while it fades       *)
(* (panelButton); the rest are only ever up with the bar.                    *)
PanelButton(button, p) == When(BarArea \/ panel = p \/ Showing(p), {button})
BarButtonLayers ==
    PanelButton("envButton", "picker") \cup PanelButton("exitButton", "exit")
        \cup PanelButton("cogButton", "cog") \cup PanelButton("cogButton", "kofi")
        \cup When(BarArea, {"kbButton", "padButton", "rayButton"}
                           \cup When(HeadAimCanAct, {"aimButton"})
                           \cup When(session.stereo, {"stereoButton"}))

(* The ring on what the ray is on, in the slot the panels share.             *)
HoverRing(p) == When(panel = p /\ hover = "ringed", {"hoverRing"})

SheetLayers ==
    (UNION {When(Showing(p), {p}) : p \in {"exit", "report"}})
        \cup (UNION {When(Showing(p), {p} \cup HoverRing(p)) : p \in {"hint", "kofi"}})

PickerLayers ==
    When(Showing("picker"),
         {"picker", "choiceRing"} \cup When(panel = "picker" /\ hover = "ringed", {"cellRing"}))

CogLayers ==
    When(Showing("cog"),
         {"cogPanel", "cogClock"} \cup LiveTracks \cup ChoiceRings
         \cup When(Face = "display", {"cogMarks"})
         \cup When(Face \in {"room", "picture"} \/ (Face = "screen" /\ session.headLocked), {"cogReadout"})
         \cup When(Face # "3d" \/ session.stereo, HoverRing("cog")))

KeyboardLayers ==
    When(Showing("kb"),
         {"keyboard"} \cup When(hover = "ringed" /\ panel \in {Nothing, "report"}, {"keyRing"}))

(* The runtime draws the controllers itself in passthrough, and the models   *)
(* are placed before the splash steps (updateControllerModels).              *)
ModelsShowing ==
    /\ session.extras /\ session.env # "passthrough" /\ pass.focused
    /\ splash.phase = "gone" /\ splash.age > 0
ModelLayer == When(ModelsShowing, {"models"})

(* The beam goes with the ray switched off, unless a panel is up (rayDrawn). *)
PointerLayers ==
    When(hover # "away", When(session.extras \/ panel # Nothing \/ kb, {"beam"})
                         \cup When(hover # "free", {"dot"}))

ToastLayer == When(toastLevel > 0, {"toast"})
SplashLayers == When(splash.phase # "gone", {"splashGround", "splashSheet"})

(* What nativeEndFrame builds: behind the splash while it is fully up, none  *)
(* but it, and without a picture, or a runtime that asks for one, only the   *)
(* room.                                                                     *)
Built(render) ==
    When(splash.phase # "up",
         RoomLayer \cup GlowLayer(render)
         \cup When(rendered /\ render,
                   UNION {VideoLayers, OverlayLayer, HandleLayer, BarButtonLayers, SheetLayers,
                          PickerLayers, CogLayers, KeyboardLayers, ModelLayer,
                          PointerLayers}))
    \cup ToastLayer \cup SplashLayers

(* Over the limit a frame sheds these in turn (dropLayer), and then goes as  *)
(* it is.                                                                    *)
ShedToastOnly(layers) ==     \* mutant: the rest is not shed
    IF Cardinality(layers) > MaxLayers THEN layers \ {"toast"} ELSE layers
Lighter(layers, l) == IF Cardinality(layers) > MaxLayers THEN layers \ {l} ELSE layers
Shed(layers) ==
    Lighter(Lighter(Lighter(Lighter(Lighter(layers, "toast"), "models"), "hoverRing"),
                    "cogButton"), "cogClock")

-----------------------------------------------------------------------------
(* The input pass (nativeUpdateInput), which the layers only see the panels, *)
(* the hover and the 3D switch of.  One press a frame.                       *)

Put(p, k, t) == panel' = p /\ kb' = k /\ tab' = t
OpenPanel(p) == p \in session.opens /\ Put(p, kb, tab)

(* The furniture: the picker, the settings panel from its first tab, the     *)
(* exit prompt, and the keyboard, which stays open under them; the hint only *)
(* comes up over nothing, not even a panel still on its way out.             *)
PressFurniture ==
    /\ panel = Nothing
    /\ \/ OpenPanel("picker") \/ OpenPanel("exit")
       \/ "cog" \in session.opens /\ Put("cog", kb, "screen")
       \/ ~kb /\ (\A p \in Panels : ~Showing(p)) /\ OpenPanel("hint")
       \/ "kb" \in session.opens /\ Put(Nothing, ~kb, tab)

(* The settings panel: another tab, the report, which brings the keyboard,   *)
(* and the Ko-fi sheet.                                                      *)
PressOnCog ==
    /\ panel = "cog"
    /\ \/ \E t \in Tabs \ {tab} : Put("cog", kb, t)
       \/ tab = "about" /\ OpenPanel("kofi")
       \/ tab = "about" /\ "report" \in session.opens /\ Put("report", TRUE, tab)

(* The report: its field and the hide key, and its Close, which takes the    *)
(* keyboard with it.                                                         *)
PressOnReport ==
    /\ panel = "report"
    /\ Put("report", ~kb, tab) \/ Put(Nothing, FALSE, tab)

ClosePanel == panel \notin {Nothing, "report"} /\ Put(Nothing, kb, tab)

(* Gamepad mode coming on puts everything away (padPutPanelsAway).           *)
PutAway == (panel # Nothing \/ kb) /\ Put(Nothing, FALSE, tab)

Press == PressFurniture \/ PressOnCog \/ PressOnReport \/ ClosePanel \/ PutAway \/ Put(panel, kb, tab)

(* setStereoLive, from the bar.  Back on, the warp waits for a map staged    *)
(* after the one there is now.                                               *)
SwitchedUnwaited(s) == [s EXCEPT !.on = ~@, !.redraw = TRUE, !.since = 0]     \* mutant: no wait
Switched(s) ==
    [s EXCEPT !.on = ~@, !.redraw = TRUE, !.waiting = ~s.on, !.waitIndex = maps.index, !.since = 0]

Presses3d == session.switched /\ panel = Nothing /\ ~kb

(* The maps as the press that brings the 3D back leaves them: everything     *)
(* there is is of before it.                                                 *)
Aged(m) ==
    [m EXCEPT !.from = "stale", !.flying = [k \in DOMAIN @ |-> "carried"]]

(* startDepthCapture, after the pass: the depth threads take the picture of  *)
(* a frame, the one still latched where the 3D just came back.               *)
Captured(m, live, back, new) ==
    IF live /\ Len(m.flying) < 2 /\ (new \/ (back /\ rendered))
    THEN {m, [m EXCEPT !.flying = Append(@, "fresh")]}
    ELSE {m}

(* The early returns: without focus, or with the splash not gone, a pass     *)
(* opens and closes nothing.                                                 *)
InputUncovered(focused) == focused /\ splash.phase # "up"     \* mutant: a fading splash covers nothing
InputRuns(focused) == focused /\ splash.phase = "gone"

(* What the ray is on after a pass: a modal had it, the hover of a press on  *)
(* the row stays on its button, and else it is on whatever there is.         *)
HoversAfter ==
    IF panel # Nothing \/ panel' = "hint" THEN {"away", "ringed", "panel"}
    ELSE IF panel' # Nothing THEN {"bar"}
    ELSE {"away", "free", "screen", "corner", "bar"} \cup (IF kb THEN {"ringed", "panel"} ELSE {})

Input ==
    /\ pass.half = "input"
    /\ \E focused, new \in BOOLEAN, switch \in (IF Presses3d THEN BOOLEAN ELSE {FALSE}) :
        LET back == switch /\ ~stereo.on IN
        /\ pass' = [half |-> "end", focused |-> focused, new |-> new]
        /\ IF InputRuns(focused)
           THEN /\ IF switch THEN Put(panel, kb, tab) ELSE Press
                /\ hover' \in IF switch THEN {"bar"} ELSE HoversAfter
                /\ stereo' = IF switch THEN Switched(stereo) ELSE stereo
                /\ maps' \in Captured(IF back THEN Aged(maps) ELSE maps,
                                      session.switched /\ stereo'.on, back, new)
           ELSE /\ UNCHANGED <<panel, kb, tab, hover, stereo>>
                /\ maps' \in Captured(maps, session.switched /\ stereo.on, FALSE, new)
        /\ toast' \in IF session.notices /\ splash.phase = "gone" THEN BOOLEAN ELSE {toast}
    /\ frame' = [layers |-> {}, built |-> 0]
    /\ UNCHANGED <<session, level, toastLevel, splash, waiting, rendered>>

-----------------------------------------------------------------------------
(* The depth threads stage the oldest capture's map, and the splash's parts  *)
(* arrive (a room that fails, or a model that gives up, is not waited on).   *)
Stage ==
    /\ maps.flying # << >>
    /\ maps' = [index |-> (maps.index + 1) % 3, from |-> Head(maps.flying), flying |-> Tail(maps.flying)]
    /\ UNCHANGED <<session, pass, inputVars, level, toastLevel, splash, waiting, rendered, stereo, frame>>

Arrive ==
    /\ pass.half = "input"
    /\ \E part \in waiting : waiting' = waiting \ {part}
    /\ UNCHANGED <<session, pass, inputVars, level, toastLevel, splash, rendered, stereo, maps, frame>>

-----------------------------------------------------------------------------
(* The end of the frame (nativeEndFrame).                                    *)

(* fadeStep: a frame of the way, or all of it where nothing can be faded.    *)
FadeStep(from, shown) ==
    IF ~session.scale THEN IF shown THEN Fade ELSE 0
    ELSE IF shown THEN IF from < Fade THEN from + 1 ELSE Fade
    ELSE IF from > 0 THEN from - 1 ELSE 0

(* The keyboard stands down for every modal but the report it types into.    *)
Shown(p) == IF p = "kb" THEN kb /\ panel \in {Nothing, "report"} ELSE panel = p
StepPanelFadesKept ==     \* mutant: a modal opening leaves the others to fade
    level' = [p \in Panels |-> FadeStep(level[p], Shown(p))]
StepPanelFades ==
    level' = [p \in Panels |-> IF panel # Nothing /\ ~Shown(p) THEN 0 ELSE FadeStep(level[p], Shown(p))]

(* splashStep: up for its floor and until nothing is waited for or its       *)
(* ceiling, and then fading for as long as a fade takes, or gone at once.    *)
SplashStep(s) ==
    LET age == s.age + 1 IN
    CASE s.phase = "gone"   -> [s EXCEPT !.age = 1]
      [] s.phase = "up"     -> IF s.age < Floor \/ (waiting # {} /\ s.age < Ceiling) THEN [s EXCEPT !.age = age]
                               ELSE [phase |-> IF session.scale THEN "fading" ELSE "gone", age |-> 0]
      [] s.phase = "fading" -> IF age >= 2 * Fade THEN [phase |-> "gone", age |-> 0] ELSE [s EXCEPT !.age = age]
StepSplash == splash' = SplashStep(splash)

(* The 3D back on warps again once another map is staged, or the wait is     *)
(* over, and the picture is drawn again then, new or not.                    *)
Unwaited(s) ==
    IF s.waiting /\ (maps.index # s.waitIndex \/ s.since > Wait)
    THEN [s EXCEPT !.waiting = FALSE, !.redraw = TRUE] ELSE s

RenderVideoFrame(s) ==
    [s EXCEPT !.redraw = FALSE, !.eyes = IF s.on /\ ~s.waiting THEN 2 ELSE 1, !.from = maps.from]

EndFrame ==
    /\ pass.half = "end"
    /\ \E render \in BOOLEAN :
        LET s     == Unwaited(stereo)
            draws == render /\ (pass.new \/ (s.redraw /\ rendered))
            t     == IF draws THEN RenderVideoFrame(s) ELSE s
        IN  /\ stereo' = [t EXCEPT !.since = IF @ > Wait THEN @ ELSE @ + 1]
            /\ rendered' = (rendered \/ draws)
            /\ StepPanelFades
            /\ StepSplash
            /\ toastLevel' = FadeStep(toastLevel, toast)
            /\ pass' = [pass EXCEPT !.half = "input"]
            /\ UNCHANGED <<session, inputVars, waiting, maps>>
            /\ LET built == Built(render)'
               IN  frame' = [layers |-> Shed(built), built |-> Cardinality(built)]

LayersNext == Input \/ Stage \/ Arrive \/ EndFrame

LayersSpec == LayersInit /\ [][LayersNext]_layersVars

-----------------------------------------------------------------------------
(* No frame is over the runtime's limit, which refuses it whole, nor over    *)
(* the array it is built in, whatever is up, on its way or on top of it      *)
(* (FRAME_MAX_LAYERS and the shedding of nativeEndFrame).  The exceptions    *)
(* are what comes up while the settings panel still fades out: a keyboard    *)
(* that was left open under it, as long as that is up or going itself, and a *)
(* corner the ray went to.                                                   *)
Stacked == Showing("cog") /\ panel = Nothing /\ (kb \/ Showing("kb") \/ hover = "corner")
LayersFit == frame.built <= MaxArray /\ (Cardinality(frame.layers) <= MaxLayers \/ Stacked)

(* What a panel opening takes away at once: with a panel up or going no      *)
(* frame has the bar's row, no two modals are in one frame, and a modal that *)
(* is up has the keyboard with it only if it is the report (stepPanelFades,  *)
(* barArea).  A keyboard that comes back may stand over a modal still on its *)
(* way out: see NeverUpTogether.                                             *)
ModalsShown == frame.layers \cap ((Modals \ {"cog"}) \cup {"cogPanel"})
PanelsApart ==
    /\ LayersTypeOK
    /\ ModalsShown # {} \/ "keyboard" \in frame.layers =>
           frame.layers \cap {"kbButton", "padButton", "rayButton", "aimButton", "stereoButton"} = {}
    /\ Cardinality(ModalsShown) <= 1
    /\ panel \notin {Nothing, "report"} => "keyboard" \notin frame.layers

(* "A panel opening takes any other still on its way out away at once, so    *)
(* two are never up together" (stepPanelFades), of the keyboard too, which   *)
(* only shares a frame with the report it types into.  It is no modal, and   *)
(* comes up, or back, over whatever modal still fades: the code does not     *)
(* satisfy this, so no configuration has it.                                 *)
NeverUpTogether == "keyboard" \in frame.layers => ModalsShown \subseteq {"report"}

(* The launch splash covers what it should: fully up it is all the frame     *)
(* carries, and until it is gone nothing under it opens, nothing is pointed  *)
(* at and no notice is spent on it.                                          *)
SplashCovers ==
    /\ splash.phase = "up" => frame.layers \subseteq SplashLayers
    /\ splash.phase # "gone" =>
           /\ panel = Nothing /\ ~kb /\ toastLevel = 0
           /\ frame.layers \subseteq SplashLayers \cup {"room", "glow", "left", "right", "both", "stats"}

(* The 3D switched back on never warps a picture with the map that was there *)
(* when it was pressed, unless it waited for another as long as it waits at  *)
(* all.  The one it takes may be of a capture that was under way by then:    *)
(* see WarpsOnMapsOfNow.                                                     *)
WaitsForAnotherMap == "left" \in frame.layers /\ stereo.from = "stale" => stereo.since > Wait

(* "The warp waits flat for a map of what is on screen now rather than       *)
(* picking up with the one left from whenever it went off" (setStereoLive).  *)
(* Any map staged since ends the wait, one of a picture captured before the  *)
(* 3D went off among them: the code does not satisfy this, so no             *)
(* configuration has it.                                                     *)
WarpsOnMapsOfNow == "left" \in frame.layers /\ stereo.from # "fresh" => stereo.since > Wait
=============================================================================
