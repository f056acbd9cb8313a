-------------------------- MODULE MC_FrameLayers ---------------------------
EXTENDS FrameLayers

(* The fullest tabs in and out of a room, each with what can be up around    *)
(* them; a runtime that cannot fade; and a session whose 3D is switched.     *)
Session(env, locked, scale, stereo3d, opens) ==
    [env |-> env, headLocked |-> locked, scale |-> scale, stereo |-> stereo3d, extras |-> TRUE,
     opens |-> opens, switched |-> FALSE, notices |-> FALSE]

MCSessions == {
    [Session("void", TRUE, TRUE, TRUE, {"cog", "kb"}) EXCEPT !.notices = TRUE],
    Session("room", FALSE, TRUE, TRUE, {"cog", "picker"}),
    Session("passthrough", TRUE, TRUE, FALSE, {"cog", "kofi", "report"}),
    Session("fixed", FALSE, FALSE, TRUE, {"cog", "exit", "hint"}),
    [Session("void", FALSE, FALSE, TRUE, {}) EXCEPT !.switched = TRUE]}
=============================================================================
