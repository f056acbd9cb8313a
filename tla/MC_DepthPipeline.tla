------------------------- MODULE MC_DepthPipeline ---------------------------
(* The build's two pairs and three slots, and as many captures as slots,   *)
(* so that the rotation comes back to the slot the session started on; any *)
(* of them may turn out a jump, and none a confirmed cut (two sets of      *)
(* resets are alike but for their name).                                   *)
EXTENDS DepthPipeline

Jumps == {{}, {ResetTexel}}
=============================================================================
