------------------------- MODULE MC_DepthGovernor ---------------------------
(* The build's rates and windows, with the longer waits shortened in         *)
(* proportion: a hold shorter than the first wait, three waits up to the     *)
(* longest, and a raise proven after the first wait but before the last.     *)
EXTENDS DepthGovernor

SomeSettings == {3, 20, 60}
=============================================================================
