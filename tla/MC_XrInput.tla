---------------------------- MODULE MC_XrInput ------------------------------
(* A controller in the right hand and the left hand tracked, over one of    *)
(* each kind of thing there is to press.                                    *)
EXTENDS XrInput

OneOfEach == [right |-> "controller", left |-> "hand"]
=============================================================================
