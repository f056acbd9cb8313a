----------------------------- MODULE DepthMaps ------------------------------
(***************************************************************************)
(* What the depth pipeline promises the picture: frames are captured one   *)
(* after another, at most Depth of them are on their way, and they are     *)
(* settled strictly in the order they were captured, each by its map going *)
(* up or by no map being made.                                             *)
(***************************************************************************)
EXTENDS Naturals

CONSTANTS Depth, MaxCaptures

VARIABLES
    taken,     \* captures so far
    settled,   \* captures 1 .. settled have had their map shown or been dropped
    shown      \* the capture of the live map, 0 for the flat one

vars == <<taken, settled, shown>>

Init == taken = 0 /\ settled = 0 /\ shown = 0

Take ==
    /\ taken < MaxCaptures
    /\ taken - settled < Depth
    /\ taken' = taken + 1
    /\ UNCHANGED <<settled, shown>>

Show ==
    /\ settled < taken
    /\ settled' = settled + 1
    /\ shown' = settled + 1
    /\ UNCHANGED taken

Drop ==
    /\ settled < taken
    /\ settled' = settled + 1
    /\ UNCHANGED <<taken, shown>>

Next == Take \/ Show \/ Drop

Spec == Init /\ [][Next]_vars
=============================================================================
