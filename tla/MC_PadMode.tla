----------------------------- MODULE MC_PadMode -----------------------------
(* The three shortcuts, each with the controls it is made of and one or two *)
(* more that only ever reach the game or the pointer.                       *)
EXTENDS PadMode

Moving == [shortcut \in {"menuGrip", "sticks", "triggersGrips"} |->
    IF shortcut = "menuGrip" THEN {"menu", "LG", "RT"}
    ELSE IF shortcut = "sticks" THEN {"LS", "RS", "RT"} ELSE {"LT", "RT", "LG", "RG"}]
=============================================================================
