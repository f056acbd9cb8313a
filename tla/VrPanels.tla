------------------------------- MODULE VrPanels -------------------------------
(* The panels of the native renderer, one flag of XrCtx each, as both the      *)
(* pointer pass and the layers know them.                                      *)

(* Each takes the ray whole while it is up, and no two are up together; the    *)
(* keyboard does neither.                                                      *)
Modals == {"picker", "cog", "exit", "report", "hint", "kofi"}
Panels == Modals \cup {"kb"}
===============================================================================
