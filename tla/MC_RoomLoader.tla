--------------------------- MODULE MC_RoomLoader ---------------------------
(* RoomLoader with two rooms that may be taken for one another, the void,  *)
(* and picks enough to leave a room and come back to it while it is read.  *)
EXTENDS RoomLoader
============================================================================
