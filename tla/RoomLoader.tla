----------------------------- MODULE RoomLoader -----------------------------
(***************************************************************************)
(* The room around the screen. The frame loop takes a pick off the grid    *)
(* (chooseEnvironment, requestRoom), a thread per pick reads the room's    *)
(* mesh and atlas (loadRoomAssets) and parks them, the frame loop hands    *)
(* what is parked to the native side (nativeUploadRoomModel,               *)
(* nativeUploadRoomAtlas), and the next frame that shows a room builds it  *)
(* (prepareRoom). A room has one atlas here, as each of the three shipped  *)
(* rooms has; the scale of a room, and the debug override of which room to *)
(* show, stay as they are.                                                 *)
(***************************************************************************)
EXTENDS Naturals

CONSTANTS Rooms,       \* cells with a baked room behind them
          Others,      \* the void, passthrough
          None,        \* no room
          MaxPicks     \* bound: picks in a session, the start's included

ASSUME RoomAssumption == /\ MaxPicks \in Nat \ {0}
                         /\ Rooms \cap Others = {}
                         /\ None \notin Rooms \cup Others

Cells == Rooms \cup Others
RoomOrNone == Rooms \cup {None}

VARIABLES chosen,      \* environmentChoice, and the native roomStyle with it
          ticket,      \* roomTicket
          loaders,     \* the threads reading a room, as the cell and the ticket
          pending,     \* pendingRoom
          parked,      \* parkedRoomCell
          offered,     \* history: the room last handed to the native side
          model,       \* roomModelStyle
          atlas,       \* roomTextureStyle
          built,       \* roomBuiltStyle, and the model the buffers were made of
          wanted,      \* roomWantedStyle
          seen,        \* roomAssetsSeen
          failed       \* history: something could not be read, taken or built

java == <<chosen, ticket, loaders, pending, parked>>
native == <<model, atlas, built, wanted, seen>>
roomVars == <<java, native, offered, failed>>

Loader == [cell : Rooms, ticket : 1 .. MaxPicks]
ReaderAnyCell(c, t) == {[cell |-> c, ticket |-> t]}    \* mutant
Reader(c, t) == IF c \in Rooms THEN {[cell |-> c, ticket |-> t]} ELSE {}

\* startEnvironment starts the loader of the room the session starts in.
RoomInit ==
  /\ chosen \in Cells
  /\ ticket = 1
  /\ loaders = Reader(chosen, 1)
  /\ pending = None /\ parked = None /\ offered = None
  /\ model = None /\ atlas = None
  /\ built = [style |-> None, model |-> None]
  /\ wanted = None /\ seen = FALSE
  /\ failed = FALSE

\* A room already resident is not read again, and one still being read for an
\* earlier pick has lost its ticket.
ParkedAfterPick(c) == parked

Pick(c) ==
  /\ ticket < MaxPicks
  /\ ticket' = ticket + 1
  /\ chosen' = c
  /\ loaders' = loaders \cup (IF c = parked THEN {} ELSE Reader(c, ticket'))
  /\ parked' = ParkedAfterPick(c)
  /\ UNCHANGED <<pending, offered, native, failed>>

\* The mesh or an atlas of it cannot be read: nothing is parked.
LoadFails(l) ==
  /\ loaders' = loaders \ {l}
  /\ failed' = (failed \/ l.ticket = ticket)
  /\ UNCHANGED <<chosen, ticket, pending, parked, offered, native>>

AnyTicket(l) == TRUE    \* mutant
InTime(l) == l.ticket = ticket

LoadDone(l) ==
  /\ loaders' = loaders \ {l}
  /\ IF InTime(l) THEN pending' = l.cell /\ parked' = l.cell
     ELSE UNCHANGED <<pending, parked>>
  /\ UNCHANGED <<chosen, ticket, offered, native, failed>>

\* The native side may refuse the model, and then still be given the atlas;
\* it drops the atlas of the slot before it looks at the new one.
Upload(modelTaken, atlasTaken) ==
  /\ pending # None
  /\ pending' = None /\ offered' = pending
  /\ model' = IF modelTaken THEN pending ELSE model
  /\ atlas' = IF atlasTaken THEN pending ELSE None
  /\ failed' = (failed \/ ~modelTaken \/ ~atlasTaken)
  /\ UNCHANGED <<chosen, ticket, loaders, parked, built, wanted, seen>>

\* roomAssetsReady
ReadyAtlas(c) == atlas = c    \* mutant
Ready(c) == model = c /\ atlas = c

\* What has prepareRoom look again, since the last time it looked.
MovedPick == wanted # chosen    \* mutant
Moved == wanted # chosen \/ seen # Ready(chosen)

\* A room whose assets are not here is built as nothing. A build that fails
\* leaves what is built, and is not tried again.
Prepare(fails) ==
  /\ chosen \in Rooms
  /\ Moved
  /\ wanted' = chosen /\ seen' = Ready(chosen)
  /\ LET style == IF Ready(chosen) THEN chosen ELSE None
     IN IF style = built.style \/ (fails /\ style # None)
        THEN UNCHANGED built
        ELSE built' = [style |-> style,
                       model |-> IF style = None THEN None ELSE model]
  /\ failed' = (failed \/ fails)
  /\ UNCHANGED <<java, offered, model, atlas>>

RoomNext ==
  \/ \E c \in Cells : Pick(c)
  \/ \E l \in loaders : LoadFails(l) \/ LoadDone(l)
  \/ \E m, a \in BOOLEAN : Upload(m, a)
  \/ \E f \in BOOLEAN : Prepare(f)

RoomSpec == RoomInit /\ [][RoomNext]_roomVars

\* A thread reading a room ends, and frames go on being drawn.
RoomFairness ==
  /\ WF_roomVars(\E l \in loaders : LoadFails(l) \/ LoadDone(l))
  /\ WF_roomVars(\E m, a \in BOOLEAN : Upload(m, a))
  /\ WF_roomVars(\E f \in BOOLEAN : Prepare(f))
FairRoomSpec == RoomSpec /\ RoomFairness

-----------------------------------------------------------------------------
\* The types, and that the native side is only ever offered rooms.
RoomTypeOK ==
  /\ chosen \in Cells
  /\ ticket \in 1 .. MaxPicks
  /\ loaders \subseteq Loader
  /\ {pending, parked, offered, model, atlas, wanted} \subseteq RoomOrNone
  /\ built \in [style : RoomOrNone, model : RoomOrNone]
  /\ seen \in BOOLEAN /\ failed \in BOOLEAN

\* What requestRoom relies on when it does not read a room again: the room
\* last parked is on its way to the native side, or the last it was given.
ParkedIsComing ==
  parked # None => \/ pending = parked
                   \/ pending = None /\ offered = parked

\* A room still being read for an earlier pick is dropped rather than parked
\* over the one chosen now.
ParksOnlyChosen ==
  [][pending' # pending /\ pending' # None => pending' = chosen]_roomVars

\* The buffers never hold a room made of another room's model, and once
\* prepareRoom has looked at a pick they hold that room or none, unless a
\* build failed.
BuiltFromOwn ==
  /\ built.model = built.style
  /\ wanted = chosen /\ ~failed => built.style \in {chosen, None}

\* The inductive invariant: the loader with the ticket of the moment reads the
\* room chosen, and what is built is what was last wanted.
LoadersInTime ==
  \A l \in loaders : /\ l.ticket <= ticket
                     /\ l.ticket = ticket => l.cell = chosen
BuiltAsWanted ==
  /\ built.model = built.style
  /\ ~failed => built.style \in {wanted, None}
LoaderInv == RoomTypeOK /\ ParkedIsComing /\ LoadersInTime /\ BuiltAsWanted

\* The room picked last shows in the end, whichever picks came before it and
\* however late their reads end, unless something of it cannot be read,
\* taken or built.
LastPickShows ==
  ticket = MaxPicks /\ chosen \in Rooms ~> built.style = chosen \/ failed
=============================================================================
