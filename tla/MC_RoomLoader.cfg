\* A session without a pick left to make may come to rest.
SPECIFICATION FairRoomSpec
CONSTANTS
  None = None
  Rooms = {theater, cinema}
  Others = {void}
  MaxPicks = 4
CHECK_DEADLOCK FALSE
INVARIANT LoaderInv
PROPERTIES
  ParksOnlyChosen
  LastPickShows
