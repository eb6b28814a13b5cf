\* Up to four events, connection loss and stop at any time.
SPECIFICATION FairSpec
CONSTANTS
  MaxEvents = 4
  ErrCapacity = 1
INVARIANTS
  RoomForError
  OneEventPerWatch
PROPERTY
  WatchEnds
\* A watch that has ended is over.
CHECK_DEADLOCK FALSE
