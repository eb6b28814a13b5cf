\* Two events: the second is never read.
SPECIFICATION FairSpec
CONSTANTS
  MaxEvents = 2
  ErrCapacity = 1
PROPERTY
  EventsAreRead
\* A watch that has ended is over.
CHECK_DEADLOCK FALSE
