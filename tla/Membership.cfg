\* Two other processes; up to two joins before the start and one event after it;
\* two terms, reports lost or not, shutdown at any time.
SPECIFICATION MemberFairSpec
CONSTANTS
  x = x
  y = y
  MaxTerms = 2
  Others = {x, y}
  JoinOrders <- UpToTwo
  MaxEvents = 1
INVARIANTS
  ChannelTracksLeadership
  NoOrphan
  FollowersDoNotLead
  LeaderFollowsGossip
PROPERTIES
  PanicNeedsLossOrShutdown
  ClosedStopsLeaders
  LeaderKeepsUp
\* The process may exit or panic.
CHECK_DEADLOCK FALSE
