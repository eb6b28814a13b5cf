\* One Store with two leader goroutines and two push slots; three pods, two
\* of them with the same name.
SPECIFICATION FairSpec
CONSTANTS
  a = a
  l1 = l1
  l2 = l2
  p1 = p1
  p2 = p2
  p3 = p3
  g1 = g1
  g2 = g2
  n1 = n1
  n2 = n2
  Stores = {a}
  Pods = {p1, p2, p3}
  Names = {n1, n2}
  NameOf <- MCNameOf
  Leaders = {l1, l2}
  LeaderStore <- MCLeaderStore
  Pushers = {g1, g2}
  PusherStore <- MCPusherStore
  Secrets = {s1, s2}
  MaxPosts = 2
  NoPod = NoPod
  NoSecret = NoSecret
INVARIANTS
  TypeOK
  OnePushPerName
  MapIsInFlight
PROPERTIES
  PushShortens
  NameFreed
