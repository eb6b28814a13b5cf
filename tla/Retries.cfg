\* One pod and one controller, with its watch, that POSTs each secret twice;
\* three faults.
SPECIFICATION FairSpec
CONSTANTS
  a = a
  b = b
  l1 = l1
  l2 = l2
  p1 = p1
  p2 = p2
  g1 = g1
  g2 = g2
  n1 = n1
  n2 = n2
  i1 = i1
  i2 = i2
  r1 = r1
  r2 = r2
  Stores = {a}
  Leaders = {l1}
  LeaderStore <- OneStore
  Pushers = {g1}
  PusherStore <- OnePusher
  Pods = {p1}
  Names = {n1}
  NameOf <- P1Names
  Addresses = {i1}
  IpOf <- P1Address
  Roles = {r1}
  RoleOf <- P1Role
  Secrets = {s1, s2}
  Watchers = {l1}
  MaxPosts = 2
  UnwrapSecret = TRUE
  RetrieveToken = TRUE
  StoresWithCAs = {}
  Unlimited = FALSE
  MaxFaults = 3
  NoPod = NoPod
  NoSecret = NoSecret
  NoRequest = NoRequest
  NoRole = NoRole
PROPERTY
  EventuallyProvisioned
