\* Two pods that have one address, one after the other, and do not unwrap.
SPECIFICATION Spec
CONSTANTS
  a = a
  b = b
  l1 = l1
  l2 = l2
  p1 = p1
  p2 = p2
  g1 = g1
  g2 = g2
  n1 = n1
  n2 = n2
  i1 = i1
  i2 = i2
  r1 = r1
  r2 = r2
  Stores = {a}
  Leaders = {l1}
  LeaderStore <- OneStore
  Pushers = {g1}
  PusherStore <- OnePusher
  Pods = {p1, p2}
  Names = {n1}
  NameOf <- SameName
  Addresses = {i1}
  IpOf <- SameAddress
  Roles = {r1, r2}
  RoleOf <- TwoRoles
  Secrets = {s1, s2}
  Watchers = {}
  MaxPosts = 2
  UnwrapSecret = FALSE
  RetrieveToken = FALSE
  StoresWithCAs = {}
  Unlimited = TRUE
  MaxFaults = 0
  NoPod = NoPod
  NoSecret = NoSecret
  NoRequest = NoRequest
  NoRole = NoRole
INVARIANT
  NoSharing
