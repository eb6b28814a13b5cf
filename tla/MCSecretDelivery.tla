------------------------- MODULE MCSecretDelivery -------------------------
(* Instances of SecretDelivery for TLC. *)
EXTENDS SecretDelivery, TLC

CONSTANTS a, b, l1, l2, p1, p2, g1, g2, n1, n2, i1, i2, r1, r2

\* p1 and p2 may share a name (two namespaces) or an address (one after the
\* other).
SameName == p1 :> n1 @@ p2 :> n1
OwnAddresses == p1 :> i1 @@ p2 :> i2
SameAddress == p1 :> i1 @@ p2 :> i1
TwoRoles == p1 :> r1 @@ p2 :> r2

\* One process, or two: raft lets an old leader go on for a while.
OneStore == l1 :> a
TwoStores == l1 :> a @@ l2 :> b
OnePusher == g1 :> a
PusherEach == g1 :> a @@ g2 :> b

P1Names == p1 :> n1
P1Address == p1 :> i1
P1Role == p1 :> r1

SecretSymmetry == Permutations(Secrets)

\* Two pods that share name and address differ by their roles only: the pods
\* may be swapped if the roles are.
Swapped == p1 :> p2 @@ p2 :> p1 @@ r1 :> r2 @@ r2 :> r1
Unswapped == [x \in {p1, p2, r1, r2} |-> x]
PodSymmetry == {s @@ t : s \in SecretSymmetry, t \in {Swapped, Unswapped}}
=============================================================================
