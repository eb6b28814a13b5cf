---------------------------- MODULE MCMembership ----------------------------
(* Instances of Membership for TLC. *)
EXTENDS Membership

CONSTANTS x, y

\* x and y are alike: one order of each length is enough.
UpToTwo == {<<>>, <<x>>, <<x, y>>}
=============================================================================
