-------------------------- MODULE MCInitContainer --------------------------
(* Instances of InitContainer for TLC. *)
EXTENDS InitContainer, TLC

CONSTANTS s1, s2

\* Two secrets, the first POSTed twice (a retry).
MCRequests == (1..2) \X {s1} \cup {<<1, s2>>}
MCSecretOf(r) == r[2]

\* Only the controller of the first secret has Vault's root CAs.
MCBringsCAs(r) == r[2] = s1
=============================================================================
