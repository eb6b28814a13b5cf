--------------------------- MODULE OneTimeSecret ---------------------------
(***************************************************************************)
(* What the delivery of secrets promises, without the pushes, the retries  *)
(* and the restarts: Vault issues a wrapped secret_id for a role, one pod  *)
(* at most unwraps it, and only that pod ends up with it.                  *)
(***************************************************************************)
CONSTANTS Secrets, Pods, Roles, RoleOf, RetrieveToken, NoSecret, NoPod, NoRole

VARIABLES
  vault,   \* [Secrets -> Entry]
  holder   \* [Pods -> Secrets \cup {NoSecret}]: whose credentials a pod has

onceVars == <<vault, holder>>

Entry == [st   : {"free", "wrapped", "claimed", "lapsed"},
          role : Roles \cup {NoRole},
          by   : Pods \cup {NoPod}]

Free == [st |-> "free", role |-> NoRole, by |-> NoPod]

TypeOK ==
  /\ vault \in [Secrets -> Entry]
  /\ holder \in [Pods -> Secrets \cup {NoSecret}]

Init ==
  /\ vault = [s \in Secrets |-> Free]
  /\ holder = [p \in Pods |-> NoSecret]

\* A wrapped secret_id for a role.
Issue(s, role) ==
  /\ vault[s].st = "free"
  /\ vault' = [vault EXCEPT ![s] = [st |-> "wrapped", role |-> role, by |-> NoPod]]
  /\ UNCHANGED holder

\* Vault unwraps a token once.
Claim(s, p) ==
  /\ vault[s].st = "wrapped"
  /\ vault' = [vault EXCEPT ![s].st = "claimed", ![s].by = p]
  /\ UNCHANGED holder

\* The wrapping TTL has passed.
Lapse(s) ==
  /\ vault[s].st = "wrapped"
  /\ vault' = [vault EXCEPT ![s].st = "lapsed"]
  /\ UNCHANGED holder

\* The pod that claimed s gets its credentials; a token is only given for
\* the pod's own role.
Provision(p, s) ==
  /\ vault[s].st = "claimed"
  /\ vault[s].by = p
  /\ RetrieveToken => vault[s].role = RoleOf[p]
  /\ holder' = [holder EXCEPT ![p] = s]
  /\ UNCHANGED vault

\* A later run truncates the file, or the pod is deleted.
Clear(p) ==
  /\ holder[p] # NoSecret
  /\ holder' = [holder EXCEPT ![p] = NoSecret]
  /\ UNCHANGED vault

\* A name for secrets is used again when nobody holds it.
Forget(s) ==
  /\ \A p \in Pods : holder[p] # s
  /\ vault' = [vault EXCEPT ![s] = Free]
  /\ UNCHANGED holder

Next ==
  \/ \E s \in Secrets :
       \/ \E role \in Roles : Issue(s, role)
       \/ \E p \in Pods : Claim(s, p) \/ Provision(p, s)
       \/ Lapse(s)
       \/ Forget(s)
  \/ \E p \in Pods : Clear(p)

Spec == Init /\ [][Next]_onceVars

\* No two pods have the credentials of one secret.
NoSharing == \A p, q \in Pods : holder[p] = holder[q] /\ holder[p] # NoSecret => p = q

\* A pod that has a token has one of its own role.
OwnRole ==
  RetrieveToken =>
    \A p \in Pods : holder[p] # NoSecret => vault[holder[p]].role = RoleOf[p]
=============================================================================
