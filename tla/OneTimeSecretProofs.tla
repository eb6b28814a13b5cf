------------------------ MODULE OneTimeSecretProofs ------------------------
(***************************************************************************)
(* Proofs about OneTimeSecret, for any pods, roles and secrets: a pod's    *)
(* credentials are of a secret that Vault has unwrapped for that pod.  The *)
(* proofs need no assumption on the constants.                             *)
(***************************************************************************)
EXTENDS OneTimeSecret, TLAPS

HeldIsClaimed ==
  \A p \in Pods : holder[p] # NoSecret =>
    /\ vault[holder[p]].st = "claimed"
    /\ vault[holder[p]].by = p
    /\ RetrieveToken => vault[holder[p]].role = RoleOf[p]

IInv == TypeOK /\ HeldIsClaimed

-----------------------------------------------------------------------------
\* Every step keeps the invariant, action by action.
LEMMA StepIInv == IInv /\ [Next]_onceVars => IInv'
<1> SUFFICES ASSUME IInv, [Next]_onceVars PROVE IInv'
  OBVIOUS
<1> USE DEF IInv
<1>1. CASE UNCHANGED onceVars
  BY <1>1 DEF onceVars, TypeOK, HeldIsClaimed
<1>2. ASSUME NEW s \in Secrets, NEW role \in Roles, Issue(s, role)
      PROVE  IInv'
  <2>1. [st |-> "wrapped", role |-> role, by |-> NoPod] \in Entry
    BY DEF Entry
  <2>2. TypeOK'
    BY <1>2, <2>1 DEF Issue, TypeOK
  <2> QED BY <1>2, <2>2 DEF Issue, TypeOK, HeldIsClaimed
<1>3. ASSUME NEW s \in Secrets, NEW p \in Pods, Claim(s, p)
      PROVE  IInv'
  <2>1. [vault[s] EXCEPT !.st = "claimed", !.by = p] \in Entry
    BY DEF Entry, TypeOK
  <2>2. vault' = [vault EXCEPT ![s] = [vault[s] EXCEPT !.st = "claimed", !.by = p]]
    BY <1>3 DEF Claim, TypeOK, Entry
  <2>3. TypeOK'
    BY <1>3, <2>1, <2>2 DEF Claim, TypeOK
  <2>4. \A t \in Secrets : t # s => vault'[t] = vault[t]
    BY <2>2 DEF TypeOK
  <2>5. \A q \in Pods : holder[q] # NoSecret => holder[q] # s
    BY <1>3 DEF Claim, TypeOK, HeldIsClaimed
  <2> QED BY <1>3, <2>3, <2>4, <2>5 DEF Claim, TypeOK, HeldIsClaimed
<1>4. ASSUME NEW s \in Secrets, Lapse(s)
      PROVE  IInv'
  <2>1. [vault[s] EXCEPT !.st = "lapsed"] \in Entry
    BY DEF Entry, TypeOK
  <2>2. vault' = [vault EXCEPT ![s] = [vault[s] EXCEPT !.st = "lapsed"]]
    BY <1>4 DEF Lapse, TypeOK, Entry
  <2>3. TypeOK'
    BY <1>4, <2>1, <2>2 DEF Lapse, TypeOK
  <2>4. \A t \in Secrets : t # s => vault'[t] = vault[t]
    BY <2>2 DEF TypeOK
  <2>5. \A q \in Pods : holder[q] # NoSecret => holder[q] # s
    BY <1>4 DEF Lapse, TypeOK, HeldIsClaimed
  <2> QED BY <1>4, <2>3, <2>4, <2>5 DEF Lapse, TypeOK, HeldIsClaimed
<1>5. ASSUME NEW s \in Secrets, NEW p \in Pods, Provision(p, s)
      PROVE  IInv'
  BY <1>5 DEF Provision, TypeOK, HeldIsClaimed
<1>6. ASSUME NEW p \in Pods, Clear(p)
      PROVE  IInv'
  BY <1>6 DEF Clear, TypeOK, HeldIsClaimed
<1>7. ASSUME NEW s \in Secrets, Forget(s)
      PROVE  IInv'
  <2>1. Free \in Entry
    BY DEF Free, Entry
  <2>2. TypeOK'
    BY <1>7, <2>1 DEF Forget, TypeOK
  <2> QED BY <1>7, <2>2 DEF Forget, TypeOK, HeldIsClaimed
<1> QED BY <1>1, <1>2, <1>3, <1>4, <1>5, <1>6, <1>7 DEF Next

\* The invariant holds in every behaviour.
THEOREM Invariance == Spec => []IInv
<1>1. Init => IInv
  BY DEF Init, IInv, TypeOK, HeldIsClaimed, Free, Entry
<1>2. IInv /\ [Next]_onceVars => IInv'
  BY StepIInv
<1> QED BY <1>1, <1>2, PTL DEF Spec

\* No two pods have the credentials of one secret: it was unwrapped for one
\* of them only.
THEOREM NoSharingHolds == Spec => []NoSharing
<1>1. IInv => NoSharing
  BY DEF IInv, TypeOK, HeldIsClaimed, NoSharing
<1> QED BY <1>1, Invariance, PTL

\* A pod that has a token has one of its own role.
THEOREM OwnRoleHolds == Spec => []OwnRole
<1>1. IInv => OwnRole
  BY DEF IInv, HeldIsClaimed, OwnRole
<1> QED BY <1>1, Invariance, PTL
=============================================================================
