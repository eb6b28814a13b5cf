------------------------ MODULE InitContainerProofs ------------------------
(***************************************************************************)
(* Proofs about InitContainer, for any pods, requests and secrets and each *)
(* of its three modes.                                                     *)
(*                                                                         *)
(* Provisioned speaks of a run that has ended well; its inductive form     *)
(* says what each statement of main has established so far.                *)
(***************************************************************************)
EXTENDS InitContainer, TLAPS

Idle == {"down", "waiting"}

Progress ==
  \A p \in Pods :
    /\ pc[p] \notin Idle => taken[p] \in Requests
    /\ pc[p] \in Idle => taken[p] = NoRequest
    /\ pc[p] \in {"bundle", "fill", "exit", "ok"} => cred[p] = [kind |-> Mode, secret |-> Secret(p)]
    /\ pc[p] \in {"exit", "ok"} /\ BringsCAs(taken[p]) => ca[p] = Secret(p)
    /\ cred[p].kind \in {"none", "partial"} => cred[p].secret = NoSecret

IInv == TypeOK /\ Progress

-----------------------------------------------------------------------------
\* The three modes are kinds of credentials.
LEMMA ModeIsKind == Mode \in Kinds
  BY DEF Mode, Kinds

\* What a run writes is a well-formed file.
LEMMA WrittenIsCred ==
  ASSUME NEW p \in Pods, taken[p] \in Requests
  PROVE  [kind |-> Mode, secret |-> Secret(p)] \in Creds
  BY InitContainerAssumption, ModeIsKind DEF Secret, Creds

\* The end of a run, by Fatalf or by a kill, keeps the invariant.
LEMMA ExitKeeps ==
  ASSUME IInv, NEW p \in Pods, Exit(p)
  PROVE  IInv'
  BY DEF IInv, TypeOK, Progress, Exit, Idle, Secret, States

\* Every step keeps the invariant, statement by statement.
LEMMA StepIInv == IInv /\ [Next]_initVars => IInv'
<1> SUFFICES ASSUME IInv, [Next]_initVars PROVE IInv'
  OBVIOUS
<1> USE InitContainerAssumption DEF IInv
<1>1. CASE UNCHANGED initVars
  BY <1>1 DEF initVars, TypeOK, Progress, Secret
<1>2. ASSUME NEW p \in Pods, Start(p)
      PROVE  IInv'
  BY <1>2 DEF Start, Goto, TypeOK, Progress, Idle, Secret, States
<1>3. ASSUME NEW p \in Pods, NEW r \in Requests, Deliver(p, r)
      PROVE  IInv'
  BY <1>3 DEF Deliver, TypeOK, Progress, Secret
<1>4. ASSUME NEW p \in Pods, NEW r \in Requests, Receive(p, r)
      PROVE  IInv'
  BY <1>4 DEF Receive, Goto, TypeOK, Progress, Idle, Secret, States
<1>5. ASSUME NEW p \in Pods, Validate(p) \/ Unwrap(p) \/ Login(p)
      PROVE  IInv'
  BY <1>5 DEF Validate, Unwrap, Login, Goto, TypeOK, Progress, Idle, Secret, States
<1>6. ASSUME NEW p \in Pods, Create(p)
      PROVE  IInv'
  <2>1. Partial \in Creds
    BY DEF Partial, Creds, Kinds
  <2>2. cred' \in [Pods -> Creds]
    BY <1>6, <2>1 DEF Create, TypeOK
  <2>3. \A q \in Pods : cred'[q].kind \in {"none", "partial"} => cred'[q].secret = NoSecret
    BY <1>6 DEF Create, Partial, TypeOK, Progress
  <2>4. TypeOK'
    BY <1>6, <2>2 DEF Create, Goto, TypeOK, States
  <2> QED BY <1>6, <2>3, <2>4 DEF Create, Goto, TypeOK, Progress, Idle, Secret
<1>7. ASSUME NEW p \in Pods, Write(p)
      PROVE  IInv'
  <2> DEFINE c == [kind |-> Mode, secret |-> Secret(p)]
  <2>1. taken[p] \in Requests
    BY <1>7 DEF Write, Goto, Progress, Idle
  <2>2. c \in Creds
    BY <2>1, WrittenIsCred
  <2>3. /\ pc[p] = "write"
        /\ pc' = [pc EXCEPT ![p] = IF BringsCAs(taken[p]) THEN "bundle" ELSE "exit"]
        /\ cred' = [cred EXCEPT ![p] = c]
        /\ UNCHANGED <<inbox, taken, ca>>
    BY <1>7 DEF Write, Goto
  <2>4. TypeOK'
    BY <2>2, <2>3 DEF TypeOK, States
  <2>5. Progress'
    <3> SUFFICES ASSUME NEW q \in Pods
                 PROVE  /\ pc'[q] \notin Idle => taken'[q] \in Requests
                        /\ pc'[q] \in Idle => taken'[q] = NoRequest
                        /\ pc'[q] \in {"bundle", "fill", "exit", "ok"} =>
                             cred'[q] = [kind |-> Mode, secret |-> SecretOf(taken'[q])]
                        /\ pc'[q] \in {"exit", "ok"} /\ BringsCAs(taken'[q]) => ca'[q] = SecretOf(taken'[q])
                        /\ cred'[q].kind \in {"none", "partial"} => cred'[q].secret = NoSecret
      BY DEF Progress, Secret
    <3>1. CASE q = p
      <4>1. cred'[p] = [kind |-> Mode, secret |-> SecretOf(taken'[p])]
        BY <2>3 DEF Secret, TypeOK
      <4>2. pc'[p] = "exit" => ~BringsCAs(taken'[p])
        BY <2>3 DEF TypeOK
      <4>3. pc'[p] # "ok" /\ pc'[p] \notin Idle
        BY <2>3 DEF TypeOK, Idle
      <4>4. cred'[p].kind \notin {"none", "partial"}
        BY <4>1 DEF Mode
      <4> QED BY <3>1, <2>1, <2>3, <4>1, <4>2, <4>3, <4>4
    <3>2. CASE q # p
      <4>1. pc'[q] = pc[q] /\ taken'[q] = taken[q] /\ cred'[q] = cred[q] /\ ca'[q] = ca[q]
        BY <3>2, <2>3 DEF TypeOK
      <4> QED BY <4>1 DEF Progress, Secret
    <3> QED BY <3>1, <3>2
  <2> QED BY <2>4, <2>5
<1>8. ASSUME NEW p \in Pods, CreateBundle(p)
      PROVE  IInv'
  BY <1>8 DEF CreateBundle, Goto, TypeOK, Progress, Idle, Secret, States
<1>9. ASSUME NEW p \in Pods, WriteBundle(p)
      PROVE  IInv'
  <2>1. Secret(p) \in Secrets
    BY <1>9 DEF WriteBundle, Goto, Progress, Idle, Secret
  <2> QED BY <1>9, <2>1 DEF WriteBundle, Goto, TypeOK, Progress, Idle, Secret, States
<1>10. ASSUME NEW p \in Pods, Succeed(p)
      PROVE  IInv'
  BY <1>10 DEF Succeed, Goto, TypeOK, Progress, Idle, Secret, States
<1>11. ASSUME NEW p \in Pods, Timeout(p) \/ Fail(p) \/ Kill(p)
       PROVE  IInv'
  BY <1>11, ExitKeeps DEF Timeout, Fail, Kill
<1> QED BY <1>1, <1>2, <1>3, <1>4, <1>5, <1>6, <1>7, <1>8, <1>9, <1>10, <1>11 DEF Next, Work

-----------------------------------------------------------------------------
\* What each statement of main has established holds in every behaviour.
THEOREM Invariance == Spec => []IInv
<1>1. Init => IInv
  BY InitContainerAssumption
  DEF Init, IInv, TypeOK, Progress, Idle, States, Kinds, Creds, NoCred
<1>2. IInv /\ [Next]_initVars => IInv'
  BY StepIInv
<1> QED BY <1>1, <1>2, PTL DEF Spec

\* Type correctness of the init container.
THEOREM TypeCorrect == Spec => []TypeOK
<1>1. IInv => TypeOK
  BY DEF IInv
<1> QED BY <1>1, Invariance, PTL

\* A container that exits 0 leaves complete credentials, and the bundle if
\* there is one, of the push its last run received.
THEOREM ProvisionedHolds == Spec => []Provisioned
<1>1. IInv => Provisioned
  BY InitContainerAssumption DEF IInv, Progress, Provisioned, Idle
<1> QED BY <1>1, Invariance, PTL

\* Within one run of the container the first secret wins: only Receive sets
\* taken, and it needs a run that still waits.
THEOREM FirstSecretWinsHolds == Spec => FirstSecretWins
<1>1. ASSUME IInv, Next
      PROVE  \A q \in Pods :
               taken[q] # NoRequest /\ pc'[q] # "down" => taken'[q] = taken[q]
  <2> SUFFICES ASSUME NEW q \in Pods, taken[q] # NoRequest, pc'[q] # "down"
               PROVE  taken'[q] = taken[q]
    OBVIOUS
  <2> USE DEF IInv, TypeOK
  <2>1. ASSUME NEW p \in Pods, NEW r \in Requests, Receive(p, r)
        PROVE  taken'[q] = taken[q]
    <3>1. pc[q] # "waiting"
      BY <1>1 DEF Progress, Idle
    <3> QED BY <1>1, <2>1, <3>1 DEF Receive, Goto
  <2>2. ASSUME NEW p \in Pods, Exit(p)
        PROVE  taken'[q] = taken[q]
    BY <1>1, <2>2 DEF Exit
  <2> QED
    BY <1>1, <2>1, <2>2
    DEF Next, Work, Start, Deliver, Timeout, Validate, Unwrap, Login, Create, Write,
        CreateBundle, WriteBundle, Succeed, Fail, Kill
<1>2. IInv /\ [Next]_initVars =>
        [\A p \in Pods :
           taken[p] # NoRequest /\ pc'[p] # "down" => taken'[p] = taken[p]]_initVars
  BY <1>1
<1> QED BY <1>2, Invariance, PTL DEF Spec, FirstSecretWins
=============================================================================
