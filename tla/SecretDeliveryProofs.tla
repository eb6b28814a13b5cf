------------------------ MODULE SecretDeliveryProofs ------------------------
(***************************************************************************)
(* Proofs about SecretDelivery, for any number of controllers, pods,       *)
(* addresses, roles and secrets, and faults without a bound.               *)
(*                                                                         *)
(* Of its components a step is a step of PushTable or none, and a step of  *)
(* InitContainer, or the end of a container, or none: what is proved of    *)
(* them is used here.  What the composition adds is Claimed: a run that    *)
(* has got past Vault works on a token that Vault unwrapped for its pod.   *)
(***************************************************************************)
EXTENDS SecretDelivery, TLAPS

PTP == INSTANCE PushTableProofs
ICP == INSTANCE InitContainerProofs
OTP == INSTANCE OneTimeSecretProofs WITH holder <- Holder, vault <- vault

OwnTypes ==
  /\ vault \in [Secrets -> OTS!Entry]
  /\ life \in [Pods -> {"new", "up", "gone"}]
  /\ api \in [Pods -> BOOLEAN]
  /\ event \in [Leaders -> Pods \cup {NoPod}]
  /\ faults \in 0..MaxFaults

ClaimedFor(p) ==
  /\ pc[p] \in {"login", "create", "write"} =>
       vault[IC!Secret(p)].st = "claimed" /\ vault[IC!Secret(p)].by = p
  /\ RetrieveToken /\ pc[p] \in {"create", "write"} =>
       vault[IC!Secret(p)].role = RoleOf[p]

Claimed == UnwrapSecret => \A p \in Pods : ClaimedFor(p)

IInv == PTP!IInv /\ ICP!IInv /\ OwnTypes /\ Claimed

-----------------------------------------------------------------------------
(***************************************************************************)
(* The components.                                                         *)
(***************************************************************************)

LEMMA TableAssumption == PTP!PushTableAssumption
  BY SecretDeliveryAssumption DEF PTP!PushTableAssumption

LEMMA ContainerAssumption == ICP!InitContainerAssumption
  BY SecretDeliveryAssumption DEF ICP!InitContainerAssumption, Requests, SecretOf, BringsCAs

\* A critical section of a leader, seen from either instance.
LEMMA TrackStep ==
  ASSUME NEW st, NEW S, PT!Track(st, S)
  PROVE  PTP!Track(st, S)
  BY DEF PT!Track, PTP!Track, PT!Starts, PTP!Starts, PT!Idle, PTP!Idle, PT!Live, PTP!Live,
         PT!Started, PTP!Started

\* The leaders' steps are steps of PushTable.
LEMMA LeaderStepIsTable ==
  ASSUME NEW l \in Leaders, event \in [Leaders -> Pods \cup {NoPod}],
         ListPods(l) \/ ListFails(l) \/ TrackListed(l) \/ WatchEvent(l)
  PROVE  PTP!Next
<1>1. CASE ListPods(l) \/ ListFails(l)
  <2>1. \E S \in SUBSET Pods : PTP!ListPods(l, S)
    BY <1>1 DEF ListPods, ListFails, PT!ListPods, PTP!ListPods
  <2> QED BY <2>1 DEF PTP!Next, PTP!LeaderStep
<1>2. CASE TrackListed(l)
  <2>1. PTP!TrackListed(l)
    BY <1>2, TrackStep DEF TrackListed, PT!TrackListed, PTP!TrackListed
  <2> QED BY <2>1 DEF PTP!Next, PTP!LeaderStep
<1>3. CASE WatchEvent(l)
  <2>1. event[l] \in Pods /\ PTP!WatchEvent(l, event[l])
    BY <1>3, TrackStep DEF WatchEvent, PT!WatchEvent, PTP!WatchEvent
  <2> QED BY <2>1 DEF PTP!Next, PTP!LeaderStep
<1> QED BY <1>1, <1>2, <1>3

\* The pushes' steps are steps of PushTable.
LEMMA PushStepIsTable ==
  ASSUME NEW g \in Pushers, PushStep(g)
  PROVE  PTP!Next
<1>1. (\E s \in Secrets : GetSecretId(g, s)) => PTP!PusherStep(g)
  BY DEF GetSecretId, PT!GetSecretId, PTP!GetSecretId, PTP!PusherStep
<1>2. GetSecretIdFails(g) => PTP!PusherStep(g)
  BY DEF GetSecretIdFails, PT!GetSecretIdFails, PTP!GetSecretIdFails, PTP!PusherStep
<1>3. (\E q \in Pods : PostArrives(g, q)) \/ PostMisses(g) => PTP!PusherStep(g)
  BY DEF PostArrives, PostMisses, PT!Post, PTP!Post, PTP!PusherStep
<1>4. PostOk(g) \/ Retry(g) \/ GiveUp(g) => PTP!PusherStep(g)
  BY DEF PostOk, PT!PostOk, PTP!PostOk, Retry, PT!Retry, PTP!Retry, GiveUp, PT!GiveUp,
         PTP!GiveUp, PTP!PusherStep
<1>5. Leave(g) => PTP!PusherStep(g)
  BY DEF Leave, PT!Leave, PTP!Leave, PT!NoPush, PTP!NoPush, PTP!PusherStep
<1> QED BY <1>1, <1>2, <1>3, <1>4, <1>5 DEF PushStep, PTP!Next

\* Every other step leaves the table alone.
LEMMA StepIsTable ==
  ASSUME [Next]_deliveryVars, event \in [Leaders -> Pods \cup {NoPod}]
  PROVE  [PTP!Next]_(PTP!tableVars)
<1>1. CASE UNCHANGED deliveryVars
  BY <1>1 DEF deliveryVars, tableVars, PTP!tableVars
<1>2. ASSUME NEW p \in Pods,
             \/ Create(p) \/ Delete(p) \/ StartContainer(p) \/ KillContainer(p)
             \/ Observe(p) \/ ContainerStep(p)
      PROVE  UNCHANGED tableVars
  BY <1>2 DEF Create, Delete, StartContainer, KillContainer, Observe, ContainerStep, Receive,
              Timeout, Validate, Unwrap, UnwrapLost, Login, Finish, Fail
<1>3. ASSUME NEW s \in Secrets, Lapse(s) \/ Forget(s)
      PROVE  UNCHANGED tableVars
  BY <1>3 DEF Lapse, Forget
<1>4. UNCHANGED tableVars => UNCHANGED PTP!tableVars
  BY DEF tableVars, PTP!tableVars
<1>5. ASSUME NEW l \in Leaders, Poll(l) \/ ListFails(l) \/ WatchEvent(l)
      PROVE  PTP!Next
  BY <1>5, LeaderStepIsTable DEF Poll
<1>6. ASSUME NEW l \in Leaders, NEW p \in Pods, WatchReads(l, p)
      PROVE  UNCHANGED tableVars
  BY <1>6 DEF WatchReads
<1> QED BY <1>1, <1>2, <1>3, <1>4, <1>5, <1>6, PushStepIsTable DEF Next

\* A POST carries a request.
LEMMA RequestIsRequest ==
  ASSUME PTP!IInv, NEW g \in Pushers, push[g].pc = "post"
  PROVE  Request(g, push[g].posts + 1) \in Requests
<1>1. push[g].secret \in Secrets /\ push[g].posts < MaxPosts
  BY DEF PTP!IInv, PTP!Serving
<1>2. push[g].posts \in Nat
  BY DEF PTP!IInv, PTP!TypeOK, PTP!Push
<1>3. push[g].posts + 1 \in 1..MaxPosts
  BY <1>1, <1>2, SecretDeliveryAssumption
<1> QED BY <1>1, <1>3 DEF Request, Requests

\* The steps of a container's run are steps of InitContainer.
LEMMA ContainerStepIsContainer ==
  ASSUME NEW p \in Pods, ContainerStep(p), inbox[p] \subseteq Requests
  PROVE  ICP!Next
<1>1. Receive(p) => ICP!Next
  BY DEF Receive, IC!Receive, ICP!Receive, IC!Goto, ICP!Goto, ICP!Next, ICP!Work
<1>2. Timeout(p) \/ UnwrapLost(p) \/ Fail(p) => ICP!Next
  BY DEF Timeout, UnwrapLost, Fail, IC!Timeout, ICP!Timeout, IC!Fail, ICP!Fail, IC!Exit, ICP!Exit,
         ICP!Next, ICP!Work
<1>3. Validate(p) \/ Unwrap(p) \/ Login(p) => ICP!Next
  BY DEF Validate, IC!Validate, ICP!Validate, Unwrap, IC!Unwrap, ICP!Unwrap, Login, IC!Login,
         ICP!Login, IC!Goto, ICP!Goto, ICP!Next, ICP!Work
<1>4. Finish(p) => ICP!Next
  BY DEF Finish, IC!Create, ICP!Create, IC!Write, ICP!Write, IC!CreateBundle, ICP!CreateBundle,
         IC!WriteBundle, ICP!WriteBundle, IC!Succeed, ICP!Succeed, IC!Goto, ICP!Goto, IC!Partial, ICP!Partial, IC!Mode, ICP!Mode,
         IC!Secret, ICP!Secret, ICP!Next, ICP!Work
<1> QED BY <1>1, <1>2, <1>3, <1>4 DEF ContainerStep

\* A step keeps what is proved of InitContainer, the end of a pod included.
LEMMA StepKeepsContainers ==
  ASSUME PTP!IInv, ICP!IInv, [Next]_deliveryVars
  PROVE  ICP!IInv'
<1>1. [ICP!Next]_(ICP!initVars) => ICP!IInv'
  BY ContainerAssumption, ICP!StepIInv
<1>2. UNCHANGED initVars => UNCHANGED ICP!initVars
  BY DEF initVars, ICP!initVars
<1>3. UNCHANGED deliveryVars => UNCHANGED initVars
  BY DEF deliveryVars, initVars
<1>4. ASSUME NEW p \in Pods, Create(p) \/ Observe(p)
      PROVE  UNCHANGED initVars
  BY <1>4 DEF Create, Observe
<1>5. ASSUME NEW p \in Pods, Delete(p)
      PROVE  ICP!IInv'
  <2>1. ICP!Exit(p)
    BY <1>5 DEF Delete, ICP!Exit
  <2> QED BY <2>1, ContainerAssumption, ICP!ExitKeeps
<1>6. ASSUME NEW p \in Pods, StartContainer(p) \/ KillContainer(p)
      PROVE  ICP!Next
  BY <1>6 DEF StartContainer, KillContainer, IC!Start, ICP!Start, IC!Kill, ICP!Kill, IC!Goto,
              ICP!Goto, IC!Exit, ICP!Exit, IC!Running, ICP!Running, ICP!Next
<1>7. ASSUME NEW p \in Pods, ContainerStep(p)
      PROVE  ICP!Next
  BY <1>7, ContainerStepIsContainer DEF ICP!IInv, ICP!TypeOK
<1>8. ASSUME NEW l \in Leaders,
             \/ Poll(l) \/ ListFails(l) \/ WatchEvent(l)
             \/ \E p \in Pods : WatchReads(l, p)
      PROVE  UNCHANGED initVars
  BY <1>8 DEF Poll, ListPods, TrackListed, ListFails, WatchEvent, WatchReads
<1>9. ASSUME NEW g \in Pushers, NEW q \in Pods, PostArrives(g, q)
      PROVE  ICP!Next
  <2>1. Request(g, push[g].posts + 1) \in Requests
    BY <1>9, RequestIsRequest DEF PostArrives, PT!Post
  <2>2. ICP!Deliver(q, Request(g, push[g].posts + 1))
    BY <1>9 DEF PostArrives, IC!Deliver, ICP!Deliver, IC!Running, ICP!Running
  <2> QED BY <2>1, <2>2 DEF ICP!Next
<1>10. ASSUME NEW g \in Pushers,
              \/ \E s \in Secrets : GetSecretId(g, s)
              \/ GetSecretIdFails(g) \/ PostMisses(g) \/ PostOk(g) \/ Retry(g) \/ GiveUp(g)
              \/ Leave(g)
       PROVE  UNCHANGED initVars
  BY <1>10 DEF GetSecretId, GetSecretIdFails, PostMisses, PostOk, Retry, GiveUp, Leave
<1>11. ASSUME NEW g \in Pushers, PushStep(g)
       PROVE  ICP!Next \/ UNCHANGED initVars
  BY <1>9, <1>10, <1>11 DEF PushStep
<1>12. ASSUME NEW s \in Secrets, Lapse(s) \/ Forget(s)
       PROVE  UNCHANGED initVars
  BY <1>12 DEF Lapse, Forget
<1> QED
  BY <1>1, <1>2, <1>3, <1>4, <1>5, <1>6, <1>7, <1>8, <1>11, <1>12 DEF Next

-----------------------------------------------------------------------------
(***************************************************************************)
(* Vault.                                                                  *)
(***************************************************************************)

Issues(s, role) ==
  /\ vault[s].st = "free"
  /\ vault' = [vault EXCEPT ![s] = [st |-> "wrapped", role |-> role, by |-> NoPod]]

Claims(s, p) ==
  /\ vault[s].st = "wrapped"
  /\ vault' = [vault EXCEPT ![s].st = "claimed", ![s].by = p]

Lapses(s) ==
  /\ vault[s].st = "wrapped"
  /\ vault' = [vault EXCEPT ![s].st = "lapsed"]

\* Every way Vault changes, and what else that step leaves alone.
LEMMA VaultSteps ==
  ASSUME PTP!IInv, ICP!IInv, [Next]_deliveryVars
  PROVE  \/ vault' = vault
         \/ \E s \in Secrets :
              \/ \E role \in Roles : Issues(s, role) /\ UNCHANGED initVars
              \/ \E p \in Pods : /\ Claims(s, p)
                                 /\ cred' = cred
                                 /\ s = IC!Secret(p)
                                 /\ Unwrap(p) \/ UnwrapLost(p)
              \/ Lapses(s) /\ UNCHANGED initVars
              \/ Forget(s)
<1>1. CASE UNCHANGED deliveryVars
  BY <1>1 DEF deliveryVars
<1>2. ASSUME NEW p \in Pods,
             \/ Create(p) \/ Delete(p) \/ StartContainer(p) \/ KillContainer(p) \/ Observe(p)
             \/ Receive(p) \/ Timeout(p) \/ Validate(p) \/ Login(p) \/ Finish(p) \/ Fail(p)
      PROVE  vault' = vault
  BY <1>2 DEF Create, Delete, StartContainer, KillContainer, Observe, Receive, Timeout, Validate,
              Login, Finish, Fail
<1>3. ASSUME NEW p \in Pods, Unwrap(p) \/ UnwrapLost(p)
      PROVE  \E s \in Secrets : Claims(s, p) /\ cred' = cred /\ s = IC!Secret(p)
  <2>1. pc[p] = "unwrap"
    BY <1>3 DEF Unwrap, UnwrapLost, IC!Unwrap, IC!Goto
  <2>2. IC!Secret(p) \in Secrets
    BY <2>1 DEF ICP!IInv, ICP!Progress, ICP!Idle, IC!Secret, SecretOf, Requests
  <2>3. Claims(IC!Secret(p), p) /\ cred' = cred
    BY <1>3 DEF Unwrap, UnwrapLost, Entry, IC!Unwrap, IC!Fail, IC!Exit, Claims
  <2> QED BY <2>2, <2>3
<1>4. ASSUME NEW l \in Leaders,
             \/ Poll(l) \/ ListFails(l) \/ WatchEvent(l)
             \/ \E p \in Pods : WatchReads(l, p)
      PROVE  vault' = vault
  BY <1>4 DEF Poll, ListPods, TrackListed, ListFails, WatchEvent, WatchReads
<1>5. ASSUME NEW g \in Pushers,
             \/ \E q \in Pods : PostArrives(g, q)
             \/ GetSecretIdFails(g) \/ PostMisses(g) \/ PostOk(g) \/ Retry(g) \/ GiveUp(g)
             \/ Leave(g)
      PROVE  vault' = vault
  BY <1>5 DEF PostArrives, GetSecretIdFails, PostMisses, PostOk, Retry, GiveUp, Leave
<1>6. ASSUME NEW g \in Pushers, NEW s \in Secrets, GetSecretId(g, s)
      PROVE  \E role \in Roles : Issues(s, role) /\ UNCHANGED initVars
  <2>1. push[g].pod \in Pods
    BY <1>6 DEF GetSecretId, PT!GetSecretId, PTP!IInv, PTP!Serving, PTP!Live
  <2>2. RoleOf[push[g].pod] \in Roles
    BY <2>1, SecretDeliveryAssumption
  <2> QED BY <1>6, <2>2 DEF GetSecretId, Issues
<1>7. ASSUME NEW s \in Secrets, Lapse(s)
      PROVE  Lapses(s) /\ UNCHANGED initVars
  BY <1>7 DEF Lapse, Lapses
<1> QED
  BY <1>1, <1>2, <1>3, <1>4, <1>5, <1>6, <1>7 DEF Next, ContainerStep, PushStep

\* Vault's entries stay entries.
LEMMA StepKeepsVault ==
  ASSUME PTP!IInv, ICP!IInv, vault \in [Secrets -> OTS!Entry], [Next]_deliveryVars
  PROVE  vault' \in [Secrets -> OTS!Entry]
<1> USE DEF OTS!Entry
<1>1. ASSUME NEW s \in Secrets, NEW role \in Roles, Issues(s, role)
      PROVE  vault' \in [Secrets -> OTS!Entry]
  <2>1. [st |-> "wrapped", role |-> role, by |-> NoPod] \in OTS!Entry
    OBVIOUS
  <2> QED BY <1>1, <2>1 DEF Issues
<1>2. ASSUME NEW s \in Secrets, NEW p \in Pods, Claims(s, p)
      PROVE  vault' \in [Secrets -> OTS!Entry]
  <2>1. [vault[s] EXCEPT !.st = "claimed", !.by = p] \in OTS!Entry
    OBVIOUS
  <2>2. vault' = [vault EXCEPT ![s] = [vault[s] EXCEPT !.st = "claimed", !.by = p]]
    BY <1>2 DEF Claims
  <2> QED BY <2>1, <2>2
<1>3. ASSUME NEW s \in Secrets, Lapses(s)
      PROVE  vault' \in [Secrets -> OTS!Entry]
  <2>1. [vault[s] EXCEPT !.st = "lapsed"] \in OTS!Entry
    OBVIOUS
  <2>2. vault' = [vault EXCEPT ![s] = [vault[s] EXCEPT !.st = "lapsed"]]
    BY <1>3 DEF Lapses
  <2> QED BY <2>1, <2>2
<1>4. ASSUME NEW s \in Secrets, Forget(s)
      PROVE  vault' \in [Secrets -> OTS!Entry]
  <2>1. Free \in OTS!Entry
    BY DEF Free
  <2> QED BY <1>4, <2>1 DEF Forget
<1> HIDE DEF OTS!Entry
<1> QED BY <1>1, <1>2, <1>3, <1>4, VaultSteps

-----------------------------------------------------------------------------
(***************************************************************************)
(* The invariant.                                                          *)
(***************************************************************************)

\* What is left of the faults.
LEMMA FaultKeeps == faults \in 0..MaxFaults /\ Fault => faults' \in 0..MaxFaults
  BY SecretDeliveryAssumption DEF Fault

\* The composition's own variables keep their types.
LEMMA StepKeepsTypes ==
  ASSUME PTP!IInv, ICP!IInv, OwnTypes, [Next]_deliveryVars
  PROVE  OwnTypes'
<1>1. vault' \in [Secrets -> OTS!Entry]
  BY StepKeepsVault DEF OwnTypes
<1>2. faults' \in 0..MaxFaults
  <2>1. Fault \/ UNCHANGED faults
    <3>1. ASSUME NEW p \in Pods,
                 Create(p) \/ Delete(p) \/ StartContainer(p) \/ KillContainer(p) \/ Observe(p)
          PROVE  Fault \/ UNCHANGED faults
      BY <3>1 DEF Create, Delete, StartContainer, KillContainer, Observe
    <3>2. ASSUME NEW p \in Pods, ContainerStep(p)
          PROVE  Fault \/ UNCHANGED faults
      BY <3>2 DEF ContainerStep, Receive, Timeout, Validate, Unwrap, UnwrapLost, Login, Finish, Fail
    <3>3. ASSUME NEW l \in Leaders,
                 \/ Poll(l) \/ ListFails(l) \/ WatchEvent(l)
                 \/ \E p \in Pods : WatchReads(l, p)
          PROVE  Fault \/ UNCHANGED faults
      BY <3>3 DEF Poll, ListPods, TrackListed, ListFails, WatchEvent, WatchReads
    <3>4. ASSUME NEW g \in Pushers, PushStep(g)
          PROVE  Fault \/ UNCHANGED faults
      BY <3>4 DEF PushStep, GetSecretId, GetSecretIdFails, PostArrives, PostMisses, PostOk, Retry,
                  GiveUp, Leave
    <3>5. ASSUME NEW s \in Secrets, Lapse(s) \/ Forget(s)
          PROVE  Fault \/ UNCHANGED faults
      BY <3>5 DEF Lapse, Forget
    <3>6. CASE UNCHANGED deliveryVars
      BY <3>6 DEF deliveryVars
    <3> QED BY <3>1, <3>2, <3>3, <3>4, <3>5, <3>6 DEF Next
  <2> QED BY <2>1, FaultKeeps DEF OwnTypes
<1>3. /\ life' \in [Pods -> {"new", "up", "gone"}]
      /\ api' \in [Pods -> BOOLEAN]
      /\ event' \in [Leaders -> Pods \cup {NoPod}]
  <2> USE DEF OwnTypes
  <2>1. ASSUME NEW p \in Pods,
               Create(p) \/ Delete(p) \/ StartContainer(p) \/ KillContainer(p) \/ Observe(p)
        PROVE  /\ life' \in [Pods -> {"new", "up", "gone"}]
               /\ api' \in [Pods -> BOOLEAN]
               /\ event' \in [Leaders -> Pods \cup {NoPod}]
    BY <2>1 DEF Create, Delete, StartContainer, KillContainer, Observe
  <2>2. ASSUME NEW p \in Pods, ContainerStep(p)
        PROVE  UNCHANGED <<life, api, event>>
    BY <2>2 DEF ContainerStep, Receive, Timeout, Validate, Unwrap, UnwrapLost, Login, Finish, Fail
  <2>3. ASSUME NEW l \in Leaders,
               \/ Poll(l) \/ ListFails(l) \/ WatchEvent(l)
               \/ \E p \in Pods : WatchReads(l, p)
        PROVE  UNCHANGED <<life, api>> /\ event' \in [Leaders -> Pods \cup {NoPod}]
    BY <2>3 DEF Poll, ListPods, TrackListed, ListFails, WatchEvent, WatchReads
  <2>4. ASSUME NEW g \in Pushers, PushStep(g)
        PROVE  UNCHANGED <<life, api, event>>
    BY <2>4 DEF PushStep, GetSecretId, GetSecretIdFails, PostArrives, PostMisses, PostOk, Retry,
                GiveUp, Leave
  <2>5. ASSUME NEW s \in Secrets, Lapse(s) \/ Forget(s)
        PROVE  UNCHANGED <<life, api, event>>
    BY <2>5 DEF Lapse, Forget
  <2>6. CASE UNCHANGED deliveryVars
    BY <2>6 DEF deliveryVars
  <2> QED BY <2>1, <2>2, <2>3, <2>4, <2>5, <2>6 DEF Next
<1> QED BY <1>1, <1>2, <1>3 DEF OwnTypes

\* How a run gets or stays past Vault.
LEMMA RunSteps ==
  ASSUME PTP!IInv, ICP!IInv, UnwrapSecret, [Next]_deliveryVars, NEW p \in Pods,
         pc'[p] \in {"login", "create", "write"}
  PROVE  \/ pc'[p] = pc[p] /\ taken'[p] = taken[p]
         \/ Unwrap(p)
         \/ Login(p)
         \/ IC!Create(p) /\ vault' = vault
<1> USE DEF ICP!IInv, ICP!TypeOK
<1>1. CASE UNCHANGED initVars
  BY <1>1 DEF initVars
<1>2. CASE UNCHANGED deliveryVars
  BY <1>1, <1>2 DEF deliveryVars, initVars
<1>3. ASSUME NEW q \in Pods, Create(q) \/ Observe(q)
      PROVE  UNCHANGED initVars
  BY <1>3 DEF Create, Observe
<1>4. ASSUME NEW q \in Pods,
             Delete(q) \/ StartContainer(q) \/ KillContainer(q) \/ Timeout(q) \/ Fail(q)
             \/ UnwrapLost(q) \/ Receive(q) \/ Validate(q)
      PROVE  q # p /\ pc'[p] = pc[p] /\ taken'[p] = taken[p]
  BY <1>4 DEF Delete, StartContainer, IC!Start, KillContainer, IC!Kill, Timeout, IC!Timeout, Fail,
              IC!Fail, UnwrapLost, IC!Exit, Receive, IC!Receive, Validate, IC!Validate, IC!Goto
<1>5. ASSUME NEW q \in Pods, Unwrap(q) \/ Login(q) \/ IC!Create(q), q # p
      PROVE  pc'[p] = pc[p] /\ taken'[p] = taken[p]
  BY <1>5 DEF Unwrap, IC!Unwrap, Login, IC!Login, IC!Create, IC!Goto
<1>6. ASSUME NEW q \in Pods, IC!Write(q) \/ IC!CreateBundle(q) \/ IC!WriteBundle(q) \/ IC!Succeed(q)
      PROVE  pc'[p] = pc[p] /\ taken'[p] = taken[p]
  BY <1>6 DEF IC!Write, IC!CreateBundle, IC!WriteBundle, IC!Succeed, IC!Goto
<1>7. ASSUME NEW l \in Leaders,
             \/ Poll(l) \/ ListFails(l) \/ WatchEvent(l)
             \/ \E q \in Pods : WatchReads(l, q)
      PROVE  UNCHANGED initVars
  BY <1>7 DEF Poll, ListPods, TrackListed, ListFails, WatchEvent, WatchReads
<1>8. ASSUME NEW g \in Pushers, PushStep(g)
      PROVE  pc'[p] = pc[p] /\ taken'[p] = taken[p]
  <2>1. UNCHANGED <<pc, taken>>
    BY <1>8 DEF PushStep, GetSecretId, GetSecretIdFails, PostArrives, IC!Deliver, PostMisses,
                PostOk, Retry, GiveUp, Leave, initVars
  <2> QED BY <2>1
<1>9. ASSUME NEW s \in Secrets, Lapse(s) \/ Forget(s)
      PROVE  UNCHANGED initVars
  BY <1>9 DEF Lapse, Forget
<1> QED
  BY <1>1, <1>2, <1>3, <1>4, <1>5, <1>6, <1>7, <1>8, <1>9 DEF Next, ContainerStep, Finish

\* A claimed token that a run works on is not touched.
LEMMA ClaimedStays ==
  ASSUME IInv, UnwrapSecret, [Next]_deliveryVars, NEW p \in Pods,
         pc[p] \in {"login", "create", "write"}
  PROVE  vault'[IC!Secret(p)] = vault[IC!Secret(p)]
<1>1. /\ vault[IC!Secret(p)].st = "claimed"
      /\ taken[p] \in Requests
      /\ taken[p] # NoRequest
      /\ IC!Secret(p) \in Secrets
      /\ IC!Secret(p) = taken[p].secret
  <2>1. taken[p] \in Requests
    BY DEF IInv, ICP!IInv, ICP!Progress, ICP!Idle
  <2>2. taken[p] # NoRequest
    BY <2>1, SecretDeliveryAssumption
  <2>3. IC!Secret(p) = taken[p].secret /\ IC!Secret(p) \in Secrets
    BY <2>1 DEF IC!Secret, SecretOf, Requests
  <2>4. vault[IC!Secret(p)].st = "claimed"
    BY DEF IInv, Claimed, ClaimedFor
  <2> QED BY <2>1, <2>2, <2>3, <2>4
<1>2. vault \in [Secrets -> OTS!Entry]
  BY DEF IInv, OwnTypes
<1>3. ASSUME NEW s \in Secrets, NEW role \in Roles, Issues(s, role)
      PROVE  vault'[IC!Secret(p)] = vault[IC!Secret(p)]
  BY <1>1, <1>2, <1>3 DEF Issues
<1>4. ASSUME NEW s \in Secrets, NEW q \in Pods, Claims(s, q)
      PROVE  vault'[IC!Secret(p)] = vault[IC!Secret(p)]
  <2>1. s # IC!Secret(p)
    BY <1>1, <1>4 DEF Claims
  <2>2. vault' = [vault EXCEPT ![s] = vault'[s]]
    BY <1>2, <1>4 DEF Claims
  <2> QED BY <1>1, <1>2, <2>1, <2>2
<1>5. ASSUME NEW s \in Secrets, Lapses(s)
      PROVE  vault'[IC!Secret(p)] = vault[IC!Secret(p)]
  <2>1. s # IC!Secret(p)
    BY <1>1, <1>5 DEF Lapses
  <2>2. vault' = [vault EXCEPT ![s] = vault'[s]]
    BY <1>2, <1>5 DEF Lapses
  <2> QED BY <1>1, <1>2, <2>1, <2>2
<1>6. ASSUME NEW s \in Secrets, Forget(s)
      PROVE  vault'[IC!Secret(p)] = vault[IC!Secret(p)]
  BY <1>1, <1>2, <1>6 DEF Forget
<1> QED BY <1>3, <1>4, <1>5, <1>6, VaultSteps DEF IInv

\* What a run works on stays a token that Vault unwrapped for its pod.
LEMMA StepKeepsClaimed ==
  ASSUME IInv, [Next]_deliveryVars
  PROVE  Claimed'
<1> SUFFICES ASSUME UnwrapSecret, NEW p \in Pods, pc'[p] \in {"login", "create", "write"}
             PROVE  ClaimedFor(p)'
  BY DEF Claimed, ClaimedFor
<1> USE DEF IInv
<1>1. CASE pc'[p] = pc[p] /\ taken'[p] = taken[p]
  <2>1. vault'[IC!Secret(p)] = vault[IC!Secret(p)] /\ IC!Secret(p)' = IC!Secret(p)
    BY <1>1, ClaimedStays DEF IC!Secret
  <2> QED BY <1>1, <2>1 DEF Claimed, ClaimedFor
<1>2. CASE Unwrap(p)
  <2>1. pc[p] = "unwrap" /\ pc'[p] = (IF RetrieveToken THEN "login" ELSE "create")
    BY <1>2 DEF Unwrap, IC!Unwrap, IC!Goto, ICP!IInv, ICP!TypeOK
  <2>2. IC!Secret(p) \in Secrets /\ IC!Secret(p)' = IC!Secret(p)
    BY <1>2, <2>1 DEF Unwrap, IC!Unwrap, ICP!IInv, ICP!Progress, ICP!Idle, IC!Secret, SecretOf, Requests
  <2>3. vault'[IC!Secret(p)].st = "claimed" /\ vault'[IC!Secret(p)].by = p
    BY <1>2, <2>2 DEF Unwrap, OwnTypes, OTS!Entry
  <2> QED BY <2>1, <2>2, <2>3 DEF ClaimedFor
<1>3. CASE Login(p)
  <2>1. pc[p] = "login" /\ vault' = vault /\ IC!Secret(p)' = IC!Secret(p)
    BY <1>3 DEF Login, IC!Login, IC!Goto, IC!Secret
  <2>2. vault[IC!Secret(p)].role = RoleOf[p]
    BY <1>3 DEF Login, Entry
  <2> QED BY <2>1, <2>2 DEF Claimed, ClaimedFor
<1>4. CASE IC!Create(p) /\ vault' = vault
  <2>1. pc[p] = "create" /\ vault' = vault /\ IC!Secret(p)' = IC!Secret(p)
    BY <1>4 DEF IC!Create, IC!Goto, IC!Secret
  <2> QED BY <2>1 DEF Claimed, ClaimedFor
<1> QED BY <1>1, <1>2, <1>3, <1>4, RunSteps

LEMMA StepIInv == IInv /\ [Next]_deliveryVars => IInv'
<1> SUFFICES ASSUME IInv, [Next]_deliveryVars PROVE IInv'
  OBVIOUS
<1>1. PTP!IInv'
  BY TableAssumption, StepIsTable, PTP!StepIInv DEF IInv, OwnTypes
<1> QED BY <1>1, StepKeepsContainers, StepKeepsTypes, StepKeepsClaimed DEF IInv

LEMMA InitIInv == Init => IInv
<1> SUFFICES ASSUME Init PROVE IInv
  OBVIOUS
<1>1. PTP!IInv
  BY TableAssumption, PTP!InitIInv DEF Init, PT!Init, PTP!Init, PT!NoPush, PTP!NoPush
<1>2. ICP!IInv
  BY ContainerAssumption
  DEF Init, IC!Init, ICP!IInv, ICP!TypeOK, ICP!Progress, ICP!Idle, ICP!States, ICP!Kinds,
      ICP!Creds, IC!NoCred
<1>3. OwnTypes
  BY SecretDeliveryAssumption DEF Init, OwnTypes, Free, OTS!Entry
<1>4. Claimed
  BY DEF Init, IC!Init, Claimed, ClaimedFor
<1> QED BY <1>1, <1>2, <1>3, <1>4 DEF IInv

-----------------------------------------------------------------------------
\* The invariant holds in every behaviour: the table and the pushes stay as
\* PushTable has them, the containers as InitContainer has them, and a run
\* that has got past Vault works on a token unwrapped for its own pod.
THEOREM Invariance == Spec => []IInv
<1> QED BY InitIInv, StepIInv, PTL DEF Spec

\* Type correctness of the composition.
THEOREM TypeCorrect == Spec => []TypeOK
<1>1. IInv => TypeOK
  BY DEF IInv, OwnTypes, TypeOK, OTS!Entry, PTP!IInv, PTP!TypeOK, PT!TypeOK, PTP!Push, PT!Push,
         ICP!IInv, ICP!TypeOK, IC!TypeOK, ICP!States, IC!States, ICP!Creds, IC!Creds, ICP!Kinds,
         IC!Kinds
<1> QED BY <1>1, Invariance, PTL

-----------------------------------------------------------------------------
(***************************************************************************)
(* SecretDelivery implements OneTimeSecret, in the two modes in which the  *)
(* container unwraps.                                                      *)
(***************************************************************************)

\* How the credentials of a pod change: Write puts those of the claimed
\* token into the file, Create empties it.
LEMMA HolderSteps ==
  ASSUME IInv, [Next]_deliveryVars
  PROVE  \/ cred' = cred
         \/ vault' = vault /\ \E p \in Pods : IC!Create(p) \/ IC!Write(p)
<1>1. CASE UNCHANGED deliveryVars
  BY <1>1 DEF deliveryVars, initVars
<1>2. ASSUME NEW p \in Pods,
             \/ Create(p) \/ Delete(p) \/ StartContainer(p) \/ KillContainer(p) \/ Observe(p)
             \/ Receive(p) \/ Timeout(p) \/ Validate(p) \/ Unwrap(p) \/ UnwrapLost(p) \/ Login(p)
             \/ Fail(p)
      PROVE  cred' = cred
  BY <1>2 DEF Create, Delete, StartContainer, IC!Start, KillContainer, IC!Kill, Observe, Receive,
              IC!Receive, Timeout, IC!Timeout, Validate, IC!Validate, Unwrap, IC!Unwrap,
              UnwrapLost, Login, IC!Login, Fail, IC!Fail, IC!Exit, initVars
<1>3. ASSUME NEW p \in Pods, Finish(p)
      PROVE  \/ cred' = cred
             \/ vault' = vault /\ (IC!Create(p) \/ IC!Write(p))
  BY <1>3 DEF Finish, IC!CreateBundle, IC!WriteBundle, IC!Succeed
<1>4. ASSUME NEW l \in Leaders,
             \/ Poll(l) \/ ListFails(l) \/ WatchEvent(l)
             \/ \E p \in Pods : WatchReads(l, p)
      PROVE  cred' = cred
  BY <1>4 DEF Poll, ListPods, TrackListed, ListFails, WatchEvent, WatchReads, initVars
<1>5. ASSUME NEW g \in Pushers, PushStep(g)
      PROVE  cred' = cred
  BY <1>5 DEF PushStep, GetSecretId, GetSecretIdFails, PostArrives, IC!Deliver, PostMisses, PostOk,
              Retry, GiveUp, Leave, initVars
<1>6. ASSUME NEW s \in Secrets, Lapse(s) \/ Forget(s)
      PROVE  cred' = cred
  BY <1>6 DEF Lapse, Forget, initVars
<1> QED BY <1>1, <1>2, <1>3, <1>4, <1>5, <1>6 DEF Next, ContainerStep

\* A step of Vault is one of OneTimeSecret: the credentials stay, and a name
\* is used again only when nobody has it.
LEMMA VaultStepsImplement ==
  ASSUME IInv, [Next]_deliveryVars, vault' # vault
  PROVE  OTS!Next
<1>1. Holder' = Holder
  <2>1. cred' = cred
    BY HolderSteps
  <2> QED BY <2>1 DEF Holder
<1>2. ASSUME NEW s \in Secrets, NEW role \in Roles, Issues(s, role)
      PROVE  OTS!Next
  <2>1. OTS!Issue(s, role)
    BY <1>1, <1>2 DEF Issues, OTS!Issue
  <2> QED BY <2>1 DEF OTS!Next
<1>3. ASSUME NEW s \in Secrets, NEW p \in Pods, Claims(s, p)
      PROVE  OTS!Next
  <2>1. OTS!Claim(s, p)
    BY <1>1, <1>3 DEF Claims, OTS!Claim
  <2> QED BY <2>1 DEF OTS!Next
<1>4. ASSUME NEW s \in Secrets, Lapses(s)
      PROVE  OTS!Next
  <2>1. OTS!Lapse(s)
    BY <1>1, <1>4 DEF Lapses, OTS!Lapse
  <2> QED BY <2>1 DEF OTS!Next
<1>5. ASSUME NEW s \in Secrets, Forget(s)
      PROVE  OTS!Next
  <2>1. \A p \in Pods : Holder[p] # s
    BY <1>5, SecretDeliveryAssumption DEF Forget, Holder
  <2>2. OTS!Forget(s)
    BY <1>1, <1>5, <2>1 DEF Forget, Free, OTS!Forget, OTS!Free
  <2> QED BY <2>2 DEF OTS!Next
<1> QED BY <1>2, <1>3, <1>4, <1>5, VaultSteps DEF IInv

\* A step of the credentials file is one of OneTimeSecret or none.
LEMMA FileStepsImplement ==
  ASSUME IInv, UnwrapSecret, [Next]_deliveryVars, vault' = vault
  PROVE  [OTS!Next]_(OTS!onceVars)
<1>1. CASE cred' = cred
  BY <1>1 DEF Holder, OTS!onceVars
<1> USE DEF IInv, ICP!IInv, ICP!TypeOK
<1>2. ASSUME NEW p \in Pods, IC!Create(p)
      PROVE  [OTS!Next]_(OTS!onceVars)
  <2>1. Holder' = [Holder EXCEPT ![p] = NoSecret]
    BY <1>2 DEF IC!Create, IC!Partial, Holder
  <2>2. CASE Holder[p] = NoSecret
    <3>1. Holder' = Holder
      BY <2>1, <2>2 DEF Holder
    <3> QED BY <3>1 DEF OTS!onceVars
  <2>3. CASE Holder[p] # NoSecret
    <3>1. OTS!Clear(p)
      BY <2>1, <2>3 DEF OTS!Clear
    <3> QED BY <3>1 DEF OTS!Next
  <2> QED BY <2>2, <2>3
<1>3. ASSUME NEW p \in Pods, IC!Write(p)
      PROVE  [OTS!Next]_(OTS!onceVars)
  <2>1. pc[p] = "write"
    BY <1>3 DEF IC!Write, IC!Goto
  <2>2. /\ vault[IC!Secret(p)].st = "claimed"
        /\ vault[IC!Secret(p)].by = p
        /\ RetrieveToken => vault[IC!Secret(p)].role = RoleOf[p]
    BY <2>1 DEF Claimed, ClaimedFor
  <2>3. IC!Secret(p) \in Secrets
    BY <2>1 DEF ICP!Progress, ICP!Idle, IC!Secret, SecretOf, Requests
  <2>4. IC!Mode \notin {"none", "partial"}
    BY DEF IC!Mode
  <2>5. Holder' = [Holder EXCEPT ![p] = IC!Secret(p)]
    BY <1>3, <2>4 DEF IC!Write, Holder
  <2>6. OTS!Provision(p, IC!Secret(p))
    BY <2>2, <2>5 DEF OTS!Provision
  <2> QED BY <2>3, <2>6 DEF OTS!Next
<1> QED BY <1>1, <1>2, <1>3, HolderSteps

\* With retries, restarts, stale lists, lost and late answers, several
\* controllers and addresses that are used again, every step is one of
\* OneTimeSecret or changes nothing of it.
THEOREM ImplementsOneTimeSecretHolds ==
  ASSUME UnwrapSecret
  PROVE  Spec => ImplementsOneTimeSecret
<1>1. Init => OTS!Init
  BY DEF Init, IC!Init, IC!NoCred, Holder, Free, OTS!Init, OTS!Free
<1>2. IInv /\ [Next]_deliveryVars => [OTS!Next]_(OTS!onceVars)
  BY VaultStepsImplement, FileStepsImplement
<1> QED BY <1>1, <1>2, Invariance, PTL DEF Spec, ImplementsOneTimeSecret, OTS!Spec

\* So what is proved of OneTimeSecret holds here.
LEMMA OnceInvariance ==
  ASSUME UnwrapSecret
  PROVE  Spec => []OTP!IInv
<1>1. Init => OTP!IInv
  BY DEF Init, IC!Init, IC!NoCred, Holder, Free, OTP!IInv, OTP!TypeOK, OTP!Entry, OTP!HeldIsClaimed
<1>2. [OTS!Next]_(OTS!onceVars) => [OTP!Next]_(OTP!onceVars)
  BY DEF OTS!Next, OTP!Next, OTS!onceVars, OTP!onceVars, OTS!Issue, OTP!Issue, OTS!Claim, OTP!Claim,
         OTS!Lapse, OTP!Lapse, OTS!Provision, OTP!Provision, OTS!Clear, OTP!Clear, OTS!Forget,
         OTP!Forget, OTS!Free, OTP!Free
<1>3. OTP!IInv /\ [OTP!Next]_(OTP!onceVars) => OTP!IInv'
  BY OTP!StepIInv
<1>4. IInv /\ OTP!IInv /\ [Next]_deliveryVars => OTP!IInv'
  BY <1>2, <1>3, VaultStepsImplement, FileStepsImplement
<1> QED BY <1>1, <1>4, Invariance, PTL DEF Spec

\* best-practices.md: each pod gets a secret_id of its own, in every mode in
\* which the container unwraps.
THEOREM NoSharingHolds ==
  ASSUME UnwrapSecret
  PROVE  Spec => []NoSharing
<1>1. OTP!IInv => NoSharing
  BY DEF OTP!IInv, OTP!TypeOK, OTP!HeldIsClaimed, NoSharing, OTS!NoSharing
<1> QED BY <1>1, OnceInvariance, PTL

\* A pod that has a token has one of its own role.
THEOREM OwnRoleHolds == Spec => []OwnRole
<1>1. CASE UnwrapSecret
  <2>1. OTP!IInv => OwnRole
    BY DEF OTP!IInv, OTP!HeldIsClaimed, OwnRole, OTS!OwnRole
  <2> QED BY <1>1, <2>1, OnceInvariance, PTL
<1>2. CASE ~UnwrapSecret
  <2>1. OwnRole
    BY <1>2, SecretDeliveryAssumption DEF OwnRole, OTS!OwnRole
  <2> QED BY <2>1, PTL
<1> QED BY <1>1, <1>2

-----------------------------------------------------------------------------
(***************************************************************************)
(* Where a token can be.  A token is known at a pod when it has reached it *)
(* or when a push for that pod holds it.  Every pod at which a token is    *)
(* known has the address of the pod it was issued for: a POST carries it   *)
(* from a pod to another one only if the two have one address.             *)
(***************************************************************************)

Known(s, p) ==
  \/ Reached(s, p)
  \/ \E g \in Pushers : push[g].secret = s /\ push[g].pod = p

Addressed ==
  \A s \in Secrets, p \in Pods :
    Known(s, p) =>
      /\ vault[s].st # "free"
      /\ \A q \in Pods : Known(s, q) => IpOf[q] = IpOf[p]
      /\ \E q \in Pods : IpOf[q] = IpOf[p] /\ RoleOf[q] = vault[s].role

\* The critical section of a leader gives no push a secret.
LEMMA TrackGivesNoSecret ==
  ASSUME NEW st, NEW S, PT!Track(st, S), NEW g \in Pushers, push'[g].secret \in Secrets
  PROVE  push'[g] = push[g]
<1>1. PICK f \in PT!Starts(st, S) :
        push' = [h \in Pushers |->
                   IF h \in PT!Idle(st) /\ f[h] # NoPod THEN PT!Started(f[h]) ELSE push[h]]
  BY DEF PT!Track
<1>2. PT!Started(f[g]).secret \notin Secrets
  BY SecretDeliveryAssumption DEF PT!Started
<1> QED BY <1>1, <1>2

\* A push has its secret from Vault, and keeps it with its pod.
LEMMA PushSecretSteps ==
  ASSUME IInv, [Next]_deliveryVars, NEW g \in Pushers, push'[g].secret \in Secrets
  PROVE  /\ push'[g].pod = push[g].pod
         /\ \/ push'[g].secret = push[g].secret
            \/ GetSecretId(g, push'[g].secret)
<1>1. push \in [Pushers -> PTP!Push]
  BY DEF IInv, PTP!IInv, PTP!TypeOK
<1>2. CASE UNCHANGED tableVars
  BY <1>2 DEF tableVars
<1>3. UNCHANGED deliveryVars => UNCHANGED tableVars
  BY DEF deliveryVars, tableVars
<1>4. ASSUME NEW p \in Pods,
             \/ Create(p) \/ Delete(p) \/ StartContainer(p) \/ KillContainer(p)
             \/ Observe(p) \/ ContainerStep(p)
      PROVE  UNCHANGED tableVars
  BY <1>4 DEF Create, Delete, StartContainer, KillContainer, Observe, ContainerStep, Receive,
              Timeout, Validate, Unwrap, UnwrapLost, Login, Finish, Fail
<1>5. ASSUME NEW s \in Secrets, Lapse(s) \/ Forget(s)
      PROVE  UNCHANGED tableVars
  BY <1>5 DEF Lapse, Forget
<1>6. ASSUME NEW l \in Leaders,
             \/ Poll(l) \/ ListFails(l) \/ WatchEvent(l)
             \/ \E p \in Pods : WatchReads(l, p)
      PROVE  push'[g] = push[g]
  BY <1>6, TrackGivesNoSecret
  DEF Poll, ListPods, ListFails, PT!ListPods, TrackListed, PT!TrackListed, WatchEvent,
      PT!WatchEvent, WatchReads, tableVars
<1>7. ASSUME NEW h \in Pushers, NEW s \in Secrets, GetSecretId(h, s)
      PROVE  /\ push'[g].pod = push[g].pod
             /\ \/ push'[g].secret = push[g].secret
                \/ g = h /\ push'[g].secret = s
  BY <1>1, <1>7 DEF GetSecretId, PT!GetSecretId, PTP!Push
<1>8. ASSUME NEW h \in Pushers,
             \/ \E q \in Pods : PostArrives(h, q)
             \/ GetSecretIdFails(h) \/ PostMisses(h) \/ PostOk(h) \/ Retry(h) \/ GiveUp(h)
      PROVE  push'[g].pod = push[g].pod /\ push'[g].secret = push[g].secret
  BY <1>1, <1>8
  DEF PostArrives, PostMisses, PT!Post, GetSecretIdFails, PT!GetSecretIdFails, PostOk, PT!PostOk,
      Retry, PT!Retry, GiveUp, PT!GiveUp, PTP!Push
<1>9. ASSUME NEW h \in Pushers, Leave(h)
      PROVE  push'[g] = push[g]
  BY <1>1, <1>9, SecretDeliveryAssumption DEF Leave, PT!Leave, PT!NoPush
<1>10. ASSUME NEW h \in Pushers, PushStep(h)
       PROVE  /\ push'[g].pod = push[g].pod
              /\ \/ push'[g].secret = push[g].secret
                 \/ GetSecretId(g, push'[g].secret)
  BY <1>7, <1>8, <1>9, <1>10 DEF PushStep
<1> QED BY <1>2, <1>3, <1>4, <1>5, <1>6, <1>10 DEF Next

\* A token comes to a pod by a POST, and in no other way.
LEMMA ReachedSteps ==
  ASSUME IInv, [Next]_deliveryVars, NEW s \in Secrets, NEW p \in Pods, Reached(s, p)'
  PROVE  \/ Reached(s, p)
         \/ \E g \in Pushers : PostArrives(g, p) /\ push[g].secret = s
<1>1. /\ inbox \in [Pods -> SUBSET Requests]
      /\ taken \in [Pods -> Requests \cup {NoRequest}]
      /\ cred \in [Pods -> ICP!Creds]
  BY DEF IInv, ICP!IInv, ICP!TypeOK
<1>2. CASE UNCHANGED initVars
  BY <1>2 DEF initVars, Reached
<1>3. UNCHANGED deliveryVars => UNCHANGED initVars
  BY DEF deliveryVars, initVars
<1>4. ASSUME NEW q \in Pods, IC!Exit(q)
      PROVE  Reached(s, p)
  BY <1>1, <1>4 DEF IC!Exit, Reached
<1>5. ASSUME NEW q \in Pods,
             \/ Create(q) \/ Observe(q) \/ StartContainer(q)
             \/ Validate(q) \/ Unwrap(q) \/ Login(q)
             \/ IC!CreateBundle(q) \/ IC!WriteBundle(q)
      PROVE  UNCHANGED <<inbox, taken, cred>>
  BY <1>5 DEF Create, Observe, StartContainer, IC!Start, Validate, IC!Validate, Unwrap, IC!Unwrap,
              Login, IC!Login, IC!CreateBundle, IC!WriteBundle, initVars
<1>6. UNCHANGED <<inbox, taken, cred>> => Reached(s, p)
  BY DEF Reached
<1>7. ASSUME NEW q \in Pods,
             Delete(q) \/ KillContainer(q) \/ Timeout(q) \/ UnwrapLost(q) \/ Fail(q)
      PROVE  IC!Exit(q)
  BY <1>7 DEF Delete, KillContainer, IC!Kill, Timeout, IC!Timeout, UnwrapLost, Fail, IC!Fail,
              IC!Exit
<1>8. ASSUME NEW q \in Pods, Receive(q)
      PROVE  Reached(s, p)
  <2>1. PICK r \in inbox[q] : IC!Receive(q, r)
    BY <1>8 DEF Receive
  <2>2. /\ inbox' = [inbox EXCEPT ![q] = @ \ {r}]
        /\ taken' = [taken EXCEPT ![q] = r]
        /\ cred' = cred
    BY <2>1 DEF IC!Receive
  <2> QED BY <1>1, <2>1, <2>2 DEF Reached
<1>9. ASSUME NEW q \in Pods, IC!Create(q)
      PROVE  Reached(s, p)
  BY <1>1, <1>9, SecretDeliveryAssumption DEF IC!Create, IC!Partial, Reached
<1>10. ASSUME NEW q \in Pods, IC!Write(q)
       PROVE  Reached(s, p)
  <2>1. taken[q] \in Requests /\ taken[q] # NoRequest
    BY <1>10, SecretDeliveryAssumption DEF IInv, ICP!IInv, ICP!Progress, ICP!Idle, IC!Write, IC!Goto
  <2>2. /\ cred' = [cred EXCEPT ![q] = [kind |-> IC!Mode, secret |-> taken[q].secret]]
        /\ UNCHANGED <<inbox, taken>>
    BY <1>10 DEF IC!Write, IC!Secret, SecretOf
  <2> QED BY <1>1, <2>1, <2>2 DEF Reached
<1>11. ASSUME NEW q \in Pods, IC!Succeed(q)
       PROVE  Reached(s, p)
  BY <1>1, <1>11 DEF IC!Succeed, Reached
<1>12. ASSUME NEW q \in Pods,
              \/ Create(q) \/ Delete(q) \/ StartContainer(q) \/ KillContainer(q)
              \/ Observe(q) \/ ContainerStep(q)
       PROVE  Reached(s, p)
  BY <1>4, <1>5, <1>6, <1>7, <1>8, <1>9, <1>10, <1>11, <1>12 DEF ContainerStep, Finish
<1>13. ASSUME NEW l \in Leaders,
              \/ Poll(l) \/ ListFails(l) \/ WatchEvent(l)
              \/ \E q \in Pods : WatchReads(l, q)
       PROVE  UNCHANGED initVars
  BY <1>13 DEF Poll, ListPods, TrackListed, ListFails, WatchEvent, WatchReads
<1>14. ASSUME NEW g \in Pushers, NEW q \in Pods, PostArrives(g, q)
       PROVE  Reached(s, p) \/ (p = q /\ push[g].secret = s)
  <2> DEFINE r == Request(g, push[g].posts + 1)
  <2>1. /\ inbox' = [inbox EXCEPT ![q] = @ \cup {r}]
        /\ UNCHANGED <<taken, cred>>
    BY <1>14 DEF PostArrives, IC!Deliver
  <2>2. r.secret = push[g].secret
    BY DEF Request
  <2> HIDE DEF r
  <2> QED BY <1>1, <2>1, <2>2 DEF Reached
<1>15. ASSUME NEW g \in Pushers,
              \/ \E u \in Secrets : GetSecretId(g, u)
              \/ GetSecretIdFails(g) \/ PostMisses(g) \/ PostOk(g) \/ Retry(g) \/ GiveUp(g)
              \/ Leave(g)
       PROVE  UNCHANGED initVars
  BY <1>15 DEF GetSecretId, GetSecretIdFails, PostMisses, PostOk, Retry, GiveUp, Leave
<1>16. ASSUME NEW u \in Secrets, Lapse(u) \/ Forget(u)
       PROVE  UNCHANGED initVars
  BY <1>16 DEF Lapse, Forget
<1> QED BY <1>2, <1>3, <1>12, <1>13, <1>14, <1>15, <1>16 DEF Next, PushStep

\* A token that a push has just been given was nowhere before.
LEMMA KnownSteps ==
  ASSUME IInv, [Next]_deliveryVars, NEW s \in Secrets, NEW p \in Pods, Known(s, p)'
  PROVE  \/ \E q \in Pods : Known(s, q) /\ IpOf[q] = IpOf[p]
         \/ \E g \in Pushers : GetSecretId(g, s) /\ push[g].pod = p
<1>1. CASE Reached(s, p)
  BY <1>1 DEF Known
<1>2. ASSUME NEW g \in Pushers, PostArrives(g, p), push[g].secret = s
      PROVE  \E q \in Pods : Known(s, q) /\ IpOf[q] = IpOf[p]
  <2>1. push[g].pod \in Pods
    BY <1>2 DEF PostArrives, PT!Post, IInv, PTP!IInv, PTP!Serving, PTP!Live
  <2>2. IpOf[p] = IpOf[push[g].pod]
    BY <1>2 DEF PostArrives, Targets
  <2> QED BY <1>2, <2>1, <2>2 DEF Known
<1>3. ASSUME NEW g \in Pushers, push'[g].secret = s, push'[g].pod = p
      PROVE  \/ Known(s, p)
             \/ GetSecretId(g, s) /\ push[g].pod = p
  BY <1>3, PushSecretSteps DEF Known
<1> QED BY <1>1, <1>2, <1>3, ReachedSteps DEF Known

\* Vault does not touch the entry of a token that is known, but to claim it
\* or to let it lapse: its role stays.
LEMMA KnownEntryStays ==
  ASSUME IInv, Addressed, [Next]_deliveryVars, NEW s \in Secrets, NEW p \in Pods, Known(s, p)
  PROVE  vault'[s].st # "free" /\ vault'[s].role = vault[s].role
<1>1. vault \in [Secrets -> OTS!Entry] /\ vault[s].st # "free"
  BY DEF IInv, OwnTypes, Addressed
<1>2. ASSUME NEW u \in Secrets, NEW role \in Roles, Issues(u, role)
      PROVE  vault'[s] = vault[s]
  BY <1>1, <1>2 DEF Issues
<1>3. ASSUME NEW u \in Secrets, NEW q \in Pods, Claims(u, q)
      PROVE  vault'[s].st # "free" /\ vault'[s].role = vault[s].role
  BY <1>1, <1>3 DEF Claims, OTS!Entry
<1>4. ASSUME NEW u \in Secrets, Lapses(u)
      PROVE  vault'[s].st # "free" /\ vault'[s].role = vault[s].role
  BY <1>1, <1>4 DEF Lapses, OTS!Entry
<1>5. ASSUME NEW u \in Secrets, Forget(u)
      PROVE  vault'[s] = vault[s]
  <2>1. u # s
    BY <1>5 DEF Forget, Known, Reached
  <2> QED BY <1>1, <1>5, <2>1 DEF Forget
<1> QED BY <1>1, <1>2, <1>3, <1>4, <1>5, VaultSteps DEF IInv

\* What Vault issues is for the pod of the push that asked, and for no other
\* push in that step.
LEMMA IssueSteps ==
  ASSUME IInv, NEW s \in Secrets, NEW g \in Pushers, GetSecretId(g, s)
  PROVE  /\ push[g].pod \in Pods
         /\ vault[s].st = "free"
         /\ vault'[s].st = "wrapped" /\ vault'[s].role = RoleOf[push[g].pod]
         /\ \A h \in Pushers : GetSecretId(h, s) => h = g
<1>1. push \in [Pushers -> PTP!Push] /\ vault \in [Secrets -> OTS!Entry]
  BY DEF IInv, PTP!IInv, PTP!TypeOK, OwnTypes
<1>2. push[g].pod \in Pods
  BY DEF GetSecretId, PT!GetSecretId, IInv, PTP!IInv, PTP!Serving, PTP!Live
<1>3. /\ vault[s].st = "free"
      /\ vault'[s].st = "wrapped" /\ vault'[s].role = RoleOf[push[g].pod]
  BY <1>1 DEF GetSecretId
<1>4. ASSUME NEW h \in Pushers, GetSecretId(h, s), h # g
      PROVE  FALSE
  <2>1. push'[g].pc = "post" /\ push[g].pc = "request"
    BY <1>1 DEF GetSecretId, PT!GetSecretId, PTP!Push
  <2>2. push'[g] = push[g]
    BY <1>1, <1>4 DEF GetSecretId, PT!GetSecretId
  <2> QED BY <2>1, <2>2
<1> QED BY <1>2, <1>3, <1>4

\* Every step keeps tokens at their address.
LEMMA StepAddressed == IInv /\ Addressed /\ [Next]_deliveryVars => Addressed'
<1> SUFFICES ASSUME IInv, Addressed, [Next]_deliveryVars,
                    NEW s \in Secrets, NEW p \in Pods, Known(s, p)'
             PROVE  /\ vault'[s].st # "free"
                    /\ \A q \in Pods : Known(s, q)' => IpOf[q] = IpOf[p]
                    /\ \E q \in Pods : IpOf[q] = IpOf[p] /\ RoleOf[q] = vault'[s].role
  BY DEF Addressed
<1>1. CASE \E g \in Pushers : GetSecretId(g, s)
  <2>1. PICK g \in Pushers : GetSecretId(g, s)
    BY <1>1
  <2>2. \A q \in Pods : ~Known(s, q)
    BY <2>1, IssueSteps DEF Addressed
  <2>3. \A q \in Pods : Known(s, q)' => q = push[g].pod
    BY <2>1, <2>2, KnownSteps, IssueSteps
  <2> QED BY <2>1, <2>3, IssueSteps
<1>2. CASE ~\E g \in Pushers : GetSecretId(g, s)
  <2>1. \A q \in Pods : Known(s, q)' => \E o \in Pods : Known(s, o) /\ IpOf[o] = IpOf[q]
    BY <1>2, KnownSteps
  <2>2. PICK o \in Pods : Known(s, o) /\ IpOf[o] = IpOf[p]
    BY <2>1
  <2>3. vault'[s].st # "free" /\ vault'[s].role = vault[s].role
    BY <2>2, KnownEntryStays
  <2>4. \A q \in Pods : Known(s, q) => IpOf[q] = IpOf[o]
    BY <2>2 DEF Addressed
  <2>5. \E q \in Pods : IpOf[q] = IpOf[o] /\ RoleOf[q] = vault[s].role
    BY <2>2 DEF Addressed
  <2> QED BY <2>1, <2>2, <2>3, <2>4, <2>5
<1> QED BY <1>1, <1>2

\* At first no token is anywhere.
LEMMA InitAddressed == Init => Addressed
<1> SUFFICES ASSUME Init, NEW s \in Secrets, NEW p \in Pods PROVE ~Known(s, p)
  BY DEF Addressed
<1>1. ~Reached(s, p)
  BY SecretDeliveryAssumption DEF Init, IC!Init, IC!NoCred, Reached
<1>2. \A g \in Pushers : push[g].secret # s
  BY SecretDeliveryAssumption DEF Init, PT!Init, PT!NoPush
<1> QED BY <1>1, <1>2 DEF Known

LEMMA AddressInvariance == Spec => []Addressed
<1> QED BY InitAddressed, StepAddressed, Invariance, PTL DEF Spec

\* In every mode, with faults without a bound, a token gets no further than
\* the address of the pod it was issued for.
THEOREM SecretStaysAtAddressHolds == Spec => []SecretStaysAtAddress
<1>1. Addressed => SecretStaysAtAddress
  BY DEF Addressed, Known, SecretStaysAtAddress
<1> QED BY <1>1, AddressInvariance, PTL

\* Pods that never share an address share no secret and have one of their
\* own role, even if they do not unwrap what they get: what can go wrong
\* without unwrapping needs an address that is used again.
THEOREM OwnAddressesSuffice ==
  ASSUME \A p, q \in Pods : IpOf[p] = IpOf[q] => p = q
  PROVE  Spec => [](/\ NoSharing
                    /\ \A p \in Pods : Holder[p] # NoSecret => vault[Holder[p]].role = RoleOf[p])
<1>1. ASSUME IInv, SecretStaysAtAddress, NEW p \in Pods, Holder[p] # NoSecret
      PROVE  /\ Holder[p] \in Secrets
             /\ Reached(Holder[p], p)
             /\ \A q \in Pods : Reached(Holder[p], q) => q = p
             /\ vault[Holder[p]].role = RoleOf[p]
  <2>1. Holder[p] = cred[p].secret /\ cred[p] \in ICP!Creds
    BY <1>1 DEF Holder, IInv, ICP!IInv, ICP!TypeOK
  <2>2. Holder[p] \in Secrets /\ Reached(Holder[p], p)
    BY <1>1, <2>1 DEF ICP!Creds, Reached
  <2> QED BY <1>1, <2>2 DEF SecretStaysAtAddress
<1>2. IInv /\ SecretStaysAtAddress =>
        /\ NoSharing
        /\ \A p \in Pods : Holder[p] # NoSecret => vault[Holder[p]].role = RoleOf[p]
  BY <1>1 DEF NoSharing, OTS!NoSharing
<1> QED BY <1>2, SecretStaysAtAddressHolds, Invariance, PTL

-----------------------------------------------------------------------------
(***************************************************************************)
(* What an application starts with.                                        *)
(***************************************************************************)

\* The files a container leaves when it exits 0 are complete, of one secret
\* that Vault has unwrapped for its pod, and nobody else has it: Provisioned
\* of the container and NoSharing of Vault, joined.
THEOREM ReadyPodOwnsItsSecretHolds == Spec => []ReadyPodOwnsItsSecret
<1>1. CASE UnwrapSecret
  <2>1. ASSUME IInv, OTP!IInv, NEW p \in Pods, pc[p] = "ok"
        PROVE  LET s == taken[p].secret
               IN  /\ cred[p] = [kind |-> IC!Mode, secret |-> s]
                   /\ BringsCAs(taken[p]) => ca[p] = s
                   /\ vault[s].st = "claimed" /\ vault[s].by = p
                   /\ RetrieveToken => vault[s].role = RoleOf[p]
                   /\ \A q \in Pods \ {p} : cred[q].secret # s
    <3> DEFINE s == taken[p].secret
    <3>1. /\ cred[p] = [kind |-> ICP!Mode, secret |-> ICP!Secret(p)]
          /\ BringsCAs(taken[p]) => ca[p] = ICP!Secret(p)
          /\ taken[p] \in Requests
      BY <2>1 DEF IInv, ICP!IInv, ICP!Progress, ICP!Idle
    <3>2. /\ cred[p] = [kind |-> IC!Mode, secret |-> s]
          /\ BringsCAs(taken[p]) => ca[p] = s
          /\ s \in Secrets
      BY <3>1 DEF IC!Mode, ICP!Mode, ICP!Secret, SecretOf, Requests
    <3>3. Holder[p] = s /\ s # NoSecret
      BY <3>2, SecretDeliveryAssumption DEF Holder, IC!Mode
    <3>4. /\ vault[s].st = "claimed" /\ vault[s].by = p
          /\ RetrieveToken => vault[s].role = RoleOf[p]
      BY <2>1, <3>3 DEF OTP!IInv, OTP!HeldIsClaimed
    <3>5. ASSUME NEW q \in Pods, cred[q].secret = s
          PROVE  q = p
      <4>1. Holder[q] = s
        BY <2>1, <3>3, <3>5 DEF IInv, ICP!IInv, ICP!Progress, Holder
      <4> QED BY <2>1, <3>3, <3>4, <4>1 DEF OTP!IInv, OTP!HeldIsClaimed
    <3> QED BY <3>2, <3>4, <3>5
  <2>2. IInv /\ OTP!IInv => ReadyPodOwnsItsSecret
    BY <2>1 DEF ReadyPodOwnsItsSecret
  <2> QED BY <1>1, <2>2, Invariance, OnceInvariance, PTL
<1>2. CASE ~UnwrapSecret
  <2>1. ReadyPodOwnsItsSecret
    BY <1>2 DEF ReadyPodOwnsItsSecret
  <2> QED BY <2>1, PTL
<1> QED BY <1>1, <1>2

-----------------------------------------------------------------------------
(***************************************************************************)
(* What is proved of the components, of the whole.                         *)
(***************************************************************************)

\* The controllers of the composition do what PushTable describes.
THEOREM ImplementsPushTable == Spec => PTP!Spec
<1>1. Init => PTP!Init
  BY DEF Init, PT!Init, PTP!Init, PT!NoPush, PTP!NoPush
<1>2. IInv /\ [Next]_deliveryVars => [PTP!Next]_(PTP!tableVars)
  BY StepIsTable DEF IInv, OwnTypes
<1> QED BY <1>1, <1>2, Invariance, PTL DEF Spec, PTP!Spec

\* A Store serves a name once at a time and forgets it with its push, and a
\* push comes nearer its end with each step, whatever Vault, the API server
\* and the pods do.
THEOREM DeliveryServesNamesOnce ==
  Spec => []PTP!OnePushPerName /\ []PTP!MapIsInFlight /\ PTP!PushShortens
<1>1. PTP!Spec => []PTP!OnePushPerName /\ []PTP!MapIsInFlight /\ PTP!PushShortens
  BY TableAssumption, PTP!OnePushPerNameHolds, PTP!MapIsInFlightHolds, PTP!PushShortensHolds
<1> QED BY <1>1, ImplementsPushTable, PTL

\* A container that has exited 0 has left complete files of one push, also
\* when pods come and go and several controllers POST to it.
THEOREM DeliveryProvisioned == Spec => []IC!Provisioned
<1>1. IInv => IC!Provisioned
  BY SecretDeliveryAssumption
  DEF IInv, ICP!IInv, ICP!Progress, ICP!Idle, IC!Provisioned, IC!Mode, ICP!Mode, IC!Secret,
      ICP!Secret
<1> QED BY <1>1, Invariance, PTL
=============================================================================
