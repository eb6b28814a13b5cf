--------------------------- MODULE SecretDelivery ---------------------------
(***************************************************************************)
(* The whole way of a secret_id: the controllers (PushTable), the init     *)
(* containers (InitContainer), and between them Vault, the API server, the *)
(* kubelet and the network, which are external.                            *)
(*                                                                         *)
(* The API server's answers lag behind the pods (api): a pod is pushed to  *)
(* that has finished, has been restarted or is gone.  A POST goes to an    *)
(* address, and reaches whatever pod has it then.  A push sends the same   *)
(* wrapping token again until something answers, also when that token has  *)
(* been used or has expired.                                               *)
(***************************************************************************)
EXTENDS Naturals

CONSTANTS
  Stores, Leaders, LeaderStore, Pushers, PusherStore,  \* the controllers
  Pods, Names, NameOf,                                 \* pods, an incarnation each
  Addresses, IpOf,                                     \* [Pods -> Addresses]
  Roles, RoleOf,                                       \* [Pods -> Roles]
  Secrets,        \* names for wrapping tokens, used again when forgotten
  Watchers,       \* leaders whose watch still delivers (see README.md)
  MaxPosts,
  StoresWithCAs,  \* controllers that are configured with root CAs for Vault
  UnwrapSecret, RetrieveToken,
  Unlimited,      \* faults may happen at any time ...
  MaxFaults,      \* ... or so many times
  NoPod, NoSecret, NoRequest, NoRole

VARIABLES
  pods, listed, seen, push,     \* PushTable
  pc, inbox, taken, cred, ca,   \* InitContainer
  vault,    \* [Secrets -> [st, role, by]]: what Vault knows of a wrapping token
  life,     \* [Pods -> {"new", "up", "gone"}]: the pod object
  api,      \* [Pods -> BOOLEAN]: the API server reports its init container running
  event,    \* [Leaders -> Pods \cup {NoPod}]: an event in the watch's buffer
  faults    \* faults still to come

tableVars == <<pods, listed, seen, push>>
initVars == <<pc, inbox, taken, cred, ca>>
deliveryVars == <<tableVars, initVars, vault, life, api, event, faults>>

Requests == [from : Pushers, secret : Secrets, post : 1..MaxPosts]
SecretOf(r) == r.secret
BringsCAs(r) == PusherStore[r.from] \in StoresWithCAs

\* The components' assumptions, and those of the composition.
ASSUME SecretDeliveryAssumption ==
  /\ NameOf \in [Pods -> Names]
  /\ LeaderStore \in [Leaders -> Stores]
  /\ PusherStore \in [Pushers -> Stores]
  /\ MaxPosts \in Nat \ {0}
  /\ {UnwrapSecret, RetrieveToken} \subseteq BOOLEAN
  /\ RetrieveToken => UnwrapSecret
  /\ NoPod \notin Pods
  /\ NoSecret \notin Secrets
  /\ NoRequest \notin Requests
  /\ IpOf \in [Pods -> Addresses]
  /\ RoleOf \in [Pods -> Roles]
  /\ Watchers \subseteq Leaders
  /\ NoRole \notin Roles
  /\ Unlimited \in BOOLEAN
  /\ MaxFaults \in Nat

PT == INSTANCE PushTable
IC == INSTANCE InitContainer

Free == [st |-> "free", role |-> NoRole, by |-> NoPod]

TypeOK ==
  /\ PT!TypeOK
  /\ IC!TypeOK
  /\ vault \in [Secrets -> [st   : {"free", "wrapped", "claimed", "lapsed"},
                            role : Roles \cup {NoRole},
                            by   : Pods \cup {NoPod}]]
  /\ life \in [Pods -> {"new", "up", "gone"}]
  /\ api \in [Pods -> BOOLEAN]
  /\ event \in [Leaders -> Pods \cup {NoPod}]
  /\ faults \in 0..MaxFaults

Init ==
  /\ PT!Init
  /\ IC!Init
  /\ vault = [s \in Secrets |-> Free]
  /\ life = [p \in Pods |-> "new"]
  /\ api = [p \in Pods |-> FALSE]
  /\ event = [l \in Leaders |-> NoPod]
  /\ faults = MaxFaults

\* Something goes wrong that need not.
Fault ==
  IF Unlimited THEN UNCHANGED faults
  ELSE faults > 0 /\ faults' = faults - 1

-----------------------------------------------------------------------------
(***************************************************************************)
(* Kubernetes (external).                                                  *)
(***************************************************************************)

\* A pod is scheduled; no other pod has its address.
Create(p) ==
  /\ life[p] = "new"
  /\ \A q \in Pods : life[q] = "up" => IpOf[q] # IpOf[p]
  /\ life' = [life EXCEPT ![p] = "up"]
  /\ UNCHANGED <<tableVars, initVars, vault, api, event, faults>>

\* A pod is deleted, with its containers.  What it was given stays given
\* (cred): a token outlives the pod.
Delete(p) ==
  /\ life[p] = "up"
  /\ life' = [life EXCEPT ![p] = "gone"]
  /\ pc' = [pc EXCEPT ![p] = "down"]
  /\ inbox' = [inbox EXCEPT ![p] = {}]
  /\ taken' = [taken EXCEPT ![p] = NoRequest]
  /\ UNCHANGED <<tableVars, cred, ca, vault, api, event, faults>>

\* The kubelet starts the init container of a pod that has not succeeded.
StartContainer(p) ==
  /\ life[p] = "up"
  /\ IC!Start(p)
  /\ UNCHANGED <<tableVars, vault, life, api, event, faults>>

KillContainer(p) ==
  /\ IC!Kill(p)
  /\ Fault
  /\ UNCHANGED <<tableVars, vault, life, api, event>>

\* The API server catches up.
Observe(p) ==
  /\ api[p] # IC!Running(p)
  /\ api' = [api EXCEPT ![p] = ~@]
  /\ UNCHANGED <<tableVars, initVars, vault, life, event, faults>>

\* The watch reads an event of a pod whose init container runs, which stays
\* in its buffer until the leader takes it.
WatchReads(l, p) ==
  /\ l \in Watchers
  /\ event[l] = NoPod
  /\ api[p]
  /\ event' = [event EXCEPT ![l] = p]
  /\ UNCHANGED <<tableVars, initVars, vault, life, api, faults>>

-----------------------------------------------------------------------------
(***************************************************************************)
(* The controllers.                                                        *)
(***************************************************************************)

ListPods(l) ==
  /\ PT!ListPods(l, {p \in Pods : api[p]})
  /\ UNCHANGED <<initVars, vault, life, api, event, faults>>

ListFails(l) ==
  /\ PT!ListPods(l, {})
  /\ Fault
  /\ UNCHANGED <<initVars, vault, life, api, event>>

TrackListed(l) ==
  /\ PT!TrackListed(l)
  /\ UNCHANGED <<initVars, vault, life, api, event, faults>>

WatchEvent(l) ==
  /\ event[l] # NoPod
  /\ PT!WatchEvent(l, event[l])
  /\ event' = [event EXCEPT ![l] = NoPod]
  /\ UNCHANGED <<initVars, vault, life, api, faults>>

\* Vault issues a wrapped secret_id for the role of the pod.
GetSecretId(g, s) ==
  /\ vault[s].st = "free"
  /\ PT!GetSecretId(g, s)
  /\ vault' = [vault EXCEPT ![s] =
                 [st |-> "wrapped", role |-> RoleOf[push[g].pod], by |-> NoPod]]
  /\ UNCHANGED <<initVars, life, api, event, faults>>

GetSecretIdFails(g) ==
  /\ PT!GetSecretIdFails(g)
  /\ Fault
  /\ UNCHANGED <<initVars, vault, life, api, event>>

\* The pods that a POST of g can reach, and the request it carries.
Targets(g) == {q \in Pods : life[q] = "up" /\ IC!Running(q) /\ IpOf[q] = IpOf[push[g].pod]}
Request(g, n) == [from |-> g, secret |-> push[g].secret, post |-> n]

\* A POST reaches the server of an init container ...
PostArrives(g, q) ==
  /\ PT!Post(g)
  /\ q \in Targets(g)
  /\ IC!Deliver(q, Request(g, push[g].posts + 1))
  /\ UNCHANGED <<vault, life, api, event, faults>>

\* ... or nothing listens at the address, or the POST is lost.
PostMisses(g) ==
  /\ PT!Post(g)
  /\ IF Targets(g) = {} THEN UNCHANGED faults ELSE Fault
  /\ UNCHANGED <<initVars, vault, life, api, event>>

\* The response: the handler writes it once main has taken the secret.
PostOk(g) ==
  /\ PT!PostOk(g)
  /\ \E q \in Pods : taken[q] = Request(g, push[g].posts)
  /\ UNCHANGED <<initVars, vault, life, api, event, faults>>

\* No answer within 30s, or the process that would answer is gone.
Retry(g) ==
  /\ PT!Retry(g)
  /\ UNCHANGED <<initVars, vault, life, api, event, faults>>

GiveUp(g) ==
  /\ PT!GiveUp(g)
  /\ UNCHANGED <<initVars, vault, life, api, event, faults>>

Leave(g) ==
  /\ PT!Leave(g)
  /\ UNCHANGED <<initVars, vault, life, api, event, faults>>

-----------------------------------------------------------------------------
(***************************************************************************)
(* The init containers, with Vault's answers.                              *)
(***************************************************************************)

Entry(p) == vault[IC!Secret(p)]

Receive(p) ==
  /\ \E r \in inbox[p] : IC!Receive(p, r)
  /\ UNCHANGED <<tableVars, vault, life, api, event, faults>>

\* A push to another pod of this name keeps a Store from serving this one.
Crowded(p) ==
  \E g \in Pushers :
    PT!Live(g) /\ push[g].pod # p /\ NameOf[push[g].pod] = NameOf[p]

\* The timer of 5 minutes is a fault unless the pod had to wait for another:
\* a leader polls every 20s (see README.md).
Timeout(p) ==
  /\ IC!Timeout(p)
  /\ IF Crowded(p) THEN UNCHANGED faults ELSE Fault
  /\ UNCHANGED <<tableVars, vault, life, api, event>>

\* An expired token is refused.
Validate(p) ==
  /\ IC!Validate(p)
  /\ Entry(p).st # "lapsed"
  /\ UNCHANGED <<tableVars, vault, life, api, event, faults>>

\* Faulty variant: Vault unwraps a token as often as it is asked to.
UnwrapAgain(p) ==
  /\ IC!Unwrap(p)
  /\ Entry(p).st # "lapsed"
  /\ vault' = [vault EXCEPT ![IC!Secret(p)].st = "claimed", ![IC!Secret(p)].by = p]
  /\ UNCHANGED <<tableVars, life, api, event, faults>>

\* Vault unwraps a token once.
Unwrap(p) ==
  /\ IC!Unwrap(p)
  /\ Entry(p).st = "wrapped"
  /\ vault' = [vault EXCEPT ![IC!Secret(p)].st = "claimed", ![IC!Secret(p)].by = p]
  /\ UNCHANGED <<tableVars, life, api, event, faults>>

\* Vault unwraps the token and the answer is lost.
UnwrapLost(p) ==
  /\ pc[p] = "unwrap"
  /\ Entry(p).st = "wrapped"
  /\ IC!Fail(p)
  /\ vault' = [vault EXCEPT ![IC!Secret(p)].st = "claimed", ![IC!Secret(p)].by = p]
  /\ Fault
  /\ UNCHANGED <<tableVars, life, api, event>>

\* The login names the pod's own role_id; Vault refuses another role's secret_id.
Login(p) ==
  /\ IC!Login(p)
  /\ Entry(p).role = RoleOf[p]
  /\ UNCHANGED <<tableVars, vault, life, api, event, faults>>

Finish(p) ==
  /\ IC!Create(p) \/ IC!Write(p) \/ IC!CreateBundle(p) \/ IC!WriteBundle(p) \/ IC!Succeed(p)
  /\ UNCHANGED <<tableVars, vault, life, api, event, faults>>

\* What makes a run fail without a fault.
Refused(p) ==
  \/ pc[p] = "validate" /\ Entry(p).st = "lapsed"
  \/ pc[p] = "unwrap" /\ Entry(p).st # "wrapped"
  \/ pc[p] = "login" /\ Entry(p).role # RoleOf[p]

Fail(p) ==
  /\ IC!Fail(p)
  /\ IF Refused(p) THEN UNCHANGED faults ELSE Fault
  /\ UNCHANGED <<tableVars, vault, life, api, event>>

-----------------------------------------------------------------------------
(***************************************************************************)
(* Vault (external).                                                       *)
(***************************************************************************)

\* The wrapping TTL has passed.
Lapse(s) ==
  /\ vault[s].st = "wrapped"
  /\ vault' = [vault EXCEPT ![s].st = "lapsed"]
  /\ Fault
  /\ UNCHANGED <<tableVars, initVars, life, api, event>>

\* Abstraction: the name of a token that nobody refers to is used again.
Forget(s) ==
  /\ vault[s].st # "free"
  /\ \A g \in Pushers : push[g].secret # s
  /\ \A p \in Pods :
       /\ cred[p].secret # s
       /\ ca[p] # s
       /\ taken[p] # NoRequest => taken[p].secret # s
       /\ \A r \in inbox[p] : r.secret # s
  /\ vault' = [vault EXCEPT ![s] = Free]
  /\ UNCHANGED <<tableVars, initVars, life, api, event, faults>>

-----------------------------------------------------------------------------
Poll(l) == ListPods(l) \/ TrackListed(l)

PushStep(g) ==
  \/ \E s \in Secrets : GetSecretId(g, s)
  \/ GetSecretIdFails(g)
  \/ \E q \in Pods : PostArrives(g, q)
  \/ PostMisses(g)
  \/ PostOk(g)
  \/ Retry(g)
  \/ GiveUp(g)
  \/ Leave(g)

ContainerStep(p) ==
  \/ Receive(p)
  \/ Timeout(p)
  \/ Validate(p)
  \/ Unwrap(p)
  \/ UnwrapLost(p)
  \/ Login(p)
  \/ Finish(p)
  \/ Fail(p)

Next ==
  \/ \E p \in Pods :
       \/ Create(p)
       \/ Delete(p)
       \/ StartContainer(p)
       \/ KillContainer(p)
       \/ Observe(p)
       \/ ContainerStep(p)
  \/ \E l \in Leaders :
       \/ Poll(l)
       \/ ListFails(l)
       \/ WatchEvent(l)
       \/ \E p \in Pods : WatchReads(l, p)
  \/ \E g \in Pushers : PushStep(g)
  \/ \E s \in Secrets : Lapse(s) \/ Forget(s)

\* A leader polls every 20s, whether or not its watch works; a push and a
\* run of a container go on; the kubelet restarts a failed container; the
\* API server catches up.  None of this asks a fault to happen or not to.
Fairness ==
  /\ \A l \in Leaders : WF_deliveryVars(Poll(l))
  /\ \A g \in Pushers : WF_deliveryVars(PushStep(g))
  /\ \A p \in Pods :
       /\ WF_deliveryVars(StartContainer(p))
       /\ WF_deliveryVars(ContainerStep(p))
       /\ WF_deliveryVars(Observe(p))
  /\ \A s \in Secrets : WF_deliveryVars(Forget(s))

Spec == Init /\ [][Next]_deliveryVars
FairSpec == Spec /\ Fairness

-----------------------------------------------------------------------------
(***************************************************************************)
(* Properties.                                                             *)
(***************************************************************************)

\* Whose credentials a pod has; a truncated file has nobody's.
Holder ==
  [p \in Pods |-> IF cred[p].kind \in {"none", "partial"} THEN NoSecret ELSE cred[p].secret]

OTS == INSTANCE OneTimeSecret WITH holder <- Holder, vault <- vault

\* With retries, restarts, stale lists, several controllers and addresses
\* that are used again, each pod still gets what OneTimeSecret promises.
ImplementsOneTimeSecret == OTS!Spec

\* best-practices.md: "each pod will get its own secret_id".
NoSharing == OTS!NoSharing

\* A pod that has a token has one of its own role.
OwnRole == OTS!OwnRole

\* A wrapping token has come to a pod: in a request, in hand, or in its
\* file, as it came or as what Vault gave for it.
Reached(s, p) ==
  \/ \E r \in inbox[p] : r.secret = s
  \/ taken[p] # NoRequest /\ taken[p].secret = s
  \/ cred[p].secret = s

\* In every mode, whatever goes wrong, a token gets no further than the
\* address of the pod it was issued for: the pods it comes to have one
\* address, and one pod with that address has its role.  So what a secret
\* can meet is a pod that had or will have the address.
SecretStaysAtAddress ==
  \A s \in Secrets, p \in Pods :
    Reached(s, p) =>
      /\ \A q \in Pods : Reached(s, q) => IpOf[q] = IpOf[p]
      /\ \E q \in Pods : IpOf[q] = IpOf[p] /\ RoleOf[q] = vault[s].role

\* What an application starts with: complete files of one secret, which Vault
\* has handed to this pod, which nobody else holds, and which is of its role
\* if it is a token.
ReadyPodOwnsItsSecret ==
  UnwrapSecret =>
    \A p \in Pods :
      pc[p] = "ok" =>
        LET s == taken[p].secret
        IN  /\ cred[p] = [kind |-> IC!Mode, secret |-> s]
            /\ BringsCAs(taken[p]) => ca[p] = s
            /\ vault[s].st = "claimed" /\ vault[s].by = p
            /\ RetrieveToken => vault[s].role = RoleOf[p]
            /\ \A q \in Pods \ {p} : cred[q].secret # s

\* Every pod gets its credentials in the end, unless it is deleted, when only
\* so many faults happen: also one that shares its name with another.
EventuallyProvisioned ==
  \A p \in Pods : life[p] = "up" ~> pc[p] = "ok" \/ life[p] = "gone"
=============================================================================
