------------------------------ MODULE PushTable ------------------------------
(***************************************************************************)
(* The push side of the controller: cmd/controller/cluster/store.go.       *)
(*                                                                         *)
(* A Store remembers, in the map Store.pods, the names of the pods it is   *)
(* currently serving.  The leader goroutines of the Store (startLeader)    *)
(* learn of pods by listing them (getPodsAndPushSecretIds) and by watch    *)
(* events; under the Store's mutex they add every pod whose name is not in *)
(* the map and start one goroutine for it (pushSecretIdToPod).  That       *)
(* goroutine asks Vault for a wrapped secret_id once, POSTs it to the pod  *)
(* with retries, and removes the name from the map when it returns, on     *)
(* every path.                                                             *)
(*                                                                         *)
(* Several Stores (controller processes) and several leader goroutines of  *)
(* one Store may be active together: LeaderLoop shows how that happens.    *)
(* What Vault, the API server and the pods answer is left open here;       *)
(* SecretDelivery supplies it.                                             *)
(***************************************************************************)
EXTENDS Naturals

CONSTANTS
  Stores,       \* controller processes, one Store each
  Pods,         \* pods the API server reports, an incarnation each
  Names,        \* pod names: the keys of Store.pods
  NameOf,       \* [Pods -> Names]; two namespaces may share a name
  Leaders,      \* startLeader goroutines
  LeaderStore,  \* [Leaders -> Stores]
  Pushers,      \* slots for pushSecretIdToPod goroutines
  PusherStore,  \* [Pushers -> Stores]
  Secrets,      \* wrapping tokens
  MaxPosts,     \* how many POSTs of one push fit into maxHTTPPostTime
  NoPod,
  NoSecret

ASSUME PushTableAssumption ==
  /\ NameOf \in [Pods -> Names]
  /\ LeaderStore \in [Leaders -> Stores]
  /\ PusherStore \in [Pushers -> Stores]
  /\ NoPod \notin Pods
  /\ NoSecret \notin Secrets
  /\ MaxPosts \in Nat \ {0}

VARIABLES
  pods,     \* [Stores -> SUBSET Names]: the keys of Store.pods
  listed,   \* [Leaders -> BOOLEAN]: GetPods has returned, the mutex is not yet taken
  seen,     \* [Leaders -> SUBSET Pods]: what that GetPods returned
  push      \* [Pushers -> Push]: the push goroutines

tableVars == <<pods, listed, seen, push>>

Push == [pc     : {"none", "request", "post", "sent", "leave"},
         pod    : Pods \cup {NoPod},
         secret : Secrets \cup {NoSecret},
         posts  : 0..MaxPosts]

NoPush == [pc |-> "none", pod |-> NoPod, secret |-> NoSecret, posts |-> 0]

\* pushSecretIdToPod(pod) before its first statement.
Started(p) == [pc |-> "request", pod |-> p, secret |-> NoSecret, posts |-> 0]

Live(g) == push[g].pc # "none"
Idle(st) == {g \in Pushers : PusherStore[g] = st /\ ~Live(g)}

TypeOK ==
  /\ pods \in [Stores -> SUBSET Names]
  /\ listed \in [Leaders -> BOOLEAN]
  /\ seen \in [Leaders -> SUBSET Pods]
  /\ push \in [Pushers -> Push]

Init ==
  /\ pods = [st \in Stores |-> {}]
  /\ listed = [l \in Leaders |-> FALSE]
  /\ seen = [l \in Leaders |-> {}]
  /\ push = [g \in Pushers |-> NoPush]

-----------------------------------------------------------------------------
(***************************************************************************)
(* The loop under the mutex.  A start assigns to idle slots the pods of S  *)
(* for which a goroutine is started: only pods whose name is not a key,    *)
(* one per name (the loop adds the key before it meets the next pod of     *)
(* that name, and the order of the list decides which one that is), and    *)
(* every name of S ends up a key.                                          *)
(***************************************************************************)

\* Faulty variant: the test for the key is left out.
StartsUnchecked(st, S) ==
  {f \in [Idle(st) -> S \cup {NoPod}] :
     \A p \in S : \E g \in Idle(st) : f[g] = p}

Starts(st, S) ==
  {f \in [Idle(st) -> S \cup {NoPod}] :
     /\ \A g \in Idle(st) : f[g] # NoPod => NameOf[f[g]] \notin pods[st]
     /\ \A g, h \in Idle(st) :
          g # h /\ f[g] # NoPod /\ f[h] # NoPod => NameOf[f[g]] # NameOf[f[h]]
     /\ \A p \in S : \/ NameOf[p] \in pods[st]
                     \/ \E g \in Idle(st) : f[g] # NoPod /\ NameOf[f[g]] = NameOf[p]}

\* The critical section of getPodsAndPushSecretIds and of the watch case.
Track(st, S) ==
  \E f \in Starts(st, S) :
    /\ pods' = [pods EXCEPT ![st] = @ \cup {NameOf[p] : p \in S}]
    /\ push' = [g \in Pushers |->
                  IF g \in Idle(st) /\ f[g] # NoPod THEN Started(f[g]) ELSE push[g]]

(***************************************************************************)
(* The leader goroutines.                                                  *)
(***************************************************************************)

\* GetPods returns S; on an error it returns no pods and the code goes on
\* with the empty list, so S = {} is the failed call as well.
ListPods(l, S) ==
  /\ ~listed[l]
  /\ listed' = [listed EXCEPT ![l] = TRUE]
  /\ seen' = [seen EXCEPT ![l] = S]
  /\ UNCHANGED <<pods, push>>

\* s.Lock() ... s.Unlock() over the pods listed before.
TrackListed(l) ==
  /\ listed[l]
  /\ Track(LeaderStore[l], seen[l])
  /\ listed' = [listed EXCEPT ![l] = FALSE]
  /\ seen' = [seen EXCEPT ![l] = {}]

\* The watch case of startLeader.
WatchEvent(l, p) ==
  /\ ~listed[l]
  /\ Track(LeaderStore[l], {p})
  /\ UNCHANGED <<listed, seen>>

-----------------------------------------------------------------------------
(***************************************************************************)
(* pushSecretIdToPod.                                                      *)
(***************************************************************************)

\* Vault answers with a wrapping token no push holds.
GetSecretId(g, s) ==
  /\ push[g].pc = "request"
  /\ \A h \in Pushers : push[h].secret # s
  /\ push' = [push EXCEPT ![g].pc = "post", ![g].secret = s]
  /\ UNCHANGED <<pods, listed, seen>>

\* Faulty variant: the error return does not run the deferred delete.
GetSecretIdFailsLeak(g) ==
  /\ push[g].pc = "request"
  /\ push' = [push EXCEPT ![g] = NoPush]
  /\ UNCHANGED <<pods, listed, seen>>

GetSecretIdFails(g) ==
  /\ push[g].pc = "request"
  /\ push' = [push EXCEPT ![g].pc = "leave"]
  /\ UNCHANGED <<pods, listed, seen>>

\* One call of op: the POST is under way.
Post(g) ==
  /\ push[g].pc = "post"
  /\ push' = [push EXCEPT ![g].pc = "sent", ![g].posts = @ + 1]
  /\ UNCHANGED <<pods, listed, seen>>

\* Any HTTP response ends the retries: the status is not looked at.
PostOk(g) ==
  /\ push[g].pc = "sent"
  /\ push' = [push EXCEPT ![g].pc = "leave"]
  /\ UNCHANGED <<pods, listed, seen>>

\* Faulty variant: the backoff never stops.
RetryForever(g) ==
  /\ push[g].pc = "sent"
  /\ push' = [push EXCEPT ![g].pc = "post", ![g].posts = 0]
  /\ UNCHANGED <<pods, listed, seen>>

\* Faulty variant: one POST more than the time allows.
RetryOnceMore(g) ==
  /\ push[g].pc = "sent"
  /\ push[g].posts <= MaxPosts
  /\ push' = [push EXCEPT ![g].pc = "post"]
  /\ UNCHANGED <<pods, listed, seen>>

\* The POST failed or timed out; backoff.Retry sleeps and calls op again
\* with the same body.
Retry(g) ==
  /\ push[g].pc = "sent"
  /\ push[g].posts < MaxPosts
  /\ push' = [push EXCEPT ![g].pc = "post"]
  /\ UNCHANGED <<pods, listed, seen>>

\* The POST failed and maxHTTPPostTime has passed.
GiveUp(g) ==
  /\ push[g].pc = "sent"
  /\ push[g].posts = MaxPosts
  /\ push' = [push EXCEPT ![g].pc = "leave"]
  /\ UNCHANGED <<pods, listed, seen>>

\* Faulty variant: the deferred function is missing.
LeaveKeepsName(g) ==
  /\ push[g].pc = "leave"
  /\ push' = [push EXCEPT ![g] = NoPush]
  /\ UNCHANGED <<pods, listed, seen>>

\* The deferred function: the name leaves the map.
Leave(g) ==
  /\ push[g].pc = "leave"
  /\ pods' = [pods EXCEPT ![PusherStore[g]] = @ \ {NameOf[push[g].pod]}]
  /\ push' = [push EXCEPT ![g] = NoPush]
  /\ UNCHANGED <<listed, seen>>

-----------------------------------------------------------------------------
LeaderStep(l) ==
  \/ \E S \in SUBSET Pods : ListPods(l, S)
  \/ TrackListed(l)
  \/ \E p \in Pods : WatchEvent(l, p)

PusherStep(g) ==
  \/ \E s \in Secrets : GetSecretId(g, s)
  \/ GetSecretIdFails(g)
  \/ Post(g)
  \/ PostOk(g)
  \/ Retry(g)
  \/ GiveUp(g)
  \/ Leave(g)

Next ==
  \/ \E l \in Leaders : LeaderStep(l)
  \/ \E g \in Pushers : PusherStep(g)

\* A push goroutine is never blocked for ever: POSTs carry a 30s timeout,
\* the mutex is held for a short loop only, and Vault is assumed to answer
\* or to refuse (its client sets no timeout of its own).
Fairness == \A g \in Pushers : WF_tableVars(PusherStep(g))

Spec == Init /\ [][Next]_tableVars
FairSpec == Spec /\ Fairness

-----------------------------------------------------------------------------
(***************************************************************************)
(* Properties.                                                             *)
(***************************************************************************)

\* At most one push per pod name is in flight in one Store, whatever number
\* of leader goroutines scan the pods.
OnePushPerName ==
  \A g, h \in Pushers :
    /\ g # h
    /\ Live(g)
    /\ Live(h)
    /\ PusherStore[g] = PusherStore[h]
    => NameOf[push[g].pod] # NameOf[push[h].pod]

\* The keys of Store.pods are exactly the names some goroutine of the Store
\* is serving: no key outlives its goroutine (the pod of that name would
\* never be served again) and no goroutine runs without its key.
MapIsInFlight ==
  \A st \in Stores :
    pods[st] = {NameOf[push[g].pod] : g \in {h \in Pushers : Live(h) /\ PusherStore[h] = st}}

\* How many steps a push has at most still to take.
StepsLeft(r) ==
  CASE r.pc = "none"    -> 0
    [] r.pc = "leave"   -> 1
    [] r.pc = "sent"    -> 2 * (MaxPosts - r.posts) + 2
    [] r.pc = "post"    -> 2 * (MaxPosts - r.posts) + 1
    [] r.pc = "request" -> 2 * MaxPosts + 2

\* Whatever Vault and the pod answer, each step of a push brings it nearer
\* its end, for one and the same pod: no order of failures and retries keeps
\* a name in the map as long as the goroutine goes on.
PushShortens ==
  [][\A g \in Pushers :
       Live(g) /\ push'[g] # push[g] =>
         /\ StepsLeft(push'[g]) < StepsLeft(push[g])
         /\ push'[g].pod \in {push[g].pod, NoPod}]_tableVars

\* Every name leaves the map again, so its pod can be served afresh.
NameFreed ==
  \A st \in Stores, n \in Names : n \in pods[st] ~> n \notin pods[st]
=============================================================================
