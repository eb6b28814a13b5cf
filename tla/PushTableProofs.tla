-------------------------- MODULE PushTableProofs --------------------------
(***************************************************************************)
(* Proofs about PushTable, for every number of Stores, leader goroutines,  *)
(* push goroutines, pods and names.                                        *)
(*                                                                         *)
(* OnePushPerName is inductive only together with MapIsInFlight: the loop  *)
(* under the mutex looks at the keys of the map, never at the goroutines,  *)
(* so what makes a name unique is that every goroutine has its key.        *)
(* MapIsInFlight in turn needs OnePushPerName: the key that Leave deletes  *)
(* must be nobody else's.  And both need every running goroutine to have a *)
(* pod (Serving); that the POSTs of a push stay in their bound needs, in   *)
(* addition, that one more fits whenever the push is about to POST.        *)
(***************************************************************************)
EXTENDS PushTable, TLAPS

Serving ==
  \A g \in Pushers :
    /\ Live(g) => push[g].pod \in Pods
    /\ ~Live(g) => push[g] = NoPush
    /\ push[g].pc \in {"post", "sent"} => push[g].secret \in Secrets
    /\ push[g].pc = "request" => push[g].posts = 0
    /\ push[g].pc = "post" => push[g].posts < MaxPosts

IInv == TypeOK /\ Serving /\ OnePushPerName /\ MapIsInFlight

-----------------------------------------------------------------------------
\* Init establishes the invariant: no goroutine runs and the maps are empty.
LEMMA InitIInv == Init => IInv
  BY PushTableAssumption
  DEF Init, IInv, TypeOK, Serving, OnePushPerName, MapIsInFlight, Live, Push, NoPush

\* A goroutine starts with a well-formed record.
LEMMA StartedIsPush == \A p \in Pods : Started(p) \in Push
  BY PushTableAssumption DEF Started, Push

\* The critical section of the leader goroutines, for any set S of pods of
\* the API server, keeps the invariant on pods and push.
LEMMA TrackKeeps ==
  ASSUME IInv, NEW st \in Stores, NEW S \in SUBSET Pods, Track(st, S)
  PROVE  /\ pods' \in [Stores -> SUBSET Names]
         /\ push' \in [Pushers -> Push]
         /\ Serving'
         /\ OnePushPerName'
         /\ MapIsInFlight'
<1>1. PICK f \in Starts(st, S) :
        /\ pods' = [pods EXCEPT ![st] = @ \cup {NameOf[p] : p \in S}]
        /\ push' = [g \in Pushers |->
                      IF g \in Idle(st) /\ f[g] # NoPod THEN Started(f[g]) ELSE push[g]]
  BY DEF Track
<1> USE PushTableAssumption DEF IInv, TypeOK
<1>2. /\ \A g \in Idle(st) : f[g] \in S \cup {NoPod}
      /\ \A g \in Idle(st) : f[g] # NoPod => NameOf[f[g]] \notin pods[st]
      /\ \A g, h \in Idle(st) :
           g # h /\ f[g] # NoPod /\ f[h] # NoPod => NameOf[f[g]] # NameOf[f[h]]
      /\ \A p \in S : \/ NameOf[p] \in pods[st]
                      \/ \E g \in Idle(st) : f[g] # NoPod /\ NameOf[f[g]] = NameOf[p]
  BY DEF Starts
<1>3. \A g \in Pushers : Live(g) <=> push[g].pc # "none"
  BY DEF Live
<1>4. \A g \in Idle(st) : g \in Pushers /\ PusherStore[g] = st /\ ~Live(g)
  BY DEF Idle
<1> DEFINE New == {g \in Idle(st) : f[g] # NoPod}
<1>5. \A g \in New : /\ g \in Pushers
                     /\ PusherStore[g] = st
                     /\ ~Live(g)
                     /\ Live(g)'
                     /\ push'[g] = Started(f[g])
                     /\ push'[g].pod = f[g]
                     /\ f[g] \in S
                     /\ f[g] \in Pods
  BY <1>1, <1>2, <1>4 DEF Live, Started
<1>6. \A g \in Pushers \ New : push'[g] = push[g] /\ (Live(g)' <=> Live(g))
  BY <1>1 DEF Live
<1> HIDE DEF New
<1>7. pods' \in [Stores -> SUBSET Names]
  BY <1>1
<1>8. push' \in [Pushers -> Push]
  <2>1. \A g \in New : push'[g] \in Push
    BY <1>5, StartedIsPush
  <2>2. \A g \in Pushers \ New : push'[g] \in Push
    BY <1>6
  <2> QED BY <2>1, <2>2, <1>1
<1>9. Serving'
  <2> SUFFICES ASSUME NEW g \in Pushers
               PROVE  /\ Live(g)' => push'[g].pod \in Pods
                      /\ ~Live(g)' => push'[g] = NoPush
                      /\ push'[g].pc \in {"post", "sent"} => push'[g].secret \in Secrets
                      /\ push'[g].pc = "request" => push'[g].posts = 0
                      /\ push'[g].pc = "post" => push'[g].posts < MaxPosts
    BY DEF Serving
  <2>1. CASE g \in New
    <3>1. Live(g)' /\ push'[g].pod \in Pods /\ push'[g] = Started(f[g])
      BY <2>1, <1>5
    <3>2. push'[g].pc = "request" /\ push'[g].posts = 0
      BY <3>1 DEF Started
    <3> QED BY <3>1, <3>2
  <2>2. CASE g \notin New
    BY <2>2, <1>6 DEF Serving
  <2> QED BY <2>1, <2>2
<1>10. \A g \in Pushers \ New : Live(g) => NameOf[push[g].pod] \in pods[PusherStore[g]]
  BY DEF MapIsInFlight
<1>11. OnePushPerName'
  <2> SUFFICES ASSUME NEW g \in Pushers, NEW h \in Pushers, g # h, Live(g)', Live(h)',
                      PusherStore[g] = PusherStore[h]
               PROVE  NameOf[push'[g].pod] # NameOf[push'[h].pod]
    BY DEF OnePushPerName
  <2>1. CASE g \in New /\ h \in New
    BY <2>1, <1>2, <1>5 DEF New
  <2>2. CASE g \in New /\ h \notin New
    BY <2>2, <1>2, <1>5, <1>6, <1>10 DEF New
  <2>3. CASE g \notin New /\ h \in New
    BY <2>3, <1>2, <1>5, <1>6, <1>10 DEF New
  <2>4. CASE g \notin New /\ h \notin New
    BY <2>4, <1>6 DEF OnePushPerName
  <2> QED BY <2>1, <2>2, <2>3, <2>4
<1>12. MapIsInFlight'
  <2> SUFFICES ASSUME NEW u \in Stores
               PROVE  pods'[u] = {NameOf[push'[g].pod] :
                                    g \in {h \in Pushers : Live(h)' /\ PusherStore[h] = u}}
    BY DEF MapIsInFlight
  <2>1. pods[u] = {NameOf[push[g].pod] : g \in {h \in Pushers : Live(h) /\ PusherStore[h] = u}}
    BY DEF MapIsInFlight
  <2>2. CASE u # st
    <3>1. pods'[u] = pods[u]
      BY <2>2, <1>1
    <3>2. \A g \in Pushers : PusherStore[g] = u => g \notin New
      BY <2>2, <1>5
    <3> QED BY <2>1, <3>1, <3>2, <1>6
  <2>3. CASE u = st
    <3>1. pods'[u] = pods[u] \cup {NameOf[p] : p \in S}
      BY <2>3, <1>1
    <3>2. ASSUME NEW n \in pods'[u]
          PROVE  \E h \in Pushers : Live(h)' /\ PusherStore[h] = u /\ n = NameOf[push'[h].pod]
      <4>1. CASE n \in pods[u]
        BY <4>1, <2>1, <1>5, <1>6
      <4>2. CASE n \notin pods[u]
        <5>1. PICK p \in S : n = NameOf[p]
          BY <3>1, <4>2
        <5>2. PICK g \in New : NameOf[f[g]] = n
          BY <5>1, <4>2, <2>3, <1>2 DEF New
        <5> QED BY <5>2, <1>5, <2>3
      <4> QED BY <4>1, <4>2
    <3>3. ASSUME NEW h \in Pushers, Live(h)', PusherStore[h] = u
          PROVE  NameOf[push'[h].pod] \in pods'[u]
      <4>1. CASE h \in New
        BY <4>1, <1>5, <3>1
      <4>2. CASE h \notin New
        BY <4>2, <1>6, <2>1, <3>1, <3>3
      <4> QED BY <4>1, <4>2
    <3> QED BY <3>2, <3>3
  <2> QED BY <2>2, <2>3
<1> QED BY <1>7, <1>8, <1>9, <1>11, <1>12

\* A step of a push goroutine that goes on serving its pod, whatever it does
\* to its own record, keeps the part of the invariant on pods and push.
LEMMA MoveKeeps ==
  ASSUME IInv, NEW g \in Pushers, Live(g), NEW r \in Push,
         r.pod = push[g].pod,
         r.pc \in {"post", "sent"} => r.secret \in Secrets,
         r.pc \in {"post", "sent", "leave"},
         r.pc = "post" => r.posts < MaxPosts,
         push' = [push EXCEPT ![g] = r], pods' = pods
  PROVE  /\ pods' \in [Stores -> SUBSET Names]
         /\ push' \in [Pushers -> Push]
         /\ Serving'
         /\ OnePushPerName'
         /\ MapIsInFlight'
<1> USE DEF IInv, TypeOK
<1>1. /\ push'[g] = r
      /\ \A h \in Pushers : h # g => push'[h] = push[h]
  OBVIOUS
<1>2. \A h \in Pushers : (Live(h)' <=> Live(h)) /\ push'[h].pod = push[h].pod
  BY <1>1 DEF Live
<1>3. Serving'
  BY <1>1, <1>2 DEF Serving, Live
<1>4. OnePushPerName'
  BY <1>2 DEF OnePushPerName
<1>5. MapIsInFlight'
  BY <1>2 DEF MapIsInFlight
<1> QED BY <1>3, <1>4, <1>5

\* The deferred function takes away a key that only its goroutine holds.
LEMMA LeaveKeeps ==
  ASSUME IInv, NEW g \in Pushers, Leave(g)
  PROVE  /\ pods' \in [Stores -> SUBSET Names]
         /\ push' \in [Pushers -> Push]
         /\ Serving'
         /\ OnePushPerName'
         /\ MapIsInFlight'
<1> USE PushTableAssumption DEF IInv, TypeOK
<1>1. /\ push[g].pc = "leave"
      /\ pods' = [pods EXCEPT ![PusherStore[g]] = @ \ {NameOf[push[g].pod]}]
      /\ push' = [push EXCEPT ![g] = NoPush]
  BY DEF Leave
<1>2. /\ push'[g] = NoPush
      /\ Live(g)
      /\ ~Live(g)'
      /\ \A h \in Pushers : h # g => push'[h] = push[h] /\ (Live(h)' <=> Live(h))
  BY <1>1 DEF Live, NoPush
<1>3. NoPush \in Push
  BY DEF NoPush, Push
<1>4. pods' \in [Stores -> SUBSET Names] /\ push' \in [Pushers -> Push]
  BY <1>1, <1>3
<1>5. Serving'
  BY <1>2 DEF Serving, NoPush
<1>6. OnePushPerName'
  BY <1>2 DEF OnePushPerName
<1>7. MapIsInFlight'
  <2> SUFFICES ASSUME NEW u \in Stores
               PROVE  pods'[u] = {NameOf[push'[h].pod] :
                                    h \in {k \in Pushers : Live(k)' /\ PusherStore[k] = u}}
    BY DEF MapIsInFlight
  <2>1. pods[u] = {NameOf[push[h].pod] : h \in {k \in Pushers : Live(k) /\ PusherStore[k] = u}}
    BY DEF MapIsInFlight
  <2>2. CASE u # PusherStore[g]
    <3>1. pods'[u] = pods[u]
      BY <2>2, <1>1
    <3> QED BY <2>1, <2>2, <3>1, <1>2
  <2>3. CASE u = PusherStore[g]
    <3>1. pods'[u] = pods[u] \ {NameOf[push[g].pod]}
      BY <2>3, <1>1
    <3>2. \A h \in Pushers : h # g /\ Live(h) /\ PusherStore[h] = u
                               => NameOf[push[h].pod] # NameOf[push[g].pod]
      BY <1>2, <2>3 DEF OnePushPerName
    <3> QED BY <2>1, <3>1, <3>2, <1>2
  <2> QED BY <2>2, <2>3
<1> QED BY <1>4, <1>5, <1>6, <1>7

-----------------------------------------------------------------------------
\* Every step keeps the invariant, action by action.
LEMMA StepIInv == IInv /\ [Next]_tableVars => IInv'
<1> SUFFICES ASSUME IInv, [Next]_tableVars PROVE IInv'
  OBVIOUS
<1> USE PushTableAssumption DEF IInv
<1>1. CASE UNCHANGED tableVars
  BY <1>1 DEF tableVars, TypeOK, Serving, OnePushPerName, MapIsInFlight, Live
<1>2. ASSUME NEW l \in Leaders, LeaderStep(l)
      PROVE  IInv'
  <2>1. ASSUME NEW S \in SUBSET Pods, ListPods(l, S)
        PROVE  IInv'
    BY <2>1 DEF ListPods, TypeOK, Serving, OnePushPerName, MapIsInFlight, Live
  <2>2. CASE TrackListed(l)
    <3>1. LeaderStore[l] \in Stores /\ seen[l] \in SUBSET Pods /\ Track(LeaderStore[l], seen[l])
      BY <2>2 DEF TrackListed, TypeOK
    <3>2. listed' \in [Leaders -> BOOLEAN] /\ seen' \in [Leaders -> SUBSET Pods]
      BY <2>2 DEF TrackListed, TypeOK
    <3> QED BY <3>1, <3>2, TrackKeeps DEF TypeOK
  <2>3. ASSUME NEW p \in Pods, WatchEvent(l, p)
        PROVE  IInv'
    <3>1. LeaderStore[l] \in Stores /\ {p} \in SUBSET Pods /\ Track(LeaderStore[l], {p})
      BY <2>3 DEF WatchEvent
    <3>2. listed' = listed /\ seen' = seen
      BY <2>3 DEF WatchEvent
    <3> QED BY <3>1, <3>2, TrackKeeps DEF TypeOK
  <2> QED BY <1>2, <2>1, <2>2, <2>3 DEF LeaderStep
<1>3. ASSUME NEW g \in Pushers, PusherStep(g)
      PROVE  IInv'
  <2>0. push \in [Pushers -> Push] /\ push[g] \in Push
    BY DEF TypeOK
  <2>1. ASSUME NEW s \in Secrets, GetSecretId(g, s)
        PROVE  IInv'
    <3> DEFINE r == [push[g] EXCEPT !.pc = "post", !.secret = s]
    <3>1. /\ Live(g)
          /\ r \in Push
          /\ r.pc = "post" /\ r.pod = push[g].pod /\ r.secret \in Secrets
          /\ r.posts < MaxPosts
      BY <2>0, <2>1 DEF GetSecretId, Live, Push, Serving
    <3>2. /\ push' = [push EXCEPT ![g] = r]
          /\ pods' = pods /\ listed' = listed /\ seen' = seen
      BY <2>0, <2>1 DEF GetSecretId, Push
    <3> HIDE DEF r
    <3> QED BY <3>1, <3>2, MoveKeeps DEF TypeOK
  <2>2. CASE GetSecretIdFails(g)
    <3> DEFINE r == [push[g] EXCEPT !.pc = "leave"]
    <3>1. Live(g) /\ r \in Push /\ r.pc = "leave" /\ r.pod = push[g].pod
      BY <2>0, <2>2 DEF GetSecretIdFails, Live, Push
    <3>2. /\ push' = [push EXCEPT ![g] = r]
          /\ pods' = pods /\ listed' = listed /\ seen' = seen
      BY <2>0, <2>2 DEF GetSecretIdFails, Push
    <3> HIDE DEF r
    <3> QED BY <3>1, <3>2, MoveKeeps DEF TypeOK
  <2>3. CASE Post(g)
    <3> DEFINE r == [push[g] EXCEPT !.pc = "sent", !.posts = @ + 1]
    <3>1. Live(g) /\ r \in Push /\ r.pc = "sent" /\ r.pod = push[g].pod
      BY <2>0, <2>3 DEF Post, Live, Push, Serving
    <3>2. r.secret \in Secrets
      BY <2>0, <2>3 DEF Post, Push, Serving
    <3>3. /\ push' = [push EXCEPT ![g] = r]
          /\ pods' = pods /\ listed' = listed /\ seen' = seen
      BY <2>0, <2>3 DEF Post, Push
    <3> HIDE DEF r
    <3> QED BY <3>1, <3>2, <3>3, MoveKeeps DEF TypeOK
  <2>4. ASSUME PostOk(g) \/ GiveUp(g)
        PROVE  IInv'
    <3> DEFINE r == [push[g] EXCEPT !.pc = "leave"]
    <3>1. Live(g) /\ r \in Push /\ r.pc = "leave" /\ r.pod = push[g].pod
      BY <2>0, <2>4 DEF PostOk, GiveUp, Live, Push
    <3>2. /\ push' = [push EXCEPT ![g] = r]
          /\ pods' = pods /\ listed' = listed /\ seen' = seen
      BY <2>0, <2>4 DEF PostOk, GiveUp, Push
    <3> HIDE DEF r
    <3> QED BY <3>1, <3>2, MoveKeeps DEF TypeOK
  <2>5. CASE Retry(g)
    <3> DEFINE r == [push[g] EXCEPT !.pc = "post"]
    <3>1. Live(g) /\ r \in Push /\ r.pc = "post" /\ r.pod = push[g].pod /\ r.posts < MaxPosts
      BY <2>0, <2>5 DEF Retry, Live, Push
    <3>2. r.secret \in Secrets
      BY <2>0, <2>5 DEF Retry, Push, Serving
    <3>3. /\ push' = [push EXCEPT ![g] = r]
          /\ pods' = pods /\ listed' = listed /\ seen' = seen
      BY <2>0, <2>5 DEF Retry, Push
    <3> HIDE DEF r
    <3> QED BY <3>1, <3>2, <3>3, MoveKeeps DEF TypeOK
  <2>6. CASE Leave(g)
    <3>1. listed' = listed /\ seen' = seen
      BY <2>6 DEF Leave
    <3> QED BY <2>6, <3>1, LeaveKeeps DEF TypeOK
  <2> QED BY <1>3, <2>1, <2>2, <2>3, <2>4, <2>5, <2>6 DEF PusherStep
<1> QED BY <1>1, <1>2, <1>3 DEF Next

-----------------------------------------------------------------------------
\* The strengthened invariant holds in every behaviour of the Stores.
THEOREM Invariance == Spec => []IInv
<1>1. Init => IInv
  BY InitIInv
<1>2. IInv /\ [Next]_tableVars => IInv'
  BY StepIInv
<1> QED BY <1>1, <1>2, PTL DEF Spec

\* Type correctness of the push table.
THEOREM TypeCorrect == Spec => []TypeOK
<1>1. IInv => TypeOK
  BY DEF IInv
<1> QED BY <1>1, Invariance, PTL

\* However many leader goroutines scan the pods, a Store never serves one
\* pod name twice at the same time.
THEOREM OnePushPerNameHolds == Spec => []OnePushPerName
<1>1. IInv => OnePushPerName
  BY DEF IInv
<1> QED BY <1>1, Invariance, PTL

\* A name is a key of Store.pods exactly while a goroutine serves it: no
\* path out of pushSecretIdToPod leaks a key.
THEOREM MapIsInFlightHolds == Spec => []MapIsInFlight
<1>1. IInv => MapIsInFlight
  BY DEF IInv
<1> QED BY <1>1, Invariance, PTL

-----------------------------------------------------------------------------
(***************************************************************************)
(* A push comes nearer its end with each of its steps.                     *)
(***************************************************************************)

\* The critical section of the leader goroutines leaves a running push alone.
LEMMA TrackSparesLive ==
  ASSUME NEW st, NEW S, Track(st, S), NEW g \in Pushers, Live(g)
  PROVE  push'[g] = push[g]
<1>1. g \notin Idle(st)
  BY DEF Idle
<1> QED BY <1>1 DEF Track

\* Only a step of the goroutine itself changes the record of a running push,
\* and that step shortens what is left of it.
LEMMA StepShortens ==
  ASSUME IInv, [Next]_tableVars, NEW g \in Pushers, Live(g), push'[g] # push[g]
  PROVE  /\ StepsLeft(push'[g]) < StepsLeft(push[g])
         /\ push'[g].pod \in {push[g].pod, NoPod}
<1> USE PushTableAssumption
<1>1. /\ push \in [Pushers -> Push]
      /\ push[g].pc \in {"request", "post", "sent", "leave"}
      /\ push[g].posts \in 0..MaxPosts
      /\ push[g].pc = "request" => push[g].posts = 0
      /\ push[g].pc = "post" => push[g].posts < MaxPosts
  BY DEF IInv, TypeOK, Serving, Live, Push
<1>2. ~UNCHANGED tableVars
  BY DEF tableVars
<1>3. ~\E l \in Leaders : LeaderStep(l)
  BY TrackSparesLive DEF LeaderStep, ListPods, TrackListed, WatchEvent
<1>4. PICK h \in Pushers : PusherStep(h)
  BY <1>2, <1>3 DEF Next
<1>5. h = g
  BY <1>1, <1>4 DEF PusherStep, GetSecretId, GetSecretIdFails, Post, PostOk, Retry, GiveUp, Leave
<1>6. ASSUME NEW s \in Secrets, GetSecretId(g, s)
      PROVE  /\ push'[g].pod = push[g].pod
             /\ StepsLeft(push[g]) = 2 * MaxPosts + 2
             /\ StepsLeft(push'[g]) = 2 * MaxPosts + 1
  BY <1>1, <1>6 DEF GetSecretId, StepsLeft, Push
<1>7. CASE GetSecretIdFails(g) \/ PostOk(g) \/ GiveUp(g)
  <2>1. push'[g].pod = push[g].pod /\ push'[g].pc = "leave"
    BY <1>1, <1>7 DEF GetSecretIdFails, PostOk, GiveUp, Push
  <2>2. StepsLeft(push'[g]) = 1
    BY <2>1 DEF StepsLeft
  <2>3. StepsLeft(push[g]) \in Nat /\ StepsLeft(push[g]) >= 2
    <3>1. push[g].pc \in {"request", "sent"} /\ MaxPosts - push[g].posts \in Nat
      BY <1>1, <1>7 DEF GetSecretIdFails, PostOk, GiveUp
    <3>2. CASE push[g].pc = "request"
      BY <3>2 DEF StepsLeft
    <3>3. CASE push[g].pc = "sent"
      <4>1. StepsLeft(push[g]) = 2 * (MaxPosts - push[g].posts) + 2
        BY <3>3 DEF StepsLeft
      <4> QED BY <3>1, <4>1
    <3> QED BY <3>1, <3>2, <3>3
  <2> QED BY <2>1, <2>2, <2>3
<1>8. CASE Post(g)
  <2>1. /\ push'[g].pod = push[g].pod /\ push'[g].pc = "sent" /\ push[g].pc = "post"
        /\ push'[g].posts = push[g].posts + 1
    BY <1>1, <1>8 DEF Post, Push
  <2>2. /\ StepsLeft(push'[g]) = 2 * (MaxPosts - (push[g].posts + 1)) + 2
        /\ StepsLeft(push[g]) = 2 * (MaxPosts - push[g].posts) + 1
    BY <2>1 DEF StepsLeft
  <2> QED BY <1>1, <2>1, <2>2
<1>9. CASE Retry(g)
  <2>1. /\ push'[g].pod = push[g].pod /\ push'[g].pc = "post" /\ push[g].pc = "sent"
        /\ push'[g].posts = push[g].posts
    BY <1>1, <1>9 DEF Retry, Push
  <2>2. /\ StepsLeft(push'[g]) = 2 * (MaxPosts - push[g].posts) + 1
        /\ StepsLeft(push[g]) = 2 * (MaxPosts - push[g].posts) + 2
    BY <2>1 DEF StepsLeft
  <2> QED BY <1>1, <2>1, <2>2
<1>10. CASE Leave(g)
  BY <1>1, <1>10 DEF Leave, NoPush, StepsLeft, Push
<1> QED BY <1>4, <1>5, <1>6, <1>7, <1>8, <1>9, <1>10 DEF PusherStep

\* Every step of a push brings it nearer its end, for one and the same pod:
\* a push takes at most 2 * MaxPosts + 2 steps, whatever Vault and the pod
\* answer and whatever the leader goroutines and the other pushes do.
THEOREM PushShortensHolds == Spec => PushShortens
<1>1. IInv /\ [Next]_tableVars =>
        [\A g \in Pushers :
           Live(g) /\ push'[g] # push[g] =>
             /\ StepsLeft(push'[g]) < StepsLeft(push[g])
             /\ push'[g].pod \in {push[g].pod, NoPod}]_tableVars
  BY StepShortens
<1> QED BY <1>1, Invariance, PTL DEF Spec, PushShortens
=============================================================================
