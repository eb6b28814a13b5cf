-------------------------- MODULE MembershipProofs --------------------------
(***************************************************************************)
(* Proofs about Membership, for any number of processes, events and terms. *)
(*                                                                         *)
(* Every step is a step of LeaderLoop, or none of it, so that what is      *)
(* proved there holds here.  What a leader knows of gossip is in the event *)
(* it works on and in the channel: Truthful says that the last word of     *)
(* these about a process is the truth.  OneAtATime says that the loop does *)
(* not take an event over the one it works on, and NothingToApply that no  *)
(* older peer set can reach a leader.                                      *)
(***************************************************************************)
EXTENDS Membership, LeaderLoopProofs

Says(e) == (e.kind = "join") <=> (e.node \in members)

Truthful ==
  /\ \A i \in DOMAIN events :
       (\A j \in DOMAIN events : j > i => events[j].node # events[i].node) => Says(events[i])
  /\ task # NoTask /\ (\A j \in DOMAIN events : events[j].node # task.event.node)
       => Says(task.event)

OneAtATime == task # NoTask => pc = "gossip"

NothingToApply == isLeader => entries = <<>>

MemberIInv ==
  MemberTypeOK /\ Truthful /\ OneAtATime /\ NothingToApply /\ LeaderFollowsGossip

-----------------------------------------------------------------------------
(***************************************************************************)
(* Membership implements LeaderLoop.                                       *)
(***************************************************************************)

\* The steps of the handler.
LEMMA HandlerIsLoop == HandlerStep => [LoopStep]_loopVars
<1>1. Verify => UNCHANGED loopVars
  BY DEF Verify
<1>2. ChangeAsLeader \/ ChangeAsFollower \/ ChangeFails \/ Dropped => GossipHandled
  BY DEF ChangeAsLeader, ChangeAsFollower, ChangeFails, Dropped, Done
<1> QED BY <1>1, <1>2 DEF HandlerStep, LoopStep

\* Each step is one of LeaderLoop or leaves its variables alone.
LEMMA StepIsLoop == [MemberNext]_memberVars => [Next]_loopVars
<1>1. UNCHANGED memberVars => UNCHANGED loopVars
  BY DEF memberVars
<1>2. (\E e \in Events : Gossip(e)) \/ Replicate \/ ApplyEntry => UNCHANGED loopVars
  BY DEF Gossip, Replicate, ApplyEntry
<1>3. Win \/ Lose => Next
  BY DEF Win, Lose, Next
<1>4. TakeEvent \/ DropEvent => Next
  BY DEF TakeEvent, DropEvent, Next, LoopStep
<1>5. HandlerStep => [Next]_loopVars
  BY HandlerIsLoop DEF Next
<1>6. LoopReturns => Next
  BY DEF Next, LoopStep
<1>7. Rest => Next
  BY DEF Rest, Next, LoopStep
<1> QED BY <1>1, <1>2, <1>3, <1>4, <1>5, <1>6, <1>7 DEF MemberNext

\* Handling events of gossip the way the code does is an implementation of
\* the loop that LeaderLoop describes.
THEOREM ImplementsLeaderLoop == MemberSpec => Spec
<1>1. MemberInit => Init
  BY DEF MemberInit
<1> QED BY <1>1, StepIsLoop, PTL DEF MemberSpec, Spec

\* Type correctness of the loop, whatever the handler does.
LEMMA LoopTypes == MemberSpec => []TypeOK
  BY ImplementsLeaderLoop, TypeCorrect, PTL

-----------------------------------------------------------------------------
(***************************************************************************)
(* The invariant.                                                          *)
(***************************************************************************)

\* The tail of a channel.
LEMMA Tails ==
  ASSUME NEW S, NEW s \in Seq(S), s # <<>>
  PROVE  /\ Tail(s) \in Seq(S)
         /\ Head(s) = s[1] /\ Head(s) \in S
         /\ 1 \in DOMAIN s
         /\ DOMAIN Tail(s) = 1..(Len(s) - 1)
         /\ \A i \in DOMAIN Tail(s) : i + 1 \in DOMAIN s /\ Tail(s)[i] = s[i + 1]
         /\ \A j \in DOMAIN s : j > 1 => j - 1 \in DOMAIN Tail(s) /\ Tail(s)[j - 1] = s[j]
  OBVIOUS

\* A channel and what is put into it.
LEMMA Appends ==
  ASSUME NEW S, NEW s \in Seq(S), NEW e \in S
  PROVE  /\ Append(s, e) \in Seq(S)
         /\ Len(s) \in Nat
         /\ DOMAIN s = 1..Len(s)
         /\ DOMAIN Append(s, e) = 1..(Len(s) + 1)
         /\ Append(s, e)[Len(s) + 1] = e
         /\ \A i \in DOMAIN s : Append(s, e)[i] = s[i]
  OBVIOUS

\* What is true of a channel is true of its tail, and of its head if the tail
\* has nothing more on that process.
LEMMA TailTruthful ==
  ASSUME MemberTypeOK, Truthful, events # <<>>
  PROVE  LET t == Tail(events)
         IN  /\ \A i \in DOMAIN t :
                  (\A j \in DOMAIN t : j > i => t[j].node # t[i].node) => Says(t[i])
             /\ (\A j \in DOMAIN t : t[j].node # Head(events).node) => Says(Head(events))
<1> DEFINE t == Tail(events)
<1>1. events \in Seq(Events)
  BY DEF MemberTypeOK
<1>2. ASSUME NEW i \in DOMAIN t, \A j \in DOMAIN t : j > i => t[j].node # t[i].node
      PROVE  Says(t[i])
  <2>1. i + 1 \in DOMAIN events /\ t[i] = events[i + 1]
    BY <1>1, Tails
  <2>2. ASSUME NEW j \in DOMAIN events, j > i + 1
        PROVE  events[j].node # events[i + 1].node
    <3>1. j \in Nat /\ i \in Nat /\ i >= 1
      BY <1>1, Tails
    <3>2. j - 1 \in DOMAIN t /\ t[j - 1] = events[j] /\ j - 1 > i
      BY <1>1, <2>2, <3>1, Tails
    <3> QED BY <1>2, <2>1, <3>2
  <2> QED BY <2>1, <2>2 DEF Truthful
<1>3. ASSUME \A j \in DOMAIN t : t[j].node # Head(events).node
      PROVE  Says(Head(events))
  <2>1. 1 \in DOMAIN events /\ Head(events) = events[1]
    BY <1>1, Tails
  <2>2. ASSUME NEW j \in DOMAIN events, j > 1 PROVE events[j].node # events[1].node
    BY <1>1, <1>3, <2>1, <2>2, Tails
  <2> QED BY <2>1, <2>2 DEF Truthful
<1> QED BY <1>2, <1>3

-----------------------------------------------------------------------------
\* A member joins or is gone: its last event is now this one.
LEMMA GossipKeeps ==
  ASSUME MemberIInv, TypeOK', NEW e \in Events, Gossip(e)
  PROVE  MemberIInv'
<1> USE DEF MemberIInv
<1>1. /\ (e.kind = "join") <=> (e.node \notin members)
      /\ sent < MaxEvents /\ sent' = sent + 1
      /\ members' = After(members, e)
      /\ events' = Append(events, e)
      /\ backlog' \in {backlog, Append(backlog, e)}
      /\ pc' = pc /\ isLeader' = isLeader
      /\ UNCHANGED <<task, peers, entries, theirs, fate>>
  BY DEF Gossip, loopVars
<1>2. /\ events \in Seq(Events) /\ backlog \in Seq(Events) /\ members \subseteq Others
      /\ e.kind \in {"join", "gone"} /\ e.node \in Others
  BY DEF MemberTypeOK, Events
<1>3. /\ members' \subseteq Others
      /\ (e.kind = "join") <=> (e.node \in members')
      /\ \A m \in Others : m # e.node => (m \in members' <=> m \in members)
  BY <1>1, <1>2 DEF After
<1>4. /\ events' \in Seq(Events) /\ backlog' \in Seq(Events)
      /\ DOMAIN events' = 1..(Len(events) + 1) /\ DOMAIN events = 1..Len(events)
      /\ Len(events) \in Nat
      /\ events'[Len(events) + 1] = e
      /\ \A i \in DOMAIN events : events'[i] = events[i]
  <2>1. backlog' \in Seq(Events)
    BY <1>1, <1>2, Appends
  <2>2. events \in Seq(Events) /\ events' = Append(events, e)
    BY <1>1, <1>2
  <2> QED BY <2>1, <2>2, Appends
<1>5. MemberTypeOK'
  <2>1. sent' \in 0..MaxEvents
    BY <1>1, MembershipAssumption DEF MemberTypeOK
  <2> QED BY <1>1, <1>3, <1>4, <2>1 DEF MemberTypeOK
<1>6. ASSUME NEW d \in Events, d.node # e.node, Says(d) PROVE Says(d)'
  BY <1>3, <1>6 DEF Says, Events
<1>7. Truthful'
  <2>1. ASSUME NEW i \in DOMAIN events',
               \A j \in DOMAIN events' : j > i => events'[j].node # events'[i].node
        PROVE  Says(events[i])'
    <3>1. CASE i = Len(events) + 1
      BY <1>3, <1>4, <3>1 DEF Says
    <3>2. CASE i # Len(events) + 1
      <4>1. i \in DOMAIN events /\ events'[i] = events[i] /\ events[i] \in Events
        BY <1>2, <1>4, <3>2
      <4>2. e.node # events[i].node
        BY <1>4, <2>1, <4>1
      <4>3. Says(events[i])
        BY <1>4, <2>1, <4>1 DEF Truthful
      <4> QED BY <1>6, <4>1, <4>2, <4>3 DEF Says
    <3> QED BY <3>1, <3>2
  <2>2. ASSUME task # NoTask, \A j \in DOMAIN events' : events'[j].node # task.event.node
        PROVE  Says(task.event)'
    <3>1. task.event \in Events
      BY <2>2 DEF MemberTypeOK, Tasks
    <3>2. e.node # task.event.node
      BY <1>4, <2>2
    <3>3. Says(task.event)
      BY <1>4, <2>2 DEF Truthful
    <3> QED BY <1>1, <1>6, <3>1, <3>2, <3>3 DEF Says
  <2> QED BY <1>1, <2>1, <2>2 DEF Truthful, NoTask
<1>8. OneAtATime' /\ NothingToApply'
  BY <1>1 DEF OneAtATime, NothingToApply, NoTask
<1>9. LeaderFollowsGossip'
  <2> SUFFICES ASSUME isLeader, NEW m \in Others, fate[m] = "settled", ~Pending(m)'
               PROVE  m \in peers <=> m \in members'
    BY <1>1 DEF LeaderFollowsGossip
  <2>1. m # e.node
    BY <1>4 DEF Pending
  <2>2. ~Pending(m)
    BY <1>1, <1>4 DEF Pending, NoTask
  <2> QED BY <1>3, <2>1, <2>2 DEF LeaderFollowsGossip
<1> QED BY <1>5, <1>7, <1>8, <1>9

\* Raft and the leader elsewhere.
LEMMA RaftKeepsMembers ==
  ASSUME MemberIInv, TypeOK', Replicate \/ ApplyEntry \/ Win \/ Lose \/ (LoopReturns /\ StepsDown)
  PROVE  MemberIInv'
<1> USE DEF MemberIInv
<1>1. /\ UNCHANGED <<members, sent, events, task>>
      /\ pc = "gossip" => pc' = pc
  BY DEF Replicate, ApplyEntry, Win, Lose, StepsDown, Elected, Deposed, Report, LoopReturns,
         loopVars
<1>2. ASSUME NEW S, NEW e \in Events, S \subseteq Others PROVE After(S, e) \subseteq Others
  BY <1>2 DEF After, Events
<1>3. /\ peers' \subseteq Others /\ theirs' \subseteq Others
      /\ entries' \in Seq(SUBSET Others) /\ backlog' \in Seq(Events)
      /\ fate' \in [Others -> {"open", "settled", "lost"}]
      /\ isLeader' => entries' = <<>>
      /\ isLeader' => \/ fate' = [m \in Others |-> "open"]
                      \/ isLeader /\ UNCHANGED <<fate, peers>>
  <2>1. CASE Replicate
    <3>1. Head(backlog) \in Events /\ Tail(backlog) \in Seq(Events)
      BY <2>1, Tails DEF Replicate, MemberTypeOK
    <3>2. theirs' \subseteq Others
      BY <1>2, <2>1, <3>1 DEF Replicate, MemberTypeOK
    <3>3. entries' \in Seq(SUBSET Others)
      BY <2>1, <3>2 DEF Replicate, MemberTypeOK
    <3> QED BY <2>1, <3>1, <3>2, <3>3 DEF Replicate, MemberTypeOK, loopVars
  <2>2. CASE ApplyEntry
    <3>1. Head(entries) \in SUBSET Others /\ Tail(entries) \in Seq(SUBSET Others)
      BY <2>2, Tails DEF ApplyEntry, MemberTypeOK
    <3> QED BY <2>2, <3>1 DEF ApplyEntry, MemberTypeOK, NothingToApply, loopVars
  <2>3. CASE Win
    BY <2>3 DEF Win, MemberTypeOK
  <2>4. CASE StepsDown /\ ~isLeader'
    <3>1. backlog' \in Seq(Events)
      <4>1. CASE task = NoTask
        BY <2>4, <4>1 DEF StepsDown, MemberTypeOK
      <4>2. CASE task # NoTask
        <5>1. task.event \in Events /\ events \in Seq(Events)
          BY <4>2 DEF MemberTypeOK, Tasks
        <5>2. <<task.event>> \in Seq(Events)
          BY <5>1
        <5>3. <<task.event>> \o events \in Seq(Events)
          BY <5>1, <5>2
        <5> QED BY <2>4, <4>2, <5>3 DEF StepsDown
      <4> QED BY <4>1, <4>2
    <3> QED BY <2>4, <3>1 DEF StepsDown, MemberTypeOK
  <2> QED BY <2>1, <2>2, <2>3, <2>4 DEF Lose, Deposed, LoopReturns
<1>4. MemberTypeOK'
  BY <1>1, <1>3 DEF MemberTypeOK, NoTask, Tasks
<1>5. Truthful'
  BY <1>1 DEF Truthful, Says, NoTask
<1>6. OneAtATime' /\ NothingToApply'
  BY <1>1, <1>3 DEF OneAtATime, NothingToApply, NoTask
<1>7. LeaderFollowsGossip'
  <2> SUFFICES ASSUME isLeader', NEW m \in Others, fate'[m] = "settled", ~Pending(m)'
               PROVE  m \in peers' <=> m \in members'
    BY DEF LeaderFollowsGossip
  <2>1. ~Pending(m)
    BY <1>1 DEF Pending, NoTask
  <2>2. isLeader /\ UNCHANGED <<fate, peers>>
    BY <1>3
  <2> QED BY <1>1, <2>1, <2>2 DEF LeaderFollowsGossip
<1> QED BY <1>4, <1>5, <1>6, <1>7

\* The loop takes an event: its node stays pending, or is lost.
LEMMA TakingKeeps ==
  ASSUME MemberIInv, TypeOK', TakeEvent \/ DropEvent
  PROVE  MemberIInv'
<1> USE DEF MemberIInv
<1>1. /\ events # <<>> /\ events' = Tail(events)
      /\ pc = "select" /\ pc' = "gossip" /\ isLeader' = isLeader
      /\ UNCHANGED <<members, sent, peers, entries, theirs, backlog>>
  BY DEF TakeEvent, DropEvent, GossipEvent
<1>2. task = NoTask
  BY <1>1 DEF OneAtATime
<1>3. /\ events \in Seq(Events) /\ events' \in Seq(Events)
      /\ Head(events) \in Events /\ Head(events) = events[1]
  BY <1>1, Tails DEF MemberTypeOK
<1>4. \/ /\ task' = [stage |-> "verify", event |-> Head(events), known |-> peers,
                    leads |-> FALSE]
         /\ fate' = fate
      \/ task' = NoTask /\ fate' = [fate EXCEPT ![Head(events).node] = "lost"]
  BY DEF TakeEvent, DropEvent
<1>5. MemberTypeOK'
  <2>1. task' \in Tasks
    <3>1. peers \in SUBSET Others
      BY DEF MemberTypeOK
    <3>2. NoTask \in Tasks
      BY DEF Tasks
    <3>3. [stage |-> "verify", event |-> Head(events), known |-> peers, leads |-> FALSE] \in Tasks
      BY <1>3, <3>1 DEF Tasks
    <3> QED BY <1>4, <3>2, <3>3
  <2>2. fate' \in [Others -> {"open", "settled", "lost"}]
    BY <1>4 DEF MemberTypeOK
  <2> QED BY <1>1, <1>3, <2>1, <2>2 DEF MemberTypeOK
<1>6. Truthful'
  <2>1. task' # NoTask => task'.event = Head(events)
    BY <1>4
  <2> QED BY <1>1, <2>1, TailTruthful DEF Truthful, Says
<1>7. OneAtATime' /\ NothingToApply'
  BY <1>1 DEF OneAtATime, NothingToApply
<1>8. LeaderFollowsGossip'
  <2> SUFFICES ASSUME isLeader, NEW m \in Others, fate'[m] = "settled", ~Pending(m)'
               PROVE  m \in peers <=> m \in members
    BY <1>1 DEF LeaderFollowsGossip
  <2>1. Head(events).node # m
    <3>1. CASE task' = NoTask
      BY <1>4, <3>1 DEF MemberTypeOK, NoTask
    <3>2. CASE task' # NoTask
      BY <1>4, <3>2 DEF Pending
    <3> QED BY <3>1, <3>2
  <2>2. fate[m] = "settled"
    BY <1>3, <1>4, <2>1 DEF MemberTypeOK, Events
  <2>3. ~Pending(m)
    <3>1. ASSUME NEW j \in DOMAIN events PROVE events[j].node # m
      <4>1. CASE j > 1
        BY <1>1, <1>3, <4>1, Tails DEF Pending
      <4>2. CASE ~(j > 1)
        <5>1. j = 1
          BY <1>3, <4>2
        <5> QED BY <1>3, <2>1, <5>1
      <4> QED BY <4>1, <4>2
    <3> QED BY <1>2, <3>1 DEF Pending
  <2> QED BY <2>2, <2>3 DEF LeaderFollowsGossip
<1> QED BY <1>5, <1>6, <1>7, <1>8

\* The handler: only a leader's change settles anything.
LEMMA HandlerKeeps ==
  ASSUME MemberIInv, TypeOK', HandlerStep
  PROVE  MemberIInv'
<1> USE DEF MemberIInv
<1>1. CASE Verify
  <2>1. /\ task # NoTask
        /\ task' = [stage |-> "change", event |-> task.event, known |-> task.known,
                    leads |-> isLeader]
        /\ UNCHANGED <<loopVars, members, sent, events, peers, entries, theirs, backlog, fate>>
    BY <1>1 DEF Verify, NoTask
  <2>2. task.event \in Events /\ task.known \in SUBSET Others /\ isLeader \in BOOLEAN
    BY <2>1 DEF MemberTypeOK, TypeOK, Tasks
  <2>3. task' \in Tasks /\ task' # NoTask /\ task'.event = task.event
    BY <2>1, <2>2 DEF Tasks, NoTask
  <2>4. MemberTypeOK'
    BY <2>1, <2>3 DEF MemberTypeOK, loopVars
  <2>5. Truthful'
    BY <2>1, <2>3 DEF Truthful, Says
  <2>6. OneAtATime' /\ NothingToApply'
    BY <2>1 DEF OneAtATime, NothingToApply, loopVars
  <2>7. LeaderFollowsGossip'
    BY <2>1, <2>3 DEF LeaderFollowsGossip, Pending, loopVars
  <2> QED BY <2>4, <2>5, <2>6, <2>7
<1>2. CASE ChangeAsLeader \/ ChangeAsFollower \/ ChangeFails
  <2>1. /\ task # NoTask /\ task' = NoTask
        /\ isLeader' = isLeader
        /\ UNCHANGED <<members, sent, events, entries, theirs, backlog>>
    BY <1>2 DEF ChangeAsLeader, ChangeAsFollower, ChangeFails, Done, GossipHandled, NoTask
  <2>2. task.event \in Events /\ task.known \in SUBSET Others /\ task.event.node \in Others
    BY <2>1 DEF MemberTypeOK, Tasks, Events
  <2>3. \/ /\ peers' = After(peers, task.event)
           /\ fate' = [fate EXCEPT ![task.event.node] = "settled"]
        \/ ~isLeader /\ peers' = After(task.known, task.event) /\ fate' = fate
        \/ peers' = peers /\ fate' = [fate EXCEPT ![task.event.node] = "lost"]
    BY <1>2 DEF ChangeAsLeader, ChangeAsFollower, ChangeFails
  <2>4. ASSUME NEW S, S \subseteq Others
        PROVE  After(S, task.event) \subseteq Others
    BY <2>2, <2>4 DEF After
  <2>5. MemberTypeOK'
    <3>1. peers' \subseteq Others
      BY <2>2, <2>3, <2>4 DEF MemberTypeOK
    <3>2. fate' \in [Others -> {"open", "settled", "lost"}]
      BY <2>3 DEF MemberTypeOK
    <3> QED BY <2>1, <3>1, <3>2 DEF MemberTypeOK, Tasks
  <2>6. Truthful'
    BY <2>1 DEF Truthful, Says
  <2>7. OneAtATime' /\ NothingToApply'
    BY <2>1 DEF OneAtATime, NothingToApply
  <2>8. LeaderFollowsGossip'
    <3> SUFFICES ASSUME isLeader, NEW m \in Others, fate'[m] = "settled", ~Pending(m)'
                 PROVE  m \in peers' <=> m \in members
      BY <2>1 DEF LeaderFollowsGossip
    <3>1. \A j \in DOMAIN events : events[j].node # m
      BY <2>1 DEF Pending
    <3>2. CASE m = task.event.node
      <4>1. Says(task.event)
        BY <2>1, <3>1, <3>2 DEF Truthful
      <4>2. peers' = After(peers, task.event)
        BY <2>3, <3>2 DEF MemberTypeOK
      <4> QED BY <2>2, <3>2, <4>1, <4>2 DEF Says, After, Events
    <3>3. CASE m # task.event.node
      <4>1. fate[m] = "settled" /\ (m \in peers' <=> m \in peers)
        BY <2>2, <2>3, <3>3 DEF MemberTypeOK, After
      <4>2. ~Pending(m)
        BY <3>1, <3>3 DEF Pending
      <4> QED BY <4>1, <4>2 DEF LeaderFollowsGossip
    <3> QED BY <3>2, <3>3
  <2> QED BY <2>5, <2>6, <2>7, <2>8
<1>3. CASE Dropped
  <2>1. isLeader' = isLeader /\ task = NoTask /\ UNCHANGED peerVars
    BY <1>3 DEF Dropped, GossipHandled
  <2> QED
    BY <2>1 DEF peerVars, MemberTypeOK, Truthful, Says, OneAtATime, NothingToApply,
                LeaderFollowsGossip, Pending
<1> QED BY <1>1, <1>2, <1>3 DEF HandlerStep

\* The rest of LeaderLoop does not touch the peers, or leadership, or a
\* handler at work.
LEMMA RestKeeps ==
  ASSUME MemberIInv, TypeOK', Rest
  PROVE  MemberIInv'
<1>1. /\ isLeader' = isLeader
      /\ pc = "gossip" => pc' = pc
      /\ UNCHANGED peerVars
  BY DEF Rest, StartLoop, StartLeader, StopLeader, StopLoop, CloseChannel, LeaderStep,
         EnterSelect, Tick, Quit, Signal, ProcessExits
<1> QED
  BY <1>1 DEF MemberIInv, peerVars, MemberTypeOK, Truthful, Says, OneAtATime, NothingToApply,
              LeaderFollowsGossip, Pending

\* Every step keeps the invariant.
LEMMA StepMemberIInv == MemberIInv /\ TypeOK' /\ [MemberNext]_memberVars => MemberIInv'
<1>1. MemberIInv /\ UNCHANGED memberVars => MemberIInv'
  BY DEF memberVars, loopVars, peerVars, leaderVars, MemberIInv, MemberTypeOK, TypeOK, Truthful,
         Says, OneAtATime, NothingToApply, LeaderFollowsGossip, Pending
<1>2. ASSUME MemberIInv, TypeOK', MemberNext PROVE MemberIInv'
  <2>0. \/ \E e \in Events : Gossip(e)
        \/ Replicate \/ ApplyEntry \/ Win \/ Lose \/ (LoopReturns /\ StepsDown)
        \/ TakeEvent \/ DropEvent
        \/ HandlerStep
        \/ Rest
    BY <1>2 DEF MemberNext
  <2>1. CASE \E e \in Events : Gossip(e)
    BY <1>2, <2>1, GossipKeeps
  <2>2. CASE Replicate \/ ApplyEntry \/ Win \/ Lose \/ (LoopReturns /\ StepsDown)
    BY <1>2, <2>2, RaftKeepsMembers
  <2>3. CASE TakeEvent \/ DropEvent
    BY <1>2, <2>3, TakingKeeps
  <2>4. CASE HandlerStep
    BY <1>2, <2>4, HandlerKeeps
  <2>5. CASE Rest
    BY <1>2, <2>5, RestKeeps
  <2> QED BY <2>0, <2>1, <2>2, <2>3, <2>4, <2>5
<1> QED BY <1>1, <1>2

\* The events of those that joined before the start say so.
LEMMA InitMemberIInv == MemberInit /\ TypeOK => MemberIInv
<1> SUFFICES ASSUME MemberInit, TypeOK PROVE MemberIInv
  OBVIOUS
<1>1. PICK order \in JoinOrders :
        /\ events = [i \in DOMAIN order |-> [kind |-> "join", node |-> order[i]]]
        /\ members = {order[i] : i \in DOMAIN order}
  BY DEF MemberInit
<1>2. order \in Seq(Others)
  BY MembershipAssumption
<1>3. /\ members \subseteq Others
      /\ events \in Seq(Events)
      /\ \A i \in DOMAIN events : events[i].kind = "join" /\ events[i].node \in members
  <2>1. /\ DOMAIN order = 1..Len(order) /\ Len(order) \in Nat
        /\ \A i \in DOMAIN order : order[i] \in Others
    BY <1>2
  <2>2. members \subseteq Others
    BY <1>1, <2>1
  <2>3. \A i \in DOMAIN order : [kind |-> "join", node |-> order[i]] \in Events
    BY <2>1 DEF Events
  <2>4. events \in [1..Len(order) -> Events]
    BY <1>1, <2>1, <2>3
  <2>5. events \in Seq(Events)
    BY <2>1, <2>4
  <2> QED BY <1>1, <2>2, <2>5
<1>4. MemberTypeOK
  <2>1. 0 \in 0..MaxEvents
    BY MembershipAssumption
  <2> QED BY <1>3, <2>1 DEF MemberInit, MemberTypeOK, Tasks
<1>5. Truthful
  BY <1>3 DEF MemberInit, Truthful, Says
<1>6. OneAtATime /\ NothingToApply /\ LeaderFollowsGossip
  BY DEF MemberInit, Init, OneAtATime, NothingToApply, LeaderFollowsGossip
<1> QED BY <1>4, <1>5, <1>6 DEF MemberIInv

\* The strengthened invariant holds in every behaviour.
THEOREM MemberInvariance == MemberSpec => []MemberIInv
<1>1. MemberInit /\ TypeOK => MemberIInv
  BY InitMemberIInv
<1>2. MemberIInv /\ TypeOK' /\ [MemberNext]_memberVars => MemberIInv'
  BY StepMemberIInv
<1> QED BY <1>1, <1>2, LoopTypes, PTL DEF MemberSpec

\* Type correctness of the loop with its membership handler.
THEOREM MemberTypeCorrect == MemberSpec => []MemberTypeOK
<1>1. MemberIInv => MemberTypeOK
  BY DEF MemberIInv
<1> QED BY <1>1, MemberInvariance, PTL

\* What a leader has settled stays settled: the peers of a leader are right
\* about every process whose last event it has handled in its term.
THEOREM LeaderFollowsGossipHolds == MemberSpec => []LeaderFollowsGossip
<1>1. MemberIInv => LeaderFollowsGossip
  BY DEF MemberIInv
<1> QED BY <1>1, MemberInvariance, PTL

\* The channel of a waiting loop tells leadership, membership handler or not.
THEOREM MemberChannelTracksLeadership == MemberSpec => []ChannelTracksLeadership
  BY ImplementsLeaderLoop, ChannelTracksLeadershipHolds, PTL

\* No leader goroutine is orphaned, membership handler or not.
THEOREM MemberNoOrphan == MemberSpec => []NoOrphan
  BY ImplementsLeaderLoop, NoOrphanHolds, PTL

\* Followers have told their leader goroutines to stop, membership handler or
\* not.
THEOREM MemberFollowersDoNotLead == MemberSpec => []FollowersDoNotLead
  BY ImplementsLeaderLoop, FollowersDoNotLeadHolds, PTL

\* A channel is closed twice only after a loss or on the way down, membership
\* handler or not.
THEOREM MemberPanicNeedsLossOrShutdown == MemberSpec => PanicNeedsLossOrShutdown
  BY ImplementsLeaderLoop, PanicNeedsLossOrShutdownHolds, PTL
=============================================================================
