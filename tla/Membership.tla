----------------------------- MODULE Membership -----------------------------
(***************************************************************************)
(* How one controller process keeps raft's peers in step with gossip:      *)
(* StartRaft and handleGossipMembershipChange of                           *)
(* cmd/controller/cluster/store.go.                                        *)
(*                                                                         *)
(* Membership refines LeaderLoop: what is one step there (GossipHandled)   *)
(* is the handler here.  The handler reads the peers, asks raft whether    *)
(* this process leads, and then either has raft commit the change, which   *)
(* every process will apply, or overwrites this process's own peers with   *)
(* what it has read, changed.  Meanwhile raft may apply a peer set that    *)
(* another leader has committed, and leadership may come or go.            *)
(*                                                                         *)
(* Raft, gossip and the other processes are external.  At most one other   *)
(* process leads while this one does not (theirs, backlog); it handles the *)
(* same gossip events, at its own pace.                                    *)
(***************************************************************************)
EXTENDS LeaderLoop, Sequences

CONSTANTS
  Others,      \* the other controller processes
  JoinOrders,  \* the orders in which they may have joined before the start
  MaxEvents    \* bound on the gossip events after the start

ASSUME MembershipAssumption ==
  /\ JoinOrders \subseteq Seq(Others)
  /\ MaxEvents \in Nat

VARIABLES
  members,  \* gossip's view: the others that are alive
  sent,     \* how many events gossip has sent since the start (bounded)
  events,   \* the channel of gossip events; its capacity of 16 is out of reach
  task,     \* the event the handler works on, and what it knows by then
  peers,    \* raft's peers without this process: r.peers and the peer store
  entries,  \* peer sets another leader has committed, not yet applied here
  theirs,   \* the peers of the leader elsewhere
  backlog,  \* the events it has not handled
  fate      \* history: what this process has made of an other's last event in
            \* its term: "settled", "lost" or, so far, "open"

peerVars == <<members, sent, events, task, peers, entries, theirs, backlog, fate>>
memberVars == <<loopVars, peerVars>>

\* serf.EventMemberLeave, Failed and Reap are one case of the handler.
Events == [kind : {"join", "gone"}, node : Others]

NoTask == [stage |-> "none"]
Tasks == {NoTask} \cup
  [stage : {"verify", "change"}, event : Events, known : SUBSET Others, leads : BOOLEAN]

MemberTypeOK ==
  /\ TypeOK
  /\ members \in SUBSET Others
  /\ sent \in 0..MaxEvents
  /\ events \in Seq(Events)
  /\ task \in Tasks
  /\ peers \in SUBSET Others
  /\ entries \in Seq(SUBSET Others)
  /\ theirs \in SUBSET Others
  /\ backlog \in Seq(Events)
  /\ fate \in [Others -> {"open", "settled", "lost"}]

\* NewGossip has joined, and a join event of every member is in the channel.
\* StartRaft: SetPeers with what gossip knows, whatever the peer store had.
MemberInit ==
  /\ Init
  /\ \E order \in JoinOrders :
       /\ events = [i \in DOMAIN order |-> [kind |-> "join", node |-> order[i]]]
       /\ members = {order[i] : i \in DOMAIN order}
  /\ sent = 0
  /\ task = NoTask
  /\ peers = members
  /\ entries = <<>>
  /\ theirs = members
  /\ backlog = <<>>
  /\ fate = [m \in Others |-> "open"]

\* AddPeer and AddUniquePeer, RemovePeer and ExcludePeer: the peers after an
\* event.
After(S, e) == IF e.kind = "join" THEN S \cup {e.node} ELSE S \ {e.node}

-----------------------------------------------------------------------------
(***************************************************************************)
(* Gossip and raft (external).                                             *)
(***************************************************************************)

\* A member joins, leaves or fails.
Gossip(e) ==
  /\ Alive /\ pc # "stopped"
  /\ sent < MaxEvents
  /\ (e.kind = "join") <=> (e.node \notin members)
  /\ sent' = sent + 1
  /\ members' = After(members, e)
  /\ events' = Append(events, e)
  /\ backlog' = IF isLeader THEN backlog ELSE Append(backlog, e)
  /\ UNCHANGED <<loopVars, task, peers, entries, theirs, fate>>

\* The leader elsewhere handles its next event, and has a change committed.
Replicate ==
  /\ Alive
  /\ ~isLeader
  /\ backlog # <<>>
  /\ theirs' = After(theirs, Head(backlog))
  /\ backlog' = Tail(backlog)
  /\ entries' = IF theirs' = theirs THEN entries ELSE Append(entries, theirs')
  /\ UNCHANGED <<loopVars, members, sent, events, task, peers, fate>>

\* Raft applies an entry of another leader.
ApplyEntry ==
  /\ Alive
  /\ entries # <<>>
  /\ peers' = Head(entries)
  /\ entries' = Tail(entries)
  /\ UNCHANGED <<loopVars, members, sent, events, task, theirs, backlog, fate>>

\* This process wins an election.  Assumed: it has applied by then what other
\* leaders have committed.
Win ==
  /\ entries = <<>>
  /\ Elected
  /\ theirs' = {}
  /\ backlog' = <<>>
  /\ fate' = [m \in Others |-> "open"]
  /\ UNCHANGED <<members, sent, events, task, peers, entries>>

\* The next leader has the committed peers, and is as far with gossip's
\* events as this process.
StepsDown ==
  /\ theirs' = peers
  /\ backlog' = IF task = NoTask THEN events ELSE <<task.event>> \o events
  /\ fate' = [m \in Others |-> "open"]
  /\ UNCHANGED <<members, sent, events, task, peers, entries>>

Lose == Deposed /\ StepsDown

-----------------------------------------------------------------------------
(***************************************************************************)
(* handleGossipMembershipChange.                                           *)
(***************************************************************************)

\* Faulty variant: the newest event is handled first.
TakeNewest ==
  /\ events # <<>>
  /\ GossipEvent
  /\ events' = SubSeq(events, 1, Len(events) - 1)
  /\ task' = [stage |-> "verify", event |-> events[Len(events)], known |-> peers,
              leads |-> FALSE]
  /\ UNCHANGED <<members, sent, peers, entries, theirs, backlog, fate>>

\* The loop takes an event, and the handler reads the peers.
TakeEvent ==
  /\ events # <<>>
  /\ GossipEvent
  /\ events' = Tail(events)
  /\ task' = [stage |-> "verify", event |-> Head(events), known |-> peers, leads |-> FALSE]
  /\ UNCHANGED <<members, sent, peers, entries, theirs, backlog, fate>>

\* The peer store cannot be read: the event is dropped.
DropEvent ==
  /\ events # <<>>
  /\ GossipEvent
  /\ events' = Tail(events)
  /\ task' = NoTask
  /\ fate' = [fate EXCEPT ![Head(events).node] = "lost"]
  /\ UNCHANGED <<members, sent, peers, entries, theirs, backlog>>

\* VerifyLeader has its answer.
Verify ==
  /\ Alive
  /\ task.stage = "verify"
  /\ task' = [stage |-> "change", event |-> task.event, known |-> task.known,
              leads |-> isLeader]
  /\ UNCHANGED <<loopVars, members, sent, events, peers, entries, theirs, backlog, fate>>

\* The handler has done what it could with the event.
Done ==
  /\ GossipHandled
  /\ task' = NoTask
  /\ UNCHANGED <<members, sent, events, entries, theirs, backlog>>

\* AddPeer and RemovePeer: raft commits the change, or finds that there is
\* nothing to change.
ChangeAsLeader ==
  /\ task.stage = "change" /\ task.leads
  /\ isLeader
  /\ Done
  /\ peers' = After(peers, task.event)
  /\ fate' = [fate EXCEPT ![task.event.node] = "settled"]

\* SetPeers: the peers read before, changed.
ChangeAsFollower ==
  /\ task.stage = "change" /\ ~task.leads
  /\ ~isLeader
  /\ Done
  /\ peers' = After(task.known, task.event)
  /\ UNCHANGED fate

\* Faulty variant: the change is tried until it succeeds.
ChangeFailsRetries ==
  /\ Alive
  /\ task.stage = "change" /\ task.leads # isLeader
  /\ UNCHANGED memberVars

\* Leadership was lost after VerifyLeader (AddPeer and RemovePeer fail) or
\* won after it (SetPeers fails): an error in the log.
ChangeFails ==
  /\ task.stage = "change" /\ task.leads # isLeader
  /\ Done
  /\ fate' = [fate EXCEPT ![task.event.node] = "lost"]
  /\ UNCHANGED peers

\* DropEvent ends here.
Dropped ==
  /\ task = NoTask
  /\ GossipHandled
  /\ UNCHANGED peerVars

-----------------------------------------------------------------------------
HandlerStep ==
  \/ Verify
  \/ ChangeAsLeader
  \/ ChangeAsFollower
  \/ ChangeFails
  \/ Dropped

\* What LeaderLoop has beside gossip and elections.
Rest ==
  /\ \/ StartLoop
     \/ StartLeader
     \/ StopLeader
     \/ StopLoop
     \/ \E k \in Channels : LeaderStep(k)
     \/ Signal
     \/ ProcessExits
  /\ UNCHANGED peerVars

MemberNext ==
  \/ \E e \in Events : Gossip(e)
  \/ Replicate
  \/ ApplyEntry
  \/ Win
  \/ Lose
  \/ TakeEvent
  \/ DropEvent
  \/ HandlerStep
  \/ LoopReturns /\ StepsDown
  \/ Rest

\* As in LeaderLoop; raft answers the handler; and the loop, whose select
\* chooses at random, takes an event in the end.
MemberFairness ==
  /\ LoopFairness
  /\ WF_memberVars(HandlerStep)
  /\ SF_memberVars(TakeEvent \/ DropEvent)

MemberSpec == MemberInit /\ [][MemberNext]_memberVars
MemberFairSpec == MemberSpec /\ MemberFairness

-----------------------------------------------------------------------------
(***************************************************************************)
(* Properties.                                                             *)
(***************************************************************************)

Pending(m) ==
  \/ \E i \in DOMAIN events : events[i].node = m
  \/ task # NoTask /\ task.event.node = m

\* A leader has a member among its peers, and nobody else, if it has handled
\* the last event of that process in its term: stale reads of the peers and
\* the entries of earlier leaders do not matter any more.
LeaderFollowsGossip ==
  isLeader =>
    \A m \in Others : fate[m] = "settled" /\ ~Pending(m) => (m \in peers <=> m \in members)

\* What gossip tells a leader is settled in the end, or lost: the peers could
\* not be read, or the event was taken before the election.  No event of an
\* other keeps the loop, unless leadership or the process ends.
LeaderKeepsUp ==
  \A m \in Others :
    isLeader /\ Pending(m) ~>
      \/ ~Pending(m) /\ fate[m] # "open"
      \/ ~isLeader
      \/ ~Alive
=============================================================================
