-------------------------- MODULE LeaderLoopProofs --------------------------
(***************************************************************************)
(* Proofs about LeaderLoop, for any number of elections.                   *)
(*                                                                         *)
(* What the loop knows of raft is in the channel it holds: open while it   *)
(* leads.  Agreement says how the two relate at every point of the loop,   *)
(* not only when it waits; Made says which channels and goroutines exist,  *)
(* and that a channel the loop let go of is closed unless a report was     *)
(* lost.                                                                   *)
(***************************************************************************)
EXTENDS LeaderLoop, TLAPS

Agreement ==
  ~dropped =>
    /\ pc = "starting" => ~isLeader /\ channel = 0
    /\ pc \in {"select", "gossip"} => (isLeader <=> Open)
    /\ pc = "elected" => isLeader /\ ~Open
    /\ pc = "deposed" => ~isLeader /\ Open
    /\ pc \in {"stopping", "stopped"} => ~Open

Made ==
  /\ channel <= term
  /\ pc = "elected" => channel < term
  /\ \A j \in closed : j <= channel
  /\ \A k \in Channels :
       /\ leader[k] # "none" => k <= channel
       /\ leader[k] = "select" => waitsFor[k] # 0 /\ waitsFor[k] <= channel
       /\ k < channel => dropped \/ k \in closed

IInv == TypeOK /\ Agreement /\ Made

-----------------------------------------------------------------------------
\* Raft's steps.
LEMMA RaftKeeps == IInv /\ (Elected \/ Deposed) => IInv'
<1> SUFFICES ASSUME IInv, Elected \/ Deposed PROVE IInv'
  OBVIOUS
<1> USE LeaderLoopAssumption DEF IInv, Channels
<1>1. CASE Elected
  <2>1. TypeOK'
    BY <1>1 DEF Elected, Report, leaderVars, TypeOK
  <2>2. Agreement'
    BY <1>1 DEF Elected, Report, leaderVars, TypeOK, Agreement, Open
  <2>3. Made'
    BY <1>1 DEF Elected, Report, leaderVars, TypeOK, Made
  <2> QED BY <2>1, <2>2, <2>3
<1>2. CASE Deposed
  <2>1. TypeOK'
    BY <1>2 DEF Deposed, Report, leaderVars, TypeOK
  <2>2. Agreement'
    BY <1>2 DEF Deposed, Report, leaderVars, TypeOK, Agreement, Open
  <2>3. Made'
    BY <1>2 DEF Deposed, Report, leaderVars, TypeOK, Made
  <2> QED BY <2>1, <2>2, <2>3
<1> QED BY <1>1, <1>2

\* The steps of the loop.
LEMMA LoopKeeps == IInv /\ LoopStep => IInv'
<1> SUFFICES ASSUME IInv, LoopStep PROVE IInv'
  OBVIOUS
<1> USE LeaderLoopAssumption DEF IInv, Channels
<1>1. CASE StartLoop \/ GossipEvent \/ GossipHandled \/ LoopReturns
  <2>1. TypeOK'
    BY <1>1 DEF StartLoop, GossipEvent, GossipHandled, LoopReturns, leaderVars, TypeOK
  <2>2. Agreement'
    BY <1>1
    DEF StartLoop, GossipEvent, GossipHandled, LoopReturns, leaderVars, TypeOK, Agreement, Open
  <2>3. Made'
    BY <1>1 DEF StartLoop, GossipEvent, GossipHandled, LoopReturns, leaderVars, TypeOK, Made
  <2> QED BY <2>1, <2>2, <2>3
<1>2. CASE StartLeader
  <2>1. channel + 1 \in Channels /\ channel < term
    BY <1>2 DEF StartLeader, TypeOK, Made
  <2>2. TypeOK'
    BY <1>2, <2>1 DEF StartLeader, TypeOK
  <2>3. /\ pc = "elected" /\ pc' = "select"
        /\ channel' = channel + 1
        /\ leader' = [leader EXCEPT ![channel + 1] = "scan"]
        /\ UNCHANGED <<isLeader, term, dropped, closed, waitsFor>>
    BY <1>2 DEF StartLeader
  <2>4. channel + 1 \notin closed /\ channel + 1 # 0
    BY <2>1 DEF TypeOK, Made
  <2>5. Agreement'
    BY <2>3, <2>4 DEF Agreement, Open
  <2>6. \A k \in Channels : k < channel' => dropped' \/ k \in closed'
    <3>1. channel = 0 \/ channel \in closed \/ dropped
      BY <2>3 DEF Agreement, Open
    <3> QED BY <2>3, <3>1 DEF TypeOK, Made
  <2>7. \A k \in Channels :
          /\ leader'[k] # "none" => k <= channel'
          /\ leader'[k] = "select" => waitsFor'[k] # 0 /\ waitsFor'[k] <= channel'
    BY <2>1, <2>3 DEF TypeOK, Made
  <2>8. Made'
    BY <2>1, <2>3, <2>6, <2>7 DEF TypeOK, Made
  <2> QED BY <2>2, <2>5, <2>8
<1>3. CASE StopLeader \/ StopLoop
  <2>1. /\ UNCHANGED <<isLeader, term, dropped, channel, leader, waitsFor>>
        /\ \/ proc' = "panicked" /\ pc' = pc /\ closed' = closed
           \/ /\ proc' = proc /\ pc' \in {"select", "stopping"}
              /\ closed' = closed \cup ({channel} \ {0})
    BY <1>3 DEF StopLeader, StopLoop, CloseChannel
  <2>2. {channel} \ {0} \in SUBSET Channels
    BY DEF TypeOK
  <2>3. TypeOK'
    BY <2>1, <2>2 DEF TypeOK
  <2>4. Agreement'
    BY <1>3 DEF StopLeader, StopLoop, CloseChannel, TypeOK, Agreement, Open
  <2>5. \A j \in closed' : j <= channel
    <3>1. channel <= channel
      BY DEF TypeOK
    <3>2. \A j \in closed : j <= channel
      BY DEF Made
    <3> QED BY <2>1, <3>1, <3>2
  <2>6. pc' # "elected" \/ pc' = pc
    BY <2>1
  <2>7. closed \subseteq closed'
    BY <2>1
  <2>8. Made'
    BY <2>1, <2>5, <2>6, <2>7 DEF Made
  <2> QED BY <2>3, <2>4, <2>8
<1> QED BY <1>1, <1>2, <1>3 DEF LoopStep

\* The steps of the leader goroutines.
LEMMA LeadersKeep ==
  ASSUME IInv, NEW k \in Channels, LeaderStep(k)
  PROVE  IInv'
<1> USE LeaderLoopAssumption DEF IInv, Channels
<1>1. /\ UNCHANGED <<pc, proc, isLeader, term, dropped, channel, closed>>
      /\ \E w \in {"scan", "select", "stopped"} : leader' = [leader EXCEPT ![k] = w]
      /\ leader[k] # "none"
  BY DEF LeaderStep, EnterSelect, Tick, Quit
<1>2. channel \in 1..MaxTerms
  BY <1>1 DEF TypeOK, Made
<1>3. waitsFor' \in [Channels -> 0..MaxTerms]
  BY <1>2 DEF LeaderStep, EnterSelect, Tick, Quit, TypeOK
<1>4. TypeOK'
  BY <1>1, <1>3 DEF TypeOK
<1>5. Agreement'
  BY <1>1 DEF Agreement, Open
<1>6. ASSUME NEW j \in Channels
      PROVE  /\ leader'[j] # "none" => j <= channel
             /\ leader'[j] = "select" => waitsFor'[j] # 0 /\ waitsFor'[j] <= channel
  <2>1. leader'[j] # "none" => leader[j] # "none"
    BY <1>1 DEF TypeOK
  <2>2. CASE EnterSelect(k)
    BY <2>1, <2>2, <1>2 DEF EnterSelect, TypeOK, Made
  <2>3. CASE Tick(k)
    BY <2>1, <2>3 DEF Tick, TypeOK, Made
  <2>4. CASE Quit(k)
    BY <2>1, <2>4 DEF Quit, TypeOK, Made
  <2> QED BY <2>2, <2>3, <2>4 DEF LeaderStep
<1>7. Made'
  BY <1>1, <1>6 DEF Made
<1> QED BY <1>4, <1>5, <1>7

\* Every step keeps the invariant.
LEMMA StepIInv == IInv /\ [Next]_loopVars => IInv'
<1>1. IInv /\ UNCHANGED loopVars => IInv'
  BY DEF loopVars, leaderVars, IInv, TypeOK, Agreement, Made, Open
<1>2. IInv /\ (Signal \/ ProcessExits) => IInv'
  BY DEF Signal, ProcessExits, leaderVars, IInv, TypeOK, Agreement, Made, Open
<1> QED BY <1>1, <1>2, RaftKeeps, LoopKeeps, LeadersKeep DEF Next

-----------------------------------------------------------------------------
\* The strengthened invariant holds in every behaviour of the process.
THEOREM Invariance == Spec => []IInv
<1>1. Init => IInv
  <2> USE LeaderLoopAssumption DEF Init, Channels
  <2>1. Init => TypeOK
    <3>1. MaxTerms \in Nat /\ 0 \in 0..MaxTerms
      OBVIOUS
    <3> QED BY <3>1 DEF TypeOK
  <2>2. Init => Agreement
    BY DEF Agreement
  <2>3. Init => Made
    BY DEF Made
  <2> QED BY <2>1, <2>2, <2>3 DEF IInv
<1>2. IInv /\ [Next]_loopVars => IInv'
  BY StepIInv
<1> QED BY <1>1, <1>2, PTL DEF Spec

\* Type correctness of the leader loop.
THEOREM TypeCorrect == Spec => []TypeOK
<1>1. IInv => TypeOK
  BY DEF IInv
<1> QED BY <1>1, Invariance, PTL

\* While no report of raft was lost, the channel of a waiting loop is open
\* exactly while raft leads.
THEOREM ChannelTracksLeadershipHolds == Spec => []ChannelTracksLeadership
<1>1. IInv => ChannelTracksLeadership
  BY DEF IInv, Agreement, ChannelTracksLeadership
<1> QED BY <1>1, Invariance, PTL

\* While no report of raft was lost, no leader goroutine waits for a channel
\* that nobody is going to close.
THEOREM NoOrphanHolds == Spec => []NoOrphan
<1>1. IInv => NoOrphan
  BY DEF IInv, TypeOK, Made, NoOrphan, Channels
<1> QED BY <1>1, Invariance, PTL

\* Without a lost report only a process that is shutting down, and no longer
\* leads, can close a channel twice.
THEOREM PanicNeedsLossOrShutdownHolds == Spec => PanicNeedsLossOrShutdown
<1>1. ASSUME IInv, Next, proc' = "panicked", ~dropped
      PROVE  proc = "signalled" /\ ~isLeader
  <2>1. CASE StopLoop
    <3>1. pc = "select" /\ proc = "signalled" /\ channel \in closed
      BY <1>1, <2>1 DEF StopLoop, CloseChannel
    <3> QED BY <1>1, <3>1 DEF IInv, Agreement, Open
  <2>2. CASE StopLeader
    <3>1. pc = "deposed" /\ channel \in closed
      BY <1>1, <2>2 DEF StopLeader, CloseChannel, Alive
    <3> QED BY <1>1, <3>1 DEF IInv, Agreement, Open
  <2> QED
    BY <1>1, <2>1, <2>2
    DEF Next, LoopStep, LeaderStep, Elected, Deposed, StartLoop, GossipEvent, GossipHandled,
        StartLeader, LoopReturns, EnterSelect, Tick, Quit, Signal, ProcessExits, Alive
<1>2. IInv /\ [Next]_loopVars =>
        [proc' = "panicked" /\ ~dropped => proc = "signalled" /\ ~isLeader]_loopVars
  BY <1>1
<1> QED BY <1>2, Invariance, PTL DEF Spec, PanicNeedsLossOrShutdown

\* While no report of raft was lost, every leader goroutine of a process that
\* no longer leads, or is going down, waits for a closed channel: that of
\* its own term, or of whichever later term was current when it looked.
THEOREM FollowersDoNotLeadHolds == Spec => []FollowersDoNotLead
<1>1. IInv => FollowersDoNotLead
  <2> SUFFICES ASSUME IInv, ~dropped,
                      (pc = "select" /\ ~isLeader) \/ pc \in {"stopping", "stopped"},
                      NEW k \in Channels, leader[k] = "select"
               PROVE  waitsFor[k] \in closed
    BY DEF FollowersDoNotLead
  <2>1. ~Open
    BY DEF IInv, Agreement
  <2>2. waitsFor[k] \in Channels /\ waitsFor[k] <= channel /\ channel \in Nat
    BY LeaderLoopAssumption DEF IInv, TypeOK, Made, Channels
  <2>3. CASE waitsFor[k] = channel
    BY <2>1, <2>2, <2>3, LeaderLoopAssumption DEF Open, Channels
  <2>4. CASE waitsFor[k] # channel
    BY <2>2, <2>4, LeaderLoopAssumption DEF IInv, Made, Channels
  <2> QED BY <2>3, <2>4
<1> QED BY <1>1, Invariance, PTL
=============================================================================
