----------------------------- MODULE LeaderLoop -----------------------------
(***************************************************************************)
(* One controller process: how the event loop of the Store (start) turns   *)
(* raft's leadership into leader goroutines (startLeader), and how it      *)
(* stops them (cmd/controller/cluster/store.go, cmd/controller/root.go).   *)
(*                                                                         *)
(* Raft reports a change of leadership on LeaderCh, an unbuffered channel, *)
(* with a send that does not wait: when the loop is not in its select the  *)
(* report is lost (dropped).  The loop gives every term a new              *)
(* shutdownLeader channel and closes it when the term ends, but never sets *)
(* it back to nil.  A leader goroutine reads s.shutdownLeader each time it *)
(* enters its select: it waits for whatever channel is current then, and   *)
(* not for the one of its own term.  (The read is not synchronised with    *)
(* the loop's write; it is a load of one word on every turn, and an older  *)
(* value it could return is the value of an earlier turn.)                 *)
(***************************************************************************)
EXTENDS Naturals

CONSTANT MaxTerms  \* bound on the elections raft wins here

ASSUME LeaderLoopAssumption == MaxTerms \in Nat \ {0}

VARIABLES
  pc,        \* the loop: "starting" until go s.start() runs
  proc,      \* the process: "up", "signalled" (store.Shutdown), "exited", "panicked"
  isLeader,  \* raft's own view (external)
  term,      \* elections won so far (external, bounded)
  dropped,   \* history: a report on LeaderCh was lost
  channel,   \* s.shutdownLeader: 0 is nil, k the channel made k-th
  closed,    \* channels that are closed
  leader,    \* [Channels -> {"none", "scan", "select", "stopped"}]: the
             \* startLeader goroutine started together with a channel
  waitsFor   \* the channel that goroutine waits for while it is in its select

loopVars == <<pc, proc, isLeader, term, dropped, channel, closed, leader, waitsFor>>

Channels == 1..MaxTerms

TypeOK ==
  /\ pc \in {"starting", "select", "gossip", "elected", "deposed", "stopping", "stopped"}
  /\ proc \in {"up", "signalled", "exited", "panicked"}
  /\ isLeader \in BOOLEAN
  /\ term \in 0..MaxTerms
  /\ dropped \in BOOLEAN
  /\ channel \in 0..MaxTerms
  /\ closed \in SUBSET Channels
  /\ leader \in [Channels -> {"none", "scan", "select", "stopped"}]
  /\ waitsFor \in [Channels -> 0..MaxTerms]

\* NewRaft has been called: raft runs, the loop does not yet.
Init ==
  /\ pc = "starting"
  /\ proc = "up"
  /\ isLeader = FALSE
  /\ term = 0
  /\ dropped = FALSE
  /\ channel = 0
  /\ closed = {}
  /\ leader = [k \in Channels |-> "none"]
  /\ waitsFor = [k \in Channels |-> 0]

Alive == proc \in {"up", "signalled"}
Open == channel # 0 /\ channel \notin closed
Active(k) == leader[k] \in {"scan", "select"}

leaderVars == <<channel, closed, leader, waitsFor>>

-----------------------------------------------------------------------------
(***************************************************************************)
(* Raft (external).                                                        *)
(***************************************************************************)

\* The send on LeaderCh: the loop takes the report only if it waits for it.
Report(case) ==
  /\ pc' = IF pc = "select" THEN case ELSE pc
  /\ dropped' = (dropped \/ pc # "select")

Elected ==
  /\ Alive /\ pc # "stopped"
  /\ ~isLeader
  /\ term < MaxTerms
  /\ isLeader' = TRUE
  /\ term' = term + 1
  /\ Report("elected")
  /\ UNCHANGED <<proc, leaderVars>>

Deposed ==
  /\ Alive
  /\ isLeader
  /\ isLeader' = FALSE
  /\ Report("deposed")
  /\ UNCHANGED <<proc, term, leaderVars>>

-----------------------------------------------------------------------------
(***************************************************************************)
(* The loop.                                                               *)
(***************************************************************************)

\* StartRaft: go s.start().
StartLoop ==
  /\ Alive
  /\ pc = "starting"
  /\ pc' = "select"
  /\ UNCHANGED <<proc, isLeader, term, dropped, leaderVars>>

\* A membership event: handleGossipMembershipChange runs in the loop.
GossipEvent ==
  /\ Alive
  /\ pc = "select"
  /\ pc' = "gossip"
  /\ UNCHANGED <<proc, isLeader, term, dropped, leaderVars>>

GossipHandled ==
  /\ Alive
  /\ pc = "gossip"
  /\ pc' = "select"
  /\ UNCHANGED <<proc, isLeader, term, dropped, leaderVars>>

\* case l := <-LeaderCh(), l true: a new channel, a new goroutine.
StartLeader ==
  /\ Alive
  /\ pc = "elected"
  /\ pc' = "select"
  /\ channel' = channel + 1
  /\ leader' = [leader EXCEPT ![channel + 1] = "scan"]
  /\ UNCHANGED <<proc, isLeader, term, dropped, closed, waitsFor>>

\* close(s.shutdownLeader) if it is not nil: a second close panics.
CloseChannel(next) ==
  IF channel \in closed
  THEN proc' = "panicked" /\ UNCHANGED <<pc, closed>>
  ELSE /\ closed' = closed \cup ({channel} \ {0})
       /\ pc' = next
       /\ UNCHANGED proc

\* Faulty variant: the end of a term is only counted.
StopLeaderForgets ==
  /\ Alive
  /\ pc = "deposed"
  /\ pc' = "select"
  /\ UNCHANGED <<proc, isLeader, term, dropped, leaderVars>>

\* Faulty variant: every report closes the channel of the former term.
StopLeaderTwice ==
  /\ Alive
  /\ pc \in {"elected", "deposed"}
  /\ CloseChannel("select")
  /\ UNCHANGED <<isLeader, term, dropped, channel, leader, waitsFor>>

\* case l := <-LeaderCh(), l false.
StopLeader ==
  /\ Alive
  /\ pc = "deposed"
  /\ CloseChannel("select")
  /\ UNCHANGED <<isLeader, term, dropped, channel, leader, waitsFor>>

\* case <-s.shutdown.
StopLoop ==
  /\ proc = "signalled"
  /\ pc = "select"
  /\ CloseChannel("stopping")
  /\ UNCHANGED <<isLeader, term, dropped, channel, leader, waitsFor>>

\* Raft.Shutdown and gossip.Shutdown, and the loop returns; raft steps down.
LoopReturns ==
  /\ Alive
  /\ pc = "stopping"
  /\ pc' = "stopped"
  /\ isLeader' = FALSE
  /\ dropped' = (dropped \/ isLeader)
  /\ UNCHANGED <<proc, term, leaderVars>>

-----------------------------------------------------------------------------
(***************************************************************************)
(* The leader goroutines.                                                  *)
(***************************************************************************)

\* Faulty variant: the goroutine waits for the channel of its own term.
WaitOwnChannel(k) ==
  /\ Alive
  /\ leader[k] = "scan"
  /\ leader' = [leader EXCEPT ![k] = "select"]
  /\ waitsFor' = [waitsFor EXCEPT ![k] = k]
  /\ UNCHANGED <<pc, proc, isLeader, term, dropped, channel, closed>>

\* getPodsAndPushSecretIds has returned; the select is entered and
\* s.shutdownLeader is read.
EnterSelect(k) ==
  /\ Alive
  /\ leader[k] = "scan"
  /\ leader' = [leader EXCEPT ![k] = "select"]
  /\ waitsFor' = [waitsFor EXCEPT ![k] = channel]
  /\ UNCHANGED <<pc, proc, isLeader, term, dropped, channel, closed>>

\* The tick and the watch case; select is fair to a closed channel only in
\* the long run.
Tick(k) ==
  /\ Alive
  /\ leader[k] = "select"
  /\ leader' = [leader EXCEPT ![k] = "scan"]
  /\ waitsFor' = [waitsFor EXCEPT ![k] = 0]
  /\ UNCHANGED <<pc, proc, isLeader, term, dropped, channel, closed>>

\* case <-s.shutdownLeader.
Quit(k) ==
  /\ Alive
  /\ leader[k] = "select"
  /\ waitsFor[k] \in closed
  /\ leader' = [leader EXCEPT ![k] = "stopped"]
  /\ UNCHANGED <<pc, proc, isLeader, term, dropped, channel, closed, waitsFor>>

-----------------------------------------------------------------------------
(***************************************************************************)
(* The process.                                                            *)
(***************************************************************************)

\* SIGINT or SIGTERM: store.Shutdown closes s.shutdown.  The handler is
\* installed after StartRaft, whose last step is to start the loop's
\* goroutine: the loop may not have run yet.
Signal ==
  /\ proc = "up"
  /\ proc' = "signalled"
  /\ UNCHANGED <<pc, isLeader, term, dropped, leaderVars>>

\* main returns without waiting for the loop.
ProcessExits ==
  /\ proc = "signalled"
  /\ proc' = "exited"
  /\ UNCHANGED <<pc, isLeader, term, dropped, leaderVars>>

-----------------------------------------------------------------------------
LoopStep ==
  \/ StartLoop
  \/ GossipEvent
  \/ GossipHandled
  \/ StartLeader
  \/ StopLeader
  \/ StopLoop
  \/ LoopReturns

LeaderStep(k) ==
  \/ EnterSelect(k)
  \/ Tick(k)
  \/ Quit(k)

Next ==
  \/ Elected
  \/ Deposed
  \/ LoopStep
  \/ \E k \in Channels : LeaderStep(k)
  \/ Signal
  \/ ProcessExits

\* Go schedules every goroutine that can run; the ticker ticks; a select
\* with several ready cases picks one at random, so a closed channel and
\* the shutdown case are taken in the end; main returns after a signal.
LoopFairness ==
  /\ WF_loopVars(StartLoop \/ StartLeader \/ StopLeader \/ LoopReturns)
  /\ SF_loopVars(StopLoop)
  /\ WF_loopVars(ProcessExits)
  /\ \A k \in Channels :
       /\ WF_loopVars(EnterSelect(k) \/ Tick(k))
       /\ SF_loopVars(Quit(k))

\* Raft answers the handler of a membership event (see Membership).
Fairness == LoopFairness /\ WF_loopVars(GossipHandled)

Spec == Init /\ [][Next]_loopVars
FairSpec == Spec /\ Fairness

-----------------------------------------------------------------------------
(***************************************************************************)
(* Properties.                                                             *)
(***************************************************************************)

\* As long as no report of raft was lost, a loop that waits for the next one
\* has an open shutdownLeader channel exactly while raft leads.
ChannelTracksLeadership ==
  pc = "select" /\ ~dropped => (isLeader <=> Open)

\* As long as no report of raft was lost, closing a channel twice can end
\* the process only on its way down, when it has led before and leads no
\* more.
PanicNeedsLossOrShutdown ==
  [][proc' = "panicked" /\ ~dropped => proc = "signalled" /\ ~isLeader]_loopVars

\* A leader goroutine waits for a channel that has been made, and never for
\* one that is neither current nor closed unless a report was lost: nobody
\* would ever close that one.
NoOrphan ==
  \A k \in Channels :
    leader[k] = "select" =>
      /\ waitsFor[k] # 0
      /\ dropped \/ waitsFor[k] = channel \/ waitsFor[k] \in closed

\* As long as no report of raft was lost, a process that no longer leads, or
\* is shutting down, has told every leader goroutine to stop, whichever term
\* it was started for and whichever channel it picked up.
FollowersDoNotLead ==
  ~dropped /\ ((pc = "select" /\ ~isLeader) \/ pc \in {"stopping", "stopped"}) =>
    \A k \in Channels : leader[k] = "select" => waitsFor[k] \in closed

\* Once the current channel is closed every leader goroutine stops, even
\* those of earlier terms whose end was never reported, unless a new term
\* begins or the process ends first.
ClosedStopsLeaders ==
  \A k \in Channels :
    Active(k) /\ channel \in closed ~> ~Active(k) \/ channel \notin closed \/ ~Alive

\* README.md: "if the leader goes down, a follower can take over
\* immediately".  A process that raft elects starts to lead, unless it is
\* deposed or ends first.
ElectedTakesOver == isLeader ~> (\E k \in Channels : Active(k)) \/ ~isLeader \/ ~Alive
=============================================================================
