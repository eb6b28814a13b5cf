---------------------------- MODULE MCPushTable ----------------------------
(* Instances of PushTable for TLC. *)
EXTENDS PushTable, TLC

CONSTANTS a, l1, l2, p1, p2, p3, g1, g2, n1, n2

\* p1 and p2 have one name in two namespaces, p3 has a name of its own.
MCNameOf == p1 :> n1 @@ p2 :> n1 @@ p3 :> n2

\* Two leader goroutines of one Store: a leader was elected again before
\* the goroutine of its former term had stopped.
MCLeaderStore == [l \in {l1, l2} |-> a]
MCPusherStore == [g \in {g1, g2} |-> a]
=============================================================================
