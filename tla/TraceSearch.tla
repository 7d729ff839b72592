----------------------------- MODULE TraceSearch -----------------------------
(***************************************************************************)
(* What the properties of the searches over traces, and the proofs of      *)
(* them, have in common.                                                   *)
(***************************************************************************)
EXTENDS FlowRequirements

(* What a search may decide: a first call, or up to max_events of them.    *)
Trace == UNION {[1..n -> 1..Templates] : n \in 1..MaxEvents}

(* What can be reached goes on from what can be reached.                   *)
PrefixClosed(reach) ==
    /\ reach \subseteq Trace
    /\ \A t \in reach : \A n \in 1..Len(t) : SubSeq(t, 1, n) \in reach

(* The traces before the last event of a trace.                            *)
Parent(t) == SubSeq(t, 1, Len(t) - 1)

(* The search has decided some traces and holds others in its queue, all   *)
(* of them reachable and none of them twice; every trace of several events *)
(* among them continues one that is decided; and every reachable trace is  *)
(* decided, or continues one in the queue.                                 *)
Explores(queue, decided, reach) ==
    /\ queue \in Seq(reach) /\ decided \subseteq reach
    /\ \A i, j \in 1..Len(queue) : queue[i] = queue[j] => i = j
    /\ \A i \in 1..Len(queue) : queue[i] \notin decided
    /\ \A i \in 1..Len(queue) : Len(queue[i]) > 1 => Parent(queue[i]) \in decided
    /\ \A t \in decided : Len(t) > 1 => Parent(t) \in decided
    /\ \A t \in reach : \/ t \in decided
                        \/ \E n \in 1..Len(t), i \in 1..Len(queue) : queue[i] = SubSeq(t, 1, n)
=============================================================================
