---------------------------- MODULE PolicyChange ----------------------------
(***************************************************************************)
(* PolicyChangeChecker.run (policy_change.py): one search over the traces  *)
(* that the sequence policy in use, or the one proposed in its place, lets *)
(* the gateway reach, and the release decision made of it.                 *)
(*                                                                         *)
(* todo is the queue of traces to be decided, each with the policies that  *)
(* reach it.                                                               *)
(***************************************************************************)
EXTENDS CheckInputs

Sides == {"baseline", "candidate"}

VARIABLES
    policy,                             \* [Sides -> Policies]
    requirements, min, budget,          \* the other arguments of the run
    todo,                               \* the traces left to decide
    decisions,                          \* the decisions made
    outcome,        \* "searching", "exceeded", "passed" or "failed"
    defects,                            \* each policy's own witnesses
    regressions, corrections            \* the witnesses of the change

inputs == <<policy, requirements, min, budget>>
vars == <<inputs, todo, decisions, outcome, defects, regressions, corrections>>

Init ==
    /\ policy \in [Sides -> Policies]
    /\ requirements \in Suites /\ ValidSuite(requirements)
    /\ min \in Thresholds /\ budget \in Budgets
    /\ todo = [t \in 1..Templates |-> [trace |-> FirstCalls[t], reached |-> Sides]]
    /\ decisions = {}
    /\ outcome = "searching"
    /\ defects = [s \in Sides |-> {}]
    /\ regressions = {} /\ corrections = {}

(* PolicyChangeDecision: what each policy does, and which ones reach it.   *)
Compared(item) ==
    [trace |-> item.trace, reached |-> item.reached,
     by |-> [s \in Sides |-> Checked(policy[s], requirements, item.trace)]]

(* Slip: a branch both policies must allow.                                *)
SharedAfter(d) ==
    IF \A s \in d.reached : d.by[s].actual = "allow" THEN d.reached ELSE {}
(* The policies that reach what comes after a decision.                    *)
ReachedAfter(d) == {s \in d.reached : d.by[s].actual = "allow"}

Decide ==
    LET d == Compared(Head(todo))
        next == ReachedAfter(d)
        longer == Extensions(d.trace)
    IN
    /\ outcome = "searching" /\ todo # << >>
    /\ Cardinality(decisions) < budget
    /\ decisions' = decisions \cup {d}
    /\ todo' = IF next = {} THEN Tail(todo)
               ELSE Tail(todo) \o [t \in DOMAIN longer |-> [trace |-> longer[t], reached |-> next]]
    /\ UNCHANGED <<inputs, outcome, defects, regressions, corrections>>

Exceed ==
    /\ outcome = "searching" /\ todo # << >>
    /\ Cardinality(decisions) >= budget
    /\ outcome' = "exceeded"
    /\ UNCHANGED <<inputs, todo, decisions, defects, regressions, corrections>>

-----------------------------------------------------------------------------
(* Slip: only unsafe calls can get worse.                                  *)
RegressedInSafety(b, c) ==
    {f \in Failures(c) \ Failures(b) : b.expected # "allow"}
(* Where both policies reach a decision, what one policy does worse than   *)
(* the other: _regression_properties from the baseline to the candidate,   *)
(* _correction_properties the other way (but see exact control).           *)
Regressed(b, c) ==
    {f \in {"availability", "safety", "exact_control", "evidence"} :
        \/ /\ f = "availability" /\ b.expected = "allow"
           /\ b.actual = "allow" /\ c.actual # "allow"
        \/ /\ f = "safety" /\ b.expected # "allow"
           /\ b.actual # "allow" /\ c.actual = "allow"
        \/ /\ f = "exact_control" /\ b.expected # "allow"
           /\ b.actual = b.expected /\ c.actual \notin {b.expected, "allow"}
        \/ /\ f = "evidence" /\ b.expected # "allow"
           /\ EvidenceComplete(b) /\ ~EvidenceComplete(c)}

Corrected(b, c) ==
    {f \in {"availability", "safety", "exact_control", "evidence"} :
        \/ /\ f = "availability" /\ b.expected = "allow"
           /\ b.actual # "allow" /\ c.actual = "allow"
        \/ /\ f = "safety" /\ b.expected # "allow"
           /\ b.actual = "allow" /\ c.actual # "allow"
        \/ /\ f = "exact_control" /\ b.expected # "allow"
           /\ b.actual # b.expected /\ c.actual = b.expected
        \/ /\ f = "evidence" /\ b.expected # "allow"
           /\ ~EvidenceComplete(b) /\ EvidenceComplete(c)}

(* Slip: nobody asks which policy reaches the decision.                    *)
RegressionsAnywhere(d) ==
    IF d.reached = {"candidate"} THEN Failures(d.by["candidate"])
    ELSE Regressed(d.by["baseline"], d.by["candidate"])
(* Every failure on a path that only the candidate opens is a regression,  *)
(* and one on a path that it closes is a correction.                       *)
RegressionsOf(d) ==
    IF d.reached = {"candidate"} THEN Failures(d.by["candidate"])
    ELSE IF d.reached = Sides THEN Regressed(d.by["baseline"], d.by["candidate"])
    ELSE {}
CorrectionsOf(d) ==
    IF d.reached = {"baseline"} THEN Failures(d.by["baseline"])
    ELSE IF d.reached = Sides THEN Corrected(d.by["baseline"], d.by["candidate"])
    ELSE {}

(* What a policy does on its own paths.                                    *)
OfOwnPaths(s) == {d.by[s] : d \in {d \in decisions : s \in d.reached}}

(* Passing takes full metrics of the candidate and no regression.          *)
Report ==
    LET found(s, failures(_)) ==
            Shortest(UNION {Witnesses(d.by[s], failures(d)) : d \in decisions})
        worse == found("candidate", RegressionsOf)
        passed == worse = {} /\ Passes(min, OfOwnPaths("candidate"), requirements)
    IN
    /\ outcome = "searching" /\ todo = << >>
    /\ defects' = [s \in Sides |-> Shortest(UNION {Witnesses(d, Failures(d)) : d \in OfOwnPaths(s)})]
    /\ regressions' = worse
    /\ corrections' = found("baseline", CorrectionsOf)
    /\ outcome' = IF passed THEN "passed" ELSE "failed"
    /\ UNCHANGED <<inputs, todo, decisions>>

Next == Decide \/ Exceed \/ Report

Spec == Init /\ [][Next]_vars
=============================================================================
