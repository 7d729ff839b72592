-------------------------- MODULE RelationalChecker --------------------------
(***************************************************************************)
(* BoundedRelationalChecker.run (model_checking.py): the breadth-first     *)
(* search over the traces a sequence policy allows, against a set of flow  *)
(* requirements, and the report made of it.                                *)
(*                                                                         *)
(* The code keeps one frontier per depth and extends its traces in order;  *)
(* that is the order of a queue, which todo is: the traces to be decided.  *)
(***************************************************************************)
EXTENDS CheckInputs

VARIABLES
    rules, requirements, min, budget,   \* the arguments of the run
    todo,                               \* the traces left to decide
    decisions,                          \* the decisions made
    outcome,        \* "searching", "exceeded", "passed" or "failed"
    counterexamples, covered            \* the rest of the report

inputs == <<rules, requirements, min, budget>>
vars == <<inputs, todo, decisions, outcome, counterexamples, covered>>

(* A suite that is not valid is refused before the search.                 *)
Init ==
    /\ rules \in Policies /\ requirements \in Suites /\ ValidSuite(requirements)
    /\ min \in Thresholds /\ budget \in Budgets
    /\ todo = FirstCalls
    /\ decisions = {}
    /\ outcome = "searching"
    /\ counterexamples = {} /\ covered = {}

(* Slip: the decision that would exceed the budget is still made.          *)
OverBudget == Cardinality(decisions) > budget
BudgetSpent == Cardinality(decisions) >= budget

(* One decision; a trace that is allowed is extended later.                *)
Decide ==
    LET d == Checked(rules, requirements, Head(todo)) IN
    /\ outcome = "searching" /\ todo # << >>
    /\ ~BudgetSpent
    /\ decisions' = decisions \cup {d}
    /\ todo' = IF d.actual = "allow" THEN Tail(todo) \o Extensions(d.trace) ELSE Tail(todo)
    /\ UNCHANGED <<inputs, outcome, counterexamples, covered>>

(* The search is larger than max_decisions: ValueError, no report.         *)
Exceed ==
    /\ outcome = "searching" /\ todo # << >>
    /\ BudgetSpent
    /\ outcome' = "exceeded"
    /\ UNCHANGED <<inputs, todo, decisions, counterexamples, covered>>

(* _find_boundaries, _find_counterexamples, _calculate_metrics, _passes.   *)
Report ==
    /\ outcome = "searching" /\ todo = << >>
    /\ outcome' = IF Passes(min, decisions, requirements) THEN "passed" ELSE "failed"
    /\ counterexamples' = Shortest(UNION {Witnesses(d, Failures(d)) : d \in decisions})
    /\ covered' = Covered(decisions, requirements)
    /\ UNCHANGED <<inputs, todo, decisions>>

Next == Decide \/ Exceed \/ Report

Spec == Init /\ [][Next]_vars
=============================================================================
