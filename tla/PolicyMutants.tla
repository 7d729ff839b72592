---------------------------- MODULE PolicyMutants ----------------------------
(***************************************************************************)
(* generate_sequence_policy_mutants (trajectory.py): the faults that both  *)
(* mutation analysers put into a sequence policy, one at a time.           *)
(***************************************************************************)
EXTENDS SequencePolicy, FiniteSets

(* A mutant with a rule replaced, or removed when nothing replaces it.     *)
Mutant(rules, rule, mutation, replacement) ==
    [rule |-> rule, mutation |-> mutation, policy |-> (rules \ {rule}) \cup replacement]

Shortened(rule) ==
    IF rule.window = NoWindow \/ rule.window > 1 THEN {[rule EXCEPT !.window = 1]} ELSE {}

Weakened(rule) ==
    IF rule.control = "deny" THEN {[rule EXCEPT !.control = "require_approval"]} ELSE {}

(* One of several effects, or one of several targets, is dropped.          *)
Relaxed(rule) ==
    IF Cardinality(rule.requires) > 1
    THEN {[rule EXCEPT !.requires = @ \ {e}] : e \in rule.requires} ELSE {}
Narrowed(rule) ==
    IF Cardinality(rule.targets) > 1
    THEN {[rule EXCEPT !.targets = @ \ {tool}] : tool \in rule.targets} ELSE {}

MutantsOf(rules) == UNION
    {{Mutant(rules, rule, "disabled", {})}
     \cup {Mutant(rules, rule, "control_weakened", {other}) : other \in Weakened(rule)}
     \cup {Mutant(rules, rule, "history_window_reduced", {other}) : other \in Shortened(rule)}
     \cup {Mutant(rules, rule, "required_effect_removed", {other}) : other \in Relaxed(rule)}
     \cup {Mutant(rules, rule, "target_removed", {other}) : other \in Narrowed(rule)}
        : rule \in rules}
=============================================================================
