----------------------------- MODULE CheckInputs -----------------------------
(***************************************************************************)
(* The arguments that the bounded relational checker, its mutation         *)
(* analyser and the policy change checker have in common.                  *)
(***************************************************************************)
EXTENDS FlowRequirements

CONSTANTS
    Policies,       \* the sequence policies that may be checked
    Suites,         \* the requirement suites
    Thresholds,     \* the release thresholds
    Budgets         \* the values of max_decisions

ASSUME InputsAreTyped ==
    /\ \A rules \in Policies : rules \subseteq RuleType(Tools, Effects)
    /\ \A suite \in Suites : suite \subseteq RequirementType /\ IsFiniteSet(suite)
    /\ Thresholds \subseteq ThresholdType
    /\ Budgets \subseteq Nat \ {0}
=============================================================================
