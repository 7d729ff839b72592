----------------------------- MODULE PolicyReview -----------------------------
(***************************************************************************)
(* The review of a proposed sequence policy: a host has the change to it   *)
(* checked (policy_change.py), and then the proposal itself and each of    *)
(* its mutants (model_checking.py), against the same requirements, with    *)
(* the same thresholds and the same budget.                                *)
(***************************************************************************)
EXTENDS MutationAnalysis

CONSTANT Baselines      \* the policies that may be in use

VARIABLES
    policy,                         \* the policy in use and the one proposed
    changeTodo, changeDecisions,    \* the search over both
    verdict,                        \* what the change checker says
    defects, regressions, corrections

changeVars ==
    <<policy, changeTodo, changeDecisions, verdict, defects, regressions, corrections>>
reviewVars == <<changeVars, vars, mutationVars>>

Change == INSTANCE PolicyChange WITH
              todo <- changeTodo, decisions <- changeDecisions, outcome <- verdict

ReviewInit == Change!Init /\ policy["baseline"] \in Baselines /\ MutationInit

CheckChange == Change!Next /\ UNCHANGED analysisVars

(* Whatever the verdict, so that the host sees why.                        *)
AnalyseProposal ==
    verdict # "searching" /\ Analyse(policy["candidate"]) /\ UNCHANGED changeVars

Finished == analysis \in {"refused", "reported"} /\ UNCHANGED reviewVars

ReviewNext ==
    CheckChange \/ AnalyseProposal \/ (Analysis /\ UNCHANGED changeVars) \/ Finished

ReviewSpec == ReviewInit /\ [][ReviewNext]_reviewVars

-----------------------------------------------------------------------------
(* What the search over both policies does to the sessions of one of them. *)
OwnTraces(queue, s) ==
    LET own[n \in 0..Len(queue)] ==
            IF n = 0 THEN << >>
            ELSE IF s \in queue[n].reached THEN Append(own[n - 1], queue[n].trace)
            ELSE own[n - 1]
    IN own[Len(queue)]

SideOutcome(s) ==
    IF verdict \in {"searching", "exceeded"} THEN "searching"
    ELSE IF Passes(min, Change!OfOwnPaths(s), requirements) THEN "passed" ELSE "failed"

SideCovered(s) ==
    IF SideOutcome(s) = "searching" THEN {}
    ELSE Covered(Change!OfOwnPaths(s), requirements)

Alone(s) == INSTANCE RelationalChecker WITH
    rules <- policy[s], todo <- OwnTraces(changeTodo, s),
    decisions <- Change!OfOwnPaths(s), outcome <- SideOutcome(s),
    counterexamples <- defects[s], covered <- SideCovered(s)

(* The change checker sees of each policy what the relational checker      *)
(* would see of it alone: the same traces in the same order, the same      *)
(* decisions, counterexamples and boundaries (policy_change.py:252-348     *)
(* against model_checking.py:247-285), though it follows the other as well.*)
(* In other words it implements the relational checker twice, while it     *)
(* takes steps at all.                                                     *)
EachIsChecked ==
    /\ \A s \in Change!Sides : Alone(s)!Init
    /\ [][\/ UNCHANGED changeVars
          \/ \A s \in Change!Sides : [Alone(s)!Next]_(Alone(s)!vars)]_changeVars
=============================================================================
