--------------------------- MODULE MutationAnalysis ---------------------------
(***************************************************************************)
(* BoundedMutationAnalyser.run (model_checking.py): the bounded check of a *)
(* sequence policy, and if that passes, the same check of each mutant.     *)
(***************************************************************************)
EXTENDS RelationalChecker, PolicyMutants

VARIABLES
    analysis,       \* "idle", "baseline", "mutants", "refused" or "reported"
    mutants,        \* the mutants whose check has not ended
    results         \* [mutant, killed] of the others

mutationVars == <<analysis, mutants, results>>
analysisVars == <<rules, todo, decisions, outcome, counterexamples, covered, mutationVars>>

MutationInit ==
    /\ rules = {} /\ todo = << >> /\ decisions = {}
    /\ outcome = "idle" /\ counterexamples = {} /\ covered = {}
    /\ analysis = "idle" /\ mutants = {} /\ results = {}

(* Slip: decisions of the run before are kept.                             *)
OldDecisions == decisions
NoDecisions == {}
(* A new BoundedRelationalChecker runs, on a policy of the analysis.       *)
Search(policy_) ==
    /\ rules' = policy_
    /\ todo' = FirstCalls /\ decisions' = NoDecisions
    /\ outcome' = "searching" /\ counterexamples' = {} /\ covered' = {}
    /\ UNCHANGED <<requirements, min, budget>>

Analyse(policy_) ==
    /\ analysis = "idle"
    /\ Search(policy_)
    /\ analysis' = "baseline"
    /\ UNCHANGED <<mutants, results>>

Check == Next /\ UNCHANGED mutationVars

(* The mutant being checked; the outcomes do not depend on the order.      *)
First(set) == CHOOSE mutant \in set : TRUE

(* The policy itself must pass.                                            *)
BaselinePasses ==
    /\ analysis = "baseline" /\ outcome = "passed" /\ MutantsOf(rules) # {}
    /\ mutants' = MutantsOf(rules)
    /\ Search(First(mutants').policy)
    /\ analysis' = "mutants"
    /\ UNCHANGED results

(* A ValueError: the baseline fails, or has no mutants, or some check is   *)
(* larger than max_decisions.                                              *)
Refuse ==
    /\ \/ analysis = "baseline" /\ outcome = "failed"
       \/ analysis = "baseline" /\ outcome = "passed" /\ MutantsOf(rules) = {}
       \/ analysis \in {"baseline", "mutants"} /\ outcome = "exceeded"
    /\ analysis' = "refused"
    /\ UNCHANGED <<inputs, todo, decisions, outcome, counterexamples, covered, mutants, results>>

(* A mutant is killed when its check does not pass.                        *)
Judged == [mutant |-> First(mutants), killed |-> outcome # "passed"]

NextMutant ==
    /\ analysis = "mutants" /\ outcome \in {"passed", "failed"}
    /\ results' = results \cup {Judged}
    /\ mutants' = mutants \ {First(mutants)}
    /\ IF mutants' # {}
       THEN Search(First(mutants').policy) /\ UNCHANGED analysis
       ELSE /\ analysis' = "reported"
            /\ UNCHANGED <<inputs, todo, decisions, outcome, counterexamples, covered>>

Analysis == Check \/ BaselinePasses \/ Refuse \/ NextMutant
=============================================================================
