------------------------- MODULE TrajectoryContracts -------------------------
(***************************************************************************)
(* Paired trajectory contracts (trajectory.py): what makes one valid, how  *)
(* TrajectoryContractRunner judges a sequence policy by a suite of them,   *)
(* and SequenceMutationAnalyser, which runs the suite against the policy   *)
(* and then against each of its mutants.                                   *)
(*                                                                         *)
(* A case is [trace, controls, first, evidence]: the calls, the controls   *)
(* it expects, the position of the first intervention it expects (0 when   *)
(* there is none) and the evidence that must come with it.  A contract is  *)
(* [prohibited, permitted], two cases.                                     *)
(***************************************************************************)
EXTENDS FlowRequirements, PolicyMutants, SequencesExt

VARIABLES
    suite, policy, thresholds,  \* the arguments of the analysis
    mutants,        \* the mutants left to run
    outcomes,       \* [mutant, failed : set of metrics] of those that ran
    analysis        \* "idle", "baseline", "mutants", "refused" or "reported"

arguments == <<suite, policy, thresholds>>
analysisVars == <<arguments, mutants, outcomes, analysis>>

AnalysisInit ==
    /\ suite = {} /\ policy = {} /\ thresholds = << >>
    /\ mutants = {} /\ outcomes = {}
    /\ analysis = "idle"

-----------------------------------------------------------------------------
Upto(trace, n) == SubSeq(trace, 1, n)

FirstIntervention(controls) ==
    LET hits == {n \in DOMAIN controls : controls[n] # "allow"} IN
    IF hits = {} THEN 0 ELSE Min(hits)

ValidCase(case) ==
    /\ case.trace # << >>
    /\ Len(case.controls) = Len(case.trace)
    /\ case.first = FirstIntervention(case.controls)
    /\ case.first \in {0, Len(case.trace)}
    /\ case.evidence # {} => case.first # 0

(* The pair differs: changed_fields must name the differences, not none.   *)
ValidContract(contract) ==
    /\ ValidCase(contract.prohibited) /\ ValidCase(contract.permitted)
    /\ contract.prohibited.first # 0 /\ contract.prohibited.evidence # {}
    /\ contract.permitted.first = 0
    /\ Len(contract.prohibited.trace) = Len(contract.permitted.trace)
    /\ contract.prohibited.trace # contract.permitted.trace

-----------------------------------------------------------------------------
(* The controls the policy gives along a trace, up to its intervention.    *)
Decided(rules, trace) ==
    LET all == [n \in DOMAIN trace |-> Actual(rules, Upto(trace, n))]
        first == FirstIntervention(all)
    IN IF first = 0 THEN all ELSE Upto(all, first)

EvidencedAt(rules, case) ==
    /\ case.first # 0 /\ case.first <= Len(Decided(rules, case.trace))
    /\ case.evidence \subseteq ActualEvidence(rules, Upto(case.trace, case.first))

Result(rules, contract, case) ==
    LET controls == Decided(rules, case.trace) IN
    [contract |-> contract, case |-> case,
     first |-> FirstIntervention(controls),
     correct |-> controls = case.controls,
     complete |-> case.evidence = {} \/ EvidencedAt(rules, case)]

(* Slip: the limit itself is too much.                                     *)
LessThan(percent, bad, all) == Cardinality(bad) * 100 < percent * Cardinality(all)
AtMost(percent, bad, all) == Cardinality(bad) * 100 <= percent * Cardinality(all)

(* The metrics that do not meet their thresholds.                          *)
FailedMetrics(rules, contracts, min) ==
    LET prohibited == {Result(rules, c, c.prohibited) : c \in contracts}
        permitted == {Result(rules, c, c.permitted) : c \in contracts}
        all == prohibited \cup permitted
        evidential == {r \in all : r.case.evidence # {}}
        passing ==
            [exact_control_accuracy |->
                AtLeast(min.control, {r \in all : r.correct}, all),
             unsafe_sequence_prevention |->
                AtLeast(min.prevention, {r \in prohibited : r.first # 0}, prohibited),
             permitted_trajectory_completion |->
                AtLeast(min.completion, {r \in permitted : r.first = 0}, permitted),
             first_intervention_accuracy |->
                AtLeast(min.intervention, {r \in all : r.first = r.case.first}, all),
             evidence_coverage |->
                AtLeast(min.evidence, {r \in evidential : r.complete}, evidential),
             unnecessary_intervention_rate |->
                AtMost(min.unnecessary, {r \in permitted : r.first # 0}, permitted)]
    IN {metric \in DOMAIN passing : ~passing[metric]}

-----------------------------------------------------------------------------
(* SequenceMutationAnalyser.run is called; a suite must not be empty.      *)
Begin(contracts, rules, min) ==
    /\ analysis = "idle"
    /\ contracts # {} /\ \A c \in contracts : ValidContract(c)
    /\ suite' = contracts /\ policy' = rules /\ thresholds' = min
    /\ analysis' = "baseline"
    /\ UNCHANGED <<mutants, outcomes>>

(* The policy itself must pass, and must have a mutant.                    *)
Baseline ==
    /\ analysis = "baseline"
    /\ IF FailedMetrics(policy, suite, thresholds) = {} /\ MutantsOf(policy) # {}
       THEN analysis' = "mutants" /\ mutants' = MutantsOf(policy)
       ELSE analysis' = "refused" /\ UNCHANGED mutants
    /\ UNCHANGED <<arguments, outcomes>>

(* The outcomes do not depend on the order, of which one is chosen.        *)
Try ==
    LET mutant == CHOOSE mutant \in mutants : TRUE IN
    /\ analysis = "mutants" /\ mutants # {}
    /\ outcomes' = outcomes \cup
          {[mutant |-> mutant, failed |-> FailedMetrics(mutant.policy, suite, thresholds)]}
    /\ mutants' = mutants \ {mutant}
    /\ UNCHANGED <<arguments, analysis>>

Conclude ==
    /\ analysis = "mutants" /\ mutants = {}
    /\ analysis' = "reported"
    /\ UNCHANGED <<arguments, mutants, outcomes>>

(* A mutant is killed when the suite does not pass.                        *)
Survivors == {o.mutant : o \in {o \in outcomes : o.failed = {}}}
=============================================================================
