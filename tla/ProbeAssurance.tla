---------------------------- MODULE ProbeAssurance ----------------------------
(***************************************************************************)
(* Probes put to use, as docs/PROBE_SYNTHESIS.md shows: the synthesiser's  *)
(* report is compiled into trajectory contracts (build_contracts), and     *)
(* SequenceMutationAnalyser runs them against a sequence policy.           *)
(***************************************************************************)
EXTENDS ProbeSynthesis, TrajectoryContracts

CONSTANTS Policies, Thresholds  \* sequence policies, trajectory thresholds

ASSUME PoliciesAreTyped == \A rules \in Policies : rules \subseteq RuleType(Tools, Effects)

vars == <<synthesisVars, analysisVars>>

Init == SynthesisInit /\ AnalysisInit

(* _controls_for_requests stops at the first intervention.                 *)
ExpectedControls(trace) ==
    LET all == [n \in DOMAIN trace |-> Expected(requirements, Upto(trace, n))]
        first == FirstIntervention(all)
    IN IF first = 0 THEN all ELSE Upto(all, first)

ProhibitedCase(probe) ==
    LET controls == ExpectedControls(probe.prohibited) IN
    [trace |-> probe.prohibited, controls |-> controls, first |-> Len(controls),
     evidence |-> RequiredEvidence(requirements, Upto(probe.prohibited, Len(controls)))]

PermittedCase(probe) ==
    [trace |-> probe.permitted, controls |-> ExpectedControls(probe.permitted),
     first |-> 0, evidence |-> {}]

(* _build_contract refuses a probe that no longer says what it said.       *)
StillHolds(probe) ==
    /\ Last(ProhibitedCase(probe).controls) = probe.about.control
    /\ ProhibitedCase(probe).evidence = probe.evidence
    /\ Range(PermittedCase(probe).controls) = {"allow"}

Contract(probe) ==
    [prohibited |-> ProhibitedCase(probe), permitted |-> PermittedCase(probe),
     about |-> <<probe.about, probe.kind, probe.effect>>]

Contracts == {Contract(probe) : probe \in probes}

(* The policy with one rule for each requirement.                          *)
RuleOf(q) == [targets |-> q.sinks, requires |-> q.sources,
              control |-> q.control, window |-> q.window]
AsPolicy(suite_) == {RuleOf(q) : q \in suite_}

(* Only a report that passed can be compiled.                              *)
Compile ==
    /\ outcome = "passed"
    /\ \A probe \in probes : StillHolds(probe)
    /\ \E rules \in Policies \cup {AsPolicy(requirements)}, min \in Thresholds :
          Begin(Contracts, rules, min)
    /\ UNCHANGED synthesisVars

Analyse == (Baseline \/ Try \/ Conclude) /\ UNCHANGED synthesisVars

Finished ==
    /\ outcome \in {"exceeded", "incomplete"} \/ analysis \in {"refused", "reported"}
    /\ UNCHANGED vars

Next == (Synthesise /\ UNCHANGED analysisVars) \/ Compile \/ Analyse \/ Finished

Spec == Init /\ [][Next]_vars
=============================================================================
