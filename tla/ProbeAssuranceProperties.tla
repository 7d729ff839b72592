----------------------- MODULE ProbeAssuranceProperties -----------------------
(***************************************************************************)
(* What a report without gaps, and the contracts compiled from it, are     *)
(* worth, and the inductive invariant behind it.                           *)
(***************************************************************************)
EXTENDS ProbeAssurance, TraceSearch

(* The properties speak of the traces up to MaxEvents: all that a search   *)
(* of this depth can use.                                                  *)
ASSUME TracesFit == \A l \in Limits : l.trace <= MaxEvents

(* A report that passed compiles: there is a contract, each probe still    *)
(* says what it said, and the constructors accept each contract, so that   *)
(* none of their errors is raised (probe_synthesis.py:886-891,             *)
(* trajectory.py:24-50, 77-116).                                           *)
PassedReportsCompile ==
    outcome = "passed" /\ analysis = "idle" =>
        /\ Contracts # {}
        /\ \A p \in probes : StillHolds(p) /\ ValidContract(Contract(p))

(* A complete report covers every requirement, every source effect and     *)
(* every window above one event, a report with a gap does not, and a       *)
(* search that is cut short gives no report (probe_synthesis.py:601-609,   *)
(* 789-848).                                                               *)
CompleteReportsCover ==
    outcome \in {"passed", "incomplete"} /\ analysis = "idle" =>
        (outcome = "passed" <=> /\ Covers.requirements = ShouldCover.requirements
                                /\ Covers.effects = ShouldCover.effects
                                /\ ShouldCover.windows \subseteq Covers.windows)

(* Each probe takes one condition away and nothing else: its prohibited    *)
(* trace is stopped by its requirement at the last call, its permitted one *)
(* nowhere, though all of the requirement's other effects are within its   *)
(* window there (:502-558).                                                *)
ProbesIsolate ==
    outcome # "searching" /\ analysis = "idle" => \A p \in probes :
        LET others == [p.about EXCEPT !.sources = @ \ {p.effect}] IN
        /\ AllowedUpto(p.prohibited, Len(p.prohibited) - 1)
        /\ p.about \in Matched(requirements, p.prohibited)
        /\ AllowedUpto(p.permitted, Len(p.permitted))
        /\ Sourced(others.sources, Past(p.permitted), others.window)
        /\ p.effect \notin UNION Range(Past(p.permitted))

(* No trace shorter than a source-effect probe is prohibited by its        *)
(* requirement, of all traces and not only of those the search arranges;   *)
(* and every source event is needed, so that the RuntimeError for a        *)
(* redundant one is never raised (:696-714, :752-768).                     *)
ProbesAreShortest ==
    /\ outcome # "searching" /\ analysis = "idle" =>
          \A p \in {p \in probes : p.kind = "source_effect"} :
              \A t \in Trace : Len(t) < Len(p.prohibited) => ~Prohibits(p.about, t)
    /\ \A s \in sources, i \in 1..MaxEvents :
          i \in DOMAIN s => ~(current.sources \subseteq Gathered(RemoveAt(s, i)))

-----------------------------------------------------------------------------
Full == [control |-> 100, prevention |-> 100, completion |-> 100,
         intervention |-> 100, evidence |-> 100, unnecessary |-> 0]

Conforms(rules) ==
    \A t \in Trace : AllowedUpto(t, Len(t) - 1) =>
        /\ Actual(rules, t) = Expected(requirements, t)
        /\ RequiredEvidence(requirements, t) \subseteq ActualEvidence(rules, t)

(* A policy that does what the requirements say is not refused.            *)
ConformingPoliciesPass ==
    analysis = "refused" /\ thresholds = Full => ~Conforms(policy) \/ policy = {}

(* Another requirement of the same control backs each effect of a rule.    *)
Backed(rule) ==
    \A e \in rule.requires : \E q \in requirements :
        /\ RuleOf(q) # rule /\ q.control = rule.control
        /\ q.sinks \cap rule.targets # {} /\ e \in q.sources

(* The causal basis: of the mutants of a policy that has one rule for each *)
(* requirement, those survive that lost one of several targets, or whose   *)
(* rule is backed by another one, never those that dropped an effect.      *)
SurvivorsAreBacked ==
    policy = AsPolicy(requirements) /\ thresholds = Full =>
        \A mutant \in Survivors :
            \/ mutant.mutation = "target_removed"
            \/ mutant.mutation # "required_effect_removed" /\ Backed(mutant.rule)

(* The contracts notice a window that is one event too short.              *)
ContractionIsNoticed ==
    outcome = "passed" /\ analysis = "idle" => \A q \in requirements :
        q.window > 1 /\ ~Backed(RuleOf(q)) =>
            FailedMetrics((AsPolicy(requirements) \ {RuleOf(q)})
                              \cup {[RuleOf(q) EXCEPT !.window = @ - 1]}, Contracts, Full) # {}

-----------------------------------------------------------------------------
(* What the documentation says of the report, and the code does not do.    *)

(* The pairs of traces that share a probe's length, the effect it removes, *)
(* its preference for a replacement that is no sink and its distance; for  *)
(* a history probe, at the oldest event of the window.                     *)
PairsLike(p) ==
    LET pair(t, i, x) == [from |-> Candidate(t, 0), at |-> i, to |-> [t EXCEPT ![i] = x]]
        traces == {t \in Trace : Len(t) = Len(p.prohibited) /\ Prohibits(p.about, t)}
        all == {pair(t, i, x) : t \in traces, i \in 1..(Len(p.prohibited) - 1), x \in 1..Templates}
    IN {other \in all :
          /\ other.to # other.from.trace /\ Permits(other.to)
          /\ Removed(p.about, other) = {p.effect}
          /\ p.kind = "history_window" => AtBoundary(p.about, Age(other.to, other.at))
          /\ Shape(p.about, other) = Shape(p.about, pair(p.prohibited, p.at, p.permitted[p.at]))}

(* minimal_pair_count records how many pairs share these things            *)
(* (docs/PROBE_SYNTHESIS.md:43-46): no more than there are.                *)
PairCountIsReal == \A p \in probes : p.equals <= Cardinality(PairsLike(p))

-----------------------------------------------------------------------------
(* The inductive invariant.                                                *)

InputInv == requirements \in Suites /\ limits \in Limits /\ left \subseteq requirements

InHand == stage \in {"prohibit", "isolate", "history"}

(* The sources of the requirement in hand are all the shortest that cover  *)
(* it, and its candidates are sessions it prohibits.                       *)
WorkInv ==
    /\ stage \in {"begin", "prohibit", "isolate", "history", "over"}
    /\ outcome \in {"searching", "exceeded", "passed", "incomplete"}
    /\ stage = "over" <=> outcome # "searching"
    /\ sources # {} => /\ current \in requirements \ left
                       /\ sources = Covering(current, SearchDepth(current))
    /\ InHand => sources # {}
    /\ stage \in {"begin", "prohibit"} => prohibited = {}
    /\ stage = "history" => current.window # 1
    /\ \A c \in prohibited :
          /\ \E s \in sources, t \in 1..Templates : c = Candidate(Append(s, t), 0)
          /\ Prohibits(current, c.trace)

(* A probe is a prohibited trace and, with another event at one place, a   *)
(* permitted one; all of it is within the window; and the trace of a       *)
(* source-effect probe is as long as the shortest covering sequence asks.  *)
IsContrast(p) ==
    /\ p.prohibited \in Trace /\ p.at \in 1..(Len(p.prohibited) - 1)
    /\ \E x \in 1..Templates :
          x # p.prohibited[p.at] /\ p.permitted = [p.prohibited EXCEPT ![p.at] = x]
    /\ Prohibits(p.about, p.prohibited) /\ Permits(p.permitted)
    /\ p.about.sources \ Gathered(Front(p.permitted)) = {p.effect}
    /\ p.evidence = RequiredEvidence(requirements, p.prohibited)

InWindow(p) == p.about.window = NoWindow \/ Len(p.prohibited) - 1 <= p.about.window

IsShortest(p) ==
    /\ Covering(p.about, SearchDepth(p.about)) # {}
    /\ Len(p.prohibited) = SearchDepth(p.about) + 1

ProbesInv ==
    /\ IsFiniteSet(probes)
    /\ \A p \in probes :
          /\ p.about \in requirements \ left
          /\ IsContrast(p) /\ InWindow(p)
          /\ p.kind = "source_effect" => IsShortest(p)

(* A requirement that is done has a gap exactly if it is not covered.      *)
Noted(q) == \E gap \in gaps : gap.about = q
EffectsCovered(q) ==
    \A e \in q.sources : \E p \in probes :
        p.about = q /\ p.kind = "source_effect" /\ p.effect = e
WindowCovered(q) == \E p \in probes : p.about = q /\ TestsWindow(p)
IsCovered(q) == EffectsCovered(q) /\ (q.window # 1 => WindowCovered(q))

CoverInv ==
    /\ \A gap \in gaps : gap.about \in requirements \ left
    /\ outcome # "exceeded" =>
          \A q \in requirements \ left :
             ~(InHand /\ q = current) => (Noted(q) <=> ~IsCovered(q))
    /\ stage \in {"prohibit", "isolate"} =>
          ~Noted(current) /\ \A p \in probes : p.about # current
    /\ stage = "history" =>
          (Noted(current) <=> ~EffectsCovered(current)) /\ ~WindowCovered(current)
    /\ outcome \in {"passed", "incomplete"} => left = {}
    /\ outcome = "passed" => gaps = {}
    /\ outcome = "incomplete" => gaps # {}

AnalysisInv ==
    /\ analysis \in {"idle", "baseline", "mutants", "refused", "reported"}
    /\ analysis # "idle" => outcome = "passed" /\ suite = Contracts
    /\ analysis = "refused" =>
          FailedMetrics(policy, suite, thresholds) # {} \/ MutantsOf(policy) = {}
    /\ analysis = "idle" => outcomes = {} /\ mutants = {}
    /\ mutants \subseteq MutantsOf(policy)
    /\ \A o \in outcomes :
          /\ o.mutant \in MutantsOf(policy)
          /\ o.failed = FailedMetrics(o.mutant.policy, suite, thresholds)

SynthesisInv == InputInv /\ WorkInv /\ ProbesInv /\ CoverInv
AssuranceInv == SynthesisInv /\ AnalysisInv
=============================================================================
