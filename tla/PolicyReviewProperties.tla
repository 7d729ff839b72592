------------------------ MODULE PolicyReviewProperties ------------------------
(***************************************************************************)
(* What the verdicts of a policy review mean, against what sessions of the *)
(* gateway do, and the inductive invariant behind it.                      *)
(***************************************************************************)
EXTENDS PolicyReview, TraceSearch

Prefixes(trace) == {SubSeq(trace, 1, n) : n \in 1..(Len(trace) - 1)}

(* Traces whose events the policy, or the requirements, let happen, up to  *)
(* a last call that is asked for.                                          *)
Reachable(p) == {t \in Trace : \A u \in Prefixes(t) : Actual(p, u) = "allow"}
Permitted == {t \in Trace : \A u \in Prefixes(t) : Expected(requirements, u) = "allow"}

(* A whole session: a policy allows every one of its events.               *)
Executes(s, trace) == \A u \in Prefixes(trace) \cup {trace} : Actual(policy[s], u) = "allow"

(* What the requirements say, with the evidence they ask for, after every  *)
(* history of events that they permit.                                     *)
Conforms(p) ==
    \A t \in Permitted :
        /\ Actual(p, t) = Expected(requirements, t)
        /\ RequiredEvidence(requirements, t) \subseteq ActualEvidence(p, t)

Full == [metric \in {"conformance", "prevention", "retention", "evidence", "boundaries"} |-> 100]
None == [metric \in DOMAIN Full |-> 0]

ChangeReported == verdict \in {"passed", "failed"} /\ analysis = "idle"
CheckReported == outcome \in {"passed", "failed"}

-----------------------------------------------------------------------------
(* Whatever thresholds were relaxed, a change that passes lets no session  *)
(* run to a call that the requirements prohibit, unless it already could:  *)
(* not even along events that the policy in use denied                     *)
(* (policy_change.py:411-424, docs/POLICY_CHANGE_CHECKING.md:35 and :46).  *)
NoNewHarm ==
    ChangeReported /\ verdict = "passed" =>
        \A t \in Trace :
            Executes("candidate", t) /\ Expected(requirements, t) # "allow"
                => Executes("baseline", t)

(* ... nor does it take away a session that the requirements permit from   *)
(* its first event to its last.                                            *)
NoLostUse ==
    ChangeReported /\ verdict = "passed" =>
        \A t \in Permitted :
            Executes("baseline", t) /\ Expected(requirements, t) = "allow"
                => Executes("candidate", t)

(* At full thresholds the policy to be installed does what the             *)
(* requirements say, whatever the policy in use did.                       *)
CandidateConforms ==
    ChangeReported /\ verdict = "passed" /\ min = Full => Conforms(policy["candidate"])

(* Every regression is a session that the candidate runs up to its last    *)
(* call, where it fails the property named, and is among the candidate's   *)
(* own defects, in that session or a shorter one.  Every correction is one *)
(* that the baseline runs and fails, and that the candidate does not reach *)
(* or does not fail in that way (policy_change.py:406-473).                *)
ChangesAreReal ==
    ChangeReported =>
    /\ \A w \in regressions :
          /\ \A u \in Prefixes(w.trace) : Actual(policy["candidate"], u) = "allow"
          /\ w.property \in Failures(Checked(policy["candidate"], requirements, w.trace))
          /\ \E v \in defects["candidate"] :
                v.property = w.property /\ v.about = w.about /\ Len(v.trace) <= Len(w.trace)
    /\ \A w \in corrections :
          /\ \A u \in Prefixes(w.trace) : Actual(policy["baseline"], u) = "allow"
          /\ Failures(Checked(policy["baseline"], requirements, w.trace)) # {}
          /\ \/ \E u \in Prefixes(w.trace) : Actual(policy["candidate"], u) # "allow"
             \/ w.property \notin Failures(Checked(policy["candidate"], requirements, w.trace))

-----------------------------------------------------------------------------
(* A policy that passes its own check at full thresholds conforms.  The    *)
(* search (model_checking.py:247-273) follows what the policy allows, not  *)
(* what the requirements permit.                                           *)
PassMeansConforms == outcome = "passed" /\ min = Full => Conforms(rules)

(* Every counterexample is a session the gateway can have: the policy      *)
(* allows all of its events but the last.  No shorter session fails the    *)
(* same property of the same requirement, and a report that fails at full  *)
(* thresholds has one, or a requirement without a boundary (:592-633).     *)
FailureIsExplained ==
    CheckReported =>
    /\ \A w \in counterexamples :
          /\ w.trace \in Reachable(rules)
          /\ \A t \in Reachable(rules) :
                LET d == Checked(rules, requirements, t) IN
                w.property \in Failures(d) /\ w.about \in Blamed(d) => Len(w.trace) <= Len(t)
    /\ outcome = "failed" /\ min = Full => counterexamples # {} \/ covered # requirements

(* A report is about every trace the policy lets the gateway reach, and it *)
(* is refused exactly when they are more than max_decisions (:253).        *)
ReportsAreComplete ==
    /\ CheckReported => /\ {d.trace : d \in decisions} = Reachable(rules)
                        /\ Cardinality(Reachable(rules)) <= budget
    /\ outcome = "exceeded" => Cardinality(Reachable(rules)) > budget

(* At full thresholds the mutants that survive are those that still do     *)
(* what the requirements say, and no others: a survivor is an equivalent   *)
(* policy or points at a requirement that is missing (:379-437).           *)
SurvivorsConform ==
    analysis = "reported" /\ min = Full =>
        \A r \in results : r.killed <=> ~Conforms(r.mutant.policy)

-----------------------------------------------------------------------------
(* The inductive invariant.                                                *)

InputInv ==
    /\ requirements \in Suites /\ min \in Thresholds /\ budget \in Budgets

(* The relational checker has decided every trace as its policy and the    *)
(* requirements do, within the budget, and its report is made of all that  *)
(* it can reach.                                                           *)
Searched(queue, made, reach) == Explores(queue, {d.trace : d \in made}, reach)

Faults(made) == UNION {Witnesses(d, Failures(d)) : d \in made}

SearchInv ==
    /\ outcome \in {"idle", "searching", "exceeded", "passed", "failed"}
    /\ outcome # "idle" =>
          /\ \A d \in decisions : d = Checked(rules, requirements, d.trace)
          /\ IsFiniteSet(decisions) /\ Cardinality(decisions) <= budget
          /\ Searched(todo, decisions, Reachable(rules))
    /\ outcome = "exceeded" => todo # << >> /\ Cardinality(decisions) = budget
    /\ CheckReported =>
          /\ todo = << >>
          /\ outcome = "passed" <=> Passes(min, decisions, requirements)
          /\ counterexamples = Shortest(Faults(decisions))
          /\ covered = Covered(decisions, requirements)

(* The change checker explores what either policy reaches, and remembers   *)
(* of each trace which of them does.                                       *)
ReachedBy(t) == {s \in Change!Sides : t \in Reachable(policy[s])}
Seen(t) == Change!Compared([trace |-> t, reached |-> ReachedBy(t)])
ReachedByEither == Reachable(policy["baseline"]) \cup Reachable(policy["candidate"])

Traces(items) == [i \in 1..Len(items) |-> items[i].trace]

Worsened ==
    UNION {Witnesses(d.by["candidate"], Change!RegressionsOf(d)) : d \in changeDecisions}
Improved ==
    UNION {Witnesses(d.by["baseline"], Change!CorrectionsOf(d)) : d \in changeDecisions}

ChangeInv ==
    /\ verdict \in {"searching", "exceeded", "passed", "failed"}
    /\ \A d \in changeDecisions : d = Seen(d.trace)
    /\ IsFiniteSet(changeDecisions)
    /\ changeTodo \in Seq([trace : ReachedByEither, reached : SUBSET Change!Sides])
    /\ \A i \in 1..Len(changeTodo) : changeTodo[i].reached = ReachedBy(changeTodo[i].trace)
    /\ Searched(Traces(changeTodo), changeDecisions, ReachedByEither)
    /\ verdict \in {"passed", "failed"} =>
          /\ changeTodo = << >>
          /\ \A s \in Change!Sides :
                defects[s] = Shortest(Faults(Change!OfOwnPaths(s)))
          /\ regressions = Shortest(Worsened)
          /\ corrections = Shortest(Improved)
          /\ verdict = "passed" <=>
                /\ regressions = {}
                /\ Passes(min, Change!OfOwnPaths("candidate"), requirements)

(* Every requirement has a boundary among the traces that the requirements *)
(* permit: that is what full thresholds ask of a policy that conforms, and *)
(* the policy passed, so that a mutant fails them only by its conduct.     *)
WellBounded ==
    \A q \in requirements : \E t, u \in Permitted :
        q \in Matched(requirements, t) /\ Expected(requirements, u) = "allow" /\ Neighbours(t, u)

AnalysisInv ==
    /\ analysis \in {"idle", "baseline", "mutants", "refused", "reported"}
    /\ analysis = "idle" => outcome = "idle" /\ results = {}
    /\ analysis = "baseline" => outcome # "idle" /\ results = {}
    /\ analysis = "mutants" =>
          /\ outcome # "idle"
          /\ mutants # {} /\ rules = First(mutants).policy
    /\ min = Full /\ analysis \in {"mutants", "reported"} =>
          /\ WellBounded
          /\ \A r \in results : r.killed <=> ~Conforms(r.mutant.policy)

ReviewInv == InputInv /\ SearchInv /\ ChangeInv /\ AnalysisInv
=============================================================================
