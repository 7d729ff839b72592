-------------------------- MODULE FlowRequirements --------------------------
(***************************************************************************)
(* What model_checking.py and policy_change.py compute about one trace and *)
(* about a set of decisions: the control a set of flow requirements        *)
(* expects, the control a sequence policy gives, the evidence of both, the *)
(* ways a decision can fail, and the release thresholds.                   *)
(*                                                                         *)
(* A trace is a sequence of invocation templates, which are numbered in    *)
(* the order of their identifiers.  Every template passes the single-call  *)
(* policy (validate_model_suite), so the base control is "allow".          *)
(***************************************************************************)
EXTENDS Integers, Sequences, FiniteSets, SequencePolicy

CONSTANTS
    Tools, Effects,     \* the registry: names and
    EffectsOf,          \* ... the effects a tool declares
    Templates,          \* how many invocation templates there are
    ToolOf,             \* [1..Templates -> Tools]
    MaxEvents           \* max_events, the longest trace

ASSUME SuiteIsTyped ==
    /\ EffectsOf \in [Tools -> SUBSET Effects]
    /\ {Templates, MaxEvents} \subseteq Nat \ {0}
    /\ ToolOf \in [1..Templates -> Tools]

RequirementType ==
    [sinks : SUBSET Tools, sources : SUBSET Effects,
     control : Interventions, window : Nat]

(* The templates' tools and effects cover what the requirements name.      *)
ValidSuite(requirements) ==
    LET tools == {ToolOf[t] : t \in 1..Templates} IN
    /\ requirements # {}
    /\ \A q \in requirements :
          /\ q.sinks \subseteq tools
          /\ q.sources \subseteq UNION {EffectsOf[tool] : tool \in tools}

-----------------------------------------------------------------------------
(* The call a trace ends in, and the effects of the events before it.      *)
Called(trace) == ToolOf[trace[Len(trace)]]
Past(trace) == [i \in 1..(Len(trace) - 1) |-> EffectsOf[ToolOf[trace[i]]]]

(* The evidence for a set of effects: each one's latest visible source.    *)
Evidence(effects, past, window) ==
    {pair \in effects \X Visible(past, window) :
        /\ pair[1] \in past[pair[2]]
        /\ \A j \in Visible(past, window) : pair[1] \in past[j] => j <= pair[2]}

(* SequencePolicy.evaluate on a call the single-call policy allows.        *)
Actual(rules, trace) == EvaluateSequence(rules, Called(trace), Past(trace), "allow")

ActualEvidence(rules, trace) ==
    UNION {Evidence(r.requires, Past(trace), r.window) :
        r \in {r \in rules : /\ Matches(r, Called(trace), Past(trace))
                             /\ r.control = Actual(rules, trace)}}

(* evaluate_flow_requirements.                                             *)
Met(requirements, trace) ==
    {q \in requirements : /\ Called(trace) \in q.sinks
                          /\ Sourced(q.sources, Past(trace), q.window)}

Expected(requirements, trace) ==
    LET met == Met(requirements, trace) IN
    IF met = {} THEN "allow"
    ELSE IF \E q \in met : q.control = "deny" THEN "deny" ELSE "require_approval"

Matched(requirements, trace) ==
    {q \in Met(requirements, trace) : q.control = Expected(requirements, trace)}

RequiredEvidence(requirements, trace) ==
    UNION {Evidence(q.sources, Past(trace), q.window) : q \in Matched(requirements, trace)}

(* CheckedDecision.                                                        *)
Checked(rules, requirements, trace) ==
    [trace |-> trace,
     expected |-> Expected(requirements, trace),
     matched |-> Matched(requirements, trace),
     required |-> RequiredEvidence(requirements, trace),
     actual |-> Actual(rules, trace),
     evidence |-> ActualEvidence(rules, trace)]

(* Both searches begin with every template in turn, and go on with every   *)
(* template after a trace, while it is short enough.                       *)
FirstCalls == [t \in 1..Templates |-> <<t>>]
Extensions(trace) ==
    IF Len(trace) < MaxEvents THEN [t \in 1..Templates |-> Append(trace, t)] ELSE << >>

-----------------------------------------------------------------------------
(* The ways a checked decision fails its requirements.                     *)
EvidenceComplete(d) == d.required \subseteq d.evidence

Failures(d) ==
    {f \in {"availability", "safety", "exact_control", "evidence"} :
        \/ f = "availability" /\ d.expected = "allow" /\ d.actual # "allow"
        \/ f = "safety" /\ d.expected # "allow" /\ d.actual = "allow"
        \/ /\ f = "exact_control"
           /\ "allow" \notin {d.expected, d.actual} /\ d.expected # d.actual
        \/ f = "evidence" /\ d.expected # "allow" /\ ~EvidenceComplete(d)}

(* A witness names the requirement it is about, or none ("permitted-use"). *)
Blamed(d) == IF d.matched = {} THEN {{}} ELSE {{q} : q \in d.matched}
Witnesses(d, failures) ==
    {[property |-> f, about |-> b, trace |-> d.trace] : f \in failures, b \in Blamed(d)}

(* Python's order of tuples and of strings: the first difference decides.  *)
Lexically(t, u) ==
    \E i \in DOMAIN t \cap DOMAIN u : t[i] < u[i] /\ \A j \in 1..(i - 1) : t[j] = u[j]

(* Slip: traces are compared from their first template on, as strings are. *)
BeforeByName(t, u) == Lexically(t, u)
(* Traces are ordered by their length, then by their templates.            *)
Before(t, u) == Len(t) < Len(u) \/ (Len(t) = Len(u) /\ Lexically(t, u))

(* One witness is kept of each property and requirement.                   *)
Shortest(witnesses) ==
    {w \in witnesses : \A v \in witnesses :
        v.property = w.property /\ v.about = w.about => ~Before(v.trace, w.trace)}

-----------------------------------------------------------------------------
(* Traces that differ in one event, before the same last call.             *)
Neighbours(t, u) ==
    /\ Len(t) = Len(u) /\ t[Len(t)] = u[Len(u)]
    /\ Cardinality({i \in DOMAIN t : t[i] # u[i]}) = 1

(* Requirements with a prohibited and a permitted trace next to each other.*)
Covered(decisions, requirements) ==
    {q \in requirements : \E d \in decisions, e \in decisions :
        q \in d.matched /\ e.expected = "allow" /\ Neighbours(d.trace, e.trace)}

(* At least so many hundredths of all are good; of nothing, all are.       *)
AtLeast(percent, good, all) == Cardinality(good) * 100 >= percent * Cardinality(all)

ThresholdType ==
    [{"conformance", "prevention", "retention", "evidence", "boundaries"} -> 0..100]

(* Slip: denials and approvals are not told apart.                         *)
PassesLoosely(min, decisions, requirements) ==
    LET unsafe == {d \in decisions : d.expected # "allow"} IN
    /\ AtLeast(min.prevention, {d \in unsafe : d.actual # "allow"}, unsafe)
    /\ AtLeast(min.retention, {d \in decisions \ unsafe : d.actual = "allow"}, decisions \ unsafe)
    /\ AtLeast(min.evidence, {d \in unsafe : EvidenceComplete(d)}, unsafe)
    /\ AtLeast(min.boundaries, Covered(decisions, requirements), requirements)

(* Every metric of the decisions is at its threshold.                      *)
Passes(min, decisions, requirements) ==
    LET unsafe == {d \in decisions : d.expected # "allow"}
        permitted == decisions \ unsafe
    IN
    /\ AtLeast(min.conformance, {d \in decisions : d.actual = d.expected}, decisions)
    /\ AtLeast(min.prevention, {d \in unsafe : d.actual # "allow"}, unsafe)
    /\ AtLeast(min.retention, {d \in permitted : d.actual = "allow"}, permitted)
    /\ AtLeast(min.evidence, {d \in unsafe : EvidenceComplete(d)}, unsafe)
    /\ AtLeast(min.boundaries, Covered(decisions, requirements), requirements)
=============================================================================
