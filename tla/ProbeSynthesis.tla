---------------------------- MODULE ProbeSynthesis ----------------------------
(***************************************************************************)
(* RequirementProbeSynthesiser.run (probe_synthesis.py): for each flow     *)
(* requirement, pairs of traces that differ in one event, of which one is  *)
(* prohibited by the requirement and the other is permitted, or gaps that  *)
(* say why there is no such pair.                                          *)
(*                                                                         *)
(* A requirement is done in up to four stages, each after taking what it   *)
(* looks at from the budget of candidates.  The code takes requirements in *)
(* the order of their identifiers, which the model leaves open.            *)
(***************************************************************************)
EXTENDS FlowRequirements, SequencesExt

CONSTANTS
    Suites,     \* the requirement suites
    Limits      \* records [sources, trace, candidates] of max_source_events,
                \* ... max_trace_events and max_candidates

ASSUME LimitsAreValid ==
    Limits \subseteq [sources : Nat \ {0}, trace : Nat \ {0, 1}, candidates : Nat \ {0}]
ASSUME SuitesAreTyped ==
    \A suite \in Suites :
        /\ suite \subseteq RequirementType /\ suite # {} /\ IsFiniteSet(suite)
        /\ \A q \in suite : q.sources # {}
ASSUME EffectsAreFinite == IsFiniteSet(Effects)

VARIABLES
    requirements, limits,   \* the arguments of the run
    left,                   \* the requirements not yet begun
    current, stage,         \* the requirement in hand, and what is next for it
    sources,                \* its minimal source sequences
    prohibited,             \* its prohibited candidates
    probes, gaps,           \* the report, so far
    explored,               \* the candidates taken
    outcome                 \* "searching", "exceeded", "passed" or "incomplete"

inputs == <<requirements, limits>>
work == <<left, current, stage, sources, prohibited>>
report == <<probes, gaps, explored, outcome>>
synthesisVars == <<inputs, work, report>>

NoRequirement == [sinks |-> {}, sources |-> {}, control |-> "deny", window |-> NoWindow]

SynthesisInit ==
    /\ requirements \in Suites /\ limits \in Limits
    /\ left = requirements
    /\ current = NoRequirement /\ stage = "begin"
    /\ sources = {} /\ prohibited = {}
    /\ probes = {} /\ gaps = {} /\ explored = 0
    /\ outcome = "searching"

-----------------------------------------------------------------------------
Emitted(t) == EffectsOf[ToolOf[t]]
Gathered(trace) == UNION {Emitted(trace[i]) : i \in DOMAIN trace}

SourceTemplates(q) == {t \in 1..Templates : Emitted(t) \cap q.sources # {}}
NeutralTemplates(q) == (1..Templates) \ SourceTemplates(q)
SinkTemplates(q) == {t \in 1..Templates : ToolOf[t] \in q.sinks}

(* permutations(source_templates, depth), and those that cover the sources.*)
Arrangements(q, depth) == Injection(1..depth, SourceTemplates(q))
Covering(q, depth) == {s \in Arrangements(q, depth) : q.sources \subseteq Gathered(s)}

DeepestSearch(q) == Min({limits.sources, limits.trace - 1, Cardinality(SourceTemplates(q))})

(* Slip: the search goes as deep as it may.                                *)
SearchDepthMost(q) == DeepestSearch(q)
(* The search stops at the first depth with a covering sequence.           *)
SearchDepth(q) ==
    LET enough == {depth \in 1..DeepestSearch(q) : Covering(q, depth) # {}} IN
    IF enough = {} THEN DeepestSearch(q) ELSE Min(enough)

-----------------------------------------------------------------------------
(* _evaluate_trace stops at the first intervention.                        *)
AllowedUpto(trace, n) ==
    \A k \in 1..n : Expected(requirements, SubSeq(trace, 1, k)) = "allow"
Permits(trace) == AllowedUpto(trace, Len(trace))

(* Slip: what happens before the last call is not looked at.               *)
ProhibitsAtLast(q, trace) ==
    /\ Expected(requirements, trace) = q.control
    /\ q \in Matched(requirements, trace)
Prohibits(q, trace) ==
    /\ AllowedUpto(trace, Len(trace) - 1)
    /\ Expected(requirements, trace) = q.control
    /\ q \in Matched(requirements, trace)

(* A candidate remembers its spacer, since equal traces are kept apart.    *)
Candidate(trace, spacer) == [trace |-> trace, spacer |-> spacer]

(* Slip: what the sink emits counts as well.                               *)
RemovedFromAll(q, pair) == q.sources \ Gathered(pair.to)
(* The required effects that are gone from all the events before the sink  *)
(* when an event is replaced.                                              *)
Removed(q, pair) == q.sources \ Gathered(Front(pair.to))

(* _contrast_pairs: one of the first k events is replaced.                 *)
Pairs(q, candidates, k) ==
    LET replaced(c, i) == {[from |-> c, at |-> i, to |-> [c.trace EXCEPT ![i] = t]] :
                              t \in (1..Templates) \ {c.trace[i]}}
        all == UNION {replaced(c, i) : c \in candidates, i \in 1..k}
    IN {pair \in all : Permits(pair.to) /\ Removed(q, pair) # {}}

PairCost(candidates, k) == Cardinality(candidates) * k * (Templates - 1)

(* _pair_shape and _pair_sort_key, least first.                            *)
Shape(q, pair) ==
    LET old == pair.from.trace[pair.at]
        new == pair.to[pair.at]
        toSink == \E other \in requirements : ToolOf[new] \in other.sinks
    IN <<Len(pair.to), Cardinality(Removed(q, pair)), IF toSink THEN 1 ELSE 0,
         Cardinality(SymDiff(Emitted(old), Emitted(new)))>>

SortKey(q, pair) == Shape(q, pair) \o pair.from.trace \o pair.to \o <<pair.at>>

Best(q, pairs) ==
    CHOOSE pair \in pairs :
        \A other \in pairs : ~Lexically(SortKey(q, other), SortKey(q, pair))

Age(trace, at) == Len(trace) - at

(* Slips: an unbounded window's event may be the latest; one event inside  *)
(* a window's end will do.                                                 *)
AtAnyAge(q, age) == IF q.window = NoWindow THEN age >= 1 ELSE age = q.window
AtBoundaryEarly(q, age) ==
    IF q.window = NoWindow THEN age >= 2 ELSE age \in {q.window - 1, q.window}
(* The changed event is the oldest a window lets see; without a window, it *)
(* is not the latest.                                                      *)
AtBoundary(q, age) == IF q.window = NoWindow THEN age >= 2 ELSE age = q.window

Probe(q, kind, effect, pairs) ==
    LET best == Best(q, pairs) IN
    [about |-> q, kind |-> kind, effect |-> effect,
     prohibited |-> best.from.trace, permitted |-> best.to, at |-> best.at,
     evidence |-> RequiredEvidence(requirements, best.from.trace),
     equals |-> Cardinality({pair \in pairs : Shape(q, pair) = Shape(q, best)})]

TestsWindow(probe) == AtBoundary(probe.about, Age(probe.prohibited, probe.at))

-----------------------------------------------------------------------------
TooMany(n) == explored + n > limits.candidates
Spends(n) == ~TooMany(n) /\ explored' = explored + n

Gap(q, codes) == gaps' = gaps \cup {[about |-> q, code |-> code] : code \in codes}

(* The requirement in hand is done; the next begins with nothing found.    *)
Done == stage' = "begin" /\ sources' = {} /\ prohibited' = {}

SearchCost(q) ==
    SumFunction([depth \in 1..SearchDepth(q) |-> Cardinality(Arrangements(q, depth))])

(* An effect that no template emits, or no template for a sink.            *)
Unanswerable(q) ==
    IF ~(q.sources \subseteq UNION {Emitted(t) : t \in SourceTemplates(q)})
    THEN {"missing_source_effect"}
    ELSE IF SinkTemplates(q) = {} THEN {"missing_sink_template"} ELSE {}

GiveUp(q) ==
    /\ stage = "begin" /\ q \in left /\ Unanswerable(q) # {}
    /\ left' = left \ {q}
    /\ Gap(q, Unanswerable(q))
    /\ UNCHANGED <<inputs, current, stage, sources, prohibited, probes, explored, outcome>>

(* _minimal_source_sequences.                                              *)
FindSources(q) ==
    LET found == Covering(q, SearchDepth(q)) IN
    /\ stage = "begin" /\ q \in left /\ Unanswerable(q) = {}
    /\ Spends(SearchCost(q))
    /\ left' = left \ {q} /\ current' = q
    /\ IF found # {}
       THEN stage' = "prohibit" /\ sources' = found /\ UNCHANGED <<prohibited, gaps>>
       ELSE Done /\ Gap(q, {"source_limit_exhausted"})
    /\ UNCHANGED <<inputs, probes, outcome>>

(* Every source sequence before every sink.                                *)
SinkCost == Cardinality(sources) * Cardinality(SinkTemplates(current))

FindProhibited ==
    LET tried == {Append(s, t) : s \in sources, t \in SinkTemplates(current)}
        found == {Candidate(trace, 0) : trace \in {u \in tried : Prohibits(current, u)}}
    IN
    /\ stage = "prohibit"
    /\ Spends(SinkCost)
    /\ IF found # {}
       THEN stage' = "isolate" /\ prohibited' = found /\ UNCHANGED <<sources, gaps>>
       ELSE Done /\ Gap(current, {"no_selectable_prohibited_trace"})
    /\ UNCHANGED <<inputs, left, current, probes, outcome>>

SourceCount == Len(CHOOSE s \in sources : TRUE)

(* A probe for each source effect that some pair removes alone.            *)
IsolateEffects ==
    LET pairs == Pairs(current, prohibited, SourceCount)
        isolating(e) == {pair \in pairs : Removed(current, pair) = {e}}
        isolated == {e \in current.sources : isolating(e) # {}}
        made == {Probe(current, "source_effect", e, isolating(e)) : e \in isolated}
        tested == current.window = 1 \/ \E probe \in made : TestsWindow(probe)
    IN
    /\ stage = "isolate"
    /\ Spends(PairCost(prohibited, SourceCount))
    /\ probes' = probes \cup made
    /\ IF isolated # current.sources THEN Gap(current, {"non_isolatable_source_effect"})
       ELSE UNCHANGED gaps
    /\ IF tested THEN Done ELSE stage' = "history" /\ UNCHANGED <<sources, prohibited>>
    /\ UNCHANGED <<inputs, left, current, outcome>>

-----------------------------------------------------------------------------
Padding == IF current.window = NoWindow THEN 1 ELSE current.window - SourceCount

Padded(trace, spacer) == Front(trace) \o [i \in 1..Padding |-> spacer] \o <<Last(trace)>>

(* The candidates again, with neutral events between sources and sink.     *)
Spaced ==
    LET all == {Candidate(Padded(c.trace, spacer), spacer) :
                   c \in prohibited, spacer \in NeutralTemplates(current)}
    IN {c \in all : Prohibits(current, c.trace)}

HistoryCost ==
    Cardinality(prohibited) * Cardinality(NeutralTemplates(current))
        + PairCost(Spaced, SourceCount)
TooLong == SourceCount + Padding + 1 > limits.trace

ProbeHistory ==
    LET pairs == {pair \in Pairs(current, Spaced, SourceCount) :
                     /\ Cardinality(Removed(current, pair)) = 1
                     /\ AtBoundary(current, Age(pair.to, pair.at))}
        removed == Removed(current, Best(current, pairs))
        same == {pair \in pairs : Removed(current, pair) = removed}
        effect == CHOOSE e \in removed : TRUE
    IN
    /\ stage = "history"
    /\ ~TooLong /\ Spends(HistoryCost)
    /\ IF pairs # {}
       THEN /\ probes' = probes \cup {Probe(current, "history_window", effect, same)}
            /\ UNCHANGED gaps
       ELSE Gap(current, {"no_temporal_contrast"}) /\ UNCHANGED probes
    /\ Done
    /\ UNCHANGED <<inputs, left, current, outcome>>

HistoryTooLong ==
    /\ stage = "history" /\ TooLong
    /\ Gap(current, {"trace_limit_exhausted"})
    /\ Done
    /\ UNCHANGED <<inputs, left, current, probes, explored, outcome>>

(* _CandidateCounter.take raises when a stage needs more than is left.     *)
Overspent ==
    \/ \E q \in left : stage = "begin" /\ Unanswerable(q) = {} /\ TooMany(SearchCost(q))
    \/ stage = "prohibit" /\ TooMany(SinkCost)
    \/ stage = "isolate" /\ TooMany(PairCost(prohibited, SourceCount))
    \/ stage = "history" /\ ~TooLong /\ TooMany(HistoryCost)

(* A report passes when it has no gap.                                     *)
Verdict == IF gaps = {} THEN "passed" ELSE "incomplete"

Stops(result) ==
    /\ outcome' = result /\ stage' = "over"
    /\ UNCHANGED <<inputs, left, current, sources, prohibited, probes, gaps, explored>>

(* Slip: what was found so far is reported.                                *)
ExceedQuietly == Overspent /\ Stops(Verdict)
(* ValueError, and no report.                                              *)
Exceed == Overspent /\ Stops("exceeded")

Report == stage = "begin" /\ left = {} /\ Stops(Verdict)

(* _synthesis_metrics: what the probes cover, of what they should.         *)
Covers ==
    [requirements |-> {<<p.about>> : p \in probes},
     effects |-> {<<p.about, p.effect>> : p \in {p \in probes : p.kind = "source_effect"}},
     windows |-> {<<p.about>> : p \in {p \in probes : TestsWindow(p)}}]
ShouldCover ==
    [requirements |-> {<<q>> : q \in requirements},
     effects |-> UNION {{<<q, e>> : e \in q.sources} : q \in requirements},
     windows |-> {<<q>> : q \in {q \in requirements : q.window # 1}}]

Synthesise ==
    \/ \E q \in left : GiveUp(q) \/ FindSources(q)
    \/ FindProhibited \/ IsolateEffects \/ ProbeHistory \/ HistoryTooLong
    \/ Exceed \/ Report
=============================================================================
