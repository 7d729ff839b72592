----------------------------- MODULE FlowTheorems -----------------------------
(***************************************************************************)
(* What holds of every sequence policy, every set of flow requirements and *)
(* every trace: how a policy answers, what a breadth-first search over     *)
(* traces has decided when its queue is empty, which witnesses are kept of *)
(* its findings, and what full thresholds ask for.                         *)
(***************************************************************************)
EXTENDS TraceSearch, FiniteSetTheorems, SequenceTheorems, TLAPS

(* SequencePolicy.evaluate answers with a control.                         *)
LEMMA EvaluationIsControl ==
    ASSUME NEW rules, NEW tool, NEW trace, NEW base \in Controls
    PROVE  EvaluateSequence(rules, tool, trace, base) \in Controls
BY DEF EvaluateSequence, Controls

(* "Policy composition is monotonic" (docs/DESIGN.md): evaluating the      *)
(* sequence policy never weakens the control the base policy chose.        *)
THEOREM CompositionIsMonotonic ==
    ASSUME NEW rules, NEW tool, NEW trace, NEW base \in Controls
    PROVE  Strength(EvaluateSequence(rules, tool, trace, base)) >= Strength(base)
BY DEF EvaluateSequence, Controls, Strength

(* Adding rules to a policy never weakens a control it answered with.      *)
THEOREM MoreRulesAreStricter ==
    ASSUME NEW rules, NEW more, rules \subseteq more,
           NEW tool, NEW trace, NEW base \in Controls
    PROVE  Strength(EvaluateSequence(more, tool, trace, base))
              >= Strength(EvaluateSequence(rules, tool, trace, base))
<1> DEFINE hits(R) == {rule \in R : Matches(rule, tool, trace)}
<1>1. hits(rules) \subseteq hits(more)
    OBVIOUS
<1>2. \A R : EvaluateSequence(R, tool, trace, base) =
          IF base = "deny" \/ hits(R) = {} THEN base
          ELSE IF \E rule \in hits(R) : rule.control = "deny" THEN "deny"
          ELSE "require_approval"
    BY DEF EvaluateSequence
<1> HIDE DEF hits
<1> QED
    BY <1>1, <1>2, SMTT(30) DEF Controls, Strength

(* A rule without a window goes on matching as the history grows: its      *)
(* sources stay visible.                                                   *)
THEOREM UnboundedRulesPersist ==
    ASSUME NEW E, NEW trace \in Seq(SUBSET E), NEW event \in SUBSET E,
           NEW rule, rule.window = NoWindow, NEW tool,
           Matches(rule, tool, trace)
    PROVE  Matches(rule, tool, Append(trace, event))
<1>1. \A i \in DOMAIN trace : i \in DOMAIN Append(trace, event) /\ Append(trace, event)[i] = trace[i]
    OBVIOUS
<1> QED
    BY <1>1 DEF Matches, Sourced, Visible, VisibleFrom

(* A rule whose window covers the whole history matches as one without a   *)
(* window does: the bound only ever forgets.                               *)
THEOREM WideWindowsForgetNothing ==
    ASSUME NEW E, NEW trace \in Seq(SUBSET E), NEW window \in Nat, NEW effects,
           window >= Len(trace)
    PROVE  Sourced(effects, trace, window) <=> Sourced(effects, trace, NoWindow)
BY DEF Sourced, Visible, VisibleFrom, NoWindow

-----------------------------------------------------------------------------
(* Numbers and finite sets.                                                *)
LEMMA LeastNatural ==
    ASSUME NEW S \in SUBSET Nat, S # {}
    PROVE  \E n \in S : \A m \in S : n <= m
<1> DEFINE R == OpToRel(<,Nat)
<1>1. IsWellFoundedOn(R, Nat)
    BY NatLessThanWellFounded
<1>2. \A m, n \in Nat : <<m, n>> \in R <=> m < n
    BY DEF OpToRel
<1> HIDE DEF R
<1>3. PICK n \in S : \A m \in S : ~(<<m, n>> \in R)
    BY <1>1, WFMin
<1>4. \A m \in S : ~(m < n)
    BY <1>2, <1>3
<1> QED
    BY <1>4

LEMMA LessThanIsWellFounded ==
    \E R : IsWellFoundedOn(R, Nat) /\ \A m, n \in Nat : <<m, n>> \in R <=> m < n
<1> DEFINE R == OpToRel(<,Nat)
<1>1. IsWellFoundedOn(R, Nat)
    BY NatLessThanWellFounded
<1>2. \A m, n \in Nat : <<m, n>> \in R <=> m < n
    BY DEF OpToRel
<1> HIDE DEF R
<1> QED
    BY <1>1, <1>2

-----------------------------------------------------------------------------
(* Prefixes and extensions of sequences.                                   *)
LEMMA PrefixParts ==
    ASSUME NEW E, NEW s \in Seq(E), NEW n \in 1..Len(s)
    PROVE  /\ SubSeq(s, 1, n) \in Seq(E) /\ Len(SubSeq(s, 1, n)) = n
           /\ \A i \in 1..n : SubSeq(s, 1, n)[i] = s[i]
<1>1. Len(s) \in Nat /\ n \in Int /\ 1 \in Int /\ \A i \in 1..n : s[i] \in E
    BY LenProperties
<1>2. /\ SubSeq(s, 1, n) \in Seq(E) /\ Len(SubSeq(s, 1, n)) = IF 1 <= n THEN n - 1 + 1 ELSE 0
      /\ \A i \in 1..(n - 1 + 1) : SubSeq(s, 1, n)[i] = s[1 + i - 1]
    BY <1>1, SubSeqProperties
<1> DEFINE p == SubSeq(s, 1, n)
<1> HIDE DEF p
<1>3. /\ p \in Seq(E) /\ Len(p) = IF 1 <= n THEN n - 1 + 1 ELSE 0
      /\ \A i \in 1..(n - 1 + 1) : p[i] = s[1 + i - 1]
    BY <1>2 DEF p
<1>4. n - 1 + 1 = n /\ \A i \in 1..n : 1 + i - 1 = i
    BY <1>1
<1>5. \A i \in 1..n : p[i] = s[i]
    BY <1>3, <1>4
<1> QED
    BY <1>3, <1>4, <1>5 DEF p

LEMMA PrefixOfPrefix ==
    ASSUME NEW E, NEW s \in Seq(E), NEW n \in 1..Len(s), NEW k \in 1..n
    PROVE  SubSeq(SubSeq(s, 1, n), 1, k) = SubSeq(s, 1, k)
<1> DEFINE p == SubSeq(s, 1, n)
           u == SubSeq(p, 1, k)
           v == SubSeq(s, 1, k)
<1>1. p \in Seq(E) /\ Len(p) = n /\ \A i \in 1..n : p[i] = s[i]
    BY PrefixParts
<1> HIDE DEF p
<1>2. Len(s) \in Nat /\ k \in 1..Len(p) /\ k \in 1..Len(s)
    BY <1>1, LenProperties
<1>3. u \in Seq(E) /\ Len(u) = k /\ \A i \in 1..k : u[i] = p[i]
    BY <1>1, <1>2, PrefixParts
<1>4. v \in Seq(E) /\ Len(v) = k /\ \A i \in 1..k : v[i] = s[i]
    BY <1>2, PrefixParts
<1> HIDE DEF u, v
<1>5. \A i \in 1..Len(u) : u[i] = v[i]
    BY <1>1, <1>2, <1>3, <1>4
<1>6. u = v
    BY <1>3, <1>4, <1>5, SeqEqual
<1> QED
    BY <1>6 DEF u, v, p

LEMMA PrefixOfExtension ==
    ASSUME NEW E, NEW s \in Seq(E), NEW e \in E, NEW k \in 1..Len(s)
    PROVE  SubSeq(Append(s, e), 1, k) = SubSeq(s, 1, k)
<1> DEFINE p == Append(s, e)
           u == SubSeq(p, 1, k)
           v == SubSeq(s, 1, k)
<1>1. p \in Seq(E) /\ Len(p) = Len(s) + 1 /\ \A i \in 1..Len(s) : p[i] = s[i]
    BY AppendProperties
<1> HIDE DEF p
<1>2. Len(s) \in Nat /\ k \in 1..Len(p)
    BY <1>1, LenProperties
<1>3. u \in Seq(E) /\ Len(u) = k /\ \A i \in 1..k : u[i] = p[i]
    BY <1>1, <1>2, PrefixParts
<1>4. v \in Seq(E) /\ Len(v) = k /\ \A i \in 1..k : v[i] = s[i]
    BY PrefixParts
<1> HIDE DEF u, v
<1>5. \A i \in 1..Len(u) : u[i] = v[i]
    BY <1>1, <1>2, <1>3, <1>4
<1>6. u = v
    BY <1>3, <1>4, <1>5, SeqEqual
<1> QED
    BY <1>6 DEF u, v, p

LEMMA PrefixGrows ==
    ASSUME NEW E, NEW s \in Seq(E), NEW n \in 1..Len(s), n < Len(s)
    PROVE  SubSeq(s, 1, n + 1) = Append(SubSeq(s, 1, n), s[n + 1])
<1> DEFINE a == SubSeq(s, 1, n + 1)
           p == SubSeq(s, 1, n)
           b == Append(p, s[n + 1])
<1>1. Len(s) \in Nat /\ n + 1 \in 1..Len(s) /\ s[n + 1] \in E
    BY LenProperties
<1>2. a \in Seq(E) /\ Len(a) = n + 1 /\ \A i \in 1..(n + 1) : a[i] = s[i]
    BY <1>1, PrefixParts
<1>3. p \in Seq(E) /\ Len(p) = n /\ \A i \in 1..n : p[i] = s[i]
    BY PrefixParts
<1> HIDE DEF a, p
<1>4. b \in Seq(E) /\ Len(b) = n + 1 /\ b[n + 1] = s[n + 1] /\ \A i \in 1..n : b[i] = p[i]
    BY <1>1, <1>3, AppendProperties
<1> HIDE DEF b
<1>5. \A i \in 1..Len(a) : a[i] = b[i]
    BY <1>1, <1>2, <1>3, <1>4
<1>6. a = b
    BY <1>2, <1>4, <1>5, SeqEqual
<1> QED
    BY <1>6 DEF a, b, p

-----------------------------------------------------------------------------
(* Traces.                                                                 *)
LEMMA TraceIsSeq ==
    \A t : t \in Trace <=> t \in Seq(1..Templates) /\ Len(t) \in 1..MaxEvents
<1> DEFINE E == 1..Templates
<1>1. MaxEvents \in Nat
    BY SuiteIsTyped
<1> HIDE DEF E
<1>2. ASSUME NEW n \in 1..MaxEvents, NEW t \in [1..n -> E]
      PROVE  t \in Seq(E) /\ Len(t) = n
    BY <1>1
<1>3. ASSUME NEW t \in Seq(E), Len(t) \in 1..MaxEvents
      PROVE  t \in [1..Len(t) -> E]
    BY LenProperties
<1>4. \A t : t \in Trace <=> \E n \in 1..MaxEvents : t \in [1..n -> E]
    BY DEF Trace, E
<1>5. \A t : t \in Trace <=> t \in Seq(E) /\ Len(t) \in 1..MaxEvents
    BY <1>2, <1>3, <1>4
<1> QED
    BY <1>5 DEF E

(* A prefix of a trace is a trace, and has the same prefixes.              *)
LEMMA PrefixIsTrace ==
    ASSUME NEW t \in Trace, NEW n \in 1..Len(t)
    PROVE  /\ SubSeq(t, 1, n) \in Trace /\ Len(SubSeq(t, 1, n)) = n
           /\ \A k \in 1..n : SubSeq(SubSeq(t, 1, n), 1, k) = SubSeq(t, 1, k)
           /\ \A i \in 1..n : SubSeq(t, 1, n)[i] = t[i]
<1> DEFINE E == 1..Templates
           p == SubSeq(t, 1, n)
<1>1. t \in Seq(E) /\ Len(t) \in 1..MaxEvents /\ MaxEvents \in Nat
    BY TraceIsSeq, SuiteIsTyped
<1>2. \A u : u \in Trace <=> u \in Seq(E) /\ Len(u) \in 1..MaxEvents
    BY TraceIsSeq
<1> HIDE DEF E
<1>3. p \in Seq(E) /\ Len(p) = n /\ \A i \in 1..n : p[i] = t[i]
    BY <1>1, PrefixParts
<1>4. \A k \in 1..n : SubSeq(p, 1, k) = SubSeq(t, 1, k)
    BY <1>1, PrefixOfPrefix
<1> HIDE DEF p
<1>5. p \in Trace
    BY <1>1, <1>2, <1>3
<1> QED
    BY <1>3, <1>4, <1>5 DEF p

LEMMA WholeIsPrefix ==
    ASSUME NEW t \in Trace
    PROVE  SubSeq(t, 1, Len(t)) = t
BY TraceIsSeq, SubSeqFull

(* A trace that is extended is a trace, and keeps its prefixes.            *)
LEMMA ExtensionIsTrace ==
    ASSUME NEW t \in Trace, Len(t) < MaxEvents, NEW x \in 1..Templates
    PROVE  /\ Append(t, x) \in Trace /\ Len(Append(t, x)) = Len(t) + 1
           /\ SubSeq(Append(t, x), 1, Len(t)) = t
           /\ \A k \in 1..Len(t) : SubSeq(Append(t, x), 1, k) = SubSeq(t, 1, k)
           /\ Append(t, x)[Len(t) + 1] = x
<1> DEFINE E == 1..Templates
           u == Append(t, x)
<1>1. t \in Seq(E) /\ Len(t) \in 1..MaxEvents /\ MaxEvents \in Nat /\ x \in E
    BY TraceIsSeq, SuiteIsTyped
<1>2. \A v : v \in Trace <=> v \in Seq(E) /\ Len(v) \in 1..MaxEvents
    BY TraceIsSeq
<1> HIDE DEF E
<1>3. u \in Seq(E) /\ Len(u) = Len(t) + 1 /\ u[Len(t) + 1] = x
    BY <1>1, AppendProperties
<1>4. \A k \in 1..Len(t) : SubSeq(u, 1, k) = SubSeq(t, 1, k)
    BY <1>1, PrefixOfExtension
<1> HIDE DEF u
<1>5. u \in Trace
    BY <1>1, <1>2, <1>3
<1>6. SubSeq(u, 1, Len(t)) = t
    BY <1>1, <1>4, WholeIsPrefix
<1> QED
    BY <1>3, <1>4, <1>5, <1>6 DEF u

(* A longer prefix of a trace is the shorter one with the next event.      *)
LEMMA TraceGrows ==
    ASSUME NEW t \in Trace, NEW n \in 1..Len(t), n < Len(t)
    PROVE  /\ t[n + 1] \in 1..Templates
           /\ SubSeq(t, 1, n + 1) = Append(SubSeq(t, 1, n), t[n + 1])
<1> DEFINE E == 1..Templates
<1>1. t \in Seq(E) /\ Len(t) \in Nat
    BY TraceIsSeq, SuiteIsTyped
<1> HIDE DEF E
<1>2. SubSeq(t, 1, n + 1) = Append(SubSeq(t, 1, n), t[n + 1])
    BY <1>1, PrefixGrows
<1>3. t[n + 1] \in E
    BY <1>1, LenProperties
<1> QED
    BY <1>2, <1>3 DEF E

(* There are finitely many: a trace is a set of numbered events.           *)
LEMMA TracesAreFinite == IsFiniteSet(Trace)
<1> DEFINE Events == (1..MaxEvents) \X (1..Templates)
           graph(t) == {<<i, t[i]>> : i \in 1..Len(t)}
           f == [t \in Trace |-> graph(t)]
<1>1. IsFiniteSet(SUBSET Events)
    <2>1. MaxEvents \in Int /\ Templates \in Int
        BY SuiteIsTyped
    <2>2. IsFiniteSet(1..MaxEvents) /\ IsFiniteSet(1..Templates)
        BY <2>1, FS_Interval
    <2>3. IsFiniteSet(Events)
        BY <2>2, FS_Product
    <2> HIDE DEF Events
    <2> QED
        BY <2>3, FS_SUBSET
<1>2. ASSUME NEW t \in Trace
      PROVE  graph(t) \subseteq Events
    <2>1. t \in Seq(1..Templates) /\ Len(t) \in 1..MaxEvents /\ MaxEvents \in Nat
        BY TraceIsSeq, SuiteIsTyped
    <2>2. \A i \in 1..Len(t) : t[i] \in 1..Templates
        BY <2>1, ElementOfSeq
    <2>3. \A i \in 1..Len(t) : i \in 1..MaxEvents
        BY <2>1
    <2> QED
        BY <2>2, <2>3
<1>3. ASSUME NEW t \in Trace, NEW u \in Trace, graph(t) = graph(u)
      PROVE  t = u
    <2>1. /\ t \in Seq(1..Templates) /\ u \in Seq(1..Templates)
          /\ Len(t) \in Nat \ {0} /\ Len(u) \in Nat \ {0}
        BY TraceIsSeq
    <2>2. ASSUME NEW i \in 1..Len(t)
          PROVE  i \in 1..Len(u) /\ t[i] = u[i]
        <3>1. <<i, t[i]>> \in graph(u)
            BY <1>3
        <3> QED
            BY <3>1
    <2>3. ASSUME NEW i \in 1..Len(u)
          PROVE  i \in 1..Len(t)
        <3>1. <<i, u[i]>> \in graph(t)
            BY <1>3
        <3> QED
            BY <3>1
    <2>4. Len(t) \in 1..Len(t) /\ Len(u) \in 1..Len(u)
        BY <2>1
    <2>5. Len(t) = Len(u)
        BY <2>1, <2>2, <2>3, <2>4
    <2> QED
        BY <2>1, <2>2, <2>5, SeqEqual
<1>4. f \in [Trace -> SUBSET Events]
    BY <1>2
<1>5. \A t, u \in Trace : f[t] = f[u] => t = u
    BY <1>3
<1> HIDE DEF f, Events
<1>6. f \in Injection(Trace, SUBSET Events)
    BY <1>4, <1>5 DEF Injection, IsInjective
<1> QED
    BY <1>1, <1>6, FS_Injection

-----------------------------------------------------------------------------
(* Breadth-first search over a set of traces.                              *)

(* It starts with every template.                                          *)
LEMMA SearchBegins ==
    ASSUME NEW reach, PrefixClosed(reach), \A x \in 1..Templates : <<x>> \in reach
    PROVE  Explores(FirstCalls, {}, reach)
<1>1. Templates \in Nat /\ MaxEvents \in Nat
    BY SuiteIsTyped
<1>2. FirstCalls \in Seq(reach) /\ Len(FirstCalls) = Templates
    BY <1>1 DEF FirstCalls
<1>3. \A i \in 1..Templates : FirstCalls[i] = <<i>>
    BY DEF FirstCalls
<1>4. \A i, j \in 1..Templates : FirstCalls[i] = FirstCalls[j] => i = j
    BY <1>3
<1>5. \A i \in 1..Templates : ~(Len(FirstCalls[i]) > 1)
    <2> SUFFICES ASSUME NEW i \in 1..Templates
                 PROVE  ~(Len(FirstCalls[i]) > 1)
        OBVIOUS
    <2>1. FirstCalls[i] = <<i>> /\ Len(<<i>>) = 1
        BY <1>3
    <2> QED
        BY <2>1
<1>6. ASSUME NEW t \in reach
      PROVE  \E n \in 1..Len(t), i \in 1..Len(FirstCalls) : FirstCalls[i] = SubSeq(t, 1, n)
    <2>1. t \in Trace
        BY DEF PrefixClosed
    <2>2. t \in Seq(1..Templates) /\ Len(t) \in 1..MaxEvents
        BY <2>1, TraceIsSeq
    <2>3. 1 \in 1..Len(t) /\ t[1] \in 1..Templates
        BY <1>1, <2>2, ElementOfSeq
    <2> DEFINE p == SubSeq(t, 1, 1)
    <2>4. p \in Seq(1..Templates) /\ Len(p) = 1 /\ p[1] = t[1]
        BY <2>2, <2>3, PrefixParts
    <2> HIDE DEF p
    <2>5. p = <<t[1]>>
        BY <2>4
    <2> QED
        BY <1>2, <1>3, <2>3, <2>5 DEF p
<1> QED
    BY <1>2, <1>4, <1>5, <1>6 DEF Explores

(* What is put into the queue after the trace at its head.                 *)
LEMMA ExtensionsParts ==
    ASSUME NEW t \in Trace
    PROVE  /\ Extensions(t) \in Seq(Trace)
           /\ Len(Extensions(t)) = IF Len(t) < MaxEvents THEN Templates ELSE 0
           /\ \A i \in 1..Len(Extensions(t)) :
                 /\ i \in 1..Templates /\ Extensions(t)[i] = Append(t, i)
                 /\ Parent(Extensions(t)[i]) = t /\ Len(Extensions(t)[i]) = Len(t) + 1
           /\ \A i, j \in 1..Len(Extensions(t)) : Extensions(t)[i] = Extensions(t)[j] => i = j
<1>1. Templates \in Nat /\ MaxEvents \in Nat /\ Len(t) \in Nat
    BY SuiteIsTyped, TraceIsSeq
<1>2. CASE Len(t) < MaxEvents
    <2> DEFINE longer == [x \in 1..Templates |-> Append(t, x)]
    <2>1. \A x \in 1..Templates :
              /\ Append(t, x) \in Trace /\ Len(Append(t, x)) = Len(t) + 1
              /\ SubSeq(Append(t, x), 1, Len(t)) = t /\ Append(t, x)[Len(t) + 1] = x
        BY <1>2, ExtensionIsTrace
    <2>2. Extensions(t) = longer
        BY <1>2 DEF Extensions
    <2>3. longer \in [1..Templates -> Trace]
        BY <2>1
    <2>4. \A x \in 1..Templates : longer[x] = Append(t, x)
        OBVIOUS
    <2> HIDE DEF longer
    <2>5. longer \in Seq(Trace) /\ Len(longer) = Templates
        BY <1>1, <2>3
    <2>6. \A x \in 1..Templates : Parent(longer[x]) = t /\ Len(longer[x]) = Len(t) + 1
        <3> SUFFICES ASSUME NEW x \in 1..Templates
                     PROVE  Parent(longer[x]) = t /\ Len(longer[x]) = Len(t) + 1
            OBVIOUS
        <3>1. Len(Append(t, x)) - 1 = Len(t)
            BY <1>1, <2>1
        <3> QED
            BY <2>1, <2>4, <3>1 DEF Parent
    <2>7. \A x, y \in 1..Templates : longer[x] = longer[y] => x = y
        BY <2>1, <2>4
    <2> QED
        BY <1>2, <2>2, <2>4, <2>5, <2>6, <2>7
<1>3. CASE ~(Len(t) < MaxEvents)
    <2>1. Extensions(t) = << >>
        BY <1>3 DEF Extensions
    <2> QED
        BY <1>3, <2>1
<1> QED
    BY <1>2, <1>3

(* The head of the queue is decided, and its extensions are enqueued if    *)
(* they can be reached.                                                    *)
LEMMA SearchGoesOn ==
    ASSUME NEW reach, PrefixClosed(reach), NEW queue, NEW decided,
           Explores(queue, decided, reach), queue # << >>,
           NEW longer,
           \/ longer = Extensions(Head(queue)) /\ \A i \in 1..Len(longer) : longer[i] \in reach
           \/ longer = << >> /\ \A t \in reach : Len(t) > 1 => Parent(t) # Head(queue)
    PROVE  /\ Head(queue) \in reach /\ Head(queue) \notin decided
           /\ Explores(Tail(queue) \o longer, decided \cup {Head(queue)}, reach)
<1> DEFINE head == Head(queue)
           rest == Tail(queue)
           next == rest \o longer
           done == decided \cup {head}
<1>1. /\ queue \in Seq(reach) /\ Len(queue) \in Nat /\ Len(queue) >= 1
      /\ head = queue[1] /\ head \in reach /\ head \in Trace
      /\ rest \in Seq(reach) /\ Len(rest) = Len(queue) - 1
      /\ \A i \in 1..Len(rest) : rest[i] = queue[i + 1]
    <2>1. queue \in Seq(reach) /\ Len(queue) \in Nat \ {0}
        BY EmptySeq DEF Explores
    <2>2. /\ head \in reach /\ rest \in Seq(reach) /\ Len(rest) = Len(queue) - 1
          /\ \A i \in 1..Len(rest) : rest[i] = queue[i + 1]
        BY <2>1, HeadTailProperties
    <2>3. head = queue[1]
        BY <2>1
    <2> QED
        BY <2>1, <2>2, <2>3 DEF PrefixClosed
<1>2. head \notin decided
    <2>1. 1 \in 1..Len(queue)
        BY <1>1
    <2> QED
        BY <1>1, <2>1 DEF Explores
<1>3. /\ longer \in Seq(reach) /\ Len(longer) \in Nat
      /\ \A i \in 1..Len(longer) : Parent(longer[i]) = head /\ Len(longer[i]) > 1
      /\ \A i, j \in 1..Len(longer) : longer[i] = longer[j] => i = j
    <2>1. CASE longer = Extensions(head) /\ \A i \in 1..Len(longer) : longer[i] \in reach
        <3>1. /\ longer \in Seq(Trace)
              /\ \A i \in 1..Len(longer) : Parent(longer[i]) = head /\ Len(longer[i]) = Len(head) + 1
              /\ \A i, j \in 1..Len(longer) : longer[i] = longer[j] => i = j
            BY <1>1, <2>1, ExtensionsParts
        <3>2. Len(longer) \in Nat /\ Len(head) \in Nat /\ Len(head) >= 1
            BY <1>1, <3>1, TraceIsSeq
        <3>3. longer \in Seq(reach)
            BY <2>1, <3>1, <3>2
        <3> QED
            BY <3>1, <3>2, <3>3
    <2>2. CASE longer = << >>
        BY <2>2
    <2> QED
        BY <2>1, <2>2
<1>4. /\ next \in Seq(reach) /\ Len(next) = Len(rest) + Len(longer)
      /\ \A i \in 1..(Len(rest) + Len(longer)) :
            next[i] = IF i <= Len(rest) THEN rest[i] ELSE longer[i - Len(rest)]
    BY <1>1, <1>3, ConcatProperties
<1> HIDE DEF next, rest, head
<1>5. /\ Len(next) \in Nat /\ Len(rest) \in Nat
      /\ \A i \in 1..Len(rest) : next[i] = queue[i + 1] /\ i + 1 \in 1..Len(queue)
      /\ \A i \in (Len(rest) + 1)..Len(next) :
            next[i] = longer[i - Len(rest)] /\ i - Len(rest) \in 1..Len(longer)
      /\ \A i \in 1..Len(next) : i \in 1..Len(rest) \/ i \in (Len(rest) + 1)..Len(next)
    <2>1. Len(next) \in Nat /\ Len(rest) \in Nat
        BY <1>1, <1>3, <1>4
    <2>2. ASSUME NEW i \in 1..Len(rest)
          PROVE  next[i] = queue[i + 1] /\ i + 1 \in 1..Len(queue)
        <3>1. i \in 1..(Len(rest) + Len(longer)) /\ i <= Len(rest) /\ i + 1 \in 1..Len(queue)
            BY <1>1, <1>3, <2>1
        <3> QED
            BY <1>1, <1>4, <3>1
    <2>3. ASSUME NEW i \in (Len(rest) + 1)..Len(next)
          PROVE  next[i] = longer[i - Len(rest)] /\ i - Len(rest) \in 1..Len(longer)
        <3>1. /\ i \in 1..(Len(rest) + Len(longer)) /\ ~(i <= Len(rest))
              /\ i - Len(rest) \in 1..Len(longer)
            BY <1>3, <1>4, <2>1
        <3> QED
            BY <1>4, <3>1
    <2>4. \A i \in 1..Len(next) : i \in 1..Len(rest) \/ i \in (Len(rest) + 1)..Len(next)
        BY <2>1
    <2> QED
        BY <2>1, <2>2, <2>3, <2>4
<1>6. /\ \A i, j \in 1..Len(queue) : queue[i] = queue[j] => i = j
      /\ \A i \in 1..Len(queue) : queue[i] \notin decided
      /\ \A i \in 1..Len(queue) : Len(queue[i]) > 1 => Parent(queue[i]) \in decided
      /\ \A t \in decided : Len(t) > 1 => Parent(t) \in decided
      /\ decided \subseteq reach
    BY DEF Explores
<1>7. \A i \in 1..Len(longer) : longer[i] \notin done /\ \A j \in 1..Len(queue) : longer[i] # queue[j]
    <2> SUFFICES ASSUME NEW i \in 1..Len(longer)
                 PROVE  longer[i] \notin done /\ \A j \in 1..Len(queue) : longer[i] # queue[j]
        OBVIOUS
    <2>1. Parent(longer[i]) = head /\ Len(longer[i]) > 1
        BY <1>3
    <2>2. longer[i] \notin decided
        BY <1>2, <1>6, <2>1
    <2>3. \A j \in 1..Len(queue) : longer[i] # queue[j]
        BY <1>2, <1>6, <2>1
    <2>4. longer[i] # head
        <3>1. 1 \in 1..Len(queue)
            BY <1>1
        <3> QED
            BY <1>1, <2>3, <3>1
    <2> QED
        BY <2>2, <2>3, <2>4
<1>8. \A i, j \in 1..Len(next) : next[i] = next[j] => i = j
    <2> SUFFICES ASSUME NEW i \in 1..Len(next), NEW j \in 1..Len(next), next[i] = next[j]
                 PROVE  i = j
        OBVIOUS
    <2>1. CASE i \in 1..Len(rest) /\ j \in 1..Len(rest)
        <3>1. i + 1 = j + 1
            BY <1>5, <1>6, <2>1
        <3> QED
            BY <3>1
    <2>2. CASE i \in (Len(rest) + 1)..Len(next) /\ j \in (Len(rest) + 1)..Len(next)
        <3>1. i - Len(rest) = j - Len(rest)
            BY <1>3, <1>5, <2>2
        <3> QED
            BY <1>1, <3>1
    <2>3. CASE i \in 1..Len(rest) /\ j \in (Len(rest) + 1)..Len(next)
        BY <1>5, <1>7, <2>3
    <2>4. CASE i \in (Len(rest) + 1)..Len(next) /\ j \in 1..Len(rest)
        <3>1. next[i] = longer[i - Len(rest)] /\ i - Len(rest) \in 1..Len(longer)
            BY <1>5, <2>4
        <3>2. next[j] = queue[j + 1] /\ j + 1 \in 1..Len(queue)
            BY <1>5, <2>4
        <3> QED
            BY <1>7, <3>1, <3>2
    <2> QED
        BY <1>5, <2>1, <2>2, <2>3, <2>4
<1>9. \A i \in 1..Len(next) : next[i] \notin done
    <2> SUFFICES ASSUME NEW i \in 1..Len(next)
                 PROVE  next[i] \notin done
        OBVIOUS
    <2>1. CASE i \in 1..Len(rest)
        <3>1. next[i] = queue[i + 1] /\ i + 1 \in 1..Len(queue) /\ 1 \in 1..Len(queue) /\ i + 1 # 1
            BY <1>1, <1>5, <2>1
        <3>2. queue[i + 1] \notin decided /\ queue[i + 1] # queue[1]
            BY <1>6, <3>1
        <3> QED
            BY <1>1, <3>1, <3>2
    <2>2. CASE i \in (Len(rest) + 1)..Len(next)
        BY <1>5, <1>7, <2>2
    <2> QED
        BY <1>5, <2>1, <2>2
<1>10. \A i \in 1..Len(next) : Len(next[i]) > 1 => Parent(next[i]) \in done
    <2> SUFFICES ASSUME NEW i \in 1..Len(next), Len(next[i]) > 1
                 PROVE  Parent(next[i]) \in done
        OBVIOUS
    <2>1. CASE i \in 1..Len(rest)
        BY <1>5, <1>6, <2>1
    <2>2. CASE i \in (Len(rest) + 1)..Len(next)
        BY <1>3, <1>5, <2>2
    <2> QED
        BY <1>5, <2>1, <2>2
<1>11. \A t \in done : Len(t) > 1 => Parent(t) \in done
    <2>1. ASSUME Len(head) > 1
          PROVE  Parent(head) \in decided
        <3>1. 1 \in 1..Len(queue)
            BY <1>1
        <3> QED
            BY <1>1, <1>6, <2>1, <3>1
    <2> QED
        BY <1>6, <2>1
<1>12. ASSUME NEW t \in reach, t \notin done
       PROVE  \E n \in 1..Len(t), i \in 1..Len(next) : next[i] = SubSeq(t, 1, n)
    <2>1. PICK n \in 1..Len(t), i \in 1..Len(queue) : queue[i] = SubSeq(t, 1, n)
        BY <1>12 DEF Explores
    <2>2. t \in Trace /\ Len(t) \in Nat
        BY TraceIsSeq DEF PrefixClosed
    <2>3. CASE i # 1
        <3>1. i - 1 \in 1..Len(rest) /\ (i - 1) + 1 = i
            BY <1>1, <2>3
        <3>2. next[i - 1] = queue[i] /\ i - 1 \in 1..Len(next)
            BY <1>1, <1>3, <1>4, <1>5, <3>1
        <3> QED
            BY <2>1, <3>2
    <2>4. CASE i = 1
        <3>1. head = SubSeq(t, 1, n)
            BY <1>1, <2>1, <2>4
        <3>2. n < Len(t)
            BY <1>12, <2>2, <3>1, WholeIsPrefix
        <3> DEFINE u == SubSeq(t, 1, n + 1)
        <3>3. t[n + 1] \in 1..Templates /\ u = Append(head, t[n + 1])
            BY <2>2, <3>1, <3>2, TraceGrows
        <3>4. n + 1 \in 1..Len(t)
            BY <2>2, <3>2
        <3>5. u \in reach /\ u \in Trace /\ Len(u) = n + 1 /\ Len(head) = n
            BY <2>2, <3>1, <3>4, PrefixIsTrace DEF PrefixClosed
        <3>6. Parent(u) = head
            <4>1. SubSeq(u, 1, n) = SubSeq(t, 1, n)
                BY <2>2, <3>4, PrefixIsTrace
            <4> QED
                BY <3>1, <3>5, <4>1 DEF Parent
        <3> HIDE DEF u
        <3>7. longer = Extensions(head)
            BY <3>5, <3>6 DEF head
        <3>8. Len(head) < MaxEvents
            BY <2>2, <3>5, TraceIsSeq, SuiteIsTyped
        <3>9. Len(longer) = Templates /\ \A x \in 1..Len(longer) : longer[x] = Append(head, x)
            BY <1>1, <3>7, <3>8, ExtensionsParts
        <3> DEFINE x == t[n + 1]
        <3>10. x \in 1..Len(longer) /\ longer[x] = u
            BY <3>3, <3>9
        <3> HIDE DEF x
        <3> DEFINE j == Len(rest) + x
        <3>11. x \in Nat /\ x >= 1 /\ x <= Len(longer) /\ Len(rest) \in Nat /\ Len(longer) \in Nat
            BY <1>3, <1>5, <3>10
        <3>12. /\ j \in (Len(rest) + 1)..Len(next) /\ j - Len(rest) = x
               /\ j \in 1..Len(next)
            BY <1>4, <3>11
        <3> HIDE DEF j
        <3>13. next[j] = u
            BY <1>5, <3>10, <3>12
        <3> QED
            BY <3>4, <3>12, <3>13 DEF u
    <2> QED
        BY <2>3, <2>4
<1>13. next \in Seq(reach) /\ done \subseteq reach
    BY <1>1, <1>4, <1>6
<1>14. Explores(next, done, reach)
    BY <1>8, <1>9, <1>10, <1>11, <1>12, <1>13 DEF Explores
<1> QED
    BY <1>1, <1>2, <1>14 DEF next, rest, head

(* An empty queue means that everything reachable is decided.              *)
LEMMA SearchEnds ==
    ASSUME NEW decided, NEW reach, Explores(<< >>, decided, reach)
    PROVE  decided = reach
BY DEF Explores

-----------------------------------------------------------------------------
(* Witnesses.                                                              *)

(* Traces of one length are well ordered by their templates.               *)
LEMMA LeastTrace ==
    ASSUME NEW n \in Nat, NEW T, T \subseteq [1..n -> Nat], T # {}
    PROVE  \E t \in T : \A u \in T : ~Lexically(u, t)
<1>1. PICK R : IsWellFoundedOn(R, Nat) /\ \A a, b \in Nat : <<a, b>> \in R <=> a < b
    BY LessThanIsWellFounded
<1> DEFINE L == LexProductOrdering(R, Nat, n)
           S == [1..n -> Nat]
<1>2. IsWellFoundedOn(L, S)
    BY <1>1, WFLexProductOrdering
<1>3. ASSUME NEW t \in S, NEW u \in S, Lexically(u, t)
      PROVE  <<u, t>> \in L
    <2>1. PICK j \in 1..n : u[j] < t[j] /\ \A i \in 1..(j - 1) : u[i] = t[i]
        BY <1>3 DEF Lexically
    <2>2. <<u[j], t[j]>> \in R
        BY <1>1, <2>1
    <2> DEFINE ff == <<u, t>>
    <2>3. ff[1] = u /\ ff[2] = t /\ ff \in S \X S
        OBVIOUS
    <2> HIDE DEF ff
    <2>4. \E k \in 1..n : (\A i \in 1..(k - 1) : ff[1][i] = ff[2][i]) /\ <<ff[1][k], ff[2][k]>> \in R
        BY <2>1, <2>2, <2>3
    <2>5. ff \in L
        BY <2>3, <2>4 DEF LexProductOrdering
    <2> QED
        BY <2>5 DEF ff
<1> HIDE DEF L, S
<1>4. T \subseteq S
    BY DEF S
<1>5. PICK t \in T : \A u \in T : ~(<<u, t>> \in L)
    BY <1>2, <1>4, WFMin
<1> QED
    BY <1>3, <1>4, <1>5

(* Of the witnesses of a property of a requirement, one that no other comes*)
(* before is kept.                                                         *)
LEMMA ShortestIsKept ==
    ASSUME NEW W, \A w \in W : w.trace \in Trace, NEW w \in W
    PROVE  \E v \in Shortest(W) :
              v.property = w.property /\ v.about = w.about /\ Len(v.trace) <= Len(w.trace)
<1> DEFINE Same == {v \in W : v.property = w.property /\ v.about = w.about}
           Lengths == {Len(v.trace) : v \in Same}
<1>1. \A v \in W : v.trace \in Seq(1..Templates) /\ Len(v.trace) \in Nat
    BY TraceIsSeq
<1>2. Lengths \in SUBSET Nat /\ Lengths # {}
    BY <1>1
<1>3. PICK n \in Lengths : \A m \in Lengths : n <= m
    BY <1>2, LeastNatural
<1> DEFINE T == {v.trace : v \in {v \in Same : Len(v.trace) = n}}
<1>4. T \subseteq [1..n -> Nat]
    <2> SUFFICES ASSUME NEW v \in Same, Len(v.trace) = n
                 PROVE  v.trace \in [1..n -> Nat]
        OBVIOUS
    <2>1. v.trace \in Seq(1..Templates)
        BY <1>1
    <2>2. v.trace \in [1..n -> 1..Templates]
        BY <2>1, LenProperties
    <2> QED
        BY <2>2
<1>5. T # {} /\ n \in Nat
    BY <1>2, <1>3
<1>6. PICK t \in T : \A u \in T : ~Lexically(u, t)
    BY <1>4, <1>5, LeastTrace
<1>7. PICK v \in Same : v.trace = t /\ Len(v.trace) = n
    BY <1>6
<1>8. ASSUME NEW x \in W, x.property = v.property, x.about = v.about
      PROVE  ~Before(x.trace, v.trace)
    <2>1. x \in Same /\ Len(x.trace) \in Lengths
        BY <1>7, <1>8
    <2>2. n <= Len(x.trace) /\ Len(x.trace) \in Nat
        BY <1>1, <1>3, <2>1
    <2>3. CASE Len(x.trace) = n
        <3>1. x.trace \in T
            BY <2>1, <2>3
        <3>2. ~Lexically(x.trace, v.trace)
            BY <1>6, <1>7, <3>1
        <3> QED
            BY <1>5, <1>7, <2>3, <3>2 DEF Before
    <2>4. CASE Len(x.trace) # n
        <3>1. ~(Len(x.trace) < Len(v.trace)) /\ Len(x.trace) # Len(v.trace)
            BY <1>5, <1>7, <2>2, <2>4
        <3> QED
            BY <3>1 DEF Before
    <2> QED
        BY <2>3, <2>4
<1>9. v \in Shortest(W)
    BY <1>7, <1>8 DEF Shortest
<1>10. Len(v.trace) <= Len(w.trace)
    <2>1. Len(w.trace) \in Lengths
        OBVIOUS
    <2> QED
        BY <1>3, <1>7, <2>1
<1> QED
    BY <1>7, <1>9, <1>10

(* ... and no shorter one is among them.                                   *)
LEMMA KeptIsShortest ==
    ASSUME NEW W, \A w \in W : w.trace \in Trace, NEW v \in Shortest(W), NEW w \in W,
           w.property = v.property, w.about = v.about
    PROVE  v \in W /\ Len(v.trace) <= Len(w.trace)
<1>1. v \in W /\ ~Before(w.trace, v.trace)
    BY DEF Shortest
<1>2. Len(v.trace) \in Nat /\ Len(w.trace) \in Nat
    BY <1>1, TraceIsSeq
<1> QED
    BY <1>1, <1>2 DEF Before

-----------------------------------------------------------------------------
(* Decisions.                                                              *)
LEMMA ChecksAreControls ==
    ASSUME NEW rules, NEW requirements, NEW trace
    PROVE  Actual(rules, trace) \in Controls /\ Expected(requirements, trace) \in Controls
<1>1. Expected(requirements, trace) \in Controls
    BY DEF Expected, Controls
<1>2. "allow" \in Controls
    BY DEF Controls
<1> QED
    BY <1>1, <1>2, EvaluationIsControl DEF Actual

(* Where the requirements allow a call they ask for no evidence.           *)
LEMMA AllowedNeedsNothing ==
    ASSUME NEW requirements, NEW trace, Expected(requirements, trace) = "allow"
    PROVE  RequiredEvidence(requirements, trace) = {} /\ Matched(requirements, trace) = {}
<1>1. Met(requirements, trace) = {}
    BY DEF Expected
<1>2. Matched(requirements, trace) = {}
    BY <1>1 DEF Matched
<1> QED
    BY <1>2 DEF RequiredEvidence

LEMMA CheckedParts ==
    ASSUME NEW rules, NEW requirements, NEW trace
    PROVE  LET d == Checked(rules, requirements, trace) IN
           /\ d.trace = trace
           /\ d.expected = Expected(requirements, trace)
           /\ d.actual = Actual(rules, trace)
           /\ d.matched = Matched(requirements, trace)
           /\ d.required = RequiredEvidence(requirements, trace)
           /\ d.evidence = ActualEvidence(rules, trace)
BY DEF Checked

(* A decision fails in no way exactly if it is the control that the        *)
(* requirements say, with the evidence they ask for.                       *)
LEMMA NoFailures ==
    ASSUME NEW rules, NEW requirements, NEW trace
    PROVE  Failures(Checked(rules, requirements, trace)) = {} <=>
              /\ Actual(rules, trace) = Expected(requirements, trace)
              /\ RequiredEvidence(requirements, trace) \subseteq ActualEvidence(rules, trace)
<1> DEFINE d == Checked(rules, requirements, trace)
           a == Actual(rules, trace)
           e == Expected(requirements, trace)
           r == RequiredEvidence(requirements, trace)
           s == ActualEvidence(rules, trace)
<1>1. d.expected = e /\ d.actual = a /\ d.required = r /\ d.evidence = s
    BY CheckedParts
<1>2. a \in {"allow", "require_approval", "deny"} /\ e \in {"allow", "require_approval", "deny"}
    BY ChecksAreControls DEF Controls
<1>3. e = "allow" => r = {}
    BY AllowedNeedsNothing
<1> HIDE DEF d, a, e, r, s
<1>4. /\ "availability" \in Failures(d) <=> e = "allow" /\ a # "allow"
      /\ "safety" \in Failures(d) <=> e # "allow" /\ a = "allow"
      /\ "exact_control" \in Failures(d) <=> e # "allow" /\ a # "allow" /\ e # a
      /\ "evidence" \in Failures(d) <=> e # "allow" /\ ~(r \subseteq s)
      /\ Failures(d) \subseteq {"availability", "safety", "exact_control", "evidence"}
    BY <1>1 DEF Failures, EvidenceComplete
<1>5. Failures(d) = {} <=> a = e /\ r \subseteq s
    BY <1>2, <1>3, <1>4
<1> QED
    BY <1>5 DEF d, a, e, r, s

(* Every failure is witnessed, for each requirement that is blamed.        *)
LEMMA FailuresAreWitnessed ==
    ASSUME NEW d, NEW failures, NEW f \in failures
    PROVE  /\ Blamed(d) # {}
           /\ \A b \in Blamed(d) :
                 \E w \in Witnesses(d, failures) : w.property = f /\ w.about = b /\ w.trace = d.trace
<1>1. Blamed(d) # {}
    BY DEF Blamed
<1>2. ASSUME NEW b \in Blamed(d)
      PROVE  \E w \in Witnesses(d, failures) : w.property = f /\ w.about = b /\ w.trace = d.trace
    <2> DEFINE w == [property |-> f, about |-> b, trace |-> d.trace]
    <2>1. w \in Witnesses(d, failures)
        BY DEF Witnesses
    <2> QED
        BY <2>1
<1> QED
    BY <1>1, <1>2

LEMMA WitnessParts ==
    ASSUME NEW d, NEW failures, NEW w \in Witnesses(d, failures)
    PROVE  w.property \in failures /\ w.about \in Blamed(d) /\ w.trace = d.trace
BY DEF Witnesses

-----------------------------------------------------------------------------
(* Full thresholds.                                                        *)
LEMMA FullMeansAll ==
    ASSUME NEW all, IsFiniteSet(all), NEW good \in SUBSET all
    PROVE  AtLeast(100, good, all) <=> good = all
<1>1. /\ Cardinality(all) \in Nat /\ Cardinality(good) \in Nat
      /\ Cardinality(good) <= Cardinality(all)
      /\ Cardinality(all) = Cardinality(good) => all = good
    BY FS_Subset, FS_CardinalityType
<1>2. Cardinality(good) * 100 >= 100 * Cardinality(all) <=> Cardinality(good) = Cardinality(all)
    <2> DEFINE g == Cardinality(good)
               n == Cardinality(all)
    <2>1. g \in Nat /\ n \in Nat /\ g <= n
        BY <1>1
    <2> HIDE DEF g, n
    <2>2. g * 100 >= 100 * n <=> g = n
        BY <2>1
    <2> QED
        BY <2>2 DEF g, n
<1> QED
    BY <1>1, <1>2 DEF AtLeast
=============================================================================
