------------------------- MODULE ProbeAssuranceProofs -------------------------
(***************************************************************************)
(* What a synthesis report and the contracts compiled from it are worth:   *)
(* for any suite, registry, policy and limits.                             *)
(***************************************************************************)
EXTENDS ProbeAssuranceProperties, FlowTheorems

-----------------------------------------------------------------------------
(* Numbers and sets.                                                       *)
LEMMA MinIsLeast ==
    ASSUME NEW S \in SUBSET Nat, S # {}
    PROVE  Min(S) \in S /\ \A n \in S : Min(S) <= n
<1>1. \E n \in S : \A m \in S : n <= m
    BY LeastNatural
<1> QED
    BY <1>1 DEF Min

(* What a function makes of a finite set is finite.                        *)
LEMMA ImageIsFinite ==
    ASSUME NEW S, IsFiniteSet(S), NEW f
    PROVE  IsFiniteSet({f[x] : x \in S})
<1> DEFINE T == {f[x] : x \in S}
           g == [x \in S |-> f[x]]
<1>1. g \in Surjection(S, T)
    BY DEF Surjection
<1> QED
    BY <1>1, FS_Surjection

-----------------------------------------------------------------------------
(* The events before the call of a trace, and their effects.               *)
LEMMA TraceLength ==
    ASSUME NEW t \in Trace
    PROVE  /\ Len(t) \in Nat /\ Len(t) >= 1 /\ Len(t) <= MaxEvents /\ MaxEvents \in Nat
           /\ DOMAIN t = 1..Len(t) /\ \A i \in 1..Len(t) : t[i] \in 1..Templates
<1> DEFINE E == 1..Templates
<1>1. t \in Seq(E) /\ Len(t) \in 1..MaxEvents /\ MaxEvents \in Nat
    BY TraceIsSeq, SuiteIsTyped
<1> HIDE DEF E
<1>2. DOMAIN t = 1..Len(t) /\ \A i \in 1..Len(t) : t[i] \in E
    BY <1>1, LenProperties
<1> QED
    BY <1>1, <1>2 DEF E

LEMMA FrontParts ==
    ASSUME NEW t \in Trace
    PROVE  /\ DOMAIN Front(t) = 1..(Len(t) - 1)
           /\ \A i \in 1..(Len(t) - 1) : Front(t)[i] = t[i]
           /\ Front(t) \in [1..(Len(t) - 1) -> 1..Templates]
<1> DEFINE E == 1..Templates
           n == Len(t)
<1>1. t \in Seq(E) /\ n \in Nat /\ n >= 1
    BY TraceIsSeq, TraceLength
<1>2. n - 1 \in 0..n
    BY <1>1
<1> HIDE DEF E
<1>3. \A i \in 1..(n - 1) : t[i] \in E
    BY <1>1, LenProperties
<1>4. /\ SubSeq(t, 1, n - 1) \in Seq(E)
      /\ Len(SubSeq(t, 1, n - 1)) = IF 1 <= n - 1 THEN n - 1 - 1 + 1 ELSE 0
      /\ \A i \in 1..(n - 1 - 1 + 1) : SubSeq(t, 1, n - 1)[i] = t[1 + i - 1]
    BY <1>1, <1>2, <1>3, SubSeqProperties
<1> DEFINE p == SubSeq(t, 1, n - 1)
<1>5. Front(t) = p
    BY DEF Front
<1>6. /\ p \in Seq(E) /\ Len(p) = IF 1 <= n - 1 THEN n - 1 - 1 + 1 ELSE 0
      /\ \A i \in 1..(n - 1 - 1 + 1) : p[i] = t[1 + i - 1]
    BY <1>4
<1> HIDE DEF p, n
<1>7. n - 1 - 1 + 1 = n - 1 /\ \A i \in 1..(n - 1) : 1 + i - 1 = i
    BY <1>1
<1>8. p \in Seq(E) /\ Len(p) = n - 1 /\ \A i \in 1..(n - 1) : p[i] = t[i]
    BY <1>1, <1>6, <1>7
<1>9. DOMAIN p = 1..Len(p)
    BY <1>8, LenProperties
<1>10. p \in [1..(n - 1) -> E]
    BY <1>8, LenProperties
<1> QED
    BY <1>8, <1>5, <1>9, <1>10 DEF n, E

LEMMA PastParts ==
    ASSUME NEW t \in Trace
    PROVE  /\ Past(t) \in Seq(SUBSET Effects) /\ Len(Past(t)) = Len(t) - 1
           /\ DOMAIN Past(t) = 1..(Len(t) - 1)
           /\ \A i \in 1..(Len(t) - 1) : Past(t)[i] = Emitted(t[i])
<1> DEFINE n == Len(t)
<1>1. n \in Nat /\ n >= 1 /\ \A i \in 1..n : t[i] \in 1..Templates
    BY TraceLength
<1>2. \A i \in 1..(n - 1) : EffectsOf[ToolOf[t[i]]] \in SUBSET Effects
    BY <1>1, SuiteIsTyped
<1>3. Past(t) = [i \in 1..(n - 1) |-> EffectsOf[ToolOf[t[i]]]]
    BY DEF Past
<1>4. Past(t) \in [1..(n - 1) -> SUBSET Effects]
    BY <1>2, <1>3
<1>5. n - 1 \in Nat
    BY <1>1
<1> HIDE DEF n
<1>6. Past(t) \in Seq(SUBSET Effects) /\ Len(Past(t)) = n - 1
    BY <1>4, <1>5
<1> QED
    BY <1>3, <1>6 DEF Emitted, n

LEMMA GatheredBefore ==
    ASSUME NEW t \in Trace
    PROVE  /\ \A e : e \in Gathered(Front(t))
                 <=> \E i \in 1..(Len(t) - 1) : e \in Emitted(t[i])
           /\ Gathered(Front(t)) = UNION Range(Past(t))
<1>1. \A e : e \in Gathered(Front(t)) <=> \E i \in 1..(Len(t) - 1) : e \in Emitted(t[i])
    BY FrontParts DEF Gathered
<1>2. \A e : e \in UNION Range(Past(t)) <=> \E i \in 1..(Len(t) - 1) : e \in Emitted(t[i])
    BY PastParts DEF Range
<1> QED
    BY <1>1, <1>2

(* What is sourced was gathered; within the window, it is all of it.       *)
LEMMA SourcedIsGathered ==
    ASSUME NEW t \in Trace, NEW effects, NEW window, Sourced(effects, Past(t), window)
    PROVE  effects \subseteq Gathered(Front(t))
<1>1. \A e \in effects : \E i \in 1..(Len(t) - 1) : e \in Emitted(t[i])
    BY PastParts DEF Sourced, Visible
<1> QED
    BY <1>1, GatheredBefore

LEMMA GatheredIsSourced ==
    ASSUME NEW t \in Trace, NEW effects, NEW window \in Nat,
           window = NoWindow \/ Len(t) - 1 <= window,
           effects \subseteq Gathered(Front(t))
    PROVE  Sourced(effects, Past(t), window)
<1>1. Len(t) \in Nat /\ Len(Past(t)) = Len(t) - 1
    BY TraceLength, PastParts
<1>2. ASSUME NEW i \in 1..(Len(t) - 1)
      PROVE  i \in Visible(Past(t), window)
    BY <1>1, PastParts DEF Visible, VisibleFrom
<1>3. ASSUME NEW e \in effects
      PROVE  \E i \in Visible(Past(t), window) : e \in Past(t)[i]
    <2>1. PICK i \in 1..(Len(t) - 1) : e \in Emitted(t[i])
        BY GatheredBefore
    <2> QED
        BY <1>2, <2>1, PastParts
<1> QED
    BY <1>3 DEF Sourced

-----------------------------------------------------------------------------
(* The arguments of a run.                                                 *)
LEMMA LimitParts ==
    ASSUME InputInv
    PROVE  /\ limits.sources \in Nat /\ limits.trace \in Nat
           /\ limits.trace >= 2 /\ limits.trace <= MaxEvents
<1>1. limits \in [sources : Nat \ {0}, trace : Nat \ {0, 1}, candidates : Nat \ {0}]
    BY LimitsAreValid DEF InputInv
<1>2. limits.trace <= MaxEvents
    BY TracesFit DEF InputInv
<1> QED
    BY <1>1, <1>2

LEMMA RequirementParts ==
    ASSUME InputInv, NEW q \in requirements
    PROVE  /\ q.sources \in SUBSET Effects /\ q.sources # {} /\ IsFiniteSet(q.sources)
           /\ q.sinks \in SUBSET Tools /\ q.window \in Nat /\ q.control \in Interventions
           /\ q = [sinks |-> q.sinks, sources |-> q.sources,
                   control |-> q.control, window |-> q.window]
<1>1. q \in RequirementType /\ q.sources # {}
    BY SuitesAreTyped DEF InputInv
<1>2. /\ q.sources \in SUBSET Effects /\ q.sinks \in SUBSET Tools
      /\ q.window \in Nat /\ q.control \in Interventions
      /\ q = [sinks |-> q.sinks, sources |-> q.sources,
              control |-> q.control, window |-> q.window]
    BY <1>1 DEF RequirementType
<1>3. IsFiniteSet(q.sources)
    BY <1>2, EffectsAreFinite, FS_Subset
<1> QED
    BY <1>1, <1>2, <1>3

LEMMA TemplatesAreFinite ==
    ASSUME NEW q
    PROVE  /\ IsFiniteSet(SourceTemplates(q)) /\ Cardinality(SourceTemplates(q)) \in Nat
           /\ SourceTemplates(q) \subseteq 1..Templates
<1>1. Templates \in Int
    BY SuiteIsTyped
<1>2. IsFiniteSet(1..Templates)
    BY <1>1, FS_Interval
<1>3. SourceTemplates(q) \in SUBSET (1..Templates)
    BY DEF SourceTemplates
<1> QED
    BY <1>2, <1>3, FS_Subset, FS_CardinalityType

LEMMA DeepestParts ==
    ASSUME InputInv, NEW q
    PROVE  /\ DeepestSearch(q) \in Nat /\ DeepestSearch(q) <= limits.trace - 1
           /\ DeepestSearch(q) <= Cardinality(SourceTemplates(q))
<1> DEFINE c == Cardinality(SourceTemplates(q))
           S == {limits.sources, limits.trace - 1, c}
<1>1. c \in Nat
    BY TemplatesAreFinite
<1> HIDE DEF c
<1>2. S \in SUBSET Nat /\ S # {}
    BY <1>1, LimitParts
<1> HIDE DEF S
<1>3. Min(S) \in S /\ \A n \in S : Min(S) <= n
    BY <1>2, MinIsLeast
<1>4. limits.trace - 1 \in S /\ c \in S
    BY DEF S
<1> QED
    BY <1>2, <1>3, <1>4 DEF DeepestSearch, S, c

(* No fewer templates than the search goes deep cover a requirement.       *)
LEMMA DepthIsLeast ==
    ASSUME InputInv, NEW q \in requirements, Covering(q, SearchDepth(q)) # {}
    PROVE  /\ SearchDepth(q) \in Nat /\ SearchDepth(q) >= 1
           /\ SearchDepth(q) <= limits.trace - 1
           /\ \A d \in 1..(SearchDepth(q) - 1) : Covering(q, d) = {}
<1> DEFINE deepest == DeepestSearch(q)
           enough == {depth \in 1..deepest : Covering(q, depth) # {}}
<1>1. deepest \in Nat /\ deepest <= limits.trace - 1
    BY DeepestParts
<1>2. SearchDepth(q) = IF enough = {} THEN deepest ELSE Min(enough)
    BY DEF SearchDepth
<1> HIDE DEF deepest
<1>3. Covering(q, 0) = {}
    <2>1. \A s \in Arrangements(q, 0) : Gathered(s) = {}
        BY DEF Arrangements, Injection, Gathered
    <2> QED
        BY <2>1, RequirementParts DEF Covering
<1>4. enough # {}
    <2> SUFFICES ASSUME enough = {}
                 PROVE  FALSE
        OBVIOUS
    <2>1. Covering(q, deepest) # {} /\ deepest \notin 1..deepest
        BY <1>2
    <2>2. deepest = 0
        BY <1>1, <2>1
    <2> QED
        BY <1>3, <2>1, <2>2
<1>5. enough \in SUBSET Nat
    BY <1>1
<1>6. Min(enough) \in enough /\ \A n \in enough : Min(enough) <= n
    BY <1>4, <1>5, MinIsLeast
<1> DEFINE k == Min(enough)
<1>7. k \in 1..deepest /\ \A d \in 1..deepest : Covering(q, d) # {} => k <= d
    BY <1>6
<1>8. SearchDepth(q) = k
    BY <1>2, <1>4
<1> HIDE DEF k, enough
<1>9. ASSUME NEW d \in 1..(k - 1)
      PROVE  Covering(q, d) = {}
    <2>1. d \in 1..deepest /\ ~(k <= d)
        BY <1>1, <1>7, LimitParts
    <2> QED
        BY <1>7, <2>1
<1> QED
    BY <1>1, <1>7, <1>8, <1>9, LimitParts

LEMMA FewerDoNotCover ==
    ASSUME InputInv, NEW q \in requirements, Covering(q, SearchDepth(q)) # {},
           NEW m \in Nat, m < SearchDepth(q), NEW u \in [1..m -> 1..Templates]
    PROVE  ~(q.sources \subseteq Gathered(u))
<1> SUFFICES ASSUME q.sources \subseteq Gathered(u)
             PROVE  FALSE
    OBVIOUS
<1> DEFINE T == {u[i] : i \in 1..m}
           S == T \cap SourceTemplates(q)
           c == Cardinality(S)
<1>1. IsFiniteSet(T) /\ Cardinality(T) <= m
    <2>1. u \in Surjection(1..m, T)
        BY DEF Surjection
    <2>2. IsFiniteSet(1..m) /\ Cardinality(1..m) = m
        BY FS_Interval
    <2> HIDE DEF T
    <2> QED
        BY <2>1, <2>2, FS_Surjection
<1>2. Cardinality(T) \in Nat /\ IsFiniteSet(S) /\ c \in Nat /\ c <= m
    <2> HIDE DEF T
    <2>1. S \in SUBSET T
        OBVIOUS
    <2>2. IsFiniteSet(S) /\ Cardinality(S) <= Cardinality(T)
        BY <1>1, <2>1, FS_Subset
    <2>3. Cardinality(T) \in Nat /\ c \in Nat
        BY <1>1, <2>2, FS_CardinalityType
    <2> HIDE DEF S
    <2> QED
        BY <1>1, <2>2, <2>3
<1>3. PICK f : f \in Bijection(1..c, S)
    BY <1>2, FS_CardinalityType DEF ExistsBijection
<1>4. f \in [1..c -> S] /\ IsInjective(f) /\ \A t \in S : \E j \in 1..c : f[j] = t
    BY <1>3 DEF Bijection, Injection, Surjection
<1>5. f \in Arrangements(q, c)
    BY <1>4 DEF Arrangements, Injection
<1>6. ASSUME NEW e \in q.sources
      PROVE  \E j \in 1..c : e \in Emitted(f[j])
    <2>1. PICK i \in 1..m : e \in Emitted(u[i])
        BY DEF Gathered
    <2>2. u[i] \in S
        BY <2>1 DEF SourceTemplates
    <2> QED
        BY <1>4, <2>1, <2>2
<1> HIDE DEF S, c
<1>7. q.sources \subseteq Gathered(f)
    BY <1>4, <1>6 DEF Gathered
<1>8. c >= 1
    BY <1>2, <1>6, RequirementParts
<1>9. f \in Covering(q, c)
    BY <1>5, <1>7 DEF Covering
<1>10. c \in 1..(SearchDepth(q) - 1)
    BY <1>2, <1>8, DepthIsLeast
<1> QED
    BY <1>9, <1>10, DepthIsLeast

(* So a requirement that prohibits a shortest trace sees all of it.        *)
LEMMA ShortestIsInWindow ==
    ASSUME InputInv, NEW q \in requirements, Covering(q, SearchDepth(q)) # {},
           NEW t \in Trace, Len(t) = SearchDepth(q) + 1, Prohibits(q, t)
    PROVE  q.window = NoWindow \/ SearchDepth(q) <= q.window
<1> SUFFICES ASSUME q.window # NoWindow, q.window < SearchDepth(q)
             PROVE  FALSE
    BY RequirementParts, DepthIsLeast
<1> DEFINE k == SearchDepth(q)
           w == q.window
           u == [j \in 1..w |-> t[k - w + j]]
<1>1. k \in Nat /\ w \in Nat /\ w < k
    BY RequirementParts, DepthIsLeast
<1>2. Len(t) = k + 1 /\ \A i \in 1..(k + 1) : t[i] \in 1..Templates
    BY TraceLength
<1>3. w # NoWindow
    OBVIOUS
<1>4. Sourced(q.sources, Past(t), w)
    BY DEF Prohibits, Matched, Met
<1>5. Len(Past(t)) = k /\ DOMAIN Past(t) = 1..k /\ \A i \in 1..k : Past(t)[i] = Emitted(t[i])
    <2> HIDE DEF k
    <2>1. Len(t) - 1 = k
        BY <1>1, <1>2
    <2> QED
        BY <2>1, PastParts
<1>6. ~(q.sources \subseteq Gathered(u))
    <2> HIDE DEF k
    <2>1. \A j \in 1..w : k - w + j \in 1..(k + 1)
        BY <1>1
    <2>2. u \in [1..w -> 1..Templates]
        BY <1>2, <2>1
    <2> HIDE DEF u, w
    <2> QED
        BY <1>1, <2>2, FewerDoNotCover DEF k
<1> HIDE DEF k, w
<1>7. ASSUME NEW e \in q.sources
      PROVE  \E j \in 1..w : e \in Emitted(u[j])
    <2>1. PICK i \in Visible(Past(t), w) : e \in Past(t)[i]
        BY <1>4 DEF Sourced
    <2>2. i \in 1..k /\ i > k - w
        BY <1>3, <1>5, <2>1 DEF Visible, VisibleFrom
    <2>3. i - (k - w) \in 1..w /\ k - w + (i - (k - w)) = i
        BY <1>1, <2>2
    <2>4. e \in Emitted(t[i])
        BY <1>5, <2>1, <2>2
    <2>5. u[i - (k - w)] = t[i]
        BY <2>3
    <2> QED
        BY <2>3, <2>4, <2>5
<1>8. q.sources \subseteq Gathered(u)
    BY <1>7 DEF Gathered
<1> QED
    BY <1>6, <1>8

-----------------------------------------------------------------------------
(* Pairs of traces that differ in one event.                               *)
LEMMA ReplacedIsTrace ==
    ASSUME NEW t \in Trace, NEW i \in 1..Len(t), NEW x \in 1..Templates
    PROVE  /\ [t EXCEPT ![i] = x] \in Trace /\ Len([t EXCEPT ![i] = x]) = Len(t)
           /\ \A j \in 1..Len(t) : [t EXCEPT ![i] = x][j] = IF j = i THEN x ELSE t[j]
<1> DEFINE E == 1..Templates
           u == [t EXCEPT ![i] = x]
<1>1. t \in Seq(E) /\ Len(t) \in 1..MaxEvents /\ DOMAIN t = 1..Len(t)
    BY TraceIsSeq, TraceLength
<1>2. \A v : v \in Trace <=> v \in Seq(E) /\ Len(v) \in 1..MaxEvents
    BY TraceIsSeq
<1> HIDE DEF E
<1>3. x \in E
    BY DEF E
<1>4. u \in Seq(E) /\ Len(u) = Len(t)
    BY <1>1, <1>3, ExceptSeq
<1>5. \A j \in 1..Len(t) : u[j] = IF j = i THEN x ELSE t[j]
    BY <1>1
<1> HIDE DEF u
<1>6. u \in Trace
    BY <1>1, <1>2, <1>4
<1> QED
    BY <1>4, <1>5, <1>6 DEF u

(* A pair of traces of some length, the second of which is permitted.      *)
IsPair(q, n, pair) ==
    /\ pair.from.trace \in Trace /\ Len(pair.from.trace) = n
    /\ pair.at \in 1..(n - 1)
    /\ \E x \in 1..Templates : /\ x # pair.from.trace[pair.at]
                              /\ pair.to = [pair.from.trace EXCEPT ![pair.at] = x]
    /\ pair.to \in Trace /\ Len(pair.to) = n
    /\ Permits(pair.to) /\ Removed(q, pair) # {}

LEMMA PairParts ==
    ASSUME NEW q, NEW candidates, NEW n \in Nat,
           \A c \in candidates : c.trace \in Trace /\ Len(c.trace) = n,
           NEW k \in Nat, k < n, NEW pair \in Pairs(q, candidates, k)
    PROVE  pair.from \in candidates /\ pair.at \in 1..k /\ IsPair(q, n, pair)
<1>1. PICK c \in candidates, i \in 1..k, x \in 1..Templates :
         /\ x # c.trace[i]
         /\ pair = [from |-> c, at |-> i, to |-> [c.trace EXCEPT ![i] = x]]
    BY DEF Pairs
<1>2. Permits(pair.to) /\ Removed(q, pair) # {}
    BY DEF Pairs
<1>3. pair.from = c /\ pair.at = i /\ pair.to = [c.trace EXCEPT ![i] = x]
    BY <1>1
<1>4. c.trace \in Trace /\ Len(c.trace) = n /\ i \in 1..Len(c.trace) /\ i \in 1..(n - 1)
    OBVIOUS
<1>5. [c.trace EXCEPT ![i] = x] \in Trace /\ Len([c.trace EXCEPT ![i] = x]) = n
    BY <1>4, ReplacedIsTrace
<1>6. \E y \in 1..Templates : /\ y # pair.from.trace[pair.at]
                             /\ pair.to = [pair.from.trace EXCEPT ![pair.at] = y]
    BY <1>1, <1>3
<1>7. pair.to \in Trace /\ Len(pair.to) = n
    BY <1>3, <1>5
<1>8. pair.from.trace \in Trace /\ Len(pair.from.trace) = n /\ pair.at \in 1..(n - 1)
    BY <1>3, <1>4
<1> QED
    BY <1>2, <1>3, <1>6, <1>7, <1>8 DEF IsPair

LEMMA EmittedIsEffects ==
    ASSUME NEW t \in 1..Templates
    PROVE  Emitted(t) \in SUBSET Effects
BY SuiteIsTyped DEF Emitted

LEMMA ShapeParts ==
    ASSUME InputInv, NEW q \in requirements, NEW n \in Nat, NEW pair, IsPair(q, n, pair)
    PROVE  Shape(q, pair) \in Seq(Nat) /\ Len(Shape(q, pair)) = 4
<1> DEFINE old == pair.from.trace[pair.at]
           new == pair.to[pair.at]
           a == Len(pair.to)
           b == Cardinality(Removed(q, pair))
           c == IF \E other \in requirements : ToolOf[new] \in other.sinks THEN 1 ELSE 0
           d == Cardinality(SymDiff(Emitted(old), Emitted(new)))
<1>1. /\ pair.from.trace \in Trace /\ pair.to \in Trace
      /\ pair.at \in 1..Len(pair.to) /\ pair.at \in 1..Len(pair.from.trace) /\ a \in Nat
    BY DEF IsPair
<1>2. old \in 1..Templates /\ new \in 1..Templates
    BY <1>1, TraceLength
<1>3. b \in Nat
    <2>1. Removed(q, pair) \in SUBSET q.sources /\ IsFiniteSet(q.sources)
        BY RequirementParts DEF Removed
    <2> QED
        BY <2>1, FS_Subset, FS_CardinalityType
<1>4. d \in Nat
    <2>1. SymDiff(Emitted(old), Emitted(new)) \in SUBSET Effects
        BY <1>2, EmittedIsEffects DEF SymDiff
    <2> QED
        BY <2>1, EffectsAreFinite, FS_Subset, FS_CardinalityType
<1>5. Shape(q, pair) = <<a, b, c, d>>
    BY DEF Shape
<1>6. c \in Nat
    OBVIOUS
<1> HIDE DEF a, b, c, d
<1> QED
    BY <1>1, <1>3, <1>4, <1>5, <1>6

LEMMA KeyIsTuple ==
    ASSUME InputInv, NEW q \in requirements, NEW n \in Nat, NEW pair, IsPair(q, n, pair)
    PROVE  SortKey(q, pair) \in [1..(5 + n + n) -> Nat]
<1> DEFINE shape == Shape(q, pair)
           from == pair.from.trace
           to == pair.to
           last == <<pair.at>>
<1>1. \A t \in Trace : t \in Seq(Nat)
    <2> SUFFICES ASSUME NEW t \in Trace
                 PROVE  t \in Seq(Nat)
        OBVIOUS
    <2> DEFINE E == 1..Templates
    <2>1. t \in Seq(E) /\ E \subseteq Nat /\ Len(t) \in Nat
        BY TraceIsSeq, TraceLength
    <2> HIDE DEF E
    <2>2. t \in [1..Len(t) -> E]
        BY <2>1, LenProperties
    <2>3. t \in [1..Len(t) -> Nat]
        BY <2>1, <2>2
    <2> QED
        BY <2>1, <2>3
<1>2. shape \in Seq(Nat) /\ Len(shape) = 4
    BY ShapeParts
<1>3. /\ from \in Seq(Nat) /\ Len(from) = n /\ to \in Seq(Nat) /\ Len(to) = n
      /\ pair.at \in Nat
    BY <1>1 DEF IsPair
<1>4. last \in Seq(Nat) /\ Len(last) = 1
    BY <1>3
<1>5. SortKey(q, pair) = shape \o from \o to \o last
    BY DEF SortKey
<1> HIDE DEF shape, from, to, last
<1>6. \A a, b \in Seq(Nat) : a \o b \in Seq(Nat) /\ Len(a \o b) = Len(a) + Len(b)
    BY ConcatProperties
<1>7. shape \o from \in Seq(Nat) /\ Len(shape \o from) = 4 + n
    BY <1>2, <1>3, <1>6
<1> DEFINE two == shape \o from
<1>8. SortKey(q, pair) = two \o to \o last /\ two \in Seq(Nat) /\ Len(two) = 4 + n
    BY <1>5, <1>7
<1> HIDE DEF two
<1> DEFINE three == two \o to
<1>9. SortKey(q, pair) = three \o last /\ three \in Seq(Nat) /\ Len(three) = 4 + n + n
    BY <1>3, <1>6, <1>8
<1> HIDE DEF three
<1>10. three \o last \in Seq(Nat) /\ Len(three \o last) = 5 + n + n
    <2>1. three \o last \in Seq(Nat) /\ Len(three \o last) = Len(three) + Len(last)
        BY <1>4, <1>6, <1>9
    <2>2. Len(three) + Len(last) = 5 + n + n
        BY <1>4, <1>9
    <2> QED
        BY <2>1, <2>2
<1>11. SortKey(q, pair) \in [1..Len(SortKey(q, pair)) -> Nat]
    BY <1>9, <1>10, LenProperties
<1> QED
    BY <1>9, <1>10, <1>11

(* The least of some pairs is one of them.                                 *)
LEMMA BestIsOne ==
    ASSUME InputInv, NEW q \in requirements, NEW n \in Nat,
           NEW pairs, pairs # {}, \A pair \in pairs : IsPair(q, n, pair)
    PROVE  Best(q, pairs) \in pairs
<1> DEFINE T == {SortKey(q, pair) : pair \in pairs}
           m == 5 + n + n
<1>1. T \subseteq [1..m -> Nat]
    BY KeyIsTuple
<1>2. T # {} /\ m \in Nat
    OBVIOUS
<1> HIDE DEF m
<1>3. PICK t \in T : \A u \in T : ~Lexically(u, t)
    BY <1>1, <1>2, LeastTrace
<1>4. \E pair \in pairs : \A other \in pairs : ~Lexically(SortKey(q, other), SortKey(q, pair))
    BY <1>3
<1> QED
    BY <1>4 DEF Best

-----------------------------------------------------------------------------
(* A probe is made of the least of some pairs that remove one effect.      *)
LEMMA ProbeParts ==
    ASSUME InputInv, NEW q \in requirements, NEW n \in Nat, NEW kind, NEW e,
           NEW pairs, pairs # {},
           \A pair \in pairs : /\ IsPair(q, n, pair) /\ Prohibits(q, pair.from.trace)
                               /\ Removed(q, pair) = {e}
    PROVE  LET p == Probe(q, kind, e, pairs) IN
           /\ p.about = q /\ p.kind = kind /\ p.effect = e
           /\ IsContrast(p) /\ Len(p.prohibited) = n
           /\ \E pair \in pairs : p.prohibited = pair.from.trace /\ p.at = pair.at
<1> DEFINE p == Probe(q, kind, e, pairs)
           best == Best(q, pairs)
<1>1. best \in pairs
    BY BestIsOne
<1>2. /\ p.about = q /\ p.kind = kind /\ p.effect = e
      /\ p.prohibited = best.from.trace /\ p.permitted = best.to /\ p.at = best.at
      /\ p.evidence = RequiredEvidence(requirements, best.from.trace)
    BY DEF Probe
<1> HIDE DEF p, best
<1>3. /\ IsPair(q, n, best) /\ Prohibits(q, best.from.trace)
      /\ q.sources \ Gathered(Front(best.to)) = {e}
    BY <1>1 DEF Removed
<1>4. IsContrast(p) /\ Len(p.prohibited) = n
    BY <1>2, <1>3 DEF IsContrast, IsPair
<1> QED
    BY <1>1, <1>2, <1>4 DEF p

(* The candidates of the requirement in hand.                              *)
LEMMA SourcesParts ==
    ASSUME InputInv, WorkInv, InHand
    PROVE  /\ current \in requirements \ left
           /\ Covering(current, SearchDepth(current)) # {}
           /\ sources = Covering(current, SearchDepth(current))
           /\ \A s \in sources : /\ s \in Seq(1..Templates)
                                 /\ Len(s) = SearchDepth(current)
           /\ SourceCount = SearchDepth(current)
<1> DEFINE k == SearchDepth(current)
<1>1. current \in requirements \ left /\ sources # {} /\ sources = Covering(current, k)
    BY DEF WorkInv
<1>2. k \in Nat
    BY <1>1, DepthIsLeast
<1> HIDE DEF k
<1>3. ASSUME NEW s \in sources
      PROVE  s \in Seq(1..Templates) /\ Len(s) = k
    <2> DEFINE E == 1..Templates
    <2>1. s \in [1..k -> SourceTemplates(current)]
        BY <1>1 DEF Covering, Arrangements, Injection
    <2>2. SourceTemplates(current) \subseteq E
        BY TemplatesAreFinite
    <2> HIDE DEF E
    <2>3. s \in [1..k -> E]
        BY <2>1, <2>2
    <2>4. s \in Seq(E) /\ Len(s) = k
        BY <1>2, <2>3
    <2> QED
        BY <2>4 DEF E
<1>4. SourceCount = k
    BY <1>1, <1>3 DEF SourceCount
<1> QED
    BY <1>1, <1>3, <1>4 DEF k

LEMMA AppendedIsTrace ==
    ASSUME InputInv, NEW q \in requirements, Covering(q, SearchDepth(q)) # {},
           NEW s \in Seq(1..Templates), Len(s) = SearchDepth(q), NEW t \in 1..Templates
    PROVE  Append(s, t) \in Trace /\ Len(Append(s, t)) = SearchDepth(q) + 1
<1> DEFINE E == 1..Templates
           u == Append(s, t)
<1>1. s \in Seq(E) /\ t \in E
    OBVIOUS
<1>2. \A v : v \in Trace <=> v \in Seq(E) /\ Len(v) \in 1..MaxEvents
    BY TraceIsSeq
<1> HIDE DEF E
<1>3. u \in Seq(E) /\ Len(u) = SearchDepth(q) + 1
    BY <1>1, AppendProperties
<1> HIDE DEF u
<1>4. Len(u) \in 1..MaxEvents
    <2> DEFINE k == SearchDepth(q)
    <2>1. k \in Nat /\ k >= 1 /\ k <= limits.trace - 1
        BY DepthIsLeast
    <2>2. limits.trace \in Nat /\ limits.trace <= MaxEvents /\ MaxEvents \in Nat
        BY LimitParts, SuiteIsTyped
    <2>3. Len(u) = k + 1
        BY <1>3
    <2> HIDE DEF k
    <2> QED
        BY <2>1, <2>2, <2>3
<1> QED
    BY <1>2, <1>3, <1>4 DEF u

LEMMA CandidatesParts ==
    ASSUME InputInv, WorkInv, InHand, NEW c \in prohibited
    PROVE  /\ c.trace \in Trace /\ Len(c.trace) = SearchDepth(current) + 1
           /\ Prohibits(current, c.trace)
<1>1. PICK s \in sources, t \in 1..Templates : c = Candidate(Append(s, t), 0)
    BY DEF WorkInv
<1>2. c.trace = Append(s, t)
    BY <1>1 DEF Candidate
<1>3. Append(s, t) \in Trace /\ Len(Append(s, t)) = SearchDepth(current) + 1
    BY SourcesParts, AppendedIsTrace
<1>4. Prohibits(current, c.trace)
    BY DEF WorkInv
<1> QED
    BY <1>2, <1>3, <1>4

(* ... with neutral events between the sources and the sink, they fill the *)
(* window.                                                                 *)
LEMMA SpacedParts ==
    ASSUME InputInv, WorkInv, InHand, ~TooLong, NEW c \in Spaced
    PROVE  /\ c.trace \in Trace /\ Len(c.trace) = SourceCount + Padding + 1
           /\ Prohibits(current, c.trace) /\ Padding \in Nat
           /\ current.window = NoWindow \/ SourceCount + Padding = current.window
<1> DEFINE k == SourceCount
           n == Padding
           E == 1..Templates
<1>1. PICK d \in prohibited, spacer \in NeutralTemplates(current) :
         c = Candidate(Padded(d.trace, spacer), spacer)
    BY DEF Spaced
<1>2. c.trace = Padded(d.trace, spacer) /\ Prohibits(current, c.trace)
    BY <1>1 DEF Spaced, Candidate
<1>3. /\ current \in requirements /\ k = SearchDepth(current)
      /\ k \in Nat /\ k >= 1
      /\ d.trace \in Trace /\ Len(d.trace) = k + 1 /\ Prohibits(current, d.trace)
    BY SourcesParts, CandidatesParts, DepthIsLeast
<1>4. current.window \in Nat /\ (current.window = NoWindow \/ k <= current.window)
    BY <1>3, SourcesParts, ShortestIsInWindow, RequirementParts
<1>5. n \in Nat /\ (current.window = NoWindow \/ k + n = current.window)
    BY <1>3, <1>4 DEF Padding
<1>6. k + n + 1 <= limits.trace
    BY <1>3, <1>5, LimitParts DEF TooLong
<1> DEFINE front == Front(d.trace)
           middle == [i \in 1..n |-> spacer]
           end == <<Last(d.trace)>>
<1>7. c.trace = front \o middle \o end
    BY <1>2 DEF Padded
<1>8. front \in Seq(E) /\ Len(front) = k
    <2>1. Len(d.trace) - 1 = k /\ \A i \in 1..(k + 1) : d.trace[i] \in E
        BY <1>3, TraceLength
    <2> HIDE DEF k, E
    <2>2. DOMAIN front = 1..k /\ \A i \in 1..k : front[i] = d.trace[i]
        BY <1>3, <2>1, FrontParts
    <2>3. d.trace \in Seq(E)
        BY <1>3, TraceIsSeq DEF E
    <2>4. front \in Seq(E)
        BY <2>1, <2>3, <1>3, SubSeqProperties DEF Front
    <2>5. Len(front) = k
        BY <1>3, <2>2, <2>4, LenProperties
    <2> QED
        BY <2>4, <2>5
<1>9. middle \in Seq(E) /\ Len(middle) = n
    <2>1. spacer \in E
        BY DEF NeutralTemplates
    <2> HIDE DEF E, n
    <2>2. middle \in [1..n -> E]
        BY <2>1
    <2> HIDE DEF middle
    <2> QED
        BY <1>5, <2>2
<1>10. end \in Seq(E) /\ Len(end) = 1
    <2>1. Last(d.trace) \in E
        BY <1>3, TraceLength DEF Last
    <2> HIDE DEF E
    <2> QED
        BY <2>1
<1>11. \A v : v \in Trace <=> v \in Seq(E) /\ Len(v) \in 1..MaxEvents
    BY TraceIsSeq
<1> HIDE DEF front, middle, end, E, k, n
<1>12. \A a, b \in Seq(E) : a \o b \in Seq(E) /\ Len(a \o b) = Len(a) + Len(b)
    BY ConcatProperties
<1> DEFINE most == front \o middle
<1>13. c.trace = most \o end /\ most \in Seq(E) /\ Len(most) = k + n
    BY <1>7, <1>8, <1>9, <1>12
<1> HIDE DEF most
<1>14. c.trace \in Seq(E) /\ Len(c.trace) = k + n + 1
    BY <1>10, <1>12, <1>13
<1>15. Len(c.trace) \in 1..MaxEvents
    BY <1>3, <1>5, <1>6, <1>14, LimitParts, SuiteIsTyped
<1>16. c.trace \in Trace
    BY <1>11, <1>14, <1>15
<1> QED
    BY <1>2, <1>5, <1>14, <1>16 DEF k, n

-----------------------------------------------------------------------------
(* What a step of the search leaves as it is.                              *)
LEMMA SameInputs ==
    ASSUME UNCHANGED inputs
    PROVE  /\ \A q : SearchDepth(q)' = SearchDepth(q)
           /\ \A q, t : Prohibits(q, t)' <=> Prohibits(q, t)
           /\ \A p : IsContrast(p)' <=> IsContrast(p)
           /\ \A p : IsShortest(p)' <=> IsShortest(p)
<1>1. requirements' = requirements /\ limits' = limits
    BY DEF inputs
<1>2. \A q : SearchDepth(q)' = SearchDepth(q)
    BY <1>1 DEF SearchDepth, DeepestSearch
<1>3. \A q, t : Prohibits(q, t)' <=> Prohibits(q, t)
    BY <1>1 DEF Prohibits, AllowedUpto
<1>4. \A t : Permits(t)' <=> Permits(t)
    BY <1>1 DEF Permits, AllowedUpto
<1>5. \A p : IsContrast(p)' <=> IsContrast(p)
    BY <1>1, <1>3, <1>4 DEF IsContrast
<1>6. \A p : IsShortest(p)' <=> IsShortest(p)
    BY <1>2 DEF IsShortest
<1> QED
    BY <1>2, <1>3, <1>5, <1>6

LEMMA InputsStay ==
    ASSUME InputInv, UNCHANGED inputs, left' \subseteq left
    PROVE  InputInv'
BY DEF InputInv, inputs

LEMMA ProbesStay ==
    ASSUME ProbesInv, UNCHANGED inputs, left' \subseteq left, probes' = probes
    PROVE  ProbesInv'
<1>1. requirements' = requirements
    BY DEF inputs
<1>2. ASSUME NEW p \in probes
      PROVE  /\ p.about \in requirements' \ left'
             /\ IsContrast(p)' /\ InWindow(p)
             /\ p.kind = "source_effect" => IsShortest(p)'
    BY <1>1, SameInputs DEF ProbesInv
<1> QED
    BY <1>2 DEF ProbesInv

LEMMA CandidatesStay ==
    ASSUME WorkInv, UNCHANGED inputs, UNCHANGED <<current, sources, prohibited>>
    PROVE  \A c \in prohibited' :
              /\ \E s \in sources', t \in 1..Templates : c = Candidate(Append(s, t), 0)
              /\ Prohibits(current, c.trace)'
BY SameInputs DEF WorkInv

LEMMA GapsAreNoted ==
    ASSUME NEW q, NEW codes, codes # {}, Gap(q, codes)
    PROVE  /\ \A r : Noted(r)' <=> Noted(r) \/ r = q
           /\ \A gap \in gaps' : gap \in gaps \/ gap.about = q
<1>1. gaps' = gaps \cup {[about |-> q, code |-> code] : code \in codes}
    BY DEF Gap
<1>2. \A gap \in gaps' : gap \in gaps \/ gap.about = q
    BY <1>1
<1>3. \E gap \in gaps' : gap.about = q
    <2>1. PICK code : code \in codes
        OBVIOUS
    <2>2. [about |-> q, code |-> code] \in gaps'
        BY <1>1, <2>1
    <2> QED
        BY <2>2
<1>4. \A r : Noted(r)' <=> Noted(r) \/ r = q
    BY <1>1, <1>2, <1>3 DEF Noted
<1> QED
    BY <1>2, <1>4

LEMMA NotesStay ==
    ASSUME gaps' = gaps
    PROVE  \A r : Noted(r)' <=> Noted(r)
BY DEF Noted

LEMMA CoverStays ==
    ASSUME probes' = probes
    PROVE  \A r : /\ EffectsCovered(r)' <=> EffectsCovered(r)
                  /\ WindowCovered(r)' <=> WindowCovered(r)
                  /\ IsCovered(r)' <=> IsCovered(r)
BY DEF EffectsCovered, WindowCovered, IsCovered

(* Without a probe, a requirement is not covered.                          *)
LEMMA NoProbesNoCover ==
    ASSUME InputInv, NEW q \in requirements, \A p \in probes : p.about # q
    PROVE  ~EffectsCovered(q) /\ ~WindowCovered(q) /\ ~IsCovered(q)
BY RequirementParts DEF EffectsCovered, WindowCovered, IsCovered

-----------------------------------------------------------------------------
(* The steps of the search.                                                *)
LEMMA GiveUpKeeps ==
    ASSUME SynthesisInv, NEW q \in left, GiveUp(q)
    PROVE  SynthesisInv'
<1>1. /\ stage = "begin" /\ Unanswerable(q) # {} /\ left' = left \ {q}
      /\ Gap(q, Unanswerable(q)) /\ UNCHANGED inputs
      /\ UNCHANGED <<current, stage, sources, prohibited, probes, outcome>>
    BY DEF GiveUp
<1>2. InputInv /\ WorkInv /\ ProbesInv /\ CoverInv /\ requirements' = requirements
    BY <1>1 DEF SynthesisInv, inputs
<1>3. InputInv' /\ ProbesInv'
    BY <1>1, <1>2, InputsStay, ProbesStay
<1>4. WorkInv'
    BY <1>1, <1>2, CandidatesStay, SameInputs DEF WorkInv, InHand
<1>5. CoverInv'
    <2>1. \A p \in probes : p.about # q
        BY <1>2 DEF ProbesInv
    <2>2. q \in requirements /\ ~IsCovered(q)
        BY <1>2, <2>1, NoProbesNoCover DEF InputInv
    <2>3. ASSUME NEW r \in requirements', r \notin left'
          PROVE  Noted(r)' <=> ~IsCovered(r)'
        <3>1. CASE r = q
            BY <1>1, <2>2, <3>1, GapsAreNoted, CoverStays
        <3>2. CASE r # q
            <4>1. r \in requirements \ left /\ ~InHand /\ outcome # "exceeded"
                BY <1>1, <1>2, <2>3, <3>2 DEF InHand, WorkInv
            <4>2. Noted(r) <=> ~IsCovered(r)
                BY <1>2, <4>1 DEF CoverInv
            <4> QED
                BY <1>1, <3>2, <4>2, GapsAreNoted, CoverStays
        <3> QED
            BY <3>1, <3>2
    <2>4. \A gap \in gaps' : gap.about \in requirements' \ left'
        BY <1>1, <1>2, <2>2, GapsAreNoted DEF CoverInv
    <2> QED
        BY <1>1, <1>2, <2>3, <2>4 DEF CoverInv, WorkInv
<1> QED
    BY <1>3, <1>4, <1>5 DEF SynthesisInv

LEMMA FindSourcesKeeps ==
    ASSUME SynthesisInv, NEW q \in left, FindSources(q)
    PROVE  SynthesisInv'
<1> DEFINE found == Covering(q, SearchDepth(q))
<1>1. /\ stage = "begin" /\ left' = left \ {q} /\ current' = q
      /\ UNCHANGED inputs /\ probes' = probes /\ outcome' = outcome
      /\ \/ found # {} /\ stage' = "prohibit" /\ sources' = found /\ UNCHANGED <<prohibited, gaps>>
         \/ found = {} /\ Done /\ Gap(q, {"source_limit_exhausted"})
    BY DEF FindSources
<1>2. InputInv /\ WorkInv /\ ProbesInv /\ CoverInv /\ requirements' = requirements
    BY <1>1 DEF SynthesisInv, inputs
<1>3. InputInv' /\ ProbesInv'
    BY <1>1, <1>2, InputsStay, ProbesStay
<1>4. prohibited' = {} /\ q \in requirements' \ left' /\ found' = found
    <2>1. prohibited = {} /\ q \in requirements
        BY <1>1, <1>2 DEF WorkInv, InputInv
    <2>2. SearchDepth(q)' = SearchDepth(q)
        BY <1>1, SameInputs
    <2> QED
        BY <1>1, <1>2, <2>1, <2>2 DEF Done
<1> HIDE DEF found
<1>5. WorkInv'
    <2>1. CASE found # {} /\ stage' = "prohibit" /\ sources' = found
        BY <1>1, <1>2, <1>4, <2>1 DEF WorkInv, InHand, found
    <2>2. CASE Done
        BY <1>1, <1>2, <1>4, <2>2 DEF WorkInv, InHand, Done
    <2> QED
        BY <1>1, <2>1, <2>2
<1>6. \A p \in probes : p.about # q
    BY <1>2 DEF ProbesInv
<1>7. q \in requirements /\ ~IsCovered(q) /\ ~Noted(q)
    BY <1>2, <1>6, NoProbesNoCover DEF InputInv, CoverInv, Noted
<1>8. ASSUME NEW r \in requirements \ left
      PROVE  r # q /\ (Noted(r) <=> ~IsCovered(r))
    BY <1>1, <1>2 DEF CoverInv, InHand, WorkInv
<1>9. CoverInv'
    <2>1. CASE stage' = "prohibit" /\ gaps' = gaps
        <3>1. ASSUME NEW r \in requirements', r \notin left', r # q
              PROVE  Noted(r)' <=> ~IsCovered(r)'
            BY <1>1, <1>2, <1>8, <2>1, <3>1, NotesStay, CoverStays
        <3>2. \A gap \in gaps' : gap.about \in requirements' \ left'
            BY <1>1, <1>2, <2>1 DEF CoverInv
        <3>3. ~Noted(q)'
            BY <1>7, <2>1, NotesStay
        <3> QED
            BY <1>1, <1>2, <1>6, <2>1, <3>1, <3>2, <3>3 DEF CoverInv, InHand, WorkInv
    <2>2. CASE Done /\ Gap(q, {"source_limit_exhausted"})
        <3>1. ASSUME NEW r \in requirements', r \notin left'
              PROVE  Noted(r)' <=> ~IsCovered(r)'
            BY <1>1, <1>2, <1>7, <1>8, <2>2, <3>1, GapsAreNoted, CoverStays
        <3>2. \A gap \in gaps' : gap.about \in requirements' \ left'
            BY <1>1, <1>2, <1>7, <2>2, GapsAreNoted DEF CoverInv
        <3> QED
            BY <1>1, <1>2, <2>2, <3>1, <3>2 DEF CoverInv, InHand, WorkInv, Done
    <2> QED
        BY <1>1, <2>1, <2>2
<1> QED
    BY <1>3, <1>5, <1>9 DEF SynthesisInv

LEMMA FindProhibitedKeeps ==
    ASSUME SynthesisInv, FindProhibited
    PROVE  SynthesisInv'
<1> DEFINE tried == {Append(s, t) : s \in sources, t \in SinkTemplates(current)}
           found == {Candidate(trace, 0) : trace \in {u \in tried : Prohibits(current, u)}}
<1>1. /\ stage = "prohibit" /\ left' = left /\ current' = current
      /\ UNCHANGED inputs /\ probes' = probes /\ outcome' = outcome
      /\ \/ stage' = "isolate" /\ prohibited' = found /\ UNCHANGED <<sources, gaps>>
         \/ Done /\ Gap(current, {"no_selectable_prohibited_trace"})
    BY DEF FindProhibited
<1>2. InputInv /\ WorkInv /\ ProbesInv /\ CoverInv /\ requirements' = requirements
    BY <1>1 DEF SynthesisInv, inputs
<1>3. InputInv' /\ ProbesInv'
    BY <1>1, <1>2, InputsStay, ProbesStay
<1>4. ASSUME NEW c \in found
      PROVE  /\ \E s \in sources, t \in 1..Templates : c = Candidate(Append(s, t), 0)
             /\ Prohibits(current, c.trace)
    <2>1. PICK u \in tried : c = Candidate(u, 0) /\ Prohibits(current, u)
        OBVIOUS
    <2>2. PICK s \in sources, t \in SinkTemplates(current) : u = Append(s, t)
        BY <2>1
    <2>3. c.trace = u /\ t \in 1..Templates
        BY <2>1 DEF Candidate, SinkTemplates
    <2>4. c = Candidate(Append(s, t), 0)
        BY <2>1, <2>2
    <2>5. Prohibits(current, c.trace)
        BY <2>1, <2>3
    <2> HIDE DEF tried, found
    <2> QED
        BY <2>2, <2>3, <2>4, <2>5
<1> HIDE DEF found
<1>5. /\ current \in requirements \ left /\ sources # {}
      /\ sources = Covering(current, SearchDepth(current))
    BY <1>1, <1>2 DEF WorkInv, InHand
<1>6. WorkInv'
    <2>1. CASE stage' = "isolate" /\ prohibited' = found /\ UNCHANGED sources
        BY <1>1, <1>2, <1>4, <1>5, <2>1, SameInputs DEF WorkInv, InHand
    <2>2. CASE Done
        BY <1>1, <1>2, <2>2 DEF WorkInv, InHand, Done
    <2> QED
        BY <1>1, <2>1, <2>2
<1>7. ~Noted(current) /\ (\A p \in probes : p.about # current) /\ ~IsCovered(current)
    BY <1>1, <1>2, <1>5, NoProbesNoCover DEF CoverInv
<1>8. ASSUME NEW r \in requirements \ left, r # current
      PROVE  Noted(r) <=> ~IsCovered(r)
    BY <1>1, <1>2, <1>8 DEF CoverInv, WorkInv
<1>9. CoverInv'
    <2>1. CASE stage' = "isolate" /\ gaps' = gaps
        <3>1. ASSUME NEW r \in requirements', r \notin left', r # current
              PROVE  Noted(r)' <=> ~IsCovered(r)'
            BY <1>1, <1>2, <1>8, <2>1, <3>1, NotesStay, CoverStays
        <3>2. ~Noted(current)'
            BY <1>1, <1>7, <2>1 DEF Noted
        <3> QED
            BY <1>1, <1>2, <1>7, <2>1, <3>1, <3>2 DEF CoverInv, InHand, WorkInv
    <2>2. CASE Done /\ Gap(current, {"no_selectable_prohibited_trace"})
        <3>1. ASSUME NEW r \in requirements', r \notin left'
              PROVE  Noted(r)' <=> ~IsCovered(r)'
            BY <1>1, <1>2, <1>7, <1>8, <2>2, <3>1, GapsAreNoted, CoverStays
        <3>2. \A gap \in gaps' : gap.about \in requirements' \ left'
            BY <1>1, <1>2, <1>5, <2>2, GapsAreNoted DEF CoverInv
        <3> QED
            BY <1>1, <1>2, <2>2, <3>1, <3>2 DEF CoverInv, InHand, WorkInv, Done
    <2> QED
        BY <1>1, <2>1, <2>2
<1> QED
    BY <1>3, <1>6, <1>9 DEF SynthesisInv

(* A probe of the requirement in hand whose trace is shortest.             *)
LEMMA IsolatingParts ==
    ASSUME InputInv, WorkInv, InHand, NEW e,
           LET isolating == {pair \in Pairs(current, prohibited, SourceCount) :
                                Removed(current, pair) = {e}}
           IN  isolating # {}
    PROVE  LET isolating == {pair \in Pairs(current, prohibited, SourceCount) :
                                Removed(current, pair) = {e}}
               p == Probe(current, "source_effect", e, isolating)
           IN  /\ p.about = current /\ p.kind = "source_effect" /\ p.effect = e
               /\ IsContrast(p) /\ InWindow(p) /\ IsShortest(p)
<1> DEFINE isolating == {pair \in Pairs(current, prohibited, SourceCount) :
                                Removed(current, pair) = {e}}
           p == Probe(current, "source_effect", e, isolating)
           k == SourceCount
<1>1. /\ current \in requirements /\ k = SearchDepth(current)
      /\ Covering(current, SearchDepth(current)) # {} /\ k \in Nat /\ k >= 1
    BY SourcesParts, DepthIsLeast
<1>2. \A c \in prohibited : c.trace \in Trace /\ Len(c.trace) = k + 1 /\ Prohibits(current, c.trace)
    BY <1>1, CandidatesParts
<1>3. ASSUME NEW pair \in isolating
      PROVE  /\ IsPair(current, k + 1, pair) /\ Prohibits(current, pair.from.trace)
             /\ Removed(current, pair) = {e}
    <2>1. pair \in Pairs(current, prohibited, k) /\ Removed(current, pair) = {e}
        OBVIOUS
    <2> HIDE DEF k, isolating
    <2>2. k + 1 \in Nat /\ k < k + 1
        BY <1>1
    <2>3. pair.from \in prohibited /\ IsPair(current, k + 1, pair)
        BY <1>1, <1>2, <2>1, <2>2, PairParts
    <2> QED
        BY <1>2, <2>1, <2>3
<1>4. isolating # {}
    OBVIOUS
<1> HIDE DEF isolating, k
<1>5. k + 1 \in Nat
    BY <1>1
<1>6. /\ p.about = current /\ p.kind = "source_effect" /\ p.effect = e
      /\ IsContrast(p) /\ Len(p.prohibited) = k + 1
    BY <1>1, <1>3, <1>4, <1>5, ProbeParts
<1> HIDE DEF p
<1>7. IsShortest(p)
    BY <1>1, <1>6 DEF IsShortest
<1>8. current.window = NoWindow \/ SearchDepth(current) <= current.window
    BY <1>1, <1>6, ShortestIsInWindow DEF IsContrast
<1>9. InWindow(p)
    BY <1>1, <1>6, <1>8 DEF InWindow
<1> QED
    BY <1>6, <1>7, <1>9 DEF p, isolating, k

LEMMA NewProbesKeep ==
    ASSUME InputInv, ProbesInv, UNCHANGED <<inputs, left>>, NEW made, IsFiniteSet(made),
           probes' = probes \cup made,
           \A p \in made : /\ p.about \in requirements \ left /\ IsContrast(p) /\ InWindow(p)
                           /\ p.kind = "source_effect" => IsShortest(p)
    PROVE  ProbesInv'
<1>1. requirements' = requirements /\ left' = left /\ UNCHANGED inputs
    BY DEF inputs
<1>2. IsFiniteSet(probes')
    BY FS_Union DEF ProbesInv
<1>3. ASSUME NEW p \in probes'
      PROVE  /\ p.about \in requirements' \ left' /\ IsContrast(p)' /\ InWindow(p)
             /\ p.kind = "source_effect" => IsShortest(p)'
    <2>1. p \in probes \/ p \in made
        OBVIOUS
    <2>2. /\ p.about \in requirements \ left /\ IsContrast(p) /\ InWindow(p)
          /\ p.kind = "source_effect" => IsShortest(p)
        BY <2>1 DEF ProbesInv
    <2> QED
        BY <1>1, <2>2, SameInputs
<1> QED
    BY <1>2, <1>3 DEF ProbesInv

(* Probes of one requirement do not cover another.                         *)
LEMMA OthersAreCoveredAsBefore ==
    ASSUME NEW made, probes' = probes \cup made, NEW q, \A p \in made : p.about = q
    PROVE  \A r : r # q => /\ EffectsCovered(r)' <=> EffectsCovered(r)
                           /\ WindowCovered(r)' <=> WindowCovered(r)
                           /\ IsCovered(r)' <=> IsCovered(r)
<1> SUFFICES ASSUME NEW r, r # q
             PROVE  /\ EffectsCovered(r)' <=> EffectsCovered(r)
                    /\ WindowCovered(r)' <=> WindowCovered(r)
    BY DEF IsCovered
<1>1. \A p : p.about = r => (p \in probes' <=> p \in probes)
    OBVIOUS
<1>2. EffectsCovered(r)' <=> EffectsCovered(r)
    BY <1>1 DEF EffectsCovered
<1>3. WindowCovered(r)' <=> WindowCovered(r)
    BY <1>1 DEF WindowCovered
<1> QED
    BY <1>2, <1>3

LEMMA IsolateEffectsKeeps ==
    ASSUME SynthesisInv, IsolateEffects
    PROVE  SynthesisInv'
<1> DEFINE q == current
           pairs == Pairs(current, prohibited, SourceCount)
           isolating(e) == {pair \in pairs : Removed(current, pair) = {e}}
           isolated == {e \in current.sources : isolating(e) # {}}
           probe == [e \in isolated |-> Probe(current, "source_effect", e, isolating(e))]
           made == {probe[e] : e \in isolated}
           tested == current.window = 1 \/ \E p \in made : TestsWindow(p)
<1>1. /\ stage = "isolate" /\ left' = left /\ current' = current
      /\ UNCHANGED inputs /\ outcome' = outcome /\ probes' = probes \cup made
      /\ IF isolated # q.sources THEN Gap(q, {"non_isolatable_source_effect"}) ELSE UNCHANGED gaps
      /\ IF tested THEN Done ELSE stage' = "history" /\ UNCHANGED <<sources, prohibited>>
    <2>1. made = {Probe(current, "source_effect", e, isolating(e)) : e \in isolated}
        OBVIOUS
    <2> QED
        BY <2>1 DEF IsolateEffects
<1>2. InputInv /\ WorkInv /\ ProbesInv /\ CoverInv /\ requirements' = requirements /\ InHand
    BY <1>1 DEF SynthesisInv, inputs, InHand
<1>3. q \in requirements \ left
    BY <1>2, SourcesParts
<1>4. ASSUME NEW e \in isolated
      PROVE  /\ probe[e].about = q /\ probe[e].kind = "source_effect" /\ probe[e].effect = e
             /\ IsContrast(probe[e]) /\ InWindow(probe[e]) /\ IsShortest(probe[e])
    <2>1. isolating(e) # {} /\ probe[e] = Probe(current, "source_effect", e, isolating(e))
        OBVIOUS
    <2> QED
        BY <1>2, <2>1, IsolatingParts
<1>5. IsFiniteSet(made)
    <2>1. isolated \in SUBSET q.sources
        OBVIOUS
    <2>2. IsFiniteSet(isolated)
        BY <1>2, <1>3, <2>1, RequirementParts, FS_Subset
    <2> HIDE DEF probe, isolated
    <2> QED
        BY <2>2, ImageIsFinite
<1>6. isolated \subseteq q.sources
    OBVIOUS
<1> HIDE DEF isolated, probe, tested
<1>7. \A p \in made : p.about = q
    BY <1>4
<1>8. /\ q.sources \subseteq isolated <=> \A e \in q.sources : \E p \in made :
             p.about = q /\ p.kind = "source_effect" /\ p.effect = e
    <2>1. ASSUME NEW e \in q.sources, NEW p \in made, p.effect = e
          PROVE  e \in isolated
        BY <1>4, <2>1
    <2>2. ASSUME NEW e \in isolated
          PROVE  \E p \in made : p.about = q /\ p.kind = "source_effect" /\ p.effect = e
        BY <1>4
    <2> HIDE DEF made
    <2> QED
        BY <2>1, <2>2
<1>9. \A p \in made : /\ p.about \in requirements \ left /\ IsContrast(p) /\ InWindow(p)
                      /\ p.kind = "source_effect" => IsShortest(p)
    BY <1>3, <1>4
<1> HIDE DEF made
<1>10. ProbesInv' /\ InputInv'
    BY <1>1, <1>2, <1>5, <1>9, NewProbesKeep, InputsStay
<1>11. ~Noted(q) /\ \A p \in probes : p.about # q
    BY <1>1, <1>2 DEF CoverInv
<1>12. EffectsCovered(q)' <=> isolated = q.sources
    <2>1. \A p \in probes' : p.about = q <=> p \in made
        BY <1>1, <1>7, <1>11
    <2>2. EffectsCovered(q)' <=> \A e \in q.sources : \E p \in probes' :
              p.about = q /\ p.kind = "source_effect" /\ p.effect = e
        BY <1>1 DEF EffectsCovered
    <2> QED
        BY <1>1, <1>6, <1>8, <2>1, <2>2
<1>13. WindowCovered(q)' <=> \E p \in made : TestsWindow(p)
    <2>1. \A p \in probes' : p.about = q <=> p \in made
        BY <1>1, <1>7, <1>11
    <2>2. WindowCovered(q)' <=> \E p \in probes' : p.about = q /\ TestsWindow(p)
        BY <1>1 DEF WindowCovered
    <2> QED
        BY <1>1, <2>1, <2>2
<1>14. Noted(q)' <=> isolated # q.sources
    <2>1. CASE isolated # q.sources
        BY <1>1, <2>1, GapsAreNoted DEF Noted
    <2>2. CASE isolated = q.sources
        BY <1>1, <1>11, <2>2 DEF Noted
    <2> QED
        BY <2>1, <2>2
<1>15. \A gap \in gaps' : gap.about \in requirements' \ left'
    <2>1. CASE isolated # q.sources
        BY <1>1, <1>2, <1>3, <2>1, GapsAreNoted DEF CoverInv
    <2>2. CASE isolated = q.sources
        BY <1>1, <1>2, <2>2 DEF CoverInv
    <2> QED
        BY <2>1, <2>2
<1>16. ASSUME NEW r \in requirements', r \notin left', r # q
       PROVE  Noted(r)' <=> ~IsCovered(r)'
    <2>1. Noted(r) <=> ~IsCovered(r)
        BY <1>1, <1>2, <1>16 DEF CoverInv, WorkInv
    <2>2. IsCovered(r)' <=> IsCovered(r)
        BY <1>1, <1>7, <1>16, OthersAreCoveredAsBefore
    <2>3. Noted(r)' <=> Noted(r)
        <3>1. CASE isolated # q.sources
            BY <1>1, <1>16, <3>1, GapsAreNoted
        <3>2. CASE isolated = q.sources
            BY <1>1, <3>2, NotesStay
        <3> QED
            BY <3>1, <3>2
    <2> QED
        BY <2>1, <2>2, <2>3
<1>17. CASE tested /\ Done
    <2>1. Noted(q)' <=> ~IsCovered(q)'
        BY <1>1, <1>12, <1>13, <1>14, <1>17 DEF IsCovered, tested
    <2>2. CoverInv'
        BY <1>1, <1>2, <1>15, <1>16, <1>17, <2>1 DEF CoverInv, InHand, Done, WorkInv
    <2>3. WorkInv'
        BY <1>1, <1>2, <1>17 DEF WorkInv, InHand, Done
    <2> QED
        BY <1>10, <2>2, <2>3 DEF SynthesisInv
<1>18. CASE ~tested /\ stage' = "history" /\ UNCHANGED <<sources, prohibited>>
    <2>1. q.window # 1 /\ ~WindowCovered(q)' /\ (Noted(q)' <=> ~EffectsCovered(q)')
        BY <1>12, <1>13, <1>14, <1>18 DEF tested
    <2>2. CoverInv'
        BY <1>1, <1>2, <1>15, <1>16, <1>18, <2>1 DEF CoverInv, InHand, WorkInv
    <2>3. WorkInv'
        BY <1>1, <1>2, <1>3, <1>18, <2>1, CandidatesStay, SameInputs DEF WorkInv, InHand
    <2> QED
        BY <1>10, <2>2, <2>3 DEF SynthesisInv
<1> QED
    BY <1>1, <1>17, <1>18


(* A requirement that is closed with a gap for its window.                 *)
LEMMA GapClosesHistory ==
    ASSUME SynthesisInv, stage = "history", NEW codes, codes # {}, Gap(current, codes), Done,
           UNCHANGED <<inputs, left, current, probes, outcome>>
    PROVE  SynthesisInv'
<1>1. InputInv /\ WorkInv /\ ProbesInv /\ CoverInv /\ requirements' = requirements /\ InHand
    BY DEF SynthesisInv, inputs, InHand
<1>2. InputInv' /\ ProbesInv'
    BY <1>1, InputsStay, ProbesStay
<1>3. WorkInv'
    BY <1>1 DEF WorkInv, InHand, Done
<1>4. current \in requirements \ left /\ current.window # 1 /\ ~WindowCovered(current)
    BY <1>1, SourcesParts DEF WorkInv, CoverInv
<1>5. ASSUME NEW r \in requirements', r \notin left'
      PROVE  Noted(r)' <=> ~IsCovered(r)'
    <2>1. CASE r = current
        <3>1. Noted(r)'
            BY <2>1, GapsAreNoted
        <3>2. ~IsCovered(r)'
            BY <1>4, <2>1, CoverStays DEF IsCovered
        <3> QED
            BY <3>1, <3>2
    <2>2. CASE r # current
        <3>1. Noted(r) <=> ~IsCovered(r)
            BY <1>1, <1>5, <2>2 DEF CoverInv, WorkInv
        <3> QED
            BY <2>2, <3>1, GapsAreNoted, CoverStays
    <2> QED
        BY <2>1, <2>2
<1>6. \A gap \in gaps' : gap.about \in requirements' \ left'
    BY <1>1, <1>4, GapsAreNoted DEF CoverInv
<1>7. CoverInv'
    BY <1>1, <1>5, <1>6 DEF CoverInv, InHand, WorkInv, Done
<1> QED
    BY <1>2, <1>3, <1>7 DEF SynthesisInv

LEMMA ProbeHistoryKeeps ==
    ASSUME SynthesisInv, ProbeHistory
    PROVE  SynthesisInv'
<1> DEFINE q == current
           n == SourceCount + Padding + 1
           pairs == {pair \in Pairs(current, Spaced, SourceCount) :
                        /\ Cardinality(Removed(current, pair)) = 1
                        /\ AtBoundary(current, Age(pair.to, pair.at))}
           removed == Removed(current, Best(current, pairs))
           same == {pair \in pairs : Removed(current, pair) = removed}
           effect == CHOOSE e \in removed : TRUE
           new == Probe(current, "history_window", effect, same)
<1>1. /\ stage = "history" /\ ~TooLong /\ Done /\ left' = left /\ current' = current
      /\ UNCHANGED inputs /\ outcome' = outcome
      /\ \/ pairs # {} /\ probes' = probes \cup {new} /\ UNCHANGED gaps
         \/ Gap(current, {"no_temporal_contrast"}) /\ UNCHANGED probes
    BY DEF ProbeHistory
<1>2. InputInv /\ WorkInv /\ ProbesInv /\ CoverInv /\ requirements' = requirements /\ InHand
    BY <1>1 DEF SynthesisInv, inputs, InHand
<1>3. CASE Gap(current, {"no_temporal_contrast"}) /\ UNCHANGED probes
    BY <1>1, <1>3, GapClosesHistory
<1>4. CASE pairs # {} /\ probes' = probes \cup {new} /\ UNCHANGED gaps
    <2>1. q \in requirements \ left /\ SourceCount \in Nat /\ SourceCount >= 1 /\ q.window # 1
        BY <1>1, <1>2, SourcesParts, DepthIsLeast DEF WorkInv
    <2>2. \A c \in Spaced : /\ c.trace \in Trace /\ Len(c.trace) = n
                            /\ Prohibits(q, c.trace) /\ Padding \in Nat
                            /\ q.window = NoWindow \/ SourceCount + Padding = q.window
        BY <1>1, <1>2, SpacedParts
    <2>3. Spaced # {}
        BY <1>4 DEF Pairs
    <2>4. Padding \in Nat /\ (q.window = NoWindow \/ SourceCount + Padding = q.window)
        BY <2>2, <2>3
    <2>5. n \in Nat /\ SourceCount < n
        BY <2>1, <2>4
    <2>6. \A pair \in pairs : pair.from \in Spaced /\ IsPair(q, n, pair)
        <3> SUFFICES ASSUME NEW pair \in pairs
                     PROVE  pair.from \in Spaced /\ IsPair(q, n, pair)
            OBVIOUS
        <3>1. pair \in Pairs(q, Spaced, SourceCount)
            OBVIOUS
        <3> HIDE DEF pairs, n
        <3>2. \A c \in Spaced : c.trace \in Trace /\ Len(c.trace) = n
            BY <2>2
        <3> QED
            BY <2>1, <2>5, <3>1, <3>2, PairParts
    <2> HIDE DEF n
    <2>7. Best(q, pairs) \in pairs
        <3> HIDE DEF pairs
        <3> QED
            BY <1>2, <1>4, <2>1, <2>5, <2>6, BestIsOne
    <2>8. Cardinality(removed) = 1 /\ removed \in SUBSET q.sources
        BY <2>7 DEF Removed
    <2>9. removed = {effect}
        <3>1. IsFiniteSet(removed)
            BY <1>2, <2>1, <2>8, RequirementParts, FS_Subset
        <3>2. \E e : removed = {e}
            BY <2>8, <3>1, FS_Singleton
        <3> HIDE DEF removed
        <3> QED
            BY <3>2
    <2>10. /\ same # {} /\ \A pair \in same :
              /\ IsPair(q, n, pair) /\ Prohibits(q, pair.from.trace)
              /\ Removed(q, pair) = {effect}
        <3>1. same # {}
            BY <2>7
        <3>2. ASSUME NEW pair \in same
              PROVE  pair \in pairs /\ Removed(q, pair) = removed
            OBVIOUS
        <3> HIDE DEF same, pairs, removed, effect
        <3> QED
            BY <2>2, <2>6, <2>9, <3>1, <3>2
    <2>11. \A pair \in same : AtBoundary(q, Age(pair.to, pair.at))
        OBVIOUS
    <2> HIDE DEF same, pairs, removed, effect
    <2>12. /\ new.about = q /\ new.kind = "history_window" /\ new.effect = effect
           /\ IsContrast(new) /\ Len(new.prohibited) = n
           /\ \E pair \in same : new.prohibited = pair.from.trace /\ new.at = pair.at
        BY <1>2, <2>1, <2>5, <2>10, ProbeParts
    <2> HIDE DEF new
    <2>13. TestsWindow(new)
        <3>1. PICK pair \in same : new.prohibited = pair.from.trace /\ new.at = pair.at
            BY <2>12
        <3>2. Len(pair.to) = Len(new.prohibited)
            BY <2>10, <2>12 DEF IsPair
        <3>3. Age(pair.to, pair.at) = Age(new.prohibited, new.at)
            BY <3>1, <3>2 DEF Age
        <3> QED
            BY <2>11, <2>12, <3>3 DEF TestsWindow
    <2>14. InWindow(new)
        <3>1. Len(new.prohibited) - 1 = SourceCount + Padding
            BY <2>1, <2>4, <2>12 DEF n
        <3>2. q.window \in Nat
            BY <1>2, <2>1, RequirementParts
        <3> QED
            BY <2>4, <2>12, <3>1, <3>2 DEF InWindow
    <2>15. ProbesInv' /\ InputInv'
        <3>1. \A p \in {new} : /\ p.about \in requirements \ left /\ IsContrast(p) /\ InWindow(p)
                               /\ p.kind = "source_effect" => IsShortest(p)
            BY <2>1, <2>12, <2>14
        <3>2. IsFiniteSet({new})
            BY FS_Singleton
        <3> QED
            BY <1>1, <1>2, <1>4, <3>1, <3>2, NewProbesKeep, InputsStay
    <2>16. WorkInv'
        BY <1>1, <1>2 DEF WorkInv, InHand, Done
    <2>17. WindowCovered(q)' /\ (EffectsCovered(q)' <=> EffectsCovered(q))
        <3>1. WindowCovered(q)'
            BY <1>1, <1>4, <2>12, <2>13 DEF WindowCovered
        <3>2. EffectsCovered(q)' <=> EffectsCovered(q)
            BY <1>1, <1>4, <2>12 DEF EffectsCovered
        <3> QED
            BY <3>1, <3>2
    <2>18. Noted(q)' <=> ~EffectsCovered(q)
        BY <1>1, <1>2, <1>4 DEF Noted, CoverInv
    <2>19. ASSUME NEW r \in requirements', r \notin left'
           PROVE  Noted(r)' <=> ~IsCovered(r)'
        <3>1. CASE r = q
            BY <1>1, <2>17, <2>18, <3>1 DEF IsCovered
        <3>2. CASE r # q
            <4>1. Noted(r) <=> ~IsCovered(r)
                BY <1>1, <1>2, <2>19, <3>2 DEF CoverInv, WorkInv
            <4>2. IsCovered(r)' <=> IsCovered(r)
                <5> DEFINE made == {new}
                <5>1. probes' = probes \cup made /\ \A p \in made : p.about = q
                    BY <1>4, <2>12
                <5> HIDE DEF made
                <5> QED
                    BY <3>2, <5>1, OthersAreCoveredAsBefore
            <4> QED
                BY <1>4, <4>1, <4>2, NotesStay
        <3> QED
            BY <3>1, <3>2
    <2>20. CoverInv'
        BY <1>1, <1>2, <1>4, <2>19 DEF CoverInv, InHand, WorkInv, Done
    <2> QED
        BY <2>15, <2>16, <2>20 DEF SynthesisInv
<1> QED
    BY <1>1, <1>3, <1>4

LEMMA HistoryTooLongKeeps ==
    ASSUME SynthesisInv, HistoryTooLong
    PROVE  SynthesisInv'
<1>1. /\ stage = "history" /\ Gap(current, {"trace_limit_exhausted"}) /\ Done
      /\ UNCHANGED <<inputs, left, current, probes, outcome>>
    BY DEF HistoryTooLong
<1> QED
    BY <1>1, GapClosesHistory

LEMMA StopsKeeps ==
    ASSUME SynthesisInv, stage \in {"begin", "prohibit", "isolate", "history"}, NEW result,
           Stops(result),
           result = "exceeded" \/ (stage = "begin" /\ left = {} /\ result = Verdict)
    PROVE  SynthesisInv'
<1>1. /\ outcome' = result /\ stage' = "over" /\ UNCHANGED inputs
      /\ UNCHANGED <<left, current, sources, prohibited, probes, gaps>>
    BY DEF Stops
<1>2. /\ InputInv /\ WorkInv /\ ProbesInv /\ CoverInv /\ requirements' = requirements
      /\ outcome = "searching"
    BY <1>1 DEF SynthesisInv, inputs, WorkInv
<1>3. result \in {"exceeded", "passed", "incomplete"}
    BY DEF Verdict
<1>4. InputInv' /\ ProbesInv'
    BY <1>1, <1>2, InputsStay, ProbesStay
<1>5. WorkInv'
    <2>1. SearchDepth(current)' = SearchDepth(current)
        BY <1>1, SameInputs
    <2>2. Covering(current, SearchDepth(current))' = Covering(current, SearchDepth(current))
        BY <1>1, <2>1
    <2> QED
        BY <1>1, <1>2, <1>3, <2>2, CandidatesStay DEF WorkInv, InHand
<1>6. ASSUME result # "exceeded", NEW r \in requirements \ left
      PROVE  Noted(r)' <=> ~IsCovered(r)'
    <2>1. Noted(r) <=> ~IsCovered(r)
        BY <1>2, <1>6 DEF CoverInv, InHand
    <2> QED
        BY <1>1, <2>1, NotesStay, CoverStays
<1>7. CoverInv'
    BY <1>1, <1>2, <1>3, <1>6 DEF CoverInv, InHand, Verdict
<1> QED
    BY <1>4, <1>5, <1>7 DEF SynthesisInv

LEMMA SynthesiseKeeps ==
    ASSUME SynthesisInv, Synthesise
    PROVE  SynthesisInv'
<1>1. ASSUME NEW q \in left, GiveUp(q)
      PROVE  SynthesisInv'
    BY <1>1, GiveUpKeeps
<1>2. ASSUME NEW q \in left, FindSources(q)
      PROVE  SynthesisInv'
    BY <1>2, FindSourcesKeeps
<1>3. CASE Exceed
    BY <1>3, StopsKeeps DEF Exceed, Overspent
<1>4. CASE Report
    BY <1>4, StopsKeeps DEF Report
<1> QED
    BY <1>1, <1>2, <1>3, <1>4, FindProhibitedKeeps, IsolateEffectsKeeps, ProbeHistoryKeeps,
       HistoryTooLongKeeps DEF Synthesise

LEMMA SynthesisBegins ==
    ASSUME SynthesisInit
    PROVE  SynthesisInv
<1>1. /\ requirements \in Suites /\ limits \in Limits /\ left = requirements
      /\ stage = "begin" /\ sources = {} /\ prohibited = {}
      /\ probes = {} /\ gaps = {} /\ outcome = "searching"
    BY DEF SynthesisInit
<1>2. InputInv /\ WorkInv /\ CoverInv
    BY <1>1 DEF InputInv, WorkInv, CoverInv, InHand
<1>3. ProbesInv
    BY <1>1, FS_EmptySet DEF ProbesInv
<1> QED
    BY <1>2, <1>3 DEF SynthesisInv

-----------------------------------------------------------------------------
(* The steps of the analysis.                                              *)
LEMMA ContractsStay ==
    ASSUME UNCHANGED synthesisVars
    PROVE  Contracts' = Contracts /\ outcome' = outcome
<1>1. requirements' = requirements /\ probes' = probes /\ outcome' = outcome
    BY DEF synthesisVars, inputs, report
<1>2. \A p : Contract(p)' = Contract(p)
    BY <1>1 DEF Contract, ProhibitedCase, PermittedCase, ExpectedControls
<1> QED
    BY <1>1, <1>2 DEF Contracts

LEMMA AnalysisStays ==
    ASSUME AnalysisInv, UNCHANGED analysisVars, analysis = "idle" \/ UNCHANGED synthesisVars
    PROVE  AnalysisInv'
<1>1. /\ suite' = suite /\ policy' = policy /\ thresholds' = thresholds
      /\ mutants' = mutants /\ outcomes' = outcomes /\ analysis' = analysis
    BY DEF analysisVars, arguments
<1>2. CASE analysis = "idle"
    BY <1>1, <1>2 DEF AnalysisInv
<1>3. CASE UNCHANGED synthesisVars
    BY <1>1, <1>3, ContractsStay DEF AnalysisInv
<1> QED
    BY <1>2, <1>3

LEMMA CompileKeeps ==
    ASSUME AnalysisInv, Compile
    PROVE  AnalysisInv'
<1>1. outcome = "passed" /\ UNCHANGED synthesisVars
    BY DEF Compile
<1>2. PICK rules \in Policies \cup {AsPolicy(requirements)}, min \in Thresholds :
         Begin(Contracts, rules, min)
    BY DEF Compile
<1>3. /\ analysis = "idle" /\ analysis' = "baseline" /\ suite' = Contracts
      /\ mutants' = mutants /\ outcomes' = outcomes
    BY <1>2 DEF Begin
<1>4. Contracts' = Contracts /\ outcome' = outcome
    BY <1>1, ContractsStay
<1> QED
    BY <1>1, <1>3, <1>4 DEF AnalysisInv

LEMMA AnalyseKeeps ==
    ASSUME AnalysisInv, Analyse
    PROVE  AnalysisInv'
<1>1. Contracts' = Contracts /\ outcome' = outcome
    BY ContractsStay DEF Analyse
<1>2. CASE Baseline
    <2>1. /\ analysis = "baseline" /\ suite' = suite /\ policy' = policy
          /\ thresholds' = thresholds /\ outcomes' = outcomes
          /\ \/ analysis' = "mutants" /\ mutants' = MutantsOf(policy)
             \/ /\ analysis' = "refused" /\ mutants' = mutants
                /\ FailedMetrics(policy, suite, thresholds) # {} \/ MutantsOf(policy) = {}
        BY <1>2 DEF Baseline, arguments
    <2> QED
        BY <1>1, <2>1 DEF AnalysisInv
<1>3. CASE Try
    <2> DEFINE mutant == CHOOSE mutant \in mutants : TRUE
               o == [mutant |-> mutant,
                     failed |-> FailedMetrics(mutant.policy, suite, thresholds)]
    <2>1. /\ analysis = "mutants" /\ mutants # {} /\ analysis' = analysis
          /\ suite' = suite /\ policy' = policy /\ thresholds' = thresholds
          /\ outcomes' = outcomes \cup {o} /\ mutants' = mutants \ {mutant}
        BY <1>3 DEF Try, arguments
    <2>2. mutant \in MutantsOf(policy)
        BY <2>1 DEF AnalysisInv
    <2>3. o.mutant = mutant /\ o.failed = FailedMetrics(mutant.policy, suite, thresholds)
        OBVIOUS
    <2> HIDE DEF mutant, o
    <2>4. \A u \in outcomes' : /\ u.mutant \in MutantsOf(policy')
                               /\ u.failed = FailedMetrics(u.mutant.policy, suite', thresholds')
        BY <2>1, <2>2, <2>3 DEF AnalysisInv
    <2>5. mutants' \subseteq MutantsOf(policy')
        BY <2>1 DEF AnalysisInv
    <2> QED
        BY <1>1, <2>1, <2>4, <2>5 DEF AnalysisInv
<1>4. CASE Conclude
    <2>1. /\ analysis = "mutants" /\ analysis' = "reported" /\ suite' = suite
          /\ policy' = policy /\ thresholds' = thresholds /\ outcomes' = outcomes
          /\ mutants' = mutants
        BY <1>4 DEF Conclude, arguments
    <2> QED
        BY <1>1, <2>1 DEF AnalysisInv
<1> QED
    BY <1>2, <1>3, <1>4 DEF Analyse

LEMMA InvariantStays ==
    ASSUME AssuranceInv, UNCHANGED synthesisVars
    PROVE  SynthesisInv'
<1>1. /\ UNCHANGED inputs /\ left' = left /\ current' = current /\ stage' = stage
      /\ sources' = sources /\ prohibited' = prohibited
      /\ probes' = probes /\ gaps' = gaps /\ outcome' = outcome
      /\ requirements' = requirements
    BY DEF synthesisVars, inputs, work, report
<1>2. InputInv /\ WorkInv /\ ProbesInv /\ CoverInv
    BY DEF AssuranceInv, SynthesisInv
<1>3. InputInv' /\ ProbesInv'
    BY <1>1, <1>2, InputsStay, ProbesStay
<1>4. WorkInv'
    <2>1. SearchDepth(current)' = SearchDepth(current)
        BY <1>1, SameInputs
    <2>2. Covering(current, SearchDepth(current))' = Covering(current, SearchDepth(current))
        BY <1>1, <2>1
    <2> QED
        BY <1>1, <1>2, <2>2, CandidatesStay DEF WorkInv, InHand
<1>5. CoverInv'
    <2>1. \A r : Noted(r)' <=> Noted(r)
        BY <1>1, NotesStay
    <2>2. \A r : /\ EffectsCovered(r)' <=> EffectsCovered(r)
                 /\ WindowCovered(r)' <=> WindowCovered(r)
                 /\ IsCovered(r)' <=> IsCovered(r)
        BY <1>1, CoverStays
    <2>3. Noted(current)' <=> Noted(current)
        BY <1>1 DEF Noted
    <2> QED
        BY <1>1, <1>2, <2>1, <2>2, <2>3 DEF CoverInv, InHand
<1> QED
    BY <1>3, <1>4, <1>5 DEF SynthesisInv

-----------------------------------------------------------------------------
(* What the search holds, has found and has reported, and what its         *)
(* contracts said of the mutants so far, is as the invariant has it.       *)
THEOREM AssuranceInvariant == Spec => []AssuranceInv
<1>1. Init => AssuranceInv
    <2>1. ASSUME Init
          PROVE  AssuranceInv
        <3>1. AnalysisInv
            BY <2>1 DEF Init, AnalysisInit, AnalysisInv
        <3> QED
            BY <2>1, <3>1, SynthesisBegins DEF Init, AssuranceInv
    <2> QED
        BY <2>1
<1>2. AssuranceInv /\ [Next]_vars => AssuranceInv'
    <2> SUFFICES ASSUME AssuranceInv, [Next]_vars
                 PROVE  AssuranceInv'
        OBVIOUS
    <2>1. SynthesisInv /\ AnalysisInv
        BY DEF AssuranceInv
    <2>2. CASE Synthesise /\ UNCHANGED analysisVars
        <3>1. SynthesisInv'
            BY <2>1, <2>2, SynthesiseKeeps
        <3>2. stage # "over"
            BY <2>2 DEF Synthesise, GiveUp, FindSources, FindProhibited, IsolateEffects,
               ProbeHistory, HistoryTooLong, Exceed, Overspent, Report
        <3>3. analysis = "idle"
            BY <2>1, <3>2 DEF SynthesisInv, WorkInv, AnalysisInv
        <3>4. AnalysisInv'
            BY <2>1, <2>2, <3>3, AnalysisStays
        <3> QED
            BY <3>1, <3>4 DEF AssuranceInv
    <2>3. CASE Compile
        BY <2>1, <2>3, CompileKeeps, InvariantStays DEF Compile, AssuranceInv
    <2>4. CASE Analyse
        BY <2>1, <2>4, AnalyseKeeps, InvariantStays DEF Analyse, AssuranceInv
    <2>5. CASE UNCHANGED vars
        <3>1. UNCHANGED synthesisVars /\ UNCHANGED analysisVars
            BY <2>5 DEF vars
        <3> QED
            BY <2>1, <3>1, AnalysisStays, InvariantStays DEF AssuranceInv
    <2> QED
        BY <2>2, <2>3, <2>4, <2>5 DEF Next, Finished
<1> QED
    BY <1>1, <1>2, PTL DEF Spec

-----------------------------------------------------------------------------
(* What the invariant says of a report.                                    *)
LEMMA ContrastParts ==
    ASSUME NEW p, IsContrast(p)
    PROVE  /\ p.prohibited \in Trace /\ p.permitted \in Trace
           /\ Len(p.permitted) = Len(p.prohibited)
           /\ p.at \in 1..(Len(p.prohibited) - 1) /\ p.at \in 1..Len(p.prohibited)
           /\ p.permitted[p.at] # p.prohibited[p.at]
           /\ \A j \in 1..Len(p.prohibited) : j # p.at => p.permitted[j] = p.prohibited[j]
           /\ Prohibits(p.about, p.prohibited) /\ Permits(p.permitted)
           /\ p.effect \in p.about.sources /\ p.effect \notin Gathered(Front(p.permitted))
           /\ p.about.sources \ {p.effect} \subseteq Gathered(Front(p.permitted))
<1>1. /\ p.prohibited \in Trace /\ p.at \in 1..(Len(p.prohibited) - 1)
      /\ Prohibits(p.about, p.prohibited) /\ Permits(p.permitted)
      /\ p.about.sources \ Gathered(Front(p.permitted)) = {p.effect}
    BY DEF IsContrast
<1>2. PICK x \in 1..Templates :
         x # p.prohibited[p.at] /\ p.permitted = [p.prohibited EXCEPT ![p.at] = x]
    BY DEF IsContrast
<1>3. p.at \in 1..Len(p.prohibited)
    BY <1>1, TraceLength
<1>4. /\ p.permitted \in Trace /\ Len(p.permitted) = Len(p.prohibited)
      /\ \A j \in 1..Len(p.prohibited) : p.permitted[j] = IF j = p.at THEN x ELSE p.prohibited[j]
    BY <1>1, <1>2, <1>3, ReplacedIsTrace
<1> QED
    BY <1>1, <1>2, <1>3, <1>4

(* A complete report is one that covers everything.                        *)
LEMMA CoveredIsCovers ==
    ASSUME SynthesisInv
    PROVE  (\A q \in requirements : IsCovered(q)) <=>
               /\ Covers.requirements = ShouldCover.requirements
               /\ Covers.effects = ShouldCover.effects
               /\ ShouldCover.windows \subseteq Covers.windows
<1>1. InputInv /\ ProbesInv
    BY DEF SynthesisInv
<1>2. \A p \in probes : p.about \in requirements /\ p.effect \in p.about.sources
    BY <1>1, ContrastParts DEF ProbesInv
<1> DEFINE a == {<<p.about>> : p \in probes}
           b == {<<q>> : q \in requirements}
           c == {<<p.about, p.effect>> : p \in {p \in probes : p.kind = "source_effect"}}
           d == UNION {{<<q, e>> : e \in q.sources} : q \in requirements}
           f == {<<p.about>> : p \in {p \in probes : TestsWindow(p)}}
           g == {<<q>> : q \in {q \in requirements : q.window # 1}}
<1>3. /\ Covers.requirements = a /\ Covers.effects = c /\ Covers.windows = f
      /\ ShouldCover.requirements = b /\ ShouldCover.effects = d /\ ShouldCover.windows = g
    BY DEF Covers, ShouldCover
<1>4. a \subseteq b /\ c \subseteq d
    BY <1>2
<1>5. d \subseteq c <=> \A q \in requirements : EffectsCovered(q)
    <2>1. ASSUME d \subseteq c, NEW q \in requirements, NEW e \in q.sources
          PROVE  \E p \in probes : p.about = q /\ p.kind = "source_effect" /\ p.effect = e
        <3>1. <<q, e>> \in d
            OBVIOUS
        <3>2. <<q, e>> \in c
            BY <2>1, <3>1
        <3> QED
            BY <3>2
    <2>2. ASSUME \A q \in requirements : EffectsCovered(q),
                 NEW q \in requirements, NEW e \in q.sources
          PROVE  <<q, e>> \in c
        <3>1. PICK p \in probes : p.about = q /\ p.kind = "source_effect" /\ p.effect = e
            BY <2>2 DEF EffectsCovered
        <3> QED
            BY <3>1
    <2>3. ASSUME \A q \in requirements : EffectsCovered(q)
          PROVE  d \subseteq c
        <3> HIDE DEF c
        <3> QED
            BY <2>2, <2>3
    <2> QED
        BY <2>1, <2>3 DEF EffectsCovered
<1>6. (\A q \in requirements : EffectsCovered(q)) => b \subseteq a
    <2> SUFFICES ASSUME \A q \in requirements : EffectsCovered(q), NEW q \in requirements
                 PROVE  <<q>> \in a
        OBVIOUS
    <2>1. \E p \in probes : p.about = q
        BY <1>1, RequirementParts DEF EffectsCovered
    <2> QED
        BY <2>1
<1>7. g \subseteq f <=> \A q \in requirements : q.window # 1 => WindowCovered(q)
    <2>1. ASSUME g \subseteq f, NEW q \in requirements, q.window # 1
          PROVE  WindowCovered(q)
        <3>1. <<q>> \in g
            BY <2>1
        <3>2. <<q>> \in f
            BY <2>1, <3>1
        <3> QED
            BY <3>2 DEF WindowCovered
    <2>2. ASSUME \A q \in requirements : q.window # 1 => WindowCovered(q),
                 NEW q \in requirements, q.window # 1
          PROVE  <<q>> \in f
        BY <2>2 DEF WindowCovered
    <2>3. ASSUME \A q \in requirements : q.window # 1 => WindowCovered(q)
          PROVE  g \subseteq f
        BY <2>2, <2>3
    <2> QED
        BY <2>1, <2>3
<1> HIDE DEF a, b, c, d, f, g
<1> QED
    BY <1>3, <1>4, <1>5, <1>6, <1>7 DEF IsCovered

(* A report passes if and only if it covers every requirement, every       *)
(* source effect and every window above one event.                         *)
THEOREM CompletenessIsCover == Spec => []CompleteReportsCover
<1>1. AssuranceInv => CompleteReportsCover
    <2> SUFFICES ASSUME AssuranceInv, outcome \in {"passed", "incomplete"}
                 PROVE  outcome = "passed" <=> \A q \in requirements : IsCovered(q)
        BY CoveredIsCovers DEF AssuranceInv, CompleteReportsCover
    <2>1. WorkInv /\ CoverInv
        BY DEF AssuranceInv, SynthesisInv
    <2>2. left = {} /\ ~InHand /\ outcome # "exceeded"
        BY <2>1 DEF WorkInv, CoverInv, InHand
    <2>3. \A q \in requirements : Noted(q) <=> ~IsCovered(q)
        BY <2>1, <2>2 DEF CoverInv
    <2>4. CASE outcome = "passed"
        BY <2>1, <2>3, <2>4 DEF CoverInv, Noted
    <2>5. CASE outcome = "incomplete"
        <3>1. PICK gap \in gaps : TRUE
            BY <2>1, <2>5 DEF CoverInv
        <3>2. gap.about \in requirements /\ Noted(gap.about)
            BY <2>1 DEF CoverInv, Noted
        <3> QED
            BY <2>3, <2>5, <3>2
    <2> QED
        BY <2>4, <2>5
<1> QED
    BY <1>1, AssuranceInvariant, PTL

(* Each probe takes one condition away and nothing else.                   *)
THEOREM ContrastsIsolate == Spec => []ProbesIsolate
<1>1. AssuranceInv => ProbesIsolate
    <2> SUFFICES ASSUME AssuranceInv, NEW p \in probes
                 PROVE  LET others == [p.about EXCEPT !.sources = @ \ {p.effect}] IN
                        /\ AllowedUpto(p.prohibited, Len(p.prohibited) - 1)
                        /\ p.about \in Matched(requirements, p.prohibited)
                        /\ AllowedUpto(p.permitted, Len(p.permitted))
                        /\ Sourced(others.sources, Past(p.permitted), others.window)
                        /\ p.effect \notin UNION Range(Past(p.permitted))
        BY DEF ProbesIsolate
    <2> DEFINE q == p.about
               others == [q EXCEPT !.sources = @ \ {p.effect}]
    <2>1. InputInv /\ q \in requirements /\ IsContrast(p) /\ InWindow(p)
        BY DEF AssuranceInv, SynthesisInv, ProbesInv
    <2>2. /\ p.permitted \in Trace /\ Len(p.permitted) = Len(p.prohibited)
          /\ Prohibits(q, p.prohibited) /\ Permits(p.permitted)
          /\ p.effect \notin Gathered(Front(p.permitted))
          /\ q.sources \ {p.effect} \subseteq Gathered(Front(p.permitted))
        BY <2>1, ContrastParts
    <2>3. others.sources = q.sources \ {p.effect} /\ others.window = q.window
        <3>1. q = [sinks |-> q.sinks, sources |-> q.sources,
                   control |-> q.control, window |-> q.window]
            BY <2>1, RequirementParts
        <3> QED
            BY <3>1
    <2>4. Sourced(q.sources \ {p.effect}, Past(p.permitted), q.window)
        <3>1. q.window \in Nat /\ (q.window = NoWindow \/ Len(p.permitted) - 1 <= q.window)
            BY <2>1, <2>2, RequirementParts DEF InWindow
        <3> QED
            BY <2>2, <3>1, GatheredIsSourced
    <2>5. p.effect \notin UNION Range(Past(p.permitted))
        BY <2>2, GatheredBefore
    <2> QED
        BY <2>2, <2>3, <2>4, <2>5 DEF Prohibits, Permits
<1> QED
    BY <1>1, AssuranceInvariant, PTL

LEMMA RemovedIsShorter ==
    ASSUME NEW n \in Nat, NEW s \in [1..n -> 1..Templates], NEW i \in 1..n
    PROVE  RemoveAt(s, i) \in [1..(n - 1) -> 1..Templates]
<1> DEFINE E == 1..Templates
           a == SubSeq(s, 1, i - 1)
           b == SubSeq(s, i + 1, n)
<1>1. s \in [1..n -> E]
    OBVIOUS
<1> HIDE DEF E
<1>2. s \in Seq(E) /\ Len(s) = n /\ \A j \in 1..n : s[j] \in E
    BY <1>1
<1>3. a \in Seq(E) /\ Len(a) = i - 1
    <2>1. i - 1 \in Nat /\ \A j \in 1..(i - 1) : s[j] \in E
        BY <1>2
    <2>2. a \in Seq(E) /\ Len(a) = IF 1 <= i - 1 THEN i - 1 - 1 + 1 ELSE 0
        BY <1>2, <2>1, SubSeqProperties
    <2> HIDE DEF a
    <2> QED
        BY <2>1, <2>2
<1>4. b \in Seq(E) /\ Len(b) = n - i
    <2>1. i + 1 \in Nat /\ n \in Nat /\ \A j \in (i + 1)..n : s[j] \in E
        BY <1>2
    <2>2. b \in Seq(E) /\ Len(b) = IF i + 1 <= n THEN n - (i + 1) + 1 ELSE 0
        BY <1>2, <2>1, SubSeqProperties
    <2> HIDE DEF b
    <2> QED
        BY <2>1, <2>2
<1>5. RemoveAt(s, i) = a \o b
    BY <1>2 DEF RemoveAt
<1> HIDE DEF a, b
<1>6. a \o b \in Seq(E) /\ Len(a \o b) = Len(a) + Len(b)
    BY <1>3, <1>4, ConcatProperties
<1>7. Len(a \o b) = n - 1
    BY <1>3, <1>4, <1>6
<1>8. a \o b \in [1..(n - 1) -> E]
    BY <1>6, <1>7, LenProperties
<1> QED
    BY <1>5, <1>8 DEF E

(* No trace is prohibited that is shorter than a source-effect probe, and  *)
(* no source sequence has an event too many.                               *)
THEOREM ProbesAreMinimal == Spec => []ProbesAreShortest
<1>1. AssuranceInv => ProbesAreShortest
    <2> SUFFICES ASSUME AssuranceInv
                 PROVE  ProbesAreShortest
        OBVIOUS
    <2>1. InputInv /\ WorkInv /\ ProbesInv
        BY DEF AssuranceInv, SynthesisInv
    <2>2. ASSUME NEW p \in probes, p.kind = "source_effect",
                 NEW t \in Trace, Len(t) < Len(p.prohibited)
          PROVE  ~Prohibits(p.about, t)
        <3> DEFINE q == p.about
                   u == Front(t)
                   m == Len(t) - 1
        <3>1. q \in requirements /\ IsShortest(p)
            BY <2>1, <2>2 DEF ProbesInv
        <3>2. Covering(q, SearchDepth(q)) # {} /\ Len(p.prohibited) = SearchDepth(q) + 1
            BY <3>1 DEF IsShortest
        <3>3. m \in Nat /\ m < SearchDepth(q)
            BY <2>1, <2>2, <3>1, <3>2, TraceLength, DepthIsLeast
        <3>4. u \in [1..m -> 1..Templates]
            BY FrontParts
        <3> HIDE DEF m
        <3>5. ~(q.sources \subseteq Gathered(u))
            <4> HIDE DEF u
            <4> QED
                BY <2>1, <3>1, <3>2, <3>3, <3>4, FewerDoNotCover
        <3>6. Prohibits(q, t) => Sourced(q.sources, Past(t), q.window)
            BY DEF Prohibits, Matched, Met
        <3> QED
            BY <3>5, <3>6, SourcedIsGathered
    <2>3. ASSUME NEW s \in sources, NEW i \in DOMAIN s
          PROVE  ~(current.sources \subseteq Gathered(RemoveAt(s, i)))
        <3> DEFINE k == SearchDepth(current)
        <3>1. current \in requirements /\ s \in Covering(current, k)
            BY <2>1 DEF WorkInv
        <3>2. k \in Nat /\ k >= 1
            BY <2>1, <3>1, DepthIsLeast
        <3>3. s \in [1..k -> 1..Templates]
            <4>1. s \in [1..k -> SourceTemplates(current)]
                BY <3>1 DEF Covering, Arrangements, Injection
            <4> QED
                BY <4>1, TemplatesAreFinite
        <3>4. Covering(current, SearchDepth(current)) # {} /\ k = SearchDepth(current)
            BY <3>1
        <3> HIDE DEF k
        <3>5. RemoveAt(s, i) \in [1..(k - 1) -> 1..Templates]
            BY <3>2, <3>3, RemovedIsShorter
        <3>6. k - 1 \in Nat /\ k - 1 < SearchDepth(current)
            BY <3>2, <3>4
        <3> QED
            BY <2>1, <3>1, <3>4, <3>5, <3>6, FewerDoNotCover
    <2> QED
        BY <2>2, <2>3 DEF ProbesAreShortest
<1> QED
    BY <1>1, AssuranceInvariant, PTL

-----------------------------------------------------------------------------
(* Controls along a trace, up to the first intervention.                   *)
LEMMA FirstParts ==
    ASSUME NEW f \in Seq(Controls)
    PROVE  LET k == FirstIntervention(f) IN
           /\ k \in 0..Len(f) /\ Len(f) \in Nat
           /\ k = 0 <=> \A n \in 1..Len(f) : f[n] = "allow"
           /\ k # 0 => f[k] # "allow" /\ \A n \in 1..(k - 1) : f[n] = "allow"
<1> DEFINE k == FirstIntervention(f)
           hits == {n \in DOMAIN f : f[n] # "allow"}
<1>1. Len(f) \in Nat /\ DOMAIN f = 1..Len(f)
    BY LenProperties
<1>2. k = IF hits = {} THEN 0 ELSE Min(hits)
    BY DEF FirstIntervention
<1>3. hits \in SUBSET Nat /\ \A n : n \in hits <=> n \in 1..Len(f) /\ f[n] # "allow"
    BY <1>1
<1> HIDE DEF k, hits
<1>4. CASE hits = {}
    BY <1>1, <1>2, <1>3, <1>4 DEF k
<1>5. CASE hits # {}
    <2>1. k \in hits /\ \A n \in hits : k <= n
        BY <1>2, <1>3, <1>5, MinIsLeast
    <2>2. \A n \in 1..(k - 1) : f[n] = "allow"
        BY <1>1, <1>3, <2>1
    <2> QED
        BY <1>1, <1>3, <2>1, <2>2 DEF k
<1> QED
    BY <1>4, <1>5

Cut(f) == IF FirstIntervention(f) = 0 THEN f ELSE Upto(f, FirstIntervention(f))

LEMMA CutParts ==
    ASSUME NEW f \in Seq(Controls)
    PROVE  /\ Cut(f) \in Seq(Controls)
           /\ Len(Cut(f)) = IF FirstIntervention(f) = 0 THEN Len(f) ELSE FirstIntervention(f)
           /\ \A n \in 1..Len(Cut(f)) : Cut(f)[n] = f[n]
           /\ FirstIntervention(Cut(f)) = FirstIntervention(f)
<1> DEFINE k == FirstIntervention(f)
           g == Cut(f)
           j == FirstIntervention(g)
<1>1. /\ k \in 0..Len(f) /\ Len(f) \in Nat
      /\ k = 0 <=> \A n \in 1..Len(f) : f[n] = "allow"
      /\ k # 0 => f[k] # "allow" /\ \A n \in 1..(k - 1) : f[n] = "allow"
    BY FirstParts
<1>2. CASE k = 0
    BY <1>2 DEF Cut
<1>3. CASE k # 0
    <2>1. g = SubSeq(f, 1, k) /\ k \in 1..Len(f)
        BY <1>1, <1>3 DEF Cut, Upto
    <2> HIDE DEF g
    <2>2. g \in Seq(Controls) /\ Len(g) = k /\ \A n \in 1..k : g[n] = f[n]
        BY <2>1, PrefixParts
    <2>3. /\ j \in 0..Len(g)
          /\ j = 0 <=> \A n \in 1..Len(g) : g[n] = "allow"
          /\ j # 0 => g[j] # "allow" /\ \A n \in 1..(j - 1) : g[n] = "allow"
        BY <2>2, FirstParts
    <2> HIDE DEF j, k
    <2>4. k \in 1..k /\ g[k] # "allow"
        BY <1>1, <1>3, <2>1, <2>2
    <2>5. j # 0
        BY <2>2, <2>3, <2>4
    <2>6. ~(j < k)
        BY <1>1, <2>2, <2>3, <2>5
    <2>7. j = k
        BY <2>1, <2>2, <2>3, <2>6
    <2> QED
        BY <1>3, <2>2, <2>7 DEF g, j, k
<1> QED
    BY <1>2, <1>3

(* The controls of a policy, and those of the requirements, before a cut.  *)
Given(rules, t) == [n \in DOMAIN t |-> Actual(rules, Upto(t, n))]
Asked(t) == [n \in DOMAIN t |-> Expected(requirements, Upto(t, n))]

LEMMA GivenParts ==
    ASSUME NEW rules, NEW t \in Trace
    PROVE  /\ Given(rules, t) \in Seq(Controls) /\ Len(Given(rules, t)) = Len(t)
           /\ \A n \in 1..Len(t) : Given(rules, t)[n] = Actual(rules, Upto(t, n))
           /\ Decided(rules, t) = Cut(Given(rules, t))
<1>1. DOMAIN t = 1..Len(t) /\ Len(t) \in Nat
    BY TraceLength
<1>2. Given(rules, t) \in [1..Len(t) -> Controls]
    BY <1>1, ChecksAreControls DEF Given
<1>3. Given(rules, t) \in Seq(Controls) /\ Len(Given(rules, t)) = Len(t)
    BY <1>1, <1>2
<1>4. Decided(rules, t) = Cut(Given(rules, t))
    BY DEF Decided, Given, Cut
<1> QED
    BY <1>1, <1>3, <1>4 DEF Given

LEMMA AskedParts ==
    ASSUME NEW t \in Trace
    PROVE  /\ Asked(t) \in Seq(Controls) /\ Len(Asked(t)) = Len(t)
           /\ \A n \in 1..Len(t) : Asked(t)[n] = Expected(requirements, Upto(t, n))
           /\ ExpectedControls(t) = Cut(Asked(t))
<1>1. DOMAIN t = 1..Len(t) /\ Len(t) \in Nat
    BY TraceLength
<1>2. Asked(t) \in [1..Len(t) -> Controls]
    BY <1>1, ChecksAreControls DEF Asked
<1>3. Asked(t) \in Seq(Controls) /\ Len(Asked(t)) = Len(t)
    BY <1>1, <1>2
<1>4. ExpectedControls(t) = Cut(Asked(t))
    BY DEF ExpectedControls, Asked, Cut
<1> QED
    BY <1>1, <1>3, <1>4 DEF Asked

(* The cases of a probe's contract.                                        *)
LEMMA CaseParts ==
    ASSUME InputInv, NEW p, p.about \in requirements, IsContrast(p)
    PROVE  LET t == p.prohibited
               u == ProhibitedCase(p)
               v == PermittedCase(p)
           IN  /\ u.trace = t /\ u.controls = Cut(Asked(t))
               /\ u.first = Len(t) /\ Len(t) # 0
               /\ Len(u.controls) = Len(t) /\ FirstIntervention(u.controls) = Len(t)
               /\ u.controls[Len(t)] = p.about.control
               /\ u.evidence = RequiredEvidence(requirements, t)
               /\ v.trace = p.permitted /\ v.controls = Cut(Asked(p.permitted))
               /\ v.first = 0 /\ v.evidence = {}
               /\ FirstIntervention(v.controls) = 0
<1> DEFINE t == p.prohibited
           s == p.permitted
           n == Len(t)
           f == Asked(t)
           g == Asked(s)
           c == Cut(f)
           d == Cut(g)
<1>1. /\ t \in Trace /\ s \in Trace
      /\ Prohibits(p.about, t) /\ Permits(s) /\ n \in Nat /\ n >= 1
    BY ContrastParts, TraceLength
<1>2. /\ f \in Seq(Controls) /\ Len(f) = n
      /\ \A i \in 1..n : f[i] = Expected(requirements, Upto(t, i))
      /\ ExpectedControls(t) = c
    BY <1>1, AskedParts
<1>3. /\ g \in Seq(Controls) /\ Len(g) = Len(s)
      /\ \A i \in 1..Len(s) : g[i] = Expected(requirements, Upto(s, i))
      /\ ExpectedControls(s) = d
    BY <1>1, AskedParts
<1>4. Upto(t, n) = t
    BY <1>1, WholeIsPrefix DEF Upto
<1>5. f[n] = p.about.control /\ f[n] # "allow" /\ \A i \in 1..(n - 1) : f[i] = "allow"
    <2>1. p.about.control # "allow"
        BY RequirementParts DEF Interventions
    <2>2. \A i \in 1..(n - 1) : i \in 1..n
        BY <1>1
    <2>3. n \in 1..n
        BY <1>1
    <2>4. Expected(requirements, t) = p.about.control
        BY <1>1 DEF Prohibits
    <2>5. \A i \in 1..(n - 1) : Expected(requirements, Upto(t, i)) = "allow"
        BY <1>1 DEF Prohibits, AllowedUpto, Upto
    <2> HIDE DEF f, n
    <2> QED
        BY <1>2, <1>4, <2>1, <2>2, <2>3, <2>4, <2>5
<1>6. \A i \in 1..Len(s) : g[i] = "allow"
    BY <1>1, <1>3 DEF Permits, AllowedUpto, Upto
<1> HIDE DEF f, g
<1>7. FirstIntervention(f) = n
    <2> DEFINE k == FirstIntervention(f)
    <2>1. /\ k \in 0..n
          /\ k = 0 <=> \A i \in 1..n : f[i] = "allow"
          /\ k # 0 => f[k] # "allow" /\ \A i \in 1..(k - 1) : f[i] = "allow"
        BY <1>2, FirstParts
    <2> HIDE DEF k, n
    <2>2. n \in 1..n
        BY <1>1
    <2>3. k # 0
        BY <1>5, <2>1, <2>2
    <2>4. ~(k \in 1..(n - 1))
        BY <1>5, <2>1, <2>3
    <2>5. k = n
        BY <1>1, <2>1, <2>3, <2>4
    <2> QED
        BY <2>5 DEF k
<1>8. FirstIntervention(g) = 0
    BY <1>3, <1>6, FirstParts
<1>9. /\ Len(c) = n /\ FirstIntervention(c) = n /\ c[n] = p.about.control
      /\ FirstIntervention(d) = 0
    <2>1. Len(c) = n /\ FirstIntervention(c) = n /\ \A i \in 1..Len(c) : c[i] = f[i]
        BY <1>1, <1>2, <1>7, CutParts
    <2>2. FirstIntervention(d) = 0
        BY <1>3, <1>8, CutParts
    <2>3. n \in 1..n
        BY <1>1
    <2> HIDE DEF c, d, n
    <2> QED
        BY <1>5, <2>1, <2>2, <2>3
<1>10. /\ ProhibitedCase(p).trace = t /\ ProhibitedCase(p).controls = c
       /\ ProhibitedCase(p).first = Len(c)
       /\ ProhibitedCase(p).evidence = RequiredEvidence(requirements, Upto(t, Len(c)))
    BY <1>2 DEF ProhibitedCase
<1>11. /\ PermittedCase(p).trace = s /\ PermittedCase(p).controls = d
       /\ PermittedCase(p).first = 0 /\ PermittedCase(p).evidence = {}
    BY <1>3 DEF PermittedCase
<1> HIDE DEF c, d
<1> QED
    BY <1>1, <1>4, <1>9, <1>10, <1>11 DEF c, d, f, g

-----------------------------------------------------------------------------
(* Full thresholds ask everything of every contract.                       *)
LEMMA NoneMeansNone ==
    ASSUME NEW all, IsFiniteSet(all), NEW bad \in SUBSET all
    PROVE  AtMost(0, bad, all) <=> bad = {}
<1>1. /\ Cardinality(all) \in Nat /\ Cardinality(bad) \in Nat
      /\ Cardinality(bad) = 0 <=> bad = {}
    BY FS_Subset, FS_CardinalityType, FS_EmptySet
<1> DEFINE b == Cardinality(bad)
           n == Cardinality(all)
<1>2. b \in Nat /\ n \in Nat /\ (b = 0 <=> bad = {}) /\ (AtMost(0, bad, all) <=> b * 100 <= 0 * n)
    BY <1>1 DEF AtMost
<1> HIDE DEF b, n
<1>3. 0 * n = 0 /\ (b * 100 <= 0 <=> b = 0)
    BY <1>2
<1> QED
    BY <1>2, <1>3

(* A result that nothing is wrong with.                                    *)
Perfect(r) ==
    /\ r.correct /\ r.first = r.case.first
    /\ r.case.evidence # {} => r.complete

LEMMA FullSuites ==
    ASSUME NEW rules, NEW contracts, IsFiniteSet(contracts)
    PROVE  FailedMetrics(rules, contracts, Full) = {} <=>
               \A c \in contracts :
                  /\ Perfect(Result(rules, c, c.prohibited))
                  /\ Perfect(Result(rules, c, c.permitted))
                  /\ Result(rules, c, c.prohibited).first # 0
                  /\ Result(rules, c, c.permitted).first = 0
<1> DEFINE f == [c \in contracts |-> Result(rules, c, c.prohibited)]
           g == [c \in contracts |-> Result(rules, c, c.permitted)]
           S == {f[c] : c \in contracts}
           T == {g[c] : c \in contracts}
           all == S \cup T
           evidential == {r \in all : r.case.evidence # {}}
           correct == {r \in all : r.correct}
           stopped == {r \in S : r.first # 0}
           went == {r \in T : r.first = 0}
           timely == {r \in all : r.first = r.case.first}
           complete == {r \in evidential : r.complete}
           halted == {r \in T : r.first # 0}
<1>1. IsFiniteSet(S) /\ IsFiniteSet(T)
    <2> HIDE DEF f, g
    <2> QED
        BY ImageIsFinite
<1>2. IsFiniteSet(all) /\ IsFiniteSet(evidential)
    <2> HIDE DEF S, T
    <2>1. IsFiniteSet(all)
        BY <1>1, FS_Union
    <2>2. evidential \in SUBSET all
        OBVIOUS
    <2> HIDE DEF all, evidential
    <2> QED
        BY <2>1, <2>2, FS_Subset
<1>3. /\ S = {Result(rules, c, c.prohibited) : c \in contracts}
      /\ T = {Result(rules, c, c.permitted) : c \in contracts}
    OBVIOUS
<1> HIDE DEF S, T
<1>4. /\ Full.control = 100 /\ Full.prevention = 100 /\ Full.completion = 100
      /\ Full.intervention = 100 /\ Full.evidence = 100 /\ Full.unnecessary = 0
    BY DEF Full
<1> DEFINE passing ==
            [exact_control_accuracy |-> AtLeast(Full.control, correct, all),
             unsafe_sequence_prevention |-> AtLeast(Full.prevention, stopped, S),
             permitted_trajectory_completion |-> AtLeast(Full.completion, went, T),
             first_intervention_accuracy |-> AtLeast(Full.intervention, timely, all),
             evidence_coverage |-> AtLeast(Full.evidence, complete, evidential),
             unnecessary_intervention_rate |-> AtMost(Full.unnecessary, halted, T)]
<1>5. FailedMetrics(rules, contracts, Full) = {metric \in DOMAIN passing : ~passing[metric]}
    BY <1>3 DEF FailedMetrics
<1>6. /\ correct \in SUBSET all /\ stopped \in SUBSET S /\ went \in SUBSET T
      /\ timely \in SUBSET all /\ complete \in SUBSET evidential /\ halted \in SUBSET T
    OBVIOUS
<1>7. /\ correct = all <=> \A r \in all : r.correct
      /\ stopped = S <=> \A r \in S : r.first # 0
      /\ went = T <=> \A r \in T : r.first = 0
      /\ timely = all <=> \A r \in all : r.first = r.case.first
      /\ complete = evidential <=> \A r \in all : r.case.evidence # {} => r.complete
      /\ halted = {} <=> \A r \in T : r.first = 0
    <2>1. correct = all <=> \A r \in all : r.correct
        OBVIOUS
    <2>2. stopped = S <=> \A r \in S : r.first # 0
        OBVIOUS
    <2>3. went = T <=> \A r \in T : r.first = 0
        OBVIOUS
    <2>4. timely = all <=> \A r \in all : r.first = r.case.first
        OBVIOUS
    <2>5. complete = evidential <=> \A r \in all : r.case.evidence # {} => r.complete
        <3> HIDE DEF all
        <3> QED
            OBVIOUS
    <2>6. halted = {} <=> \A r \in T : r.first = 0
        OBVIOUS
    <2> QED
        BY <2>1, <2>2, <2>3, <2>4, <2>5, <2>6
<1>8. (\A r \in all : Perfect(r)) <=> /\ \A r \in all : r.correct
                                      /\ \A r \in all : r.first = r.case.first
                                      /\ \A r \in all : r.case.evidence # {} => r.complete
    <2> HIDE DEF all
    <2> QED
        BY DEF Perfect
<1> HIDE DEF correct, stopped, went, timely, complete, halted, evidential, all
<1>9. FailedMetrics(rules, contracts, Full) = {} <=>
          /\ AtLeast(Full.control, correct, all) /\ AtLeast(Full.prevention, stopped, S)
          /\ AtLeast(Full.completion, went, T) /\ AtLeast(Full.intervention, timely, all)
          /\ AtLeast(Full.evidence, complete, evidential) /\ AtMost(Full.unnecessary, halted, T)
    BY <1>5
<1>10. FailedMetrics(rules, contracts, Full) = {} <=>
           /\ correct = all /\ stopped = S /\ went = T /\ timely = all
           /\ complete = evidential /\ halted = {}
    BY <1>1, <1>2, <1>4, <1>6, <1>9, FullMeansAll, NoneMeansNone
<1>11. FailedMetrics(rules, contracts, Full) = {} <=>
           /\ \A r \in all : Perfect(r)
           /\ \A r \in S : r.first # 0
           /\ \A r \in T : r.first = 0
    BY <1>7, <1>8, <1>10
<1>12. \A r : r \in all <=> r \in S \/ r \in T
    BY DEF all
<1> QED
    BY <1>3, <1>11, <1>12

LEMMA ContractsAreFinite ==
    ASSUME SynthesisInv
    PROVE  IsFiniteSet(Contracts)
<1> DEFINE f == [p \in probes |-> Contract(p)]
<1>1. IsFiniteSet(probes)
    BY DEF SynthesisInv, ProbesInv
<1>2. Contracts = {f[p] : p \in probes}
    BY DEF Contracts
<1> HIDE DEF f
<1> QED
    BY <1>1, <1>2, ImageIsFinite

LEMMA ResultParts ==
    ASSUME NEW rules, NEW c, NEW case
    PROVE  LET r == Result(rules, c, case) IN
           /\ r.case = case /\ r.first = FirstIntervention(Decided(rules, case.trace))
           /\ r.correct = (Decided(rules, case.trace) = case.controls)
           /\ r.complete = (case.evidence = {} \/ EvidencedAt(rules, case))
BY DEF Result

(* What the contracts compiled from a report ask of a policy.              *)
LEMMA ContractsAsk ==
    ASSUME SynthesisInv, NEW rules
    PROVE  FailedMetrics(rules, Contracts, Full) = {} <=>
               \A p \in probes :
                  /\ Decided(rules, p.prohibited) = Cut(Asked(p.prohibited))
                  /\ Decided(rules, p.permitted) = Cut(Asked(p.permitted))
                  /\ RequiredEvidence(requirements, p.prohibited)
                        \subseteq ActualEvidence(rules, p.prohibited)
<1>1. InputInv /\ ProbesInv /\ IsFiniteSet(Contracts)
    BY ContractsAreFinite DEF SynthesisInv
<1>2. ASSUME NEW p \in probes
      PROVE  LET c == Contract(p)
                 r == Result(rules, c, c.prohibited)
                 s == Result(rules, c, c.permitted)
             IN  (Perfect(r) /\ Perfect(s) /\ r.first # 0 /\ s.first = 0) <=>
                    /\ Decided(rules, p.prohibited) = Cut(Asked(p.prohibited))
                    /\ Decided(rules, p.permitted) = Cut(Asked(p.permitted))
                    /\ RequiredEvidence(requirements, p.prohibited)
                          \subseteq ActualEvidence(rules, p.prohibited)
    <2> DEFINE c == Contract(p)
               u == ProhibitedCase(p)
               v == PermittedCase(p)
               r == Result(rules, c, c.prohibited)
               s == Result(rules, c, c.permitted)
               t == p.prohibited
               n == Len(t)
               a == Decided(rules, t)
               b == Decided(rules, p.permitted)
               x == Cut(Asked(t))
               y == Cut(Asked(p.permitted))
               e == RequiredEvidence(requirements, t)
    <2>1. p.about \in requirements /\ IsContrast(p)
        BY <1>1 DEF ProbesInv
    <2>2. c.prohibited = u /\ c.permitted = v
        BY DEF Contract
    <2>3. /\ u.trace = t /\ u.controls = x /\ u.first = n /\ n # 0 /\ Len(x) = n
          /\ FirstIntervention(x) = n /\ u.evidence = e
          /\ v.trace = p.permitted /\ v.controls = y /\ v.first = 0 /\ v.evidence = {}
          /\ FirstIntervention(y) = 0
        BY <1>1, <2>1, CaseParts
    <2>4. n \in Nat /\ Upto(t, n) = t
        BY <2>1, ContrastParts, TraceLength, WholeIsPrefix DEF Upto
    <2>5. EvidencedAt(rules, u) <=> n <= Len(a) /\ e \subseteq ActualEvidence(rules, t)
        BY <2>3, <2>4 DEF EvidencedAt
    <2>6. /\ r.case = u /\ r.first = FirstIntervention(a)
          /\ r.correct = (a = x)
          /\ r.complete = (e = {} \/ EvidencedAt(rules, u))
        BY <2>2, <2>3, ResultParts
    <2>7. s.case = v /\ s.first = FirstIntervention(b) /\ s.correct = (b = y)
        BY <2>2, <2>3, ResultParts
    <2> HIDE DEF r, s, u, v, a, b, x, y, e, n, c
    <2>8. Perfect(r) <=> r.correct /\ r.first = n /\ (e # {} => r.complete)
        BY <2>3, <2>6 DEF Perfect
    <2>9. Perfect(s) <=> s.correct /\ s.first = 0
        BY <2>3, <2>7 DEF Perfect
    <2>10. r.correct <=> a = x
        BY <2>6
    <2>11. s.correct <=> b = y
        BY <2>7
    <2>12. r.complete <=> e = {} \/ (n <= Len(a) /\ e \subseteq ActualEvidence(rules, t))
        BY <2>5, <2>6
    <2>13. (Perfect(r) /\ Perfect(s) /\ r.first # 0 /\ s.first = 0) <=>
               /\ a = x /\ b = y /\ e \subseteq ActualEvidence(rules, t)
        BY <2>3, <2>4, <2>6, <2>7, <2>8, <2>9, <2>10, <2>11, <2>12
    <2> QED
        BY <2>13 DEF r, s, a, b, x, y, e, c
<1>3. (\A c \in Contracts : /\ Perfect(Result(rules, c, c.prohibited))
                            /\ Perfect(Result(rules, c, c.permitted))
                            /\ Result(rules, c, c.prohibited).first # 0
                            /\ Result(rules, c, c.permitted).first = 0)
      <=> \A p \in probes :
             /\ Decided(rules, p.prohibited) = Cut(Asked(p.prohibited))
             /\ Decided(rules, p.permitted) = Cut(Asked(p.permitted))
             /\ RequiredEvidence(requirements, p.prohibited)
                   \subseteq ActualEvidence(rules, p.prohibited)
    BY <1>2 DEF Contracts
<1> QED
    BY <1>1, <1>3, FullSuites

-----------------------------------------------------------------------------
(* A policy that does what the requirements say passes their contracts.    *)
LEMMA ConformingDecides ==
    ASSUME NEW rules, Conforms(rules), NEW t \in Trace, AllowedUpto(t, Len(t) - 1)
    PROVE  Decided(rules, t) = Cut(Asked(t))
<1>1. ASSUME NEW n \in 1..Len(t)
      PROVE  Actual(rules, Upto(t, n)) = Expected(requirements, Upto(t, n))
    <2> DEFINE u == Upto(t, n)
    <2>1. /\ u \in Trace /\ Len(u) = n
          /\ \A k \in 1..n : SubSeq(u, 1, k) = SubSeq(t, 1, k)
        BY PrefixIsTrace DEF Upto
    <2>2. n \in Nat /\ Len(t) \in Nat /\ n <= Len(t)
        BY TraceLength
    <2> HIDE DEF u
    <2>3. \A k \in 1..(n - 1) : k \in 1..n /\ k \in 1..(Len(t) - 1)
        BY <2>2
    <2>4. AllowedUpto(u, Len(u) - 1)
        BY <2>1, <2>3 DEF AllowedUpto
    <2> QED
        BY <2>1, <2>4 DEF Conforms, u
<1>2. DOMAIN t = 1..Len(t)
    BY TraceLength
<1>3. Given(rules, t) = Asked(t)
    BY <1>1, <1>2 DEF Given, Asked
<1> QED
    BY <1>3, GivenParts

LEMMA OnlyEmptyHasNoMutants ==
    ASSUME NEW rules, MutantsOf(rules) = {}
    PROVE  rules = {}
<1>1. ASSUME NEW rule \in rules
      PROVE  Mutant(rules, rule, "disabled", {}) \in MutantsOf(rules)
    BY DEF MutantsOf
<1> QED
    BY <1>1

(* A policy that does what the requirements say is not refused.            *)
THEOREM ConformanceIsAccepted == Spec => []ConformingPoliciesPass
<1>1. AssuranceInv => ConformingPoliciesPass
    <2> SUFFICES ASSUME AssuranceInv, analysis = "refused", thresholds = Full, Conforms(policy)
                 PROVE  policy = {}
        BY DEF ConformingPoliciesPass
    <2>1. SynthesisInv /\ suite = Contracts
        BY DEF AssuranceInv, AnalysisInv
    <2>2. ASSUME NEW p \in probes
          PROVE  /\ Decided(policy, p.prohibited) = Cut(Asked(p.prohibited))
                 /\ Decided(policy, p.permitted) = Cut(Asked(p.permitted))
                 /\ RequiredEvidence(requirements, p.prohibited)
                       \subseteq ActualEvidence(policy, p.prohibited)
        <3>1. /\ p.prohibited \in Trace /\ p.permitted \in Trace
              /\ Prohibits(p.about, p.prohibited) /\ Permits(p.permitted)
            BY <2>1, ContrastParts DEF SynthesisInv, ProbesInv
        <3>2. AllowedUpto(p.prohibited, Len(p.prohibited) - 1)
            BY <3>1 DEF Prohibits
        <3>3. AllowedUpto(p.permitted, Len(p.permitted) - 1)
            <4>1. Len(p.permitted) \in Nat
                BY <3>1, TraceLength
            <4>2. \A k \in 1..(Len(p.permitted) - 1) : k \in 1..Len(p.permitted)
                BY <4>1
            <4> QED
                BY <3>1, <4>2 DEF Permits, AllowedUpto
        <3> QED
            BY <3>1, <3>2, <3>3, ConformingDecides DEF Conforms
    <2>3. FailedMetrics(policy, suite, thresholds) = {}
        BY <2>1, <2>2, ContractsAsk
    <2>4. MutantsOf(policy) = {}
        BY <2>3 DEF AssuranceInv, AnalysisInv
    <2> QED
        BY <2>4, OnlyEmptyHasNoMutants
<1> QED
    BY <1>1, AssuranceInvariant, PTL

-----------------------------------------------------------------------------
(* What the contracts notice of a rule that was changed.                   *)

(* What is sourced has evidence: its latest source.                        *)
LEMMA SourcedHasEvidence ==
    ASSUME NEW t \in Trace, NEW effects, NEW window,
           Sourced(effects, Past(t), window), NEW e \in effects
    PROVE  \E pair \in Evidence(effects, Past(t), window) : pair[1] = e
<1> DEFINE m == Len(t)
           S == {i \in Visible(Past(t), window) : e \in Past(t)[i]}
           T == {m - i : i \in S}
<1>1. m \in Nat /\ S # {} /\ S \subseteq 1..(m - 1)
    BY TraceLength, PastParts DEF Sourced, Visible
<1> HIDE DEF m, S
<1>2. T \in SUBSET Nat /\ T # {}
    <2>1. \A i \in S : m - i \in Nat
        BY <1>1
    <2>2. PICK i \in S : TRUE
        BY <1>1
    <2>3. m - i \in T
        BY <2>2
    <2> QED
        BY <2>1, <2>3
<1>3. PICK d \in T : \A x \in T : d <= x
    BY <1>2, LeastNatural
<1>4. PICK i \in S : d = m - i
    BY <1>3
<1>5. \A j \in S : j <= i
    <2> SUFFICES ASSUME NEW j \in S
                 PROVE  j <= i
        OBVIOUS
    <2>1. m - j \in T /\ j \in Int /\ i \in Int
        BY <1>1
    <2>2. m - i <= m - j
        BY <1>3, <1>4, <2>1
    <2> QED
        BY <1>1, <2>1, <2>2
<1>6. <<e, i>> \in Evidence(effects, Past(t), window)
    BY <1>4, <1>5 DEF S, Evidence
<1> QED
    BY <1>6

(* When all metrics are full, the evidence of a prohibited trace comes     *)
(* from rules that match there with the control of its requirement.        *)
LEMMA EvidenceHasRules ==
    ASSUME SynthesisInv, NEW rules, FailedMetrics(rules, Contracts, Full) = {},
           NEW p \in probes, NEW e \in p.about.sources
    PROVE  \E r \in rules : /\ Matches(r, Called(p.prohibited), Past(p.prohibited))
                            /\ r.control = p.about.control /\ e \in r.requires
<1> DEFINE q == p.about
           t == p.prohibited
           n == Len(t)
           f == Given(rules, t)
<1>1. InputInv /\ q \in requirements /\ IsContrast(p)
    BY DEF SynthesisInv, ProbesInv
<1>2. t \in Trace /\ Prohibits(q, t) /\ n \in Nat /\ n >= 1 /\ Upto(t, n) = t
    BY <1>1, ContrastParts, TraceLength, WholeIsPrefix DEF Upto
<1>3. /\ Decided(rules, t) = Cut(Asked(t))
      /\ RequiredEvidence(requirements, t) \subseteq ActualEvidence(rules, t)
    BY ContractsAsk
<1>4. Actual(rules, t) = q.control
    <2>1. Len(Cut(Asked(t))) = n /\ Cut(Asked(t))[n] = q.control
        <3>1. /\ ProhibitedCase(p).controls = Cut(Asked(t))
              /\ Len(ProhibitedCase(p).controls) = n
              /\ ProhibitedCase(p).controls[n] = q.control
            BY <1>1, CaseParts
        <3> QED
            BY <3>1
    <2>2. /\ f \in Seq(Controls) /\ \A i \in 1..n : f[i] = Actual(rules, Upto(t, i))
          /\ Decided(rules, t) = Cut(f)
        BY <1>2, GivenParts
    <2> HIDE DEF f
    <2>3. \A i \in 1..Len(Cut(f)) : Cut(f)[i] = f[i]
        BY <2>2, CutParts
    <2>4. n \in 1..n
        BY <1>2
    <2> HIDE DEF n
    <2>5. Cut(f)[n] = f[n] /\ f[n] = Actual(rules, t)
        BY <1>2, <1>3, <2>1, <2>2, <2>3, <2>4
    <2> QED
        BY <1>3, <2>1, <2>2, <2>5
<1>5. PICK pair \in Evidence(q.sources, Past(t), q.window) : pair[1] = e
    <2>1. Sourced(q.sources, Past(t), q.window)
        BY <1>2 DEF Prohibits, Matched, Met
    <2> QED
        BY <1>2, <2>1, SourcedHasEvidence
<1>6. pair \in RequiredEvidence(requirements, t)
    BY <1>2, <1>5 DEF RequiredEvidence, Prohibits
<1>7. PICK r \in rules : /\ Matches(r, Called(t), Past(t)) /\ r.control = Actual(rules, t)
                         /\ pair \in Evidence(r.requires, Past(t), r.window)
    BY <1>3, <1>6 DEF ActualEvidence
<1>8. e \in r.requires
    BY <1>5, <1>7 DEF Evidence
<1> QED
    BY <1>4, <1>7, <1>8

(* So the contracts notice that the rule of a requirement is replaced by   *)
(* rules that do not match with its control at one of its probes, unless   *)
(* others back it.                                                         *)
LEMMA UnbackedIsNoticed ==
    ASSUME SynthesisInv, NEW p \in probes, NEW replacement,
           \A r \in replacement :
              Matches(r, Called(p.prohibited), Past(p.prohibited)) => r.control # p.about.control,
           NEW rules, rules = (AsPolicy(requirements) \ {RuleOf(p.about)}) \cup replacement,
           FailedMetrics(rules, Contracts, Full) = {}
    PROVE  Backed(RuleOf(p.about))
<1> DEFINE q == p.about
           t == p.prohibited
<1>1. \A o : /\ RuleOf(o).targets = o.sinks /\ RuleOf(o).requires = o.sources
             /\ RuleOf(o).control = o.control
    BY DEF RuleOf
<1>2. Called(t) \in q.sinks
    BY ContrastParts DEF SynthesisInv, ProbesInv, Prohibits, Matched, Met
<1>3. ASSUME NEW e \in q.sources
      PROVE  \E o \in requirements : /\ RuleOf(o) # RuleOf(q) /\ o.control = q.control
                                     /\ o.sinks \cap q.sinks # {} /\ e \in o.sources
    <2>1. PICK r \in rules : Matches(r, Called(t), Past(t)) /\ r.control = q.control /\ e \in r.requires
        BY EvidenceHasRules
    <2>2. r \in AsPolicy(requirements) /\ r # RuleOf(q)
        BY <2>1
    <2>3. PICK o \in requirements : r = RuleOf(o)
        BY <2>2 DEF AsPolicy
    <2>4. Called(t) \in o.sinks /\ o.control = q.control /\ e \in o.sources
        BY <1>1, <2>1, <2>3 DEF Matches
    <2> QED
        BY <1>2, <2>2, <2>3, <2>4
<1> QED
    BY <1>1, <1>3 DEF Backed

(* A rule whose window ends before a probe's event does not match there.   *)
LEMMA OldestIsNotSeen ==
    ASSUME SynthesisInv, NEW p \in probes, NEW w \in Nat, w # NoWindow,
           w < Age(p.prohibited, p.at)
    PROVE  ~Sourced(p.about.sources, Past(p.prohibited), w)
<1> DEFINE t == p.prohibited
           s == p.permitted
           n == Len(t)
<1>1. /\ t \in Trace /\ s \in Trace /\ Len(s) = n /\ n \in Nat
      /\ p.at \in 1..(n - 1) /\ \A j \in 1..n : j # p.at => s[j] = t[j]
      /\ p.effect \in p.about.sources /\ p.effect \notin Gathered(Front(s))
    BY ContrastParts, TraceLength DEF SynthesisInv, ProbesInv
<1>2. SUFFICES ASSUME NEW i \in Visible(Past(t), w), p.effect \in Past(t)[i]
               PROVE  FALSE
    BY <1>1 DEF Sourced
<1>3. /\ Len(Past(t)) = n - 1 /\ DOMAIN Past(t) = 1..(n - 1)
      /\ \A j \in 1..(n - 1) : Past(t)[j] = Emitted(t[j])
    BY <1>1, PastParts
<1>4. i \in 1..(n - 1) /\ i > n - 1 - w
    BY <1>3 DEF Visible, VisibleFrom
<1>5. i # p.at
    <2>1. w < n - p.at
        BY DEF Age
    <2> HIDE DEF n
    <2> QED
        BY <1>1, <1>4, <2>1
<1>6. s[i] = t[i] /\ p.effect \in Emitted(s[i])
    BY <1>1, <1>2, <1>3, <1>4, <1>5
<1> QED
    BY <1>1, <1>4, <1>6, GatheredBefore

(* A rule that asks for less than a probe takes away stops what is         *)
(* permitted.                                                              *)
LEMMA RelaxedIsNoticed ==
    ASSUME SynthesisInv, NEW p \in probes, NEW rules, NEW r \in rules,
           r.targets = p.about.sinks, r.requires = p.about.sources \ {p.effect},
           r.window = p.about.window
    PROVE  FailedMetrics(rules, Contracts, Full) # {}
<1> DEFINE q == p.about
           t == p.prohibited
           s == p.permitted
           n == Len(s)
           f == Given(rules, s)
<1>1. InputInv /\ q \in requirements /\ IsContrast(p) /\ InWindow(p)
    BY DEF SynthesisInv, ProbesInv
<1>2. /\ t \in Trace /\ s \in Trace /\ Len(t) = n /\ n \in Nat /\ n >= 1
      /\ p.at \in 1..(n - 1) /\ \A j \in 1..n : j # p.at => s[j] = t[j]
      /\ Prohibits(q, t) /\ q.sources \ {p.effect} \subseteq Gathered(Front(s))
      /\ Upto(s, n) = s
    BY <1>1, ContrastParts, TraceLength, WholeIsPrefix DEF Upto
<1>3. Called(s) \in q.sinks
    <2>1. Called(t) \in q.sinks
        BY <1>2 DEF Prohibits, Matched, Met
    <2>2. s[n] = t[n]
        BY <1>2
    <2> QED
        BY <1>2, <2>1, <2>2 DEF Called
<1>4. Matches(r, Called(s), Past(s))
    <2>1. q.window \in Nat /\ (q.window = NoWindow \/ n - 1 <= q.window)
        BY <1>1, <1>2, RequirementParts DEF InWindow
    <2>2. Sourced(q.sources \ {p.effect}, Past(s), q.window)
        BY <1>2, <2>1, GatheredIsSourced
    <2> QED
        BY <1>3, <2>2 DEF Matches
<1>5. Actual(rules, s) # "allow"
    BY <1>4 DEF Actual, EvaluateSequence
<1>6. /\ f \in Seq(Controls) /\ Len(f) = n /\ \A i \in 1..n : f[i] = Actual(rules, Upto(s, i))
      /\ Decided(rules, s) = Cut(f)
    BY <1>2, GivenParts
<1>7. FirstIntervention(Cut(f)) # 0
    <2> HIDE DEF f
    <2>1. n \in 1..n
        BY <1>2
    <2> HIDE DEF n
    <2>2. f[n] # "allow"
        BY <1>2, <1>5, <1>6, <2>1
    <2>3. FirstIntervention(f) # 0
        BY <1>6, <2>1, <2>2, FirstParts
    <2> QED
        BY <1>6, <2>3, CutParts
<1>8. FirstIntervention(Cut(Asked(s))) = 0
    <2>1. /\ PermittedCase(p).controls = Cut(Asked(s))
          /\ FirstIntervention(PermittedCase(p).controls) = 0
        BY <1>1, CaseParts
    <2> QED
        BY <2>1
<1>9. Decided(rules, s) # Cut(Asked(s))
    BY <1>6, <1>7, <1>8
<1> QED
    BY <1>9, ContractsAsk

LEMMA PassedIsCovered ==
    ASSUME SynthesisInv, outcome = "passed", NEW q \in requirements
    PROVE  /\ \A e \in q.sources : \E p \in probes : p.about = q /\ p.effect = e
           /\ \E p \in probes : p.about = q
           /\ q.window # 1 => \E p \in probes : /\ p.about = q
                                                /\ q.window = NoWindow => Age(p.prohibited, p.at) >= 2
                                                /\ q.window # NoWindow =>
                                                      Age(p.prohibited, p.at) = q.window
<1>1. InputInv /\ WorkInv /\ CoverInv
    BY DEF SynthesisInv
<1>2. left = {} /\ ~InHand /\ gaps = {}
    BY <1>1 DEF WorkInv, CoverInv, InHand
<1>3. IsCovered(q)
    BY <1>1, <1>2 DEF CoverInv, Noted
<1>4. \A e \in q.sources : \E p \in probes : p.about = q /\ p.effect = e
    BY <1>3 DEF IsCovered, EffectsCovered
<1>5. \E p \in probes : p.about = q
    BY <1>1, <1>4, RequirementParts
<1>6. q.window # 1 => \E p \in probes : /\ p.about = q
                                        /\ q.window = NoWindow => Age(p.prohibited, p.at) >= 2
                                        /\ q.window # NoWindow =>
                                              Age(p.prohibited, p.at) = q.window
    <2> SUFFICES ASSUME q.window # 1
                 PROVE  \E p \in probes : /\ p.about = q
                                          /\ q.window = NoWindow => Age(p.prohibited, p.at) >= 2
                                          /\ q.window # NoWindow =>
                                                Age(p.prohibited, p.at) = q.window
        OBVIOUS
    <2>1. PICK p \in probes : p.about = q /\ TestsWindow(p)
        BY <1>3 DEF IsCovered, WindowCovered
    <2> QED
        BY <2>1 DEF TestsWindow, AtBoundary
<1> QED
    BY <1>4, <1>5, <1>6

(* A narrower rule does not match where a window is tested.                *)
LEMMA NarrowerIsNoticed ==
    ASSUME SynthesisInv, outcome = "passed", NEW q \in requirements, q.window # 1,
           NEW w \in Nat, w # NoWindow, q.window = NoWindow => w = 1,
           q.window # NoWindow => w < q.window,
           NEW rules,
           rules = (AsPolicy(requirements) \ {RuleOf(q)}) \cup {[RuleOf(q) EXCEPT !.window = w]},
           FailedMetrics(rules, Contracts, Full) = {}
    PROVE  Backed(RuleOf(q))
<1> DEFINE r == [RuleOf(q) EXCEPT !.window = w]
<1>1. q.window \in Nat
    BY RequirementParts DEF SynthesisInv
<1>2. PICK p \in probes : /\ p.about = q
                          /\ q.window = NoWindow => Age(p.prohibited, p.at) >= 2
                          /\ q.window # NoWindow => Age(p.prohibited, p.at) = q.window
    BY PassedIsCovered
<1>3. w < Age(p.prohibited, p.at)
    <2>1. p.at \in Nat /\ Len(p.prohibited) \in Nat
        BY ContrastParts, TraceLength DEF SynthesisInv, ProbesInv
    <2>2. Age(p.prohibited, p.at) \in Int
        BY <2>1 DEF Age
    <2> QED
        BY <1>1, <1>2, <2>2
<1>4. ~Sourced(q.sources, Past(p.prohibited), w)
    BY <1>2, <1>3, OldestIsNotSeen
<1>5. r.requires = q.sources /\ r.window = w
    BY DEF RuleOf
<1>6. ~Matches(r, Called(p.prohibited), Past(p.prohibited))
    BY <1>4, <1>5 DEF Matches
<1> DEFINE narrower == {r}
<1>7. \A o \in narrower : Matches(o, Called(p.prohibited), Past(p.prohibited))
                             => o.control # p.about.control
    BY <1>6
<1>8. rules = (AsPolicy(requirements) \ {RuleOf(p.about)}) \cup narrower
    BY <1>2
<1> HIDE DEF narrower
<1>9. Backed(RuleOf(p.about))
    BY <1>7, <1>8, UnbackedIsNoticed
<1> QED
    BY <1>2, <1>9

(* The contracts of a complete report notice a window that is one event    *)
(* too short, unless another requirement backs the rule.                   *)
THEOREM ContractionIsSeen == Spec => []ContractionIsNoticed
<1>1. AssuranceInv => ContractionIsNoticed
    <2> SUFFICES ASSUME AssuranceInv, outcome = "passed", NEW q \in requirements,
                        q.window > 1,
                        FailedMetrics((AsPolicy(requirements) \ {RuleOf(q)})
                            \cup {[RuleOf(q) EXCEPT !.window = @ - 1]}, Contracts, Full) = {}
                 PROVE  Backed(RuleOf(q))
        BY DEF ContractionIsNoticed
    <2> DEFINE w == q.window - 1
               rules == (AsPolicy(requirements) \ {RuleOf(q)})
                            \cup {[RuleOf(q) EXCEPT !.window = @ - 1]}
    <2>1. SynthesisInv /\ InputInv
        BY DEF AssuranceInv, SynthesisInv
    <2>2. /\ q.window \in Nat /\ q.window # 1 /\ q.window # NoWindow
          /\ w \in Nat /\ w # NoWindow /\ w < q.window
        BY <2>1, RequirementParts DEF NoWindow
    <2>3. [RuleOf(q) EXCEPT !.window = @ - 1] = [RuleOf(q) EXCEPT !.window = w]
        BY DEF RuleOf
    <2>4. /\ rules = (AsPolicy(requirements) \ {RuleOf(q)}) \cup {[RuleOf(q) EXCEPT !.window = w]}
          /\ FailedMetrics(rules, Contracts, Full) = {}
        BY <2>3
    <2> HIDE DEF w, rules
    <2> QED
        BY <2>1, <2>2, <2>4, NarrowerIsNoticed
<1> QED
    BY <1>1, AssuranceInvariant, PTL

(* Of the mutants of a policy with one rule for each requirement, those    *)
(* survive that lost one of several targets, or whose rule is backed by    *)
(* another, never those that dropped an effect.                            *)
THEOREM SurvivorsHaveBacking == Spec => []SurvivorsAreBacked
<1>1. AssuranceInv => SurvivorsAreBacked
    <2> SUFFICES ASSUME AssuranceInv, policy = AsPolicy(requirements), thresholds = Full,
                        NEW mutant \in Survivors
                 PROVE  \/ mutant.mutation = "target_removed"
                        \/ /\ mutant.mutation # "required_effect_removed"
                           /\ Backed(mutant.rule)
        BY DEF SurvivorsAreBacked
    <2>1. SynthesisInv /\ AnalysisInv /\ InputInv
        BY DEF AssuranceInv, SynthesisInv
    <2>2. PICK o \in outcomes : o.mutant = mutant /\ o.failed = {}
        BY DEF Survivors
    <2>3. /\ outcome = "passed" /\ suite = Contracts /\ mutant \in MutantsOf(policy)
          /\ FailedMetrics(mutant.policy, Contracts, Full) = {}
        BY <2>1, <2>2 DEF AnalysisInv
    <2>4. PICK rule \in policy :
             \/ mutant = Mutant(policy, rule, "disabled", {})
             \/ \E x \in Weakened(rule) : mutant = Mutant(policy, rule, "control_weakened", {x})
             \/ \E x \in Shortened(rule) :
                   mutant = Mutant(policy, rule, "history_window_reduced", {x})
             \/ \E x \in Relaxed(rule) :
                   mutant = Mutant(policy, rule, "required_effect_removed", {x})
             \/ \E x \in Narrowed(rule) : mutant = Mutant(policy, rule, "target_removed", {x})
        <3>1. PICK rule \in policy :
                 mutant \in {Mutant(policy, rule, "disabled", {})}
                     \cup {Mutant(policy, rule, "control_weakened", {other}) : other \in Weakened(rule)}
                     \cup {Mutant(policy, rule, "history_window_reduced", {other}) :
                              other \in Shortened(rule)}
                     \cup {Mutant(policy, rule, "required_effect_removed", {other}) :
                              other \in Relaxed(rule)}
                     \cup {Mutant(policy, rule, "target_removed", {other}) : other \in Narrowed(rule)}
            BY <2>3 DEF MutantsOf
        <3> QED
            BY <3>1
    <2>5. PICK q \in requirements : rule = RuleOf(q)
        BY <2>4 DEF AsPolicy
    <2>6. /\ rule = [targets |-> q.sinks, requires |-> q.sources,
                     control |-> q.control, window |-> q.window]
          /\ q.window \in Nat
        BY <2>1, <2>5, RequirementParts DEF RuleOf
    <2>7. \A mutation, x : /\ Mutant(policy, rule, mutation, x).rule = rule
                           /\ Mutant(policy, rule, mutation, x).mutation = mutation
                           /\ Mutant(policy, rule, mutation, x).policy
                                 = (AsPolicy(requirements) \ {RuleOf(q)}) \cup x
        BY <2>5 DEF Mutant
    <2>8. PICK any \in probes : any.about = q
        BY <2>1, <2>3, PassedIsCovered
    <2>9. CASE mutant = Mutant(policy, rule, "disabled", {})
        <3> DEFINE none == {}
        <3>1. \A r \in none : Matches(r, Called(any.prohibited), Past(any.prohibited))
                                 => r.control # any.about.control
            OBVIOUS
        <3>2. mutant = Mutant(policy, rule, "disabled", none)
            BY <2>9
        <3> HIDE DEF none
        <3>3. /\ mutant.mutation = "disabled" /\ mutant.rule = RuleOf(any.about)
              /\ mutant.policy = (AsPolicy(requirements) \ {RuleOf(any.about)}) \cup none
            BY <2>5, <2>7, <2>8, <3>2
        <3>4. Backed(RuleOf(any.about))
            BY <2>1, <2>3, <3>1, <3>3, UnbackedIsNoticed
        <3> QED
            BY <3>3, <3>4
    <2>10. ASSUME NEW x \in Weakened(rule),
                  mutant = Mutant(policy, rule, "control_weakened", {x})
           PROVE  mutant.mutation = "control_weakened" /\ Backed(mutant.rule)
        <3>1. x.control = "require_approval" /\ q.control = "deny"
            BY <2>6 DEF Weakened
        <3> DEFINE some == {x}
        <3>2. \A r \in some : Matches(r, Called(any.prohibited), Past(any.prohibited))
                                 => r.control # any.about.control
            BY <2>8, <3>1
        <3>3. mutant = Mutant(policy, rule, "control_weakened", some)
            BY <2>10
        <3> HIDE DEF some
        <3>4. /\ mutant.mutation = "control_weakened" /\ mutant.rule = RuleOf(any.about)
              /\ mutant.policy = (AsPolicy(requirements) \ {RuleOf(any.about)}) \cup some
            BY <2>5, <2>7, <2>8, <3>3
        <3>5. Backed(RuleOf(any.about))
            BY <2>1, <2>3, <3>2, <3>4, UnbackedIsNoticed
        <3> QED
            BY <3>4, <3>5
    <2>11. ASSUME NEW x \in Shortened(rule),
                  mutant = Mutant(policy, rule, "history_window_reduced", {x})
           PROVE  mutant.mutation = "history_window_reduced" /\ Backed(mutant.rule)
        <3>1. x = [RuleOf(q) EXCEPT !.window = 1] /\ (q.window = NoWindow \/ q.window > 1)
            BY <2>5, <2>6 DEF Shortened
        <3> DEFINE some == {[RuleOf(q) EXCEPT !.window = 1]}
        <3>2. mutant = Mutant(policy, rule, "history_window_reduced", some)
            BY <2>11, <3>1
        <3>3. /\ mutant.mutation = "history_window_reduced" /\ mutant.rule = RuleOf(q)
              /\ mutant.policy = (AsPolicy(requirements) \ {RuleOf(q)}) \cup some
            <4> HIDE DEF some
            <4> QED
                BY <2>5, <2>7, <3>2
        <3>4. q.window # 1 /\ 1 # NoWindow /\ (q.window # NoWindow => 1 < q.window)
            BY <2>6, <3>1 DEF NoWindow
        <3>5. Backed(RuleOf(q))
            BY <2>1, <2>3, <3>3, <3>4, NarrowerIsNoticed
        <3> QED
            BY <3>3, <3>5
    <2>12. ASSUME NEW x \in Relaxed(rule),
                  mutant = Mutant(policy, rule, "required_effect_removed", {x})
           PROVE  FALSE
        <3>1. PICK e \in q.sources : x = [rule EXCEPT !.requires = q.sources \ {e}]
            BY <2>6 DEF Relaxed
        <3>2. x.targets = q.sinks /\ x.requires = q.sources \ {e} /\ x.window = q.window
            BY <2>6, <3>1
        <3>3. PICK p \in probes : p.about = q /\ p.effect = e
            BY <2>1, <2>3, PassedIsCovered
        <3>4. x \in mutant.policy
            BY <2>7, <2>12
        <3> QED
            BY <2>1, <2>3, <3>2, <3>3, <3>4, RelaxedIsNoticed
    <2>13. ASSUME NEW x \in Narrowed(rule),
                  mutant = Mutant(policy, rule, "target_removed", {x})
           PROVE  mutant.mutation = "target_removed"
        BY <2>7, <2>13
    <2> QED
        BY <2>4, <2>9, <2>10, <2>11, <2>12, <2>13
<1> QED
    BY <1>1, AssuranceInvariant, PTL

-----------------------------------------------------------------------------
(* A report that passed compiles: there is a contract, each probe still    *)
(* says what it said, and the constructors accept each contract.           *)
THEOREM ReportsCompile == Spec => []PassedReportsCompile
<1>1. AssuranceInv => PassedReportsCompile
    <2> SUFFICES ASSUME AssuranceInv, outcome = "passed"
                 PROVE  /\ Contracts # {}
                        /\ \A p \in probes : StillHolds(p) /\ ValidContract(Contract(p))
        BY DEF PassedReportsCompile
    <2>1. SynthesisInv /\ InputInv /\ ProbesInv
        BY DEF AssuranceInv, SynthesisInv
    <2>2. Contracts # {}
        <3>1. PICK q \in requirements : TRUE
            BY <2>1, SuitesAreTyped DEF InputInv
        <3>2. PICK p \in probes : p.about = q
            BY <2>1, PassedIsCovered
        <3> QED
            BY <3>2 DEF Contracts
    <2>3. ASSUME NEW p \in probes
          PROVE  StillHolds(p) /\ ValidContract(Contract(p))
        <3> DEFINE t == p.prohibited
                   s == p.permitted
                   n == Len(t)
                   u == ProhibitedCase(p)
                   v == PermittedCase(p)
                   x == u.controls
                   y == v.controls
        <3>1. p.about \in requirements /\ IsContrast(p)
            BY <2>1 DEF ProbesInv
        <3>2. /\ t \in Trace /\ s \in Trace /\ Len(s) = n /\ n \in Nat /\ n >= 1
              /\ p.at \in 1..n /\ s[p.at] # t[p.at] /\ Prohibits(p.about, t)
            BY <3>1, ContrastParts, TraceLength
        <3>3. /\ u.trace = t /\ x = Cut(Asked(t)) /\ u.first = n /\ Len(x) = n
              /\ FirstIntervention(x) = n /\ x[n] = p.about.control
              /\ u.evidence = RequiredEvidence(requirements, t)
              /\ v.trace = s /\ y = Cut(Asked(s)) /\ v.first = 0 /\ v.evidence = {}
              /\ FirstIntervention(y) = 0
            BY <2>1, <3>1, CaseParts
        <3>4. y \in Seq(Controls) /\ Len(y) = n
            <4>1. Asked(s) \in Seq(Controls) /\ Len(Asked(s)) = n
                BY <3>2, AskedParts
            <4>2. /\ Cut(Asked(s)) \in Seq(Controls)
                  /\ FirstIntervention(Cut(Asked(s))) = FirstIntervention(Asked(s))
                  /\ Len(Cut(Asked(s))) = IF FirstIntervention(Asked(s)) = 0
                                          THEN Len(Asked(s)) ELSE FirstIntervention(Asked(s))
                BY <4>1, CutParts
            <4> QED
                BY <3>3, <4>1, <4>2
        <3>5. u.evidence # {} /\ u.evidence = p.evidence
            <4>1. /\ Sourced(p.about.sources, Past(t), p.about.window)
                  /\ p.about \in Matched(requirements, t)
                BY <3>2 DEF Prohibits, Matched, Met
            <4>2. PICK e \in p.about.sources : TRUE
                BY <2>1, <3>1, RequirementParts
            <4>3. PICK pair \in Evidence(p.about.sources, Past(t), p.about.window) : pair[1] = e
                BY <3>2, <4>1, <4>2, SourcedHasEvidence
            <4>4. pair \in RequiredEvidence(requirements, t)
                BY <4>1, <4>3 DEF RequiredEvidence
            <4> QED
                BY <3>1, <3>3, <4>4 DEF IsContrast
        <3>6. Range(y) = {"allow"}
            <4>1. DOMAIN y = 1..n /\ \A i \in 1..n : y[i] = "allow"
                <5> HIDE DEF y
                <5>1. \A i \in 1..Len(y) : y[i] = "allow"
                    BY <3>3, <3>4, FirstParts
                <5> QED
                    BY <3>4, <5>1, LenProperties
            <4>2. 1 \in 1..n
                BY <3>2
            <4> HIDE DEF y, n
            <4> QED
                BY <4>1, <4>2 DEF Range
        <3>7. Last(x) = p.about.control
            BY <3>3 DEF Last
        <3>8. StillHolds(p)
            BY <3>5, <3>6, <3>7 DEF StillHolds
        <3>9. Contract(p).prohibited = u /\ Contract(p).permitted = v
            BY DEF Contract
        <3>10. t # << >> /\ s # << >> /\ t # s
            <4>1. Len(t) # Len(<< >>) /\ Len(s) # Len(<< >>)
                BY <3>2
            <4> QED
                BY <3>2, <4>1
        <3> HIDE DEF u, v
        <3>11. ValidCase(u)
            BY <3>2, <3>3, <3>10 DEF ValidCase
        <3>12. ValidCase(v)
            BY <3>2, <3>3, <3>4, <3>10 DEF ValidCase
        <3>13. ValidContract(Contract(p))
            BY <3>2, <3>3, <3>5, <3>9, <3>10, <3>11, <3>12 DEF ValidContract
        <3> QED
            BY <3>8, <3>13
    <2> QED
        BY <2>2, <2>3
<1> QED
    BY <1>1, AssuranceInvariant, PTL
=============================================================================
