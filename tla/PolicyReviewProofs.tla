-------------------------- MODULE PolicyReviewProofs --------------------------
(***************************************************************************)
(* The verdicts of a policy review mean what they say, for any tools,      *)
(* templates, policies, requirements, thresholds and budgets, and traces   *)
(* of any bounded length.                                                  *)
(***************************************************************************)
EXTENDS PolicyReviewProperties, FlowTheorems

-----------------------------------------------------------------------------
(* What a policy reaches.                                                  *)
LEMMA ReachableParts ==
    ASSUME NEW p, NEW t
    PROVE  t \in Reachable(p) <=>
              /\ t \in Trace
              /\ \A n \in 1..(Len(t) - 1) : Actual(p, SubSeq(t, 1, n)) = "allow"
BY DEF Reachable, Prefixes

LEMMA PermittedParts ==
    \A t : t \in Permitted <=>
              /\ t \in Trace
              /\ \A n \in 1..(Len(t) - 1) : Expected(requirements, SubSeq(t, 1, n)) = "allow"
BY DEF Permitted, Prefixes

LEMMA PermittedIsPrefixClosed == PrefixClosed(Permitted)
<1> SUFFICES ASSUME NEW t \in Permitted, NEW n \in 1..Len(t)
             PROVE  SubSeq(t, 1, n) \in Permitted
    BY PermittedParts DEF PrefixClosed
<1>1. t \in Trace /\ \A k \in 1..(Len(t) - 1) : Expected(requirements, SubSeq(t, 1, k)) = "allow"
    BY PermittedParts
<1>2. Len(t) \in Nat
    BY <1>1, TraceIsSeq
<1> DEFINE p == SubSeq(t, 1, n)
<1>3. p \in Trace /\ Len(p) = n /\ \A k \in 1..n : SubSeq(p, 1, k) = SubSeq(t, 1, k)
    BY <1>1, PrefixIsTrace
<1> HIDE DEF p
<1>4. \A k \in 1..(Len(p) - 1) : k \in 1..n /\ k \in 1..(Len(t) - 1)
    BY <1>2, <1>3
<1>5. \A k \in 1..(Len(p) - 1) : Expected(requirements, SubSeq(p, 1, k)) = "allow"
    BY <1>1, <1>3, <1>4
<1>6. p \in Permitted
    BY <1>3, <1>5, PermittedParts
<1> QED
    BY <1>6 DEF p

LEMMA ReachableIsPrefixClosed ==
    ASSUME NEW p
    PROVE  PrefixClosed(Reachable(p)) /\ \A x \in 1..Templates : <<x>> \in Reachable(p)
<1>1. ASSUME NEW t \in Reachable(p), NEW n \in 1..Len(t)
      PROVE  SubSeq(t, 1, n) \in Reachable(p)
    <2>1. t \in Trace /\ \A k \in 1..(Len(t) - 1) : Actual(p, SubSeq(t, 1, k)) = "allow"
        BY ReachableParts
    <2>2. Len(t) \in Nat
        BY <2>1, TraceIsSeq
    <2> DEFINE u == SubSeq(t, 1, n)
    <2>3. u \in Trace /\ Len(u) = n /\ \A k \in 1..n : SubSeq(u, 1, k) = SubSeq(t, 1, k)
        BY <2>1, PrefixIsTrace
    <2> HIDE DEF u
    <2>4. \A k \in 1..(Len(u) - 1) : k \in 1..n /\ k \in 1..(Len(t) - 1)
        BY <2>2, <2>3
    <2>5. \A k \in 1..(Len(u) - 1) : Actual(p, SubSeq(u, 1, k)) = "allow"
        BY <2>1, <2>3, <2>4
    <2>6. u \in Reachable(p)
        BY <2>3, <2>5, ReachableParts
    <2> QED
        BY <2>6 DEF u
<1>2. ASSUME NEW x \in 1..Templates
      PROVE  <<x>> \in Reachable(p)
    <2> DEFINE u == <<x>>
               E == 1..Templates
    <2>1. u \in Seq(E) /\ Len(u) = 1
        OBVIOUS
    <2>2. \A t : t \in Trace <=> t \in Seq(E) /\ Len(t) \in 1..MaxEvents
        BY TraceIsSeq
    <2>3. 1 \in 1..MaxEvents
        BY SuiteIsTyped
    <2> HIDE DEF u, E
    <2>4. u \in Trace
        BY <2>1, <2>2, <2>3
    <2>5. 1..(Len(u) - 1) = {}
        BY <2>1
    <2>6. u \in Reachable(p)
        BY <2>4, <2>5, ReachableParts
    <2> QED
        BY <2>6 DEF u
<1>3. Reachable(p) \subseteq Trace
    BY ReachableParts
<1> QED
    BY <1>1, <1>2, <1>3 DEF PrefixClosed

(* A policy reaches what comes after a trace if it allows its last call.   *)
LEMMA ReachingOn ==
    ASSUME NEW p, NEW t \in Reachable(p), NEW u \in Trace, Len(u) > 1, Parent(u) = t
    PROVE  u \in Reachable(p) <=> Actual(p, t) = "allow"
<1>1. t \in Trace /\ \A k \in 1..(Len(t) - 1) : Actual(p, SubSeq(t, 1, k)) = "allow"
    BY ReachableParts
<1>2. Len(u) \in Nat /\ Len(t) \in Nat
    BY <1>1, TraceIsSeq
<1> DEFINE n == Len(u) - 1
<1>3. n \in 1..Len(u) /\ t = SubSeq(u, 1, n)
    BY <1>2 DEF Parent
<1>4. Len(t) = n /\ \A k \in 1..n : SubSeq(t, 1, k) = SubSeq(u, 1, k)
    BY <1>3, PrefixIsTrace
<1>5. \A k \in 1..(Len(u) - 1) : k \in 1..(Len(t) - 1) \/ k = n
    BY <1>2, <1>4
<1>6. ASSUME Actual(p, t) = "allow"
      PROVE  u \in Reachable(p)
    <2>1. \A k \in 1..(Len(u) - 1) : Actual(p, SubSeq(u, 1, k)) = "allow"
        BY <1>1, <1>3, <1>4, <1>5, <1>6
    <2> QED
        BY <2>1, ReachableParts
<1>7. ASSUME u \in Reachable(p)
      PROVE  Actual(p, t) = "allow"
    <2>1. n \in 1..(Len(u) - 1)
        BY <1>3
    <2> QED
        BY <1>3, <1>7, <2>1, ReachableParts
<1> QED
    BY <1>6, <1>7

(* A trace that is stopped is stopped first after a prefix that is reached.*)
LEMMA FirstDenied ==
    ASSUME NEW p, NEW t \in Trace, NEW m \in 1..Len(t), Actual(p, SubSeq(t, 1, m)) # "allow"
    PROVE  \E n \in 1..m : SubSeq(t, 1, n) \in Reachable(p) /\ Actual(p, SubSeq(t, 1, n)) # "allow"
<1> DEFINE S == {n \in 1..m : Actual(p, SubSeq(t, 1, n)) # "allow"}
<1>1. S \in SUBSET Nat /\ S # {} /\ Len(t) \in Nat
    BY TraceIsSeq
<1>2. PICK n \in S : \A k \in S : n <= k
    BY <1>1, LeastNatural
<1>3. n \in 1..m /\ n \in 1..Len(t) /\ Actual(p, SubSeq(t, 1, n)) # "allow"
    BY <1>1
<1> DEFINE u == SubSeq(t, 1, n)
<1>4. u \in Trace /\ Len(u) = n /\ \A k \in 1..n : SubSeq(u, 1, k) = SubSeq(t, 1, k)
    BY <1>3, PrefixIsTrace
<1> HIDE DEF u
<1>5. \A k \in 1..(Len(u) - 1) : k \in 1..n /\ k \in 1..m /\ ~(n <= k)
    BY <1>1, <1>3, <1>4
<1>6. \A k \in 1..(Len(u) - 1) : Actual(p, SubSeq(u, 1, k)) = "allow"
    BY <1>2, <1>4, <1>5
<1>7. u \in Reachable(p)
    BY <1>4, <1>6, ReachableParts
<1> QED
    BY <1>3, <1>7 DEF u

LEMMA FirstProhibited ==
    ASSUME NEW t \in Trace, NEW m \in 1..Len(t), Expected(requirements, SubSeq(t, 1, m)) # "allow"
    PROVE  \E n \in 1..m : /\ SubSeq(t, 1, n) \in Permitted
                           /\ Expected(requirements, SubSeq(t, 1, n)) # "allow"
<1> DEFINE S == {n \in 1..m : Expected(requirements, SubSeq(t, 1, n)) # "allow"}
<1>1. S \in SUBSET Nat /\ S # {} /\ Len(t) \in Nat
    BY TraceIsSeq
<1>2. PICK n \in S : \A k \in S : n <= k
    BY <1>1, LeastNatural
<1>3. n \in 1..m /\ n \in 1..Len(t) /\ Expected(requirements, SubSeq(t, 1, n)) # "allow"
    BY <1>1
<1> DEFINE u == SubSeq(t, 1, n)
<1>4. u \in Trace /\ Len(u) = n /\ \A k \in 1..n : SubSeq(u, 1, k) = SubSeq(t, 1, k)
    BY <1>3, PrefixIsTrace
<1> HIDE DEF u
<1>5. \A k \in 1..(Len(u) - 1) : k \in 1..n /\ k \in 1..m /\ ~(n <= k)
    BY <1>1, <1>3, <1>4
<1>6. \A k \in 1..(Len(u) - 1) : Expected(requirements, SubSeq(u, 1, k)) = "allow"
    BY <1>2, <1>4, <1>5
<1>7. u \in Permitted
    BY <1>4, <1>6, PermittedParts
<1> QED
    BY <1>3, <1>7 DEF u

-----------------------------------------------------------------------------
(* What passing at full thresholds means.                                  *)

(* A policy conforms if it fails in no way at all after what it reaches.   *)
LEMMA ConformsWhereReached ==
    ASSUME NEW p
    PROVE  /\ Conforms(p) <=> \A t \in Reachable(p) : Failures(Checked(p, requirements, t)) = {}
           /\ Conforms(p) => Reachable(p) = Permitted
<1> DEFINE Good(t) == /\ Actual(p, t) = Expected(requirements, t)
                      /\ RequiredEvidence(requirements, t) \subseteq ActualEvidence(p, t)
<1>1. \A t : Failures(Checked(p, requirements, t)) = {} <=> Good(t)
    BY NoFailures
<1>2. Conforms(p) <=> \A t \in Permitted : Good(t)
    BY DEF Conforms
<1>3. \A t : Good(t) => Actual(p, t) = Expected(requirements, t)
    OBVIOUS
<1> HIDE DEF Good
<1>4. ASSUME \A t \in Reachable(p) : Good(t), NEW t \in Permitted
      PROVE  t \in Reachable(p)
    <2> SUFFICES ASSUME t \notin Reachable(p)
                 PROVE  FALSE
        OBVIOUS
    <2>1. t \in Trace /\ Len(t) \in Nat
        BY <1>4, PermittedParts, TraceIsSeq
    <2>2. PICK m \in 1..(Len(t) - 1) : Actual(p, SubSeq(t, 1, m)) # "allow"
        BY <2>1, ReachableParts
    <2>3. m \in 1..Len(t)
        BY <2>1
    <2>4. PICK n \in 1..m : SubSeq(t, 1, n) \in Reachable(p) /\ Actual(p, SubSeq(t, 1, n)) # "allow"
        BY <2>1, <2>2, <2>3, FirstDenied
    <2>5. n \in 1..(Len(t) - 1)
        BY <2>1
    <2>6. Expected(requirements, SubSeq(t, 1, n)) = "allow"
        BY <1>4, <2>5, PermittedParts
    <2> QED
        BY <1>3, <1>4, <2>4, <2>6
<1>5. ASSUME \A t \in Permitted : Good(t), NEW t \in Reachable(p)
      PROVE  t \in Permitted
    <2> SUFFICES ASSUME t \notin Permitted
                 PROVE  FALSE
        OBVIOUS
    <2>1. t \in Trace /\ Len(t) \in Nat
        BY <1>5, ReachableParts, TraceIsSeq
    <2>2. PICK m \in 1..(Len(t) - 1) : Expected(requirements, SubSeq(t, 1, m)) # "allow"
        BY <2>1, PermittedParts
    <2>3. m \in 1..Len(t)
        BY <2>1
    <2>4. PICK n \in 1..m : /\ SubSeq(t, 1, n) \in Permitted
                            /\ Expected(requirements, SubSeq(t, 1, n)) # "allow"
        BY <2>1, <2>2, <2>3, FirstProhibited
    <2>5. n \in 1..(Len(t) - 1)
        BY <2>1
    <2>6. Actual(p, SubSeq(t, 1, n)) = "allow"
        BY <1>5, <2>5, ReachableParts
    <2> QED
        BY <1>3, <1>5, <2>4, <2>6
<1>6. (\A t \in Permitted : Good(t)) => Reachable(p) \subseteq Permitted
    BY <1>5
<1>7. (\A t \in Reachable(p) : Good(t)) => Permitted \subseteq Reachable(p)
    BY <1>4
<1>8. (\A t \in Permitted : Good(t)) <=> (\A t \in Reachable(p) : Good(t))
    BY <1>6, <1>7
<1>9. (\A t \in Permitted : Good(t)) => Reachable(p) = Permitted
    BY <1>6, <1>7, <1>8
<1> QED
    BY <1>1, <1>2, <1>8, <1>9

(* All decisions have the control and the evidence, all requirements a     *)
(* boundary.                                                               *)
LEMMA FullThresholds ==
    ASSUME NEW p, NEW made, IsFiniteSet(made), IsFiniteSet(requirements),
           \A d \in made : d = Checked(p, requirements, d.trace)
    PROVE  Passes(Full, made, requirements) <=>
              /\ \A d \in made : Failures(d) = {}
              /\ Covered(made, requirements) = requirements
<1> DEFINE unsafe == {d \in made : d.expected # "allow"}
           permitted == made \ unsafe
           same == {d \in made : d.actual = d.expected}
           stopped == {d \in unsafe : d.actual # "allow"}
           useful == {d \in permitted : d.actual = "allow"}
           shown == {d \in unsafe : EvidenceComplete(d)}
           bounded == Covered(made, requirements)
<1>1. IsFiniteSet(unsafe) /\ IsFiniteSet(permitted)
    BY FS_Subset
<1>2. /\ Full.conformance = 100 /\ Full.prevention = 100 /\ Full.retention = 100
      /\ Full.evidence = 100 /\ Full.boundaries = 100
    BY DEF Full
<1>3. Passes(Full, made, requirements) <=>
         /\ AtLeast(100, same, made) /\ AtLeast(100, stopped, unsafe)
         /\ AtLeast(100, useful, permitted) /\ AtLeast(100, shown, unsafe)
         /\ AtLeast(100, bounded, requirements)
    BY <1>2 DEF Passes
<1>4. /\ same \in SUBSET made /\ stopped \in SUBSET unsafe /\ useful \in SUBSET permitted
      /\ shown \in SUBSET unsafe /\ bounded \in SUBSET requirements
    BY DEF Covered
<1>5. \A d \in made : Failures(d) = {} <=>
         d.actual = d.expected /\ (d.expected # "allow" => EvidenceComplete(d))
    <2> SUFFICES ASSUME NEW d \in made
                 PROVE  Failures(d) = {} <=>
                           d.actual = d.expected /\ (d.expected # "allow" => EvidenceComplete(d))
        OBVIOUS
    <2> DEFINE t == d.trace
    <2>1. d = Checked(p, requirements, t)
        OBVIOUS
    <2>2. /\ d.expected = Expected(requirements, t) /\ d.actual = Actual(p, t)
          /\ d.required = RequiredEvidence(requirements, t) /\ d.evidence = ActualEvidence(p, t)
        BY <2>1, CheckedParts
    <2>3. d.expected = "allow" => d.required = {}
        BY <2>2, AllowedNeedsNothing
    <2>4. Failures(d) = {} <=> d.actual = d.expected /\ d.required \subseteq d.evidence
        BY <2>1, <2>2, NoFailures
    <2> QED
        BY <2>3, <2>4 DEF EvidenceComplete
<1>6. /\ AtLeast(100, same, made) <=> same = made
      /\ AtLeast(100, stopped, unsafe) <=> stopped = unsafe
      /\ AtLeast(100, useful, permitted) <=> useful = permitted
      /\ AtLeast(100, shown, unsafe) <=> shown = unsafe
      /\ AtLeast(100, bounded, requirements) <=> bounded = requirements
    <2> HIDE DEF unsafe, permitted, same, stopped, useful, shown, bounded
    <2> QED
        BY <1>1, <1>4, FullMeansAll
<1>7. same = made => stopped = unsafe /\ useful = permitted
    OBVIOUS
<1>8. same = made /\ shown = unsafe <=> \A d \in made : Failures(d) = {}
    <2>1. same = made <=> \A d \in made : d.actual = d.expected
        OBVIOUS
    <2>2. shown = unsafe <=> \A d \in made : d.expected # "allow" => EvidenceComplete(d)
        OBVIOUS
    <2> QED
        BY <1>5, <2>1, <2>2
<1> HIDE DEF unsafe, permitted, same, stopped, useful, shown, bounded
<1>9. Passes(Full, made, requirements) <=>
         (\A d \in made : Failures(d) = {}) /\ bounded = requirements
    BY <1>3, <1>6, <1>7, <1>8
<1> QED
    BY <1>9 DEF bounded

(* Of a policy that has been searched, it means that the policy conforms   *)
(* and that the requirements can all be met and avoided.                   *)
LEMMA FullMeansConforms ==
    ASSUME NEW p, NEW made, IsFiniteSet(made), IsFiniteSet(requirements),
           \A d \in made : d = Checked(p, requirements, d.trace),
           {d.trace : d \in made} = Reachable(p)
    PROVE  Passes(Full, made, requirements) <=> Conforms(p) /\ WellBounded
<1>1. (\A d \in made : Failures(d) = {}) <=> Conforms(p)
    <2>1. (\A d \in made : Failures(d) = {}) <=>
             \A t \in Reachable(p) : Failures(Checked(p, requirements, t)) = {}
        OBVIOUS
    <2> QED
        BY <2>1, ConformsWhereReached
<1>2. ASSUME Conforms(p)
      PROVE  Covered(made, requirements) = requirements <=> WellBounded
    <2>1. \A t : t \in Permitted <=> \E d \in made : d.trace = t
        BY <1>2, ConformsWhereReached
    <2>2. \A d \in made : /\ d.matched = Matched(requirements, d.trace)
                          /\ d.expected = Expected(requirements, d.trace)
        BY CheckedParts
    <2> DEFINE Bound(q) == \E d \in made, e \in made :
                   q \in d.matched /\ e.expected = "allow" /\ Neighbours(d.trace, e.trace)
               Close(q) == \E t, u \in Permitted :
                   q \in Matched(requirements, t) /\ Expected(requirements, u) = "allow" /\ Neighbours(t, u)
    <2>3. ASSUME NEW q, Bound(q)
          PROVE  Close(q)
        <3>1. PICK d \in made, e \in made :
                  q \in d.matched /\ e.expected = "allow" /\ Neighbours(d.trace, e.trace)
            BY <2>3
        <3>2. d.trace \in Permitted /\ e.trace \in Permitted
            BY <2>1
        <3>3. q \in Matched(requirements, d.trace) /\ Expected(requirements, e.trace) = "allow"
            BY <2>2, <3>1
        <3> QED
            BY <3>1, <3>2, <3>3
    <2>4. ASSUME NEW q, Close(q)
          PROVE  Bound(q)
        <3>1. PICK t \in Permitted, u \in Permitted :
                  q \in Matched(requirements, t) /\ Expected(requirements, u) = "allow" /\ Neighbours(t, u)
            BY <2>4
        <3>2. PICK d \in made : d.trace = t
            BY <2>1
        <3>3. PICK e \in made : e.trace = u
            BY <2>1
        <3>4. q \in d.matched /\ e.expected = "allow" /\ Neighbours(d.trace, e.trace)
            BY <2>2, <3>1, <3>2, <3>3
        <3> QED
            BY <3>4
    <2>5. \A q : Bound(q) <=> Close(q)
        BY <2>3, <2>4
    <2>6. Covered(made, requirements) = {q \in requirements : Bound(q)}
        BY DEF Covered
    <2>7. WellBounded <=> \A q \in requirements : Close(q)
        BY DEF WellBounded
    <2> HIDE DEF Bound, Close
    <2> QED
        BY <2>5, <2>6, <2>7
<1> QED
    BY <1>1, <1>2, FullThresholds

-----------------------------------------------------------------------------
(* The steps of a search.                                                  *)

(* A decision, whose trace is extended if the policy allows it.            *)
LEMMA OneMoreDecided ==
    ASSUME NEW p, NEW suite, NEW queue, NEW made, queue # << >>,
           Searched(queue, made, Reachable(p))
    PROVE  LET d == Checked(p, suite, Head(queue))
               longer == IF d.actual = "allow" THEN Extensions(d.trace) ELSE << >>
           IN Searched(Tail(queue) \o longer, made \cup {d}, Reachable(p))
<1> DEFINE head == Head(queue)
           reach == Reachable(p)
           d == Checked(p, suite, head)
           longer == IF d.actual = "allow" THEN Extensions(d.trace) ELSE << >>
           decided == {e.trace : e \in made}
<1>1. d.trace = head /\ d.actual = Actual(p, head)
    BY CheckedParts
<1>2. Explores(queue, decided, reach) /\ PrefixClosed(reach)
    BY ReachableIsPrefixClosed DEF Searched
<1>3. head \in reach /\ head \in Trace
    <2>1. queue \in Seq(reach)
        BY <1>2 DEF Explores
    <2> HIDE DEF reach
    <2>2. head \in reach
        BY <2>1
    <2> QED
        BY <1>2, <2>2 DEF PrefixClosed
<1>4. {e.trace : e \in made \cup {d}} = decided \cup {head}
    BY <1>1
<1>5. CASE d.actual = "allow"
    <2>1. longer = Extensions(head)
        BY <1>1, <1>5
    <2>2. ASSUME NEW i \in 1..Len(longer)
          PROVE  longer[i] \in reach
        <3> DEFINE u == longer[i]
        <3>1. /\ u \in Trace /\ Parent(u) = head /\ Len(u) = Len(head) + 1
              /\ Len(head) \in Nat /\ Len(head) >= 1
            <4>1. longer \in Seq(Trace) /\ Parent(u) = head /\ Len(u) = Len(head) + 1
                BY <1>3, <2>1, <2>2, ExtensionsParts
            <4>2. u \in Trace
                BY <2>2, <4>1, ElementOfSeq
            <4> QED
                BY <1>3, <4>1, <4>2, TraceIsSeq
        <3> HIDE DEF u
        <3>2. Len(u) > 1
            BY <3>1
        <3>3. u \in reach
            BY <1>1, <1>3, <1>5, <3>1, <3>2, ReachingOn
        <3> QED
            BY <3>3 DEF u
    <2> HIDE DEF longer, decided, d, reach
    <2>3. Explores(Tail(queue) \o longer, decided \cup {head}, reach)
        BY <1>2, <2>1, <2>2, SearchGoesOn
    <2> QED
        BY <1>4, <2>3 DEF Searched, longer, d, reach
<1>6. CASE d.actual # "allow"
    <2>1. longer = << >>
        BY <1>6
    <2>2. ASSUME NEW t \in reach, Len(t) > 1
          PROVE  Parent(t) # head
        <3>1. t \in Trace
            BY <1>2, <2>2 DEF PrefixClosed
        <3> QED
            BY <1>1, <1>3, <1>6, <2>2, <3>1, ReachingOn
    <2> HIDE DEF longer, decided, d, reach
    <2>3. Explores(Tail(queue) \o longer, decided \cup {head}, reach)
        BY <1>2, <2>1, <2>2, SearchGoesOn
    <2> QED
        BY <1>4, <2>3 DEF Searched, longer, d, reach
<1> QED
    BY <1>5, <1>6

LEMMA OneMoreCounted ==
    ASSUME NEW made, IsFiniteSet(made), NEW d, NEW bound \in Nat, Cardinality(made) < bound
    PROVE  IsFiniteSet(made \cup {d}) /\ Cardinality(made \cup {d}) <= bound
<1>1. /\ IsFiniteSet(made \cup {d}) /\ Cardinality(made) \in Nat
      /\ Cardinality(made \cup {d}) = Cardinality(made) \/ Cardinality(made \cup {d}) = Cardinality(made) + 1
    BY FS_AddElement, FS_CardinalityType
<1> QED
    BY <1>1

LEMMA SearchesBegin ==
    ASSUME NEW p
    PROVE  Searched(FirstCalls, {}, Reachable(p))
<1>1. {d.trace : d \in {}} = {}
    OBVIOUS
<1> QED
    BY <1>1, ReachableIsPrefixClosed, SearchBegins DEF Searched

(* The relational checker keeps its part of the invariant.                 *)
LEMMA CheckKeepsSearchInv ==
    ASSUME InputInv, SearchInv, outcome # "idle", Next
    PROVE  SearchInv'
<1> DEFINE reach == Reachable(rules)
<1>1. /\ \A d \in decisions : d = Checked(rules, requirements, d.trace)
      /\ IsFiniteSet(decisions) /\ Cardinality(decisions) <= budget
      /\ Searched(todo, decisions, reach)
    BY DEF SearchInv
<1>2. budget \in Nat /\ Cardinality(decisions) \in Nat
    BY <1>1, InputsAreTyped, FS_CardinalityType DEF InputInv
<1>3. rules' = rules /\ requirements' = requirements /\ min' = min /\ budget' = budget
    BY DEF Next, Decide, Exceed, Report, inputs
<1>4. CASE Decide
    <2> DEFINE d == Checked(rules, requirements, Head(todo))
               longer == IF d.actual = "allow" THEN Extensions(d.trace) ELSE << >>
    <2>1. /\ outcome = "searching" /\ outcome' = "searching" /\ todo # << >>
          /\ decisions' = decisions \cup {d}
          /\ Cardinality(decisions) < budget
        BY <1>2, <1>4 DEF Decide, BudgetSpent
    <2>2. todo' = Tail(todo) \o longer
        <3>1. Tail(todo) \in Seq(reach)
            <4>1. todo \in Seq(reach)
                BY <1>1 DEF Searched, Explores
            <4> HIDE DEF reach
            <4> QED
                BY <2>1, <4>1
        <3>2. Tail(todo) \o << >> = Tail(todo)
            BY <3>1, ConcatEmptySeq
        <3> QED
            BY <1>4, <3>2 DEF Decide
    <2>3. Searched(Tail(todo) \o longer, decisions \cup {d}, reach)
        BY <1>1, <2>1, OneMoreDecided
    <2>4. \A e \in decisions \cup {d} : e = Checked(rules, requirements, e.trace)
        BY <1>1, CheckedParts
    <2>5. IsFiniteSet(decisions \cup {d}) /\ Cardinality(decisions \cup {d}) <= budget
        BY <1>1, <1>2, <2>1, OneMoreCounted
    <2> HIDE DEF d, longer
    <2>6. Searched(todo', decisions', Reachable(rules'))
        BY <1>3, <2>1, <2>2, <2>3
    <2>7. \A e \in decisions' : e = Checked(rules', requirements', e.trace)
        BY <1>3, <2>1, <2>4
    <2> QED
        BY <1>3, <2>1, <2>5, <2>6, <2>7 DEF SearchInv, CheckReported
<1>5. CASE Exceed
    <2>1. /\ outcome' = "exceeded" /\ todo' = todo /\ decisions' = decisions
          /\ todo # << >> /\ Cardinality(decisions) = budget
        BY <1>1, <1>2, <1>5 DEF Exceed, BudgetSpent
    <2> QED
        BY <1>1, <1>3, <2>1 DEF SearchInv, CheckReported
<1>6. CASE Report
    <2>1. /\ outcome' = IF Passes(min, decisions, requirements) THEN "passed" ELSE "failed"
          /\ todo' = todo /\ decisions' = decisions /\ todo = << >>
          /\ counterexamples' = Shortest(Faults(decisions))
          /\ covered' = Covered(decisions, requirements)
        BY <1>6 DEF Report, Faults
    <2> QED
        BY <1>1, <1>3, <2>1 DEF SearchInv, CheckReported
<1> QED
    BY <1>4, <1>5, <1>6 DEF Next

(* A new search has decided nothing.                                       *)
LEMMA SearchKeepsSearchInv ==
    ASSUME InputInv, NEW p, Search(p)
    PROVE  SearchInv'
<1>1. /\ rules' = p /\ requirements' = requirements /\ min' = min /\ budget' = budget
      /\ todo' = FirstCalls /\ decisions' = {} /\ outcome' = "searching"
    BY DEF Search, NoDecisions
<1>2. Searched(FirstCalls, {}, Reachable(p))
    BY SearchesBegin
<1>3. budget \in Nat
    BY InputsAreTyped DEF InputInv
<1>4. IsFiniteSet({}) /\ Cardinality({}) <= budget
    BY <1>3, FS_EmptySet
<1> QED
    BY <1>1, <1>2, <1>4 DEF SearchInv, CheckReported

LEMMA IdleKeepsSearchInv ==
    ASSUME SearchInv, UNCHANGED <<inputs, todo, decisions, outcome, counterexamples, covered>>
    PROVE  SearchInv'
<1>1. /\ rules' = rules /\ requirements' = requirements /\ min' = min /\ budget' = budget
      /\ todo' = todo /\ decisions' = decisions /\ outcome' = outcome
      /\ counterexamples' = counterexamples /\ covered' = covered
    BY DEF inputs
<1> QED
    BY <1>1 DEF SearchInv, CheckReported

-----------------------------------------------------------------------------
(* The search over both policies.                                          *)
LEMMA EitherIsPrefixClosed ==
    PrefixClosed(ReachedByEither) /\ \A x \in 1..Templates : <<x>> \in ReachedByEither
<1>1. /\ PrefixClosed(Reachable(policy["baseline"]))
      /\ PrefixClosed(Reachable(policy["candidate"]))
      /\ \A x \in 1..Templates : <<x>> \in Reachable(policy["baseline"])
    BY ReachableIsPrefixClosed
<1> QED
    BY <1>1 DEF PrefixClosed, ReachedByEither

LEMMA ReachedByParts ==
    \A t : /\ t \in ReachedByEither <=> ReachedBy(t) # {}
           /\ \A s : s \in ReachedBy(t) <=> s \in Change!Sides /\ t \in Reachable(policy[s])
           /\ ReachedBy(t) \in SUBSET Change!Sides
BY DEF ReachedByEither, ReachedBy, Change!Sides

(* What follows a trace is reached by the policies that allow its last     *)
(* call.                                                                   *)
LEMMA ReachedByAfter ==
    ASSUME NEW t, NEW u \in Trace, Len(u) > 1, Parent(u) = t
    PROVE  ReachedBy(u) = {s \in ReachedBy(t) : Actual(policy[s], t) = "allow"}
<1>1. ASSUME NEW s, u \in Reachable(policy[s])
      PROVE  t \in Reachable(policy[s])
    <2>1. PrefixClosed(Reachable(policy[s]))
        BY ReachableIsPrefixClosed
    <2>2. Len(u) - 1 \in 1..Len(u)
        BY TraceIsSeq
    <2> QED
        BY <1>1, <2>1, <2>2 DEF PrefixClosed, Parent
<1>2. ASSUME NEW s
      PROVE  u \in Reachable(policy[s])
                <=> t \in Reachable(policy[s]) /\ Actual(policy[s], t) = "allow"
    BY <1>1, ReachingOn
<1>3. \A s : s \in ReachedBy(u) <=> s \in ReachedBy(t) /\ Actual(policy[s], t) = "allow"
    BY <1>2, ReachedByParts
<1> QED
    BY <1>3

(* The change checker computes about a decision what the relational        *)
(* checker does.                                                           *)
LEMMA SameControls ==
    \A p, suite, t : /\ Change!Actual(p, t) = Actual(p, t)
                      /\ Change!Expected(suite, t) = Expected(suite, t)
                      /\ Change!Matched(suite, t) = Matched(suite, t)
<1>1. \A effects, past, window : Change!Sourced(effects, past, window) = Sourced(effects, past, window)
    BY DEF Change!Sourced, Sourced, Change!Visible, Visible, Change!VisibleFrom, VisibleFrom,
           Change!NoWindow, NoWindow
<1>2. \A t : Change!Called(t) = Called(t) /\ Change!Past(t) = Past(t)
    BY DEF Change!Called, Called, Change!Past, Past
<1>3. \A p, t : Change!Actual(p, t) = Actual(p, t)
    BY <1>1, <1>2 DEF Change!Actual, Actual, Change!EvaluateSequence, EvaluateSequence,
                      Change!Matches, Matches
<1>4. \A suite, t : Change!Met(suite, t) = Met(suite, t)
    BY <1>1, <1>2 DEF Change!Met, Met
<1>5. \A suite, t : Change!Expected(suite, t) = Expected(suite, t)
    BY <1>4 DEF Change!Expected, Expected
<1>6. \A suite, t : Change!Matched(suite, t) = Matched(suite, t)
    BY <1>4, <1>5 DEF Change!Matched, Matched
<1> QED
    BY <1>3, <1>5, <1>6

LEMMA SameEvidence ==
    \A p, suite, t : /\ Change!ActualEvidence(p, t) = ActualEvidence(p, t)
                      /\ Change!RequiredEvidence(suite, t) = RequiredEvidence(suite, t)
<1>1. \A past, window : Change!Visible(past, window) = Visible(past, window)
    BY DEF Change!Visible, Visible, Change!VisibleFrom, VisibleFrom, Change!NoWindow, NoWindow
<1>2. \A effects, past, window :
          Change!Evidence(effects, past, window) = Evidence(effects, past, window)
    BY <1>1 DEF Change!Evidence, Evidence
<1>3. \A t : Change!Called(t) = Called(t) /\ Change!Past(t) = Past(t)
    BY DEF Change!Called, Called, Change!Past, Past
<1>4. \A rule, tool, past : Change!Matches(rule, tool, past) = Matches(rule, tool, past)
    BY <1>1 DEF Change!Matches, Matches, Change!Sourced, Sourced
<1>5. \A p, t : Change!ActualEvidence(p, t) = ActualEvidence(p, t)
    BY <1>2, <1>3, <1>4, SameControls DEF Change!ActualEvidence, ActualEvidence
<1>6. \A suite, t : Change!RequiredEvidence(suite, t) = RequiredEvidence(suite, t)
    BY <1>2, <1>3, SameControls DEF Change!RequiredEvidence, RequiredEvidence
<1> QED
    BY <1>5, <1>6

LEMMA SameChecks ==
    /\ \A p, suite, t : Change!Checked(p, suite, t) = Checked(p, suite, t)
    /\ \A d : Change!Failures(d) = Failures(d) /\ Change!EvidenceComplete(d) = EvidenceComplete(d)
    /\ \A d, failures : Change!Witnesses(d, failures) = Witnesses(d, failures)
    /\ \A W : Change!Shortest(W) = Shortest(W)
    /\ \A t : Change!Extensions(t) = Extensions(t)
    /\ Change!FirstCalls = FirstCalls
<1>1. \A p, suite, t : Change!Checked(p, suite, t) = Checked(p, suite, t)
    BY SameControls, SameEvidence DEF Change!Checked, Checked
<1>2. \A d : Change!Failures(d) = Failures(d) /\ Change!EvidenceComplete(d) = EvidenceComplete(d)
    BY DEF Change!Failures, Failures, Change!EvidenceComplete, EvidenceComplete
<1>3. \A d, failures : Change!Witnesses(d, failures) = Witnesses(d, failures)
    BY DEF Change!Witnesses, Witnesses, Change!Blamed, Blamed
<1>4. \A W : Change!Shortest(W) = Shortest(W)
    BY DEF Change!Shortest, Shortest, Change!Before, Before, Change!Lexically, Lexically
<1>5. \A t : Change!Extensions(t) = Extensions(t)
    BY DEF Change!Extensions, Extensions
<1>6. Change!FirstCalls = FirstCalls
    BY DEF Change!FirstCalls, FirstCalls
<1> QED
    BY <1>1, <1>2, <1>3, <1>4, <1>5, <1>6

LEMMA SameCardinalities == \A S : Change!Cardinality(S) = Cardinality(S)
BY DEF Change!Cardinality, Cardinality

LEMMA SameThresholds ==
    \A m, made, suite : /\ Change!Passes(m, made, suite) <=> Passes(m, made, suite)
                        /\ Change!Covered(made, suite) = Covered(made, suite)
<1>1. \A percent, good, all : Change!AtLeast(percent, good, all) = AtLeast(percent, good, all)
    BY SameCardinalities DEF Change!AtLeast, AtLeast
<1>2. \A made, suite : Change!Covered(made, suite) = Covered(made, suite)
    BY SameCardinalities DEF Change!Covered, Covered, Change!Neighbours, Neighbours
<1>3. \A d : Change!EvidenceComplete(d) = EvidenceComplete(d)
    BY SameChecks
<1>4. ASSUME NEW m, NEW made, NEW suite
      PROVE  Change!Passes(m, made, suite) <=> Passes(m, made, suite)
    <2> DEFINE unsafe == {d \in made : d.expected # "allow"}
    <2>1. {d \in unsafe : Change!EvidenceComplete(d)} = {d \in unsafe : EvidenceComplete(d)}
        BY <1>3
    <2> QED
        BY <1>1, <1>2, <2>1, Zenon DEF Change!Passes, Passes
<1> QED
    BY <1>2, <1>4

LEMMA SeenParts ==
    ASSUME NEW t
    PROVE  /\ Seen(t).trace = t /\ Seen(t).reached = ReachedBy(t)
           /\ \A s \in Change!Sides : Seen(t).by[s] = Checked(policy[s], requirements, t)
BY SameChecks DEF Seen, Change!Compared

(* The traces of a queue of the change checker.                            *)
HaveTraces(I, E) == \A item \in I : item.trace \in E

LEMMA TracesParts ==
    ASSUME NEW E, NEW I, HaveTraces(I, E), NEW q \in Seq(I)
    PROVE  /\ Traces(q) \in Seq(E) /\ Len(Traces(q)) = Len(q)
           /\ \A i \in 1..Len(q) : Traces(q)[i] = q[i].trace
<1>1. Len(q) \in Nat /\ \A i \in 1..Len(q) : q[i].trace \in E
    BY LenProperties DEF HaveTraces
<1> QED
    BY <1>1 DEF Traces

LEMMA TracesOfTail ==
    ASSUME NEW E, NEW I, HaveTraces(I, E), NEW q \in Seq(I), q # << >>
    PROVE  /\ Traces(q) # << >> /\ Head(Traces(q)) = Head(q).trace
           /\ Traces(Tail(q)) = Tail(Traces(q))
<1> DEFINE a == Traces(q)
           b == Traces(Tail(q))
           c == Tail(a)
<1>2. a \in Seq(E) /\ Len(a) = Len(q) /\ \A i \in 1..Len(q) : a[i] = q[i].trace
    BY TracesParts
<1>3. Len(q) \in Nat /\ Len(q) >= 1 /\ Tail(q) \in Seq(I) /\ Len(Tail(q)) = Len(q) - 1
      /\ \A i \in 1..Len(Tail(q)) : Tail(q)[i] = q[i + 1]
    <2>1. Len(q) \in Nat /\ Len(q) # 0
        BY EmptySeq
    <2> QED
        BY <2>1, HeadTailProperties
<1>4. b \in Seq(E) /\ Len(b) = Len(q) - 1 /\ \A i \in 1..Len(Tail(q)) : b[i] = Tail(q)[i].trace
    BY <1>3, TracesParts
<1>5. a # << >>
    BY <1>2, <1>3
<1>6. c \in Seq(E) /\ Len(c) = Len(q) - 1 /\ \A i \in 1..Len(c) : c[i] = a[i + 1]
    BY <1>2, <1>5, HeadTailProperties
<1>7. Head(a) = Head(q).trace
    <2>1. Head(a) = a[1] /\ Head(q) = q[1] /\ 1 \in 1..Len(q)
        BY <1>3
    <2> QED
        BY <1>2, <2>1
<1> HIDE DEF a, b, c
<1>8. ASSUME NEW i \in 1..Len(b)
      PROVE  b[i] = c[i]
    <2>1. i \in 1..Len(Tail(q)) /\ i \in 1..Len(c) /\ i + 1 \in 1..Len(q)
        BY <1>3, <1>4, <1>6, <1>8
    <2> QED
        BY <1>2, <1>3, <1>4, <1>6, <2>1
<1>9. b = c
    BY <1>4, <1>6, <1>8, SeqEqual
<1> QED
    BY <1>5, <1>7, <1>9 DEF a, b, c

LEMMA TracesOfConcat ==
    ASSUME NEW E, NEW I, HaveTraces(I, E), NEW q \in Seq(I),
           NEW r \in Seq(I)
    PROVE  Traces(q \o r) = Traces(q) \o Traces(r)
<1> DEFINE n == Len(q)
           m == Len(r)
           a == Traces(q)
           b == Traces(r)
           all == q \o r
           c == Traces(all)
           e == a \o b
<1>2. /\ a \in Seq(E) /\ Len(a) = n /\ \A i \in 1..n : a[i] = q[i].trace
      /\ b \in Seq(E) /\ Len(b) = m /\ \A i \in 1..m : b[i] = r[i].trace
    <2>1. a \in Seq(E) /\ Len(a) = Len(q) /\ \A i \in 1..Len(q) : a[i] = q[i].trace
        BY TracesParts
    <2>2. b \in Seq(E) /\ Len(b) = Len(r) /\ \A i \in 1..Len(r) : b[i] = r[i].trace
        BY TracesParts
    <2> QED
        BY <2>1, <2>2
<1>3. /\ all \in Seq(I) /\ Len(all) = n + m /\ n \in Nat /\ m \in Nat
      /\ \A i \in 1..(n + m) : all[i] = IF i <= n THEN q[i] ELSE r[i - n]
    BY ConcatProperties, LenProperties
<1>4. c \in Seq(E) /\ Len(c) = n + m /\ \A i \in 1..(n + m) : c[i] = all[i].trace
    <2> HIDE DEF all, n, m
    <2>0. all \in Seq(I)
        BY <1>3
    <2>1. c \in Seq(E) /\ Len(c) = Len(all) /\ \A i \in 1..Len(all) : c[i] = all[i].trace
        BY <2>0, TracesParts
    <2> HIDE DEF c
    <2> QED
        BY <1>3, <2>1
<1> HIDE DEF n, m, a, b, all, c
<1>5. /\ e \in Seq(E) /\ Len(e) = n + m
      /\ \A i \in 1..(n + m) : e[i] = IF i <= n THEN a[i] ELSE b[i - n]
    BY <1>2, ConcatProperties
<1> HIDE DEF e
<1>6. ASSUME NEW i \in 1..(n + m)
      PROVE  c[i] = e[i]
    <2>1. CASE i <= n
        <3>1. i \in 1..n
            BY <1>3, <2>1
        <3>2. all[i] = q[i] /\ e[i] = a[i]
            BY <1>3, <1>5, <2>1
        <3> QED
            BY <1>2, <1>4, <3>1, <3>2
    <2>2. CASE ~(i <= n)
        <3>1. i - n \in 1..m
            BY <1>3, <2>2
        <3>2. all[i] = r[i - n] /\ e[i] = b[i - n]
            BY <1>3, <1>5, <2>2
        <3> QED
            BY <1>2, <1>4, <3>1, <3>2
    <2> QED
        BY <2>1, <2>2
<1>7. c = e
    BY <1>4, <1>5, <1>6, SeqEqual
<1> QED
    BY <1>7 DEF a, b, c, e, all

(* What is enqueued after a trace is decided.                              *)
Items == [trace : ReachedByEither, reached : SUBSET Change!Sides]
Onward(t) == {s \in ReachedBy(t) : Actual(policy[s], t) = "allow"}
Enqueued(t) ==
    IF Onward(t) = {} THEN << >>
    ELSE [i \in DOMAIN Extensions(t) |-> [trace |-> Extensions(t)[i], reached |-> Onward(t)]]

(* A trace that either policy reaches is decided for both.                 *)
LEMMA ChangeDecides ==
    ASSUME ChangeInv, Change!Decide
    PROVE  /\ Head(changeTodo).trace \in ReachedByEither
           /\ changeDecisions' = changeDecisions \cup {Seen(Head(changeTodo).trace)}
           /\ changeTodo' = Tail(changeTodo) \o Enqueued(Head(changeTodo).trace)
<1> DEFINE item == Head(changeTodo)
           h == item.trace
           d == Change!Compared(item)
<1>1. changeTodo \in Seq(Items) /\ changeTodo # << >>
    BY DEF ChangeInv, Change!Decide, Items
<1>2. item \in Items /\ item = changeTodo[1] /\ 1 \in 1..Len(changeTodo)
      /\ Tail(changeTodo) \in Seq(Items)
    <2>1. Len(changeTodo) \in Nat /\ Len(changeTodo) # 0
        BY <1>1, EmptySeq
    <2> QED
        BY <1>1, <2>1, HeadTailProperties
<1>3. h \in ReachedByEither /\ item.reached = ReachedBy(h)
    BY <1>2 DEF ChangeInv, Items
<1>4. d = Seen(h)
    BY <1>3 DEF Seen, Change!Compared
<1>5. \A s \in ReachedBy(h) : d.by[s].actual = Actual(policy[s], h)
    BY <1>4, SeenParts, ReachedByParts, CheckedParts
<1>6. Change!ReachedAfter(d) = Onward(h)
    BY <1>4, <1>5, SeenParts DEF Change!ReachedAfter, Onward
<1>7. d.trace = h /\ Change!Extensions(h) = Extensions(h)
    BY <1>4, SeenParts, SameChecks
<1>8. Tail(changeTodo) \o << >> = Tail(changeTodo)
    BY <1>2, ConcatEmptySeq
<1>9. changeDecisions' = changeDecisions \cup {d}
    BY DEF Change!Decide
<1>10. changeTodo' = IF Change!ReachedAfter(d) = {} THEN Tail(changeTodo)
                     ELSE Tail(changeTodo) \o [i \in DOMAIN Change!Extensions(d.trace) |->
                            [trace |-> Change!Extensions(d.trace)[i], reached |-> Change!ReachedAfter(d)]]
    BY DEF Change!Decide
<1> HIDE DEF d
<1> QED
    BY <1>3, <1>4, <1>6, <1>7, <1>8, <1>9, <1>10 DEF Enqueued

(* ... and what the policies that allow its last call reach is enqueued.   *)
LEMMA ChangeEnqueues ==
    ASSUME NEW h \in ReachedByEither
    PROVE  /\ Enqueued(h) \in Seq(Items)
           /\ \A i \in 1..Len(Enqueued(h)) :
                 Enqueued(h)[i].reached = ReachedBy(Enqueued(h)[i].trace)
           /\ \/ /\ Traces(Enqueued(h)) = Extensions(h)
                 /\ \A i \in 1..Len(Extensions(h)) : Extensions(h)[i] \in ReachedByEither
              \/ /\ Traces(Enqueued(h)) = << >>
                 /\ \A t \in ReachedByEither : Len(t) > 1 => Parent(t) # h
<1> DEFINE next == Onward(h)
           items == Enqueued(h)
<1>1. h \in Trace /\ ReachedByEither \subseteq Trace
    BY EitherIsPrefixClosed DEF PrefixClosed
<1>2. Len(h) \in Nat /\ Len(h) >= 1
    BY <1>1, TraceIsSeq
<1>3. CASE next = {}
    <2>1. items = << >> /\ Len(items) = 0
        BY <1>3 DEF Enqueued
    <2>2. Traces(items) = << >>
        BY <2>1 DEF Traces
    <2>3. ASSUME NEW t \in ReachedByEither, Len(t) > 1, Parent(t) = h
          PROVE  FALSE
        <3>1. ReachedBy(t) = next
            BY <1>1, <2>3, ReachedByAfter DEF Onward
        <3> QED
            BY <1>3, <2>3, <3>1, ReachedByParts
    <2> QED
        BY <2>1, <2>2, <2>3
<1>4. CASE next # {}
    <2> DEFINE longer == Extensions(h)
    <2>1. /\ longer \in Seq(Trace) /\ Len(longer) \in Nat
          /\ \A i \in 1..Len(longer) : Parent(longer[i]) = h /\ Len(longer[i]) = Len(h) + 1
        BY <1>1, ExtensionsParts, LenProperties
    <2>2. DOMAIN longer = 1..Len(longer)
        BY <2>1
    <2> HIDE DEF longer
    <2>3. items = [i \in 1..Len(longer) |-> [trace |-> longer[i], reached |-> next]]
        BY <1>4, <2>2 DEF longer, Enqueued
    <2>4. \A i \in 1..Len(longer) : ReachedBy(longer[i]) = next /\ longer[i] \in ReachedByEither
        <3> SUFFICES ASSUME NEW i \in 1..Len(longer)
                     PROVE  ReachedBy(longer[i]) = next /\ longer[i] \in ReachedByEither
            OBVIOUS
        <3> DEFINE u == longer[i]
        <3>1. u \in Trace /\ Parent(u) = h /\ Len(u) = Len(h) + 1
            BY <2>1, ElementOfSeq
        <3> HIDE DEF u
        <3>2. Len(u) > 1
            BY <1>2, <3>1
        <3>3. ReachedBy(u) = next
            BY <3>1, <3>2, ReachedByAfter DEF Onward
        <3>4. u \in ReachedByEither
            BY <1>4, <3>3, ReachedByParts
        <3> QED
            BY <3>3, <3>4 DEF u
    <2>5. next \in SUBSET Change!Sides
        BY ReachedByParts DEF Onward
    <2> HIDE DEF items, next
    <2>6. \A i \in 1..Len(longer) :
              /\ items[i] \in Items /\ items[i].trace = longer[i] /\ items[i].reached = next
        BY <2>3, <2>4, <2>5 DEF Items
    <2>7. items \in Seq(Items) /\ Len(items) = Len(longer)
        <3>1. items = [i \in 1..Len(longer) |-> items[i]]
            BY <2>3
        <3>2. items \in [1..Len(longer) -> Items]
            BY <2>6, <3>1
        <3> DEFINE n == Len(longer)
        <3>3. n \in Nat /\ items \in [1..n -> Items]
            BY <2>1, <3>2
        <3> HIDE DEF n
        <3>4. items \in Seq(Items) /\ Len(items) = n
            BY <3>3
        <3> QED
            BY <3>4 DEF n
    <2>8. \A i \in 1..Len(items) : items[i].reached = ReachedBy(items[i].trace)
        BY <2>4, <2>6, <2>7
    <2> DEFINE asked == Traces(items)
    <2>9. asked = [i \in 1..Len(longer) |-> longer[i]]
        BY <2>6, <2>7 DEF Traces
    <2>10. longer = [i \in 1..Len(longer) |-> longer[i]]
        BY <2>1, <2>2
    <2> HIDE DEF asked
    <2>11. asked = longer /\ \A i \in 1..Len(longer) : longer[i] \in ReachedByEither
        BY <2>4, <2>9, <2>10
    <2> QED
        BY <2>7, <2>8, <2>11 DEF asked, longer, items
<1> QED
    BY <1>3, <1>4

(* The change checker keeps its part of the invariant.                     *)
LEMMA ChangeKeepsChangeInv ==
    ASSUME ChangeInv, Change!Next
    PROVE  ChangeInv'
<1>1. /\ \A d \in changeDecisions : d = Seen(d.trace)
      /\ IsFiniteSet(changeDecisions)
      /\ changeTodo \in Seq(Items)
      /\ \A i \in 1..Len(changeTodo) : changeTodo[i].reached = ReachedBy(changeTodo[i].trace)
      /\ Searched(Traces(changeTodo), changeDecisions, ReachedByEither)
    BY DEF ChangeInv, Items
<1>2. policy' = policy /\ requirements' = requirements /\ min' = min /\ budget' = budget
    BY DEF Change!Next, Change!Decide, Change!Exceed, Change!Report, Change!inputs
<1>3. /\ ReachedByEither' = ReachedByEither
      /\ \A t : ReachedBy(t)' = ReachedBy(t) /\ Seen(t)' = Seen(t)
    BY <1>2 DEF ReachedByEither, ReachedBy, Seen, Change!Compared
<1>4. CASE Change!Decide
    <2> DEFINE h == Head(changeTodo).trace
               items == Enqueued(h)
               rest == Tail(changeTodo)
               queue == Traces(changeTodo)
               longer == Traces(items)
               decided == {d.trace : d \in changeDecisions}
    <2>1. /\ h \in ReachedByEither
          /\ changeDecisions' = changeDecisions \cup {Seen(h)}
          /\ changeTodo' = rest \o items
        BY <1>4, ChangeDecides
    <2>2. changeTodo # << >> /\ verdict' = verdict /\ verdict = "searching"
        BY <1>4 DEF Change!Decide
    <2>3. /\ items \in Seq(Items)
          /\ \A i \in 1..Len(items) : items[i].reached = ReachedBy(items[i].trace)
          /\ \/ /\ longer = Extensions(h)
                /\ \A i \in 1..Len(longer) : longer[i] \in ReachedByEither
             \/ longer = << >> /\ \A t \in ReachedByEither : Len(t) > 1 => Parent(t) # h
        <3> HIDE DEF h
        <3>1. /\ items \in Seq(Items)
              /\ \A i \in 1..Len(items) : items[i].reached = ReachedBy(items[i].trace)
              /\ \/ longer = Extensions(h) /\ \A i \in 1..Len(Extensions(h)) : Extensions(h)[i] \in ReachedByEither
                 \/ longer = << >> /\ \A t \in ReachedByEither : Len(t) > 1 => Parent(t) # h
            BY <2>1, ChangeEnqueues
        <3> HIDE DEF items, longer
        <3> QED
            BY <3>1
    <2>4. HaveTraces(Items, ReachedByEither)
        BY DEF HaveTraces, Items
    <2> HIDE DEF h, items, rest, queue, longer
    <2>5. /\ rest \in Seq(Items) /\ queue # << >> /\ Head(queue) = h /\ Traces(rest) = Tail(queue)
          /\ Len(rest) \in Nat
          /\ \A i \in 1..Len(rest) : rest[i] = changeTodo[i + 1] /\ i + 1 \in 1..Len(changeTodo)
        <3>1. Len(changeTodo) \in Nat /\ Len(changeTodo) # 0
            BY <1>1, <2>2, EmptySeq
        <3>2. rest \in Seq(Items) /\ Len(rest) = Len(changeTodo) - 1
              /\ \A i \in 1..Len(rest) : rest[i] = changeTodo[i + 1]
            BY <1>1, <2>2, HeadTailProperties DEF rest
        <3>3. queue # << >> /\ Head(queue) = h /\ Traces(rest) = Tail(queue)
            BY <1>1, <2>2, <2>4, TracesOfTail DEF queue, h, rest
        <3>4. Len(rest) \in Nat /\ \A i \in 1..Len(rest) : i + 1 \in 1..Len(changeTodo)
            BY <3>1, <3>2
        <3> QED
            BY <3>2, <3>3, <3>4
    <2>6. /\ rest \o items \in Seq(Items) /\ Len(items) \in Nat
          /\ Len(rest \o items) = Len(rest) + Len(items)
          /\ \A i \in 1..(Len(rest) + Len(items)) :
                (rest \o items)[i] = IF i <= Len(rest) THEN rest[i] ELSE items[i - Len(rest)]
        BY <2>3, <2>5, ConcatProperties, LenProperties
    <2>7. ASSUME NEW i \in 1..Len(rest \o items)
          PROVE  (rest \o items)[i].reached = ReachedBy((rest \o items)[i].trace)
        <3>1. CASE i <= Len(rest)
            <4>1. i \in 1..Len(rest) /\ i \in 1..(Len(rest) + Len(items))
                BY <2>5, <2>6, <3>1
            <4>2. (rest \o items)[i] = changeTodo[i + 1] /\ i + 1 \in 1..Len(changeTodo)
                BY <2>5, <2>6, <3>1, <4>1
            <4> QED
                BY <1>1, <4>2
        <3>2. CASE ~(i <= Len(rest))
            <4>1. i - Len(rest) \in 1..Len(items) /\ i \in 1..(Len(rest) + Len(items))
                BY <2>5, <2>6, <3>2
            <4>2. (rest \o items)[i] = items[i - Len(rest)]
                BY <2>6, <3>2, <4>1
            <4> QED
                BY <2>3, <4>1, <4>2
        <3> QED
            BY <3>1, <3>2
    <2>8. Traces(rest \o items) = Tail(queue) \o longer
        <3>1. rest \in Seq(Items) /\ items \in Seq(Items) /\ Traces(rest) = Tail(queue)
            BY <2>3, <2>5
        <3>2. Traces(rest \o items) = Traces(rest) \o Traces(items)
            <4>1. \A q, r \in Seq(Items) : Traces(q \o r) = Traces(q) \o Traces(r)
                BY <2>4, TracesOfConcat
            <4> QED
                BY <3>1, <4>1
        <3> QED
            BY <3>1, <3>2 DEF longer
    <2>9. Explores(queue, decided, ReachedByEither)
        BY <1>1 DEF Searched, queue
    <2>10. Explores(Tail(queue) \o longer, decided \cup {h}, ReachedByEither)
        <3> DEFINE reach == ReachedByEither
        <3>1. PrefixClosed(reach)
            BY EitherIsPrefixClosed
        <3>2. Explores(queue, decided, reach)
            BY <2>9
        <3>3. \/ longer = Extensions(Head(queue)) /\ \A i \in 1..Len(longer) : longer[i] \in reach
              \/ longer = << >> /\ \A t \in reach : Len(t) > 1 => Parent(t) # Head(queue)
            BY <2>3, <2>5
        <3> HIDE DEF reach, decided
        <3>4. Explores(Tail(queue) \o longer, decided \cup {Head(queue)}, reach)
            BY <2>5, <3>1, <3>2, <3>3, SearchGoesOn
        <3> QED
            BY <2>5, <3>4 DEF reach
    <2>11. {d.trace : d \in changeDecisions \cup {Seen(h)}} = decided \cup {h}
        BY SeenParts
    <2>12. Searched(Traces(rest \o items), changeDecisions \cup {Seen(h)}, ReachedByEither)
        BY <2>8, <2>10, <2>11 DEF Searched
    <2>13. \A d \in changeDecisions \cup {Seen(h)} : d = Seen(d.trace)
        BY <1>1, SeenParts
    <2>14. IsFiniteSet(changeDecisions \cup {Seen(h)})
        BY <1>1, FS_AddElement
    <2>15. Items' = Items
        BY <1>3 DEF Items
    <2> DEFINE todo2 == rest \o items
               made2 == changeDecisions \cup {Seen(h)}
    <2> HIDE DEF todo2, made2
    <2>16. changeTodo' = todo2 /\ changeDecisions' = made2
        BY <2>1 DEF todo2, made2
    <2> QED
        BY <1>3, <2>2, <2>6, <2>7, <2>12, <2>13, <2>14, <2>15, <2>16
        DEF ChangeInv, todo2, made2, Items
<1>5. CASE Change!Exceed
    <2>1. changeTodo' = changeTodo /\ changeDecisions' = changeDecisions /\ verdict' = "exceeded"
        BY <1>5 DEF Change!Exceed
    <2>2. Items' = Items
        BY <1>3 DEF Items
    <2> QED
        BY <1>1, <1>3, <2>1, <2>2 DEF ChangeInv, Items
<1>6. CASE Change!Report
    <2>1. /\ changeTodo' = changeTodo /\ changeDecisions' = changeDecisions /\ changeTodo = << >>
          /\ defects' = [s \in Change!Sides |->
                Change!Shortest(UNION {Change!Witnesses(d, Change!Failures(d)) : d \in Change!OfOwnPaths(s)})]
          /\ regressions' = Change!Shortest(UNION {Change!Witnesses(d.by["candidate"], Change!RegressionsOf(d))
                                                    : d \in changeDecisions})
          /\ corrections' = Change!Shortest(UNION {Change!Witnesses(d.by["baseline"], Change!CorrectionsOf(d))
                                                    : d \in changeDecisions})
          /\ verdict' = IF regressions' = {} /\ Change!Passes(min, Change!OfOwnPaths("candidate"), requirements)
                         THEN "passed" ELSE "failed"
        BY <1>6, Zenon DEF Change!Report
    <2>2. \A s \in Change!Sides : defects'[s] = Shortest(Faults(Change!OfOwnPaths(s)))
        <3>1. \A made : UNION {Change!Witnesses(d, Change!Failures(d)) : d \in made} = Faults(made)
            BY SameChecks DEF Faults
        <3> QED
            BY <2>1, <3>1, SameChecks
    <2>3. regressions' = Shortest(Worsened)
        BY <2>1, SameChecks DEF Worsened
    <2>4. corrections' = Shortest(Improved)
        BY <2>1, SameChecks DEF Improved
    <2>5. verdict' = IF regressions' = {} /\ Passes(min, Change!OfOwnPaths("candidate"), requirements)
                     THEN "passed" ELSE "failed"
        BY <2>1, SameThresholds
    <2>6. /\ Worsened' = Worsened /\ Improved' = Improved /\ Items' = Items
          /\ \A s : Change!OfOwnPaths(s)' = Change!OfOwnPaths(s)
        BY <1>3, <2>1 DEF Worsened, Improved, Items, Change!OfOwnPaths
    <2> QED
        BY <1>1, <1>2, <1>3, <2>1, <2>2, <2>3, <2>4, <2>5, <2>6 DEF ChangeInv, Items
<1> QED
    BY <1>4, <1>5, <1>6 DEF Change!Next

LEMMA IdleKeepsChangeInv ==
    ASSUME ChangeInv, UNCHANGED <<changeVars, requirements, min>>
    PROVE  ChangeInv'
<1>1. /\ policy' = policy /\ requirements' = requirements /\ min' = min
      /\ changeTodo' = changeTodo /\ changeDecisions' = changeDecisions /\ verdict' = verdict
      /\ defects' = defects /\ regressions' = regressions /\ corrections' = corrections
    BY DEF changeVars
<1>2. /\ ReachedByEither' = ReachedByEither
      /\ \A t : ReachedBy(t)' = ReachedBy(t) /\ Seen(t)' = Seen(t)
    BY <1>1 DEF ReachedByEither, ReachedBy, Seen, Change!Compared
<1>3. /\ Worsened' = Worsened /\ Improved' = Improved
      /\ \A s : Change!OfOwnPaths(s)' = Change!OfOwnPaths(s)
    BY <1>1 DEF Worsened, Improved, Change!OfOwnPaths
<1> QED
    BY <1>1, <1>2, <1>3 DEF ChangeInv

LEMMA ChangeBegins == ReviewInit => ChangeInv
<1> SUFFICES ASSUME ReviewInit PROVE ChangeInv
    OBVIOUS
<1> DEFINE first == [x \in 1..Templates |-> [trace |-> FirstCalls[x], reached |-> Change!Sides]]
           n == Templates
<1>1. changeTodo = first /\ changeDecisions = {} /\ verdict = "searching"
    BY SameChecks DEF ReviewInit, Change!Init
<1>2. /\ FirstCalls = [x \in 1..n |-> <<x>>] /\ n \in Nat
      /\ \A x \in 1..n : <<x>> \in ReachedByEither
    BY EitherIsPrefixClosed, SuiteIsTyped DEF FirstCalls
<1>3. \A x \in 1..n : ReachedBy(<<x>>) = Change!Sides
    BY ReachableIsPrefixClosed, ReachedByParts
<1>4. \A x \in 1..n : first[x] \in Items /\ first[x].trace = <<x>> /\ first[x].reached = Change!Sides
    BY <1>2 DEF Items
<1>5. first = [x \in 1..n |-> first[x]]
    OBVIOUS
<1> HIDE DEF first, n
<1>6. first \in Seq(Items) /\ Len(first) = n
    <2>1. first \in [1..n -> Items]
        BY <1>4, <1>5
    <2> QED
        BY <1>2, <2>1
<1>7. \A i \in 1..Len(first) : first[i].reached = ReachedBy(first[i].trace)
    BY <1>3, <1>4, <1>6
<1>8. Traces(first) = FirstCalls
    BY <1>2, <1>4, <1>6 DEF Traces
<1>9. Searched(Traces(first), {}, ReachedByEither)
    <2>1. {d.trace : d \in {}} = {}
        OBVIOUS
    <2> QED
        BY <1>8, <2>1, EitherIsPrefixClosed, SearchBegins DEF Searched
<1>10. IsFiniteSet({})
    BY FS_EmptySet
<1> QED
    BY <1>1, <1>6, <1>7, <1>9, <1>10 DEF ChangeInv, Items

-----------------------------------------------------------------------------
(* The mutation analysis keeps its part of the invariant.                  *)
LEMMA RequirementsAreFinite ==
    InputInv => IsFiniteSet(requirements) /\ budget \in Nat
BY InputsAreTyped DEF InputInv

LEMMA ReportedMeans ==
    ASSUME InputInv, SearchInv, CheckReported, min = Full
    PROVE  outcome = "passed" <=> Conforms(rules) /\ WellBounded
<1>1. /\ \A d \in decisions : d = Checked(rules, requirements, d.trace)
      /\ IsFiniteSet(decisions) /\ Searched(todo, decisions, Reachable(rules)) /\ todo = << >>
      /\ outcome = "passed" <=> Passes(min, decisions, requirements)
    BY DEF SearchInv, CheckReported
<1>2. {d.trace : d \in decisions} = Reachable(rules)
    <2> DEFINE decided == {d.trace : d \in decisions}
               reach == Reachable(rules)
    <2>1. Explores(<< >>, decided, reach)
        BY <1>1 DEF Searched
    <2> HIDE DEF decided, reach
    <2>2. decided = reach
        BY <2>1, SearchEnds
    <2> QED
        BY <2>2 DEF decided, reach
<1>3. IsFiniteSet(requirements)
    BY RequirementsAreFinite
<1> QED
    BY <1>1, <1>2, <1>3, FullMeansConforms

LEMMA InputsStay ==
    ASSUME requirements' = requirements
    PROVE  (WellBounded' <=> WellBounded) /\ \A p : Conforms(p)' <=> Conforms(p)
<1>1. Permitted' = Permitted
    BY DEF Permitted
<1> QED
    BY <1>1 DEF WellBounded, Conforms

LEMMA AnalysisKeepsInv ==
    ASSUME InputInv, SearchInv, AnalysisInv, Analysis
    PROVE  /\ requirements' = requirements /\ min' = min /\ budget' = budget
           /\ SearchInv' /\ AnalysisInv'
<1>1. CASE Check
    <2>1. /\ requirements' = requirements /\ min' = min /\ budget' = budget /\ rules' = rules
          /\ analysis' = analysis /\ mutants' = mutants /\ results' = results
        BY <1>1 DEF Check, Next, Decide, Exceed, Report, inputs, mutationVars
    <2>2. outcome = "searching" /\ outcome' \in {"searching", "exceeded", "passed", "failed"}
        BY <1>1 DEF Check, Next, Decide, Exceed, Report
    <2>3. SearchInv'
        BY <1>1, <2>2, CheckKeepsSearchInv DEF Check
    <2>4. AnalysisInv'
        BY <2>1, <2>2, InputsStay DEF AnalysisInv
    <2> QED
        BY <2>1, <2>3, <2>4
<1>2. CASE BaselinePasses
    <2>1. /\ requirements' = requirements /\ min' = min /\ budget' = budget
          /\ outcome' = "searching" /\ rules' = First(mutants').policy
          /\ mutants' # {} /\ analysis' = "mutants" /\ results' = results
          /\ outcome = "passed" /\ analysis = "baseline"
        BY <1>2 DEF BaselinePasses, Search
    <2>2. SearchInv'
        BY <1>2, SearchKeepsSearchInv DEF BaselinePasses
    <2>3. min = Full => WellBounded
        BY <2>1, ReportedMeans DEF CheckReported
    <2>4. results = {}
        BY <2>1 DEF AnalysisInv
    <2>5. AnalysisInv'
        BY <2>1, <2>3, <2>4, InputsStay DEF AnalysisInv
    <2> QED
        BY <2>1, <2>2, <2>5
<1>3. CASE Refuse
    <2>1. /\ UNCHANGED <<inputs, todo, decisions, outcome, counterexamples, covered>>
          /\ analysis' = "refused"
        BY <1>3 DEF Refuse
    <2>2. requirements' = requirements /\ min' = min /\ budget' = budget
        BY <2>1 DEF inputs
    <2>3. SearchInv'
        BY <2>1, IdleKeepsSearchInv
    <2>4. AnalysisInv'
        BY <2>1 DEF AnalysisInv
    <2> QED
        BY <2>2, <2>3, <2>4
<1>4. CASE NextMutant
    <2>1. /\ requirements' = requirements /\ min' = min /\ budget' = budget
          /\ results' = results \cup {Judged} /\ analysis = "mutants" /\ CheckReported
          /\ analysis' \in {"mutants", "reported"}
          /\ analysis' = "mutants" =>
                outcome' = "searching" /\ mutants' # {} /\ rules' = First(mutants').policy
        BY <1>4 DEF NextMutant, Search, inputs, CheckReported
    <2>2. SearchInv'
        <3>1. CASE mutants' # {}
            <4>1. Search(First(mutants').policy)
                BY <1>4, <3>1 DEF NextMutant
            <4> QED
                BY <4>1, SearchKeepsSearchInv
        <3>2. CASE mutants' = {}
            BY <1>4, <3>2, IdleKeepsSearchInv DEF NextMutant
        <3> QED
            BY <3>1, <3>2
    <2>3. ASSUME min = Full
          PROVE  WellBounded /\ \A r \in results' : r.killed <=> ~Conforms(r.mutant.policy)
        <3>1. WellBounded /\ \A r \in results : r.killed <=> ~Conforms(r.mutant.policy)
            BY <2>1, <2>3 DEF AnalysisInv
        <3>2. rules = First(mutants).policy
            BY <2>1 DEF AnalysisInv
        <3>3. outcome = "passed" <=> Conforms(rules)
            BY <2>1, <2>3, <3>1, ReportedMeans
        <3>4. Judged.mutant = First(mutants) /\ (Judged.killed <=> outcome # "passed")
            BY DEF Judged
        <3> QED
            BY <2>1, <3>1, <3>2, <3>3, <3>4
    <2>4. AnalysisInv'
        BY <2>1, <2>3, InputsStay DEF AnalysisInv
    <2> QED
        BY <2>1, <2>2, <2>4
<1> QED
    BY <1>1, <1>2, <1>3, <1>4 DEF Analysis

-----------------------------------------------------------------------------
(* The invariant of the review.                                            *)
LEMMA ReviewBegins == ReviewInit => ReviewInv
<1> SUFFICES ASSUME ReviewInit PROVE ReviewInv
    OBVIOUS
<1>1. InputInv
    BY DEF ReviewInit, Change!Init, InputInv
<1>2. SearchInv
    BY DEF ReviewInit, MutationInit, SearchInv, CheckReported
<1>3. AnalysisInv
    BY DEF ReviewInit, MutationInit, AnalysisInv
<1> QED
    BY <1>1, <1>2, <1>3, ChangeBegins DEF ReviewInv

LEMMA ReviewKeepsInv == ReviewInv /\ [ReviewNext]_reviewVars => ReviewInv'
<1> SUFFICES ASSUME ReviewInv, [ReviewNext]_reviewVars
             PROVE  ReviewInv'
    OBVIOUS
<1>1. InputInv /\ SearchInv /\ ChangeInv /\ AnalysisInv
    BY DEF ReviewInv
<1>2. CASE CheckChange
    <2>1. Change!Next /\ UNCHANGED analysisVars
        BY <1>2 DEF CheckChange
    <2>2. /\ requirements' = requirements /\ min' = min /\ budget' = budget /\ rules' = rules
          /\ todo' = todo /\ decisions' = decisions /\ outcome' = outcome
          /\ counterexamples' = counterexamples /\ covered' = covered
          /\ analysis' = analysis /\ mutants' = mutants /\ results' = results
        BY <2>1 DEF Change!Next, Change!Decide, Change!Exceed, Change!Report, Change!inputs,
                    analysisVars, mutationVars
    <2>3. SearchInv'
        BY <1>1, <2>2, IdleKeepsSearchInv DEF inputs
    <2>4. ChangeInv'
        BY <1>1, <2>1, ChangeKeepsChangeInv
    <2>5. AnalysisInv'
        BY <1>1, <2>2, InputsStay DEF AnalysisInv
    <2> QED
        BY <1>1, <2>2, <2>3, <2>4, <2>5 DEF ReviewInv, InputInv
<1>3. CASE AnalyseProposal
    <2>1. Search(policy["candidate"]) /\ UNCHANGED changeVars
        BY <1>3 DEF AnalyseProposal, Analyse
    <2>2. /\ requirements' = requirements /\ min' = min /\ budget' = budget
          /\ outcome' = "searching" /\ analysis = "idle" /\ analysis' = "baseline" /\ results' = results
        BY <1>3 DEF AnalyseProposal, Analyse, Search
    <2>3. SearchInv'
        BY <1>1, <2>1, SearchKeepsSearchInv
    <2>4. ChangeInv'
        BY <1>1, <2>1, <2>2, IdleKeepsChangeInv
    <2>5. AnalysisInv'
        BY <1>1, <2>2 DEF AnalysisInv
    <2> QED
        BY <1>1, <2>2, <2>3, <2>4, <2>5 DEF ReviewInv, InputInv
<1>4. CASE Analysis /\ UNCHANGED changeVars
    <2>1. /\ requirements' = requirements /\ min' = min /\ budget' = budget
          /\ SearchInv' /\ AnalysisInv'
        BY <1>1, <1>4, AnalysisKeepsInv
    <2>2. ChangeInv'
        BY <1>1, <1>4, <2>1, IdleKeepsChangeInv
    <2> QED
        BY <1>1, <2>1, <2>2 DEF ReviewInv, InputInv
<1>5. CASE UNCHANGED reviewVars
    <2>1. /\ requirements' = requirements /\ min' = min /\ budget' = budget /\ rules' = rules
          /\ todo' = todo /\ decisions' = decisions /\ outcome' = outcome
          /\ counterexamples' = counterexamples /\ covered' = covered
          /\ analysis' = analysis /\ mutants' = mutants /\ results' = results
          /\ UNCHANGED changeVars
        BY <1>5 DEF reviewVars, vars, inputs, mutationVars
    <2>2. SearchInv'
        BY <1>1, <2>1, IdleKeepsSearchInv DEF inputs
    <2>3. ChangeInv'
        BY <1>1, <2>1, IdleKeepsChangeInv
    <2>4. AnalysisInv'
        BY <1>1, <2>1, InputsStay DEF AnalysisInv
    <2> QED
        BY <1>1, <2>1, <2>2, <2>3, <2>4 DEF ReviewInv, InputInv
<1> QED
    BY <1>2, <1>3, <1>4, <1>5 DEF ReviewNext, Finished

(* The searches have decided what they say, and remember who reaches it.   *)
THEOREM ReviewInvariant == ReviewSpec => []ReviewInv
<1> QED
    BY ReviewBegins, ReviewKeepsInv, PTL DEF ReviewSpec

-----------------------------------------------------------------------------
(* What the relational checker reports.                                    *)

(* Its decisions are about different traces.                               *)
LEMMA DecisionsAreTraces ==
    ASSUME NEW made, IsFiniteSet(made), NEW p, NEW suite,
           \A d \in made : d = Checked(p, suite, d.trace)
    PROVE  LET decided == {d.trace : d \in made} IN
           IsFiniteSet(decided) /\ Cardinality(decided) = Cardinality(made)
<1> DEFINE decided == {d.trace : d \in made}
           f == [d \in made |-> d.trace]
<1>1. f \in Injection(made, decided)
    <2>1. f \in [made -> decided]
        OBVIOUS
    <2>2. \A a, b \in made : f[a] = f[b] => a = b
        OBVIOUS
    <2> HIDE DEF f, decided
    <2> QED
        BY <2>1, <2>2 DEF Injection, IsInjective
<1>2. f \in Surjection(made, decided)
    <2>1. f \in [made -> decided] /\ \A t \in decided : \E d \in made : f[d] = t
        OBVIOUS
    <2> HIDE DEF f, decided
    <2> QED
        BY <2>1 DEF Surjection
<1> HIDE DEF f, decided
<1>3. IsFiniteSet(decided) /\ Cardinality(decided) = Cardinality(made)
    BY <1>1, <1>2, FS_Surjection
<1> QED
    BY <1>3 DEF decided

LEMMA SearchedAll ==
    ASSUME SearchInv, CheckReported
    PROVE  /\ {d.trace : d \in decisions} = Reachable(rules)
           /\ \A d \in decisions : d = Checked(rules, requirements, d.trace)
           /\ \A t \in Reachable(rules) : Checked(rules, requirements, t) \in decisions
<1>1. /\ \A d \in decisions : d = Checked(rules, requirements, d.trace)
      /\ Searched(todo, decisions, Reachable(rules)) /\ todo = << >>
    BY DEF SearchInv, CheckReported
<1>2. {d.trace : d \in decisions} = Reachable(rules)
    <2> DEFINE decided == {d.trace : d \in decisions}
               reach == Reachable(rules)
    <2>1. Explores(<< >>, decided, reach)
        BY <1>1 DEF Searched
    <2> HIDE DEF decided, reach
    <2>2. decided = reach
        BY <2>1, SearchEnds
    <2> QED
        BY <2>2 DEF decided, reach
<1>3. ASSUME NEW t \in Reachable(rules)
      PROVE  Checked(rules, requirements, t) \in decisions
    <2>1. PICK d \in decisions : d.trace = t
        BY <1>2
    <2> QED
        BY <1>1, <2>1
<1> QED
    BY <1>1, <1>2, <1>3

LEMMA InvMeansPassConforms == ReviewInv => PassMeansConforms
BY ReportedMeans DEF ReviewInv, PassMeansConforms, CheckReported

LEMMA InvMeansComplete == ReviewInv => ReportsAreComplete
<1> SUFFICES ASSUME ReviewInv PROVE ReportsAreComplete
    OBVIOUS
<1> DEFINE reach == Reachable(rules)
           decided == {d.trace : d \in decisions}
<1>1. SearchInv /\ InputInv
    BY DEF ReviewInv
<1>2. ASSUME CheckReported
      PROVE  decided = reach /\ Cardinality(reach) <= budget
    <2>1. /\ \A d \in decisions : d = Checked(rules, requirements, d.trace)
          /\ IsFiniteSet(decisions) /\ Cardinality(decisions) <= budget
        BY <1>1, <1>2 DEF SearchInv, CheckReported
    <2>2. Cardinality(decided) = Cardinality(decisions)
        BY <2>1, DecisionsAreTraces
    <2>3. decided = reach
        BY <1>1, <1>2, SearchedAll
    <2> QED
        BY <2>1, <2>2, <2>3
<1>3. ASSUME outcome = "exceeded"
      PROVE  Cardinality(reach) > budget
    <2>1. /\ \A d \in decisions : d = Checked(rules, requirements, d.trace)
          /\ IsFiniteSet(decisions) /\ Cardinality(decisions) = budget /\ todo # << >>
          /\ Explores(todo, decided, reach)
        BY <1>1, <1>3 DEF SearchInv, Searched
    <2>2. Cardinality(decided) = budget /\ budget \in Nat
        BY <1>1, <2>1, DecisionsAreTraces, RequirementsAreFinite
    <2>3. IsFiniteSet(reach)
        <3>1. reach \in SUBSET Trace
            BY ReachableParts
        <3> HIDE DEF reach
        <3> QED
            BY <3>1, TracesAreFinite, FS_Subset
    <2> HIDE DEF reach, decided
    <2>4. decided \in SUBSET reach /\ todo[1] \in reach /\ todo[1] \notin decided
        <3>1. todo \in Seq(reach) /\ decided \subseteq reach
              /\ \A i \in 1..Len(todo) : todo[i] \notin decided
            BY <2>1 DEF Explores
        <3>2. Len(todo) \in Nat /\ Len(todo) # 0
            BY <2>1, <3>1, EmptySeq
        <3>3. 1 \in 1..Len(todo)
            BY <3>2
        <3> QED
            BY <3>1, <3>3, ElementOfSeq
    <2>5. Cardinality(decided) <= Cardinality(reach) /\ Cardinality(decided) # Cardinality(reach)
        BY <2>3, <2>4, FS_Subset
    <2>6. Cardinality(reach) \in Nat
        BY <2>3, FS_CardinalityType
    <2> QED
        BY <2>2, <2>5, <2>6
<1> QED
    BY <1>2, <1>3 DEF ReportsAreComplete

(* The witnesses of some decisions.                                        *)
LEMMA FaultParts ==
    ASSUME NEW made
    PROVE  /\ \A w \in Faults(made) : \E d \in made :
                 w.property \in Failures(d) /\ w.about \in Blamed(d) /\ w.trace = d.trace
           /\ \A d \in made : \A f \in Failures(d), b \in Blamed(d) :
                 \E w \in Faults(made) : w.property = f /\ w.about = b /\ w.trace = d.trace
<1>1. ASSUME NEW w \in Faults(made)
      PROVE  \E d \in made :
                w.property \in Failures(d) /\ w.about \in Blamed(d) /\ w.trace = d.trace
    <2>1. PICK d \in made : w \in Witnesses(d, Failures(d))
        BY DEF Faults
    <2> QED
        BY <2>1, WitnessParts
<1>2. ASSUME NEW d \in made, NEW f \in Failures(d), NEW b \in Blamed(d)
      PROVE  \E w \in Faults(made) : w.property = f /\ w.about = b /\ w.trace = d.trace
    <2>1. PICK w \in Witnesses(d, Failures(d)) : w.property = f /\ w.about = b /\ w.trace = d.trace
        BY FailuresAreWitnessed
    <2> QED
        BY <2>1 DEF Faults
<1> QED
    BY <1>1, <1>2

LEMMA InvMeansExplained == ReviewInv => FailureIsExplained
<1> SUFFICES ASSUME ReviewInv, CheckReported
             PROVE  /\ \A w \in counterexamples :
                          /\ w.trace \in Reachable(rules)
                          /\ \A t \in Reachable(rules) :
                                LET d == Checked(rules, requirements, t) IN
                                w.property \in Failures(d) /\ w.about \in Blamed(d)
                                    => Len(w.trace) <= Len(t)
                    /\ outcome = "failed" /\ min = Full
                          => counterexamples # {} \/ covered # requirements
    BY DEF FailureIsExplained
<1> DEFINE W == Faults(decisions)
<1>1. /\ SearchInv /\ InputInv /\ IsFiniteSet(decisions)
      /\ counterexamples = Shortest(W)
      /\ outcome = "passed" <=> Passes(min, decisions, requirements)
      /\ covered = Covered(decisions, requirements)
    BY DEF ReviewInv, SearchInv, CheckReported
<1>2. /\ {d.trace : d \in decisions} = Reachable(rules)
      /\ \A d \in decisions : d = Checked(rules, requirements, d.trace)
      /\ \A t \in Reachable(rules) : Checked(rules, requirements, t) \in decisions
    BY <1>1, SearchedAll
<1>3. ASSUME NEW w \in W
      PROVE  w.trace \in Reachable(rules) /\ w.trace \in Trace
    <2>1. PICK d \in decisions : w.trace = d.trace
        BY FaultParts
    <2>2. d.trace \in Reachable(rules)
        BY <1>2
    <2> QED
        BY <2>1, <2>2, ReachableParts
<1>4. ASSUME NEW w \in counterexamples, NEW t \in Reachable(rules),
             w.property \in Failures(Checked(rules, requirements, t)),
             w.about \in Blamed(Checked(rules, requirements, t))
      PROVE  Len(w.trace) <= Len(t)
    <2> DEFINE d == Checked(rules, requirements, t)
    <2>1. d \in decisions /\ d.trace = t
        BY <1>2, CheckedParts
    <2>2. PICK v \in W : v.property = w.property /\ v.about = w.about /\ v.trace = t
        BY <1>4, <2>1, FaultParts
    <2> HIDE DEF W
    <2> QED
        BY <1>1, <1>3, <2>2, KeptIsShortest
<1>5. \A w \in counterexamples : w \in W
    BY <1>1 DEF Shortest
<1>6. ASSUME outcome = "failed", min = Full, covered = requirements
      PROVE  counterexamples # {}
    <2>1. ~Passes(Full, decisions, requirements)
        BY <1>1, <1>6
    <2>2. PICK d \in decisions : Failures(d) # {}
        BY <1>1, <1>2, <1>6, <2>1, RequirementsAreFinite, FullThresholds
    <2>3. PICK f \in Failures(d), b \in Blamed(d) : TRUE
        BY <2>2, FailuresAreWitnessed
    <2>4. PICK w \in W : w.property = f
        BY <2>3, FaultParts
    <2> HIDE DEF W
    <2>5. \E v \in Shortest(W) : v.property = w.property
        BY <1>3, <2>4, ShortestIsKept
    <2> QED
        BY <1>1, <2>5
<1> QED
    BY <1>3, <1>4, <1>5, <1>6

LEMMA InvMeansSurvivorsConform == ReviewInv => SurvivorsConform
BY DEF ReviewInv, AnalysisInv, SurvivorsConform

(* A check at full thresholds passes only a policy that does, wherever the *)
(* requirements let a session get, what they say and with the evidence     *)
(* they ask for.                                                           *)
THEOREM PassesConform == ReviewSpec => []PassMeansConforms
<1> QED
    BY ReviewInvariant, InvMeansPassConforms, PTL

(* A report covers every trace that the policy lets the gateway reach, and *)
(* the check is refused exactly when they are too many.                    *)
THEOREM CompleteReports == ReviewSpec => []ReportsAreComplete
<1> QED
    BY ReviewInvariant, InvMeansComplete, PTL

(* Counterexamples can happen, none is longer than it need be, and a       *)
(* failure at full thresholds is explained by one or by a requirement      *)
(* without a boundary.                                                     *)
THEOREM FailuresAreExplained == ReviewSpec => []FailureIsExplained
<1> QED
    BY ReviewInvariant, InvMeansExplained, PTL

(* A mutant survives full thresholds exactly if it conforms.               *)
THEOREM MutantsSurviveByConforming == ReviewSpec => []SurvivorsConform
<1> QED
    BY ReviewInvariant, InvMeansSurvivorsConform, PTL

-----------------------------------------------------------------------------
(* What the change checker reports.                                        *)

(* A policy's own decisions are those that its own search would make.      *)
LEMMA OwnPaths ==
    ASSUME ChangeInv, NEW s \in Change!Sides
    PROVE  /\ IsFiniteSet(Change!OfOwnPaths(s))
           /\ \A e \in Change!OfOwnPaths(s) : e = Checked(policy[s], requirements, e.trace)
           /\ changeTodo = << >> =>
                 {e.trace : e \in Change!OfOwnPaths(s)} = Reachable(policy[s])
<1> DEFINE mine == {d \in changeDecisions : s \in d.reached}
           own == Change!OfOwnPaths(s)
<1>1. /\ \A d \in changeDecisions : d = Seen(d.trace)
      /\ IsFiniteSet(changeDecisions)
      /\ Searched(Traces(changeTodo), changeDecisions, ReachedByEither)
    BY DEF ChangeInv
<1>2. own = {d.by[s] : d \in mine}
    BY DEF Change!OfOwnPaths
<1>3. \A d \in mine : d.by[s] = Checked(policy[s], requirements, d.trace) /\ d.reached = ReachedBy(d.trace)
    BY <1>1, SeenParts
<1>4. IsFiniteSet(own)
    <2> DEFINE f == [d \in mine |-> d.by[s]]
    <2>1. f \in [mine -> own] /\ \A e \in own : \E d \in mine : f[d] = e
        BY <1>2
    <2>2. IsFiniteSet(mine)
        BY <1>1, FS_Subset
    <2> HIDE DEF f, mine, own
    <2>3. f \in Surjection(mine, own)
        BY <2>1 DEF Surjection
    <2> QED
        BY <2>2, <2>3, FS_Surjection
<1> HIDE DEF own
<1>5. ASSUME NEW e \in own
      PROVE  e = Checked(policy[s], requirements, e.trace)
    <2>1. PICK d \in mine : e = d.by[s]
        BY <1>2
    <2>2. e = Checked(policy[s], requirements, d.trace)
        BY <1>3, <2>1
    <2> QED
        BY <2>2, CheckedParts
<1>6. ASSUME changeTodo = << >>
      PROVE  {e.trace : e \in own} = Reachable(policy[s])
    <2> DEFINE decided == {d.trace : d \in changeDecisions}
    <2>1. Traces(changeTodo) = << >>
        BY <1>6 DEF Traces
    <2>2. decided = ReachedByEither
        <3>1. Explores(<< >>, decided, ReachedByEither)
            BY <1>1, <2>1 DEF Searched
        <3> HIDE DEF decided
        <3> QED
            BY <3>1, SearchEnds
    <2>3. ASSUME NEW t \in Reachable(policy[s])
          PROVE  \E e \in own : e.trace = t
        <3>1. t \in ReachedByEither /\ s \in ReachedBy(t)
            BY ReachedByParts
        <3>2. PICK d \in changeDecisions : d.trace = t
            BY <2>2, <3>1
        <3>3. d \in mine
            BY <1>1, <3>1, <3>2, SeenParts
        <3>4. d.by[s] \in own /\ d.by[s].trace = t
            BY <1>2, <1>3, <3>2, <3>3, CheckedParts
        <3> QED
            BY <3>4
    <2>4. ASSUME NEW e \in own
          PROVE  e.trace \in Reachable(policy[s])
        <3>1. PICK d \in mine : e = d.by[s]
            BY <1>2
        <3>2. e.trace = d.trace /\ s \in ReachedBy(d.trace)
            BY <1>3, <3>1, CheckedParts
        <3> QED
            BY <3>2, ReachedByParts
    <2> QED
        BY <2>3, <2>4
<1> QED
    BY <1>4, <1>5, <1>6 DEF own

LEMMA ChangeReports ==
    ASSUME ReviewInv, ChangeReported
    PROVE  /\ \A d \in changeDecisions : d = Seen(d.trace)
           /\ \A t \in ReachedByEither : Seen(t) \in changeDecisions
           /\ \A s \in Change!Sides : defects[s] = Shortest(Faults(Change!OfOwnPaths(s)))
           /\ regressions = Shortest(Worsened) /\ corrections = Shortest(Improved)
           /\ verdict = "passed" <=>
                 regressions = {} /\ Passes(min, Change!OfOwnPaths("candidate"), requirements)
           /\ changeTodo = << >>
<1> DEFINE decided == {d.trace : d \in changeDecisions}
<1>1. ChangeInv /\ verdict \in {"passed", "failed"}
    BY DEF ReviewInv, ChangeReported
<1>2. changeTodo = << >> /\ \A d \in changeDecisions : d = Seen(d.trace)
    BY <1>1 DEF ChangeInv
<1>3. Explores(<< >>, decided, ReachedByEither)
    <2>1. Traces(changeTodo) = << >>
        BY <1>2 DEF Traces
    <2> QED
        BY <1>1, <2>1 DEF ChangeInv, Searched
<1>4. decided = ReachedByEither
    <2> HIDE DEF decided
    <2> QED
        BY <1>3, SearchEnds
<1>5. ASSUME NEW t \in ReachedByEither
      PROVE  Seen(t) \in changeDecisions
    <2>1. PICK d \in changeDecisions : d.trace = t
        BY <1>4
    <2> QED
        BY <1>2, <2>1
<1> QED
    BY <1>1, <1>2, <1>5 DEF ChangeInv

LEMMA InvMeansCandidateConforms == ReviewInv => CandidateConforms
<1> SUFFICES ASSUME ReviewInv, ChangeReported, verdict = "passed", min = Full
             PROVE  Conforms(policy["candidate"])
    BY DEF CandidateConforms
<1> DEFINE made == Change!OfOwnPaths("candidate")
           p == policy["candidate"]
<1>1. ChangeInv /\ "candidate" \in Change!Sides /\ IsFiniteSet(requirements)
    BY RequirementsAreFinite DEF ReviewInv, Change!Sides
<1>2. Passes(Full, made, requirements) /\ changeTodo = << >>
    BY ChangeReports
<1>3. /\ IsFiniteSet(made) /\ \A e \in made : e = Checked(p, requirements, e.trace)
      /\ {e.trace : e \in made} = Reachable(p)
    BY <1>1, <1>2, OwnPaths
<1> HIDE DEF made, p
<1>4. Conforms(p)
    BY <1>1, <1>2, <1>3, FullMeansConforms
<1> QED
    BY <1>4 DEF p

(* What both policies do after a trace, told from what one of them does.   *)
LEMMA SeenControls ==
    ASSUME NEW t, NEW s \in Change!Sides
    PROVE  /\ Seen(t).by[s].trace = t
           /\ Seen(t).by[s].expected = Expected(requirements, t)
           /\ Seen(t).by[s].actual = Actual(policy[s], t)
           /\ Seen(t).by[s].required = RequiredEvidence(requirements, t)
           /\ Seen(t).by[s].matched = Matched(requirements, t)
BY SeenParts, CheckedParts

(* Nothing got worse, of a change without regressions.                     *)
LEMMA NothingWorsened ==
    ASSUME ReviewInv, ChangeReported, verdict = "passed", NEW t \in ReachedByEither
    PROVE  Change!RegressionsOf(Seen(t)) = {}
<1> DEFINE d == Seen(t)
           c == d.by["candidate"]
<1>1. d \in changeDecisions /\ Shortest(Worsened) = {}
    BY ChangeReports
<1>2. \A w \in Worsened : w.trace \in Trace
    <2> SUFFICES ASSUME NEW w \in Worsened
                 PROVE  w.trace \in Trace
        OBVIOUS
    <2>1. PICK e \in changeDecisions : w \in Witnesses(e.by["candidate"], Change!RegressionsOf(e))
        BY DEF Worsened
    <2>2. w.trace = e.by["candidate"].trace /\ "candidate" \in Change!Sides
        BY <2>1, WitnessParts DEF Change!Sides
    <2>3. e = Seen(e.trace) /\ e.trace \in ReachedByEither
        <3>1. Searched(Traces(changeTodo), changeDecisions, ReachedByEither)
            BY DEF ReviewInv, ChangeInv
        <3> QED
            BY <3>1, ChangeReports DEF Searched, Explores
    <2>4. w.trace = e.trace
        BY <2>2, <2>3, SeenControls
    <2> QED
        BY <2>3, <2>4, EitherIsPrefixClosed DEF PrefixClosed
<1>3. Worsened = {}
    BY <1>1, <1>2, ShortestIsKept
<1>4. ASSUME NEW f \in Change!RegressionsOf(d)
      PROVE  FALSE
    <2>1. PICK b \in Blamed(c) : TRUE
        BY <1>4, FailuresAreWitnessed
    <2>2. \E w \in Witnesses(c, Change!RegressionsOf(d)) : TRUE
        BY <1>4, <2>1, FailuresAreWitnessed
    <2> QED
        BY <1>1, <1>3, <2>2 DEF Worsened
<1> QED
    BY <1>4

LEMMA LastOrBefore == \A m \in Nat : \A n \in 1..m : n \in 1..(m - 1) \/ n = m
OBVIOUS

(* A session that one policy runs to its end, and the other stops, was     *)
(* stopped first after a trace that the one policy reaches and allows.     *)
LEMMA Stopped ==
    ASSUME NEW s \in Change!Sides, NEW other \in Change!Sides, NEW t \in Trace,
           Executes(s, t), ~Executes(other, t)
    PROVE  \E n \in 1..Len(t) :
              /\ SubSeq(t, 1, n) \in Reachable(policy[s])
              /\ Actual(policy[s], SubSeq(t, 1, n)) = "allow"
              /\ SubSeq(t, 1, n) \in Reachable(policy[other])
              /\ Actual(policy[other], SubSeq(t, 1, n)) # "allow"
<1>1. Len(t) \in Nat /\ Len(t) >= 1 /\ SubSeq(t, 1, Len(t)) = t
    BY TraceIsSeq, WholeIsPrefix
<1>2. \A r : Executes(r, t) <=> \A n \in 1..Len(t) : Actual(policy[r], SubSeq(t, 1, n)) = "allow"
    <2> SUFFICES ASSUME NEW r
                 PROVE  Executes(r, t) <=> \A n \in 1..Len(t) : Actual(policy[r], SubSeq(t, 1, n)) = "allow"
        OBVIOUS
    <2>1. \A n \in 1..Len(t) : n \in 1..(Len(t) - 1) \/ n = Len(t)
        BY <1>1, LastOrBefore
    <2>2. \A n \in 1..(Len(t) - 1) : n \in 1..Len(t)
        BY <1>1
    <2>3. Len(t) \in 1..Len(t)
        BY <1>1
    <2>4. \A u : u \in Prefixes(t) \cup {t} <=> \E n \in 1..Len(t) : u = SubSeq(t, 1, n)
        BY <1>1, <2>1, <2>2, <2>3 DEF Prefixes
    <2> QED
        BY <2>4 DEF Executes
<1>3. PICK m \in 1..Len(t) : Actual(policy[other], SubSeq(t, 1, m)) # "allow"
    BY <1>2
<1>4. PICK n \in 1..m : /\ SubSeq(t, 1, n) \in Reachable(policy[other])
                        /\ Actual(policy[other], SubSeq(t, 1, n)) # "allow"
    BY <1>3, FirstDenied
<1>5. n \in 1..Len(t)
    BY <1>1
<1> DEFINE u == SubSeq(t, 1, n)
<1>6. u \in Trace /\ Len(u) = n /\ \A k \in 1..n : SubSeq(u, 1, k) = SubSeq(t, 1, k)
    BY <1>5, PrefixIsTrace
<1> HIDE DEF u
<1>7. \A k \in 1..(Len(u) - 1) : k \in 1..n /\ k \in 1..Len(t)
    BY <1>1, <1>5, <1>6
<1>8. u \in Reachable(policy[s])
    BY <1>2, <1>6, <1>7, ReachableParts
<1> QED
    BY <1>2, <1>4, <1>5, <1>8 DEF u

LEMMA InvMeansNoNewHarm == ReviewInv => NoNewHarm
<1> SUFFICES ASSUME ReviewInv, ChangeReported, verdict = "passed", NEW t \in Trace,
                    Executes("candidate", t), Expected(requirements, t) # "allow",
                    ~Executes("baseline", t)
             PROVE  FALSE
    BY DEF NoNewHarm
<1>1. "baseline" \in Change!Sides /\ "candidate" \in Change!Sides
      /\ Change!Sides = {"baseline", "candidate"}
    BY DEF Change!Sides
<1>2. PICK n \in 1..Len(t) :
          /\ SubSeq(t, 1, n) \in Reachable(policy["candidate"])
          /\ Actual(policy["candidate"], SubSeq(t, 1, n)) = "allow"
          /\ SubSeq(t, 1, n) \in Reachable(policy["baseline"])
          /\ Actual(policy["baseline"], SubSeq(t, 1, n)) # "allow"
    BY <1>1, Stopped
<1>3. Len(t) \in Nat /\ Len(t) >= 1 /\ SubSeq(t, 1, Len(t)) = t
    BY TraceIsSeq, WholeIsPrefix
<1>4. t \in Reachable(policy["candidate"]) /\ Actual(policy["candidate"], t) = "allow"
    BY ReachableParts DEF Executes, Prefixes
<1> DEFINE b == Seen(t).by["baseline"]
           c == Seen(t).by["candidate"]
<1>5. /\ b.expected # "allow" /\ c.expected # "allow"
      /\ b.actual = Actual(policy["baseline"], t) /\ c.actual = "allow"
      /\ Seen(t).reached = ReachedBy(t)
    BY <1>1, <1>4, SeenControls, SeenParts
<1>6. t \in ReachedByEither /\ "candidate" \in ReachedBy(t)
    BY <1>1, <1>4, ReachedByParts
<1>7. Change!RegressionsOf(Seen(t)) = {}
    BY <1>6, NothingWorsened
<1> HIDE DEF b, c
<1>8. CASE t \in Reachable(policy["baseline"])
    <2>1. b.actual # "allow"
        <3>1. n \in 1..(Len(t) - 1) \/ n = Len(t)
            BY <1>3, LastOrBefore
        <3>2. n = Len(t)
            BY <1>2, <1>8, <3>1, ReachableParts
        <3> QED
            BY <1>2, <1>3, <1>5, <3>2
    <2>2. ReachedBy(t) = Change!Sides
        BY <1>1, <1>4, <1>8, ReachedByParts
    <2>3. "safety" \in Change!Regressed(b, c)
        BY <1>5, <2>1 DEF Change!Regressed
    <2>4. Change!RegressionsOf(Seen(t)) = Change!Regressed(b, c)
        BY <1>1, <1>5, <2>2 DEF Change!RegressionsOf, b, c
    <2> QED
        BY <1>7, <2>3, <2>4
<1>9. CASE t \notin Reachable(policy["baseline"])
    <2>1. ReachedBy(t) = {"candidate"}
        BY <1>1, <1>6, <1>9, ReachedByParts
    <2>2. "safety" \in Failures(c)
        BY <1>5 DEF Failures
    <2>3. Change!RegressionsOf(Seen(t)) = Failures(c)
        BY <1>5, <2>1, SameChecks DEF Change!RegressionsOf, c
    <2> QED
        BY <1>7, <2>2, <2>3
<1> QED
    BY <1>8, <1>9

LEMMA InvMeansNoLostUse == ReviewInv => NoLostUse
<1> SUFFICES ASSUME ReviewInv, ChangeReported, verdict = "passed", NEW t \in Permitted,
                    Executes("baseline", t), Expected(requirements, t) = "allow",
                    ~Executes("candidate", t)
             PROVE  FALSE
    BY DEF NoLostUse
<1>1. "baseline" \in Change!Sides /\ "candidate" \in Change!Sides
      /\ Change!Sides = {"baseline", "candidate"}
    BY DEF Change!Sides
<1>2. t \in Trace /\ \A k \in 1..(Len(t) - 1) : Expected(requirements, SubSeq(t, 1, k)) = "allow"
    BY PermittedParts
<1>3. Len(t) \in Nat /\ SubSeq(t, 1, Len(t)) = t
    BY <1>2, TraceIsSeq, WholeIsPrefix
<1>4. PICK n \in 1..Len(t) :
          /\ SubSeq(t, 1, n) \in Reachable(policy["baseline"])
          /\ Actual(policy["baseline"], SubSeq(t, 1, n)) = "allow"
          /\ SubSeq(t, 1, n) \in Reachable(policy["candidate"])
          /\ Actual(policy["candidate"], SubSeq(t, 1, n)) # "allow"
    BY <1>1, <1>2, Stopped
<1> DEFINE u == SubSeq(t, 1, n)
<1>5. Expected(requirements, u) = "allow"
    <2>1. n \in 1..(Len(t) - 1) \/ n = Len(t)
        BY <1>3, LastOrBefore
    <2> QED
        BY <1>2, <1>3, <2>1
<1> HIDE DEF u
<1>6. /\ u \in Reachable(policy["baseline"]) /\ Actual(policy["baseline"], u) = "allow"
      /\ u \in Reachable(policy["candidate"]) /\ Actual(policy["candidate"], u) # "allow"
    BY <1>4 DEF u
<1> DEFINE b == Seen(u).by["baseline"]
           c == Seen(u).by["candidate"]
<1>7. /\ b.expected = "allow" /\ b.actual = "allow" /\ c.actual # "allow"
      /\ Seen(u).reached = ReachedBy(u)
    BY <1>1, <1>5, <1>6, SeenControls, SeenParts
<1>8. ReachedBy(u) = Change!Sides /\ u \in ReachedByEither
    BY <1>1, <1>6, ReachedByParts
<1>9. Change!RegressionsOf(Seen(u)) = Change!Regressed(b, c)
    BY <1>1, <1>7, <1>8 DEF Change!RegressionsOf
<1>10. Change!RegressionsOf(Seen(u)) = {}
    BY <1>8, NothingWorsened
<1> HIDE DEF b, c
<1>11. "availability" \in Change!Regressed(b, c)
    BY <1>7 DEF Change!Regressed
<1> QED
    BY <1>9, <1>10, <1>11

(* What a policy does worse than the other it fails, and what it does      *)
(* better the other fails.                                                 *)
LEMMA WorseAndBetter ==
    ASSUME NEW b, NEW c, b.expected = c.expected
    PROVE  /\ Change!Regressed(b, c) \subseteq Failures(c)
           /\ \A f \in Change!Corrected(b, c) : Failures(b) # {} /\ f \notin Failures(c)
<1>1. \A d : Change!EvidenceComplete(d) = EvidenceComplete(d)
    BY SameChecks
<1>2. ASSUME NEW f \in Change!Regressed(b, c)
      PROVE  f \in Failures(c)
    BY <1>1, <1>2 DEF Change!Regressed, Failures
<1>3. ASSUME NEW f \in Change!Corrected(b, c)
      PROVE  Failures(b) # {} /\ f \notin Failures(c)
    <2>1. CASE f = "availability"
        <3>1. b.expected = "allow" /\ b.actual # "allow" /\ c.actual = "allow"
            BY <1>3, <2>1 DEF Change!Corrected
        <3>2. "availability" \in Failures(b) /\ f \notin Failures(c)
            BY <2>1, <3>1 DEF Failures
        <3> QED
            BY <3>2
    <2>2. CASE f = "safety"
        <3>1. b.expected # "allow" /\ b.actual = "allow" /\ c.actual # "allow"
            BY <1>3, <2>2 DEF Change!Corrected
        <3>2. "safety" \in Failures(b) /\ f \notin Failures(c)
            BY <2>2, <3>1 DEF Failures
        <3> QED
            BY <3>2
    <2>3. CASE f = "exact_control"
        <3>1. b.expected # "allow" /\ b.actual # b.expected /\ c.actual = b.expected
            BY <1>3, <2>3 DEF Change!Corrected
        <3>2. ("safety" \in Failures(b) \/ "exact_control" \in Failures(b)) /\ f \notin Failures(c)
            BY <2>3, <3>1 DEF Failures
        <3> QED
            BY <3>2
    <2>4. CASE f = "evidence"
        <3>1. b.expected # "allow" /\ ~EvidenceComplete(b) /\ EvidenceComplete(c)
            BY <1>1, <1>3, <2>4 DEF Change!Corrected
        <3>2. "evidence" \in Failures(b) /\ f \notin Failures(c)
            BY <2>4, <3>1 DEF Failures
        <3> QED
            BY <3>2
    <2> QED
        BY <1>3, <2>1, <2>2, <2>3, <2>4 DEF Change!Corrected
<1> QED
    BY <1>2, <1>3

LEMMA PrefixesAllowed ==
    ASSUME NEW p, NEW t \in Trace
    PROVE  t \in Reachable(p) <=> \A u \in Prefixes(t) : Actual(p, u) = "allow"
BY DEF Reachable

LEMMA RegressionsAreReal ==
    ASSUME ReviewInv, ChangeReported, NEW w \in regressions
    PROVE  /\ \A u \in Prefixes(w.trace) : Actual(policy["candidate"], u) = "allow"
           /\ w.property \in Failures(Checked(policy["candidate"], requirements, w.trace))
           /\ \E v \in defects["candidate"] :
                 v.property = w.property /\ v.about = w.about /\ Len(v.trace) <= Len(w.trace)
<1> DEFINE p == policy["candidate"]
           t == w.trace
           own == Change!OfOwnPaths("candidate")
<1>1. /\ Change!Sides = {"baseline", "candidate"}
      /\ "baseline" \in Change!Sides /\ "candidate" \in Change!Sides /\ ChangeInv
    BY DEF Change!Sides, ReviewInv
<1>2. w \in Worsened
    BY ChangeReports DEF Shortest
<1>3. PICK d \in changeDecisions : w \in Witnesses(d.by["candidate"], Change!RegressionsOf(d))
    BY <1>2 DEF Worsened
<1> DEFINE b == d.by["baseline"]
           c == d.by["candidate"]
<1>4. w.property \in Change!RegressionsOf(d) /\ w.about \in Blamed(c) /\ t = c.trace
    BY <1>3, WitnessParts
<1>5. d = Seen(d.trace)
    BY ChangeReports
<1>6. /\ d.trace = t /\ d.reached = ReachedBy(t) /\ c = Checked(p, requirements, t)
      /\ b.expected = c.expected
    <2>1. c.trace = d.trace
        BY <1>1, <1>5, SeenControls
    <2>2. d.trace = t
        BY <1>4, <2>1
    <2> QED
        BY <1>1, <1>5, <2>2, SeenControls, SeenParts
<1>7. "candidate" \in d.reached /\ w.property \in Failures(c)
    <2>1. CASE d.reached = {"candidate"}
        <3>1. Change!RegressionsOf(d) = Failures(c)
            BY <2>1, SameChecks DEF Change!RegressionsOf
        <3> QED
            BY <1>4, <2>1, <3>1
    <2>2. CASE d.reached = Change!Sides
        <3>1. Change!RegressionsOf(d) = Change!Regressed(b, c)
            BY <1>1, <2>2 DEF Change!RegressionsOf
        <3> HIDE DEF b, c
        <3> QED
            BY <1>1, <1>4, <1>6, <2>2, <3>1, WorseAndBetter
    <2>3. CASE d.reached # {"candidate"} /\ d.reached # Change!Sides
        BY <1>4, <2>3 DEF Change!RegressionsOf
    <2> QED
        BY <2>1, <2>2, <2>3
<1>8. t \in Reachable(p) /\ t \in Trace
    BY <1>6, <1>7, ReachedByParts, ReachableParts
<1>9. c \in own
    BY <1>7 DEF Change!OfOwnPaths
<1>10. \E v \in defects["candidate"] :
          v.property = w.property /\ v.about = w.about /\ Len(v.trace) <= Len(t)
    <2>1. PICK x \in Faults(own) : x.property = w.property /\ x.about = w.about /\ x.trace = t
        <3> HIDE DEF own, c, t
        <3>1. c.trace = t
            BY <1>4
        <3> QED
            BY <1>4, <1>7, <1>9, <3>1, FaultParts
    <2>2. \A y \in Faults(own) : y.trace \in Trace
        <3> SUFFICES ASSUME NEW y \in Faults(own)
                     PROVE  y.trace \in Trace
            OBVIOUS
        <3>1. PICK e \in own : y.trace = e.trace
            BY FaultParts
        <3>2. changeTodo = << >>
            BY ChangeReports
        <3>3. e.trace \in Reachable(p)
            BY <1>1, <3>2, OwnPaths
        <3> QED
            BY <3>1, <3>3, ReachableParts
    <2>3. defects["candidate"] = Shortest(Faults(own))
        BY <1>1, ChangeReports
    <2> DEFINE F == Faults(own)
    <2> HIDE DEF F
    <2>4. \E v \in Shortest(F) : v.property = x.property /\ v.about = x.about /\ Len(v.trace) <= Len(x.trace)
        BY <2>1, <2>2, ShortestIsKept DEF F
    <2> QED
        BY <2>1, <2>3, <2>4 DEF F
<1> QED
    BY <1>6, <1>7, <1>8, <1>10, PrefixesAllowed

LEMMA CorrectionsAreReal ==
    ASSUME ReviewInv, ChangeReported, NEW w \in corrections
    PROVE  /\ \A u \in Prefixes(w.trace) : Actual(policy["baseline"], u) = "allow"
           /\ Failures(Checked(policy["baseline"], requirements, w.trace)) # {}
           /\ \/ \E u \in Prefixes(w.trace) : Actual(policy["candidate"], u) # "allow"
              \/ w.property \notin Failures(Checked(policy["candidate"], requirements, w.trace))
<1> DEFINE t == w.trace
<1>1. /\ Change!Sides = {"baseline", "candidate"}
      /\ "baseline" \in Change!Sides /\ "candidate" \in Change!Sides
    BY DEF Change!Sides
<1>2. w \in Improved
    BY ChangeReports DEF Shortest
<1>3. PICK d \in changeDecisions : w \in Witnesses(d.by["baseline"], Change!CorrectionsOf(d))
    BY <1>2 DEF Improved
<1> DEFINE b == d.by["baseline"]
           c == d.by["candidate"]
<1>4. w.property \in Change!CorrectionsOf(d) /\ t = b.trace
    BY <1>3, WitnessParts
<1>5. d = Seen(d.trace)
    BY ChangeReports
<1>6. /\ d.trace = t /\ d.reached = ReachedBy(t) /\ b.expected = c.expected
      /\ b = Checked(policy["baseline"], requirements, t)
      /\ c = Checked(policy["candidate"], requirements, t)
    <2>1. b.trace = d.trace
        BY <1>1, <1>5, SeenControls
    <2>2. d.trace = t
        BY <1>4, <2>1
    <2> QED
        BY <1>1, <1>5, <2>2, SeenControls, SeenParts
<1>7. CASE d.reached = {"baseline"}
    <2>1. Change!CorrectionsOf(d) = Failures(b)
        BY <1>7, SameChecks DEF Change!CorrectionsOf
    <2>2. t \in Reachable(policy["baseline"]) /\ t \notin Reachable(policy["candidate"]) /\ t \in Trace
        <3>1. "baseline" \in ReachedBy(t) /\ "candidate" \notin ReachedBy(t)
            BY <1>6, <1>7
        <3> HIDE DEF t
        <3> QED
            BY <1>1, <3>1, ReachedByParts, ReachableParts
    <2>3. Failures(b) # {}
        BY <1>4, <2>1
    <2> QED
        BY <1>6, <2>2, <2>3, PrefixesAllowed
<1>8. CASE d.reached = Change!Sides
    <2>1. Change!CorrectionsOf(d) = Change!Corrected(b, c)
        BY <1>1, <1>8 DEF Change!CorrectionsOf
    <2>2. t \in Reachable(policy["baseline"]) /\ t \in Trace
        <3>1. "baseline" \in ReachedBy(t)
            BY <1>1, <1>6, <1>8
        <3> HIDE DEF t
        <3> QED
            BY <3>1, ReachedByParts, ReachableParts
    <2>3. Failures(b) # {} /\ w.property \notin Failures(c)
        <3> HIDE DEF b, c
        <3> QED
            BY <1>4, <1>6, <2>1, WorseAndBetter
    <2> QED
        BY <1>6, <2>2, <2>3, PrefixesAllowed
<1>9. CASE d.reached # {"baseline"} /\ d.reached # Change!Sides
    BY <1>4, <1>9 DEF Change!CorrectionsOf
<1> QED
    BY <1>7, <1>8, <1>9

LEMMA InvMeansReal == ReviewInv => ChangesAreReal
BY RegressionsAreReal, CorrectionsAreReal DEF ChangesAreReal

(* A change that passes opens no session that ends in a prohibited call.   *)
THEOREM PassingAddsNoHarm == ReviewSpec => []NoNewHarm
<1> QED
    BY ReviewInvariant, InvMeansNoNewHarm, PTL

(* ... and closes none that the requirements permit.                       *)
THEOREM PassingKeepsUse == ReviewSpec => []NoLostUse
<1> QED
    BY ReviewInvariant, InvMeansNoLostUse, PTL

(* At full thresholds a change that passes proposes a policy that conforms.*)
THEOREM PassingCandidatesConform == ReviewSpec => []CandidateConforms
<1> QED
    BY ReviewInvariant, InvMeansCandidateConforms, PTL

(* Every regression and every correction can happen, and is one.           *)
THEOREM ReportedChangesAreReal == ReviewSpec => []ChangesAreReal
<1> QED
    BY ReviewInvariant, InvMeansReal, PTL

-----------------------------------------------------------------------------
(* The change checker as a relational checker of each policy.              *)

(* What holds of zero, and of a number after another, holds up to a bound. *)
LEMMA UpTo ==
    ASSUME NEW m \in Nat, NEW S, 0 \in S, \A n \in 0..(m - 1) : n \in S => n + 1 \in S
    PROVE  0..m \subseteq S
<1> SUFFICES ASSUME ~(0..m \subseteq S)
             PROVE  FALSE
    OBVIOUS
<1> DEFINE Rest == (0..m) \ S
<1>1. Rest \in SUBSET Nat /\ Rest # {}
    OBVIOUS
<1>2. PICK n \in Rest : \A k \in Rest : n <= k
    BY <1>1, LeastNatural
<1>3. n \in 0..m /\ n \notin S /\ n # 0
    BY <1>2
<1>4. n - 1 \in 0..(m - 1) /\ n - 1 \in 0..m
    BY <1>3
<1>5. n - 1 \notin Rest
    BY <1>2, <1>3, <1>4
<1>6. n - 1 \in S
    BY <1>4, <1>5
<1>7. (n - 1) + 1 \in S
    BY <1>4, <1>6
<1> QED
    BY <1>3, <1>7

(* The queue of one policy, collected from the beginning of the common one.*)
Collects(g, q, s, E) ==
    /\ g \in [0..Len(q) -> Seq(E)] /\ g[0] = << >>
    /\ \A n \in 1..Len(q) :
          g[n] = IF s \in q[n].reached THEN Append(g[n - 1], q[n].trace) ELSE g[n - 1]

LEMMA CollectionExists ==
    ASSUME NEW E, NEW I, HaveTraces(I, E), NEW q \in Seq(I), NEW s
    PROVE  \E g : Collects(g, q, s, E)
<1> DEFINE l == Len(q)
           Upto(g, m) == /\ g \in [0..m -> Seq(E)] /\ g[0] = << >>
                         /\ \A n \in 1..m :
                               g[n] = IF s \in q[n].reached THEN Append(g[n - 1], q[n].trace)
                                      ELSE g[n - 1]
           S == {m \in 0..l : \E g : Upto(g, m)}
<1>1. l \in Nat /\ \A n \in 1..l : q[n].trace \in E
    BY LenProperties DEF HaveTraces
<1>2. 0 \in S
    <2> DEFINE g == [n \in 0..0 |-> << >>]
    <2>1. << >> \in Seq(E)
        BY EmptySeq
    <2>2. g \in [0..0 -> Seq(E)] /\ g[0] = << >>
        BY <2>1
    <2>3. 1..0 = {}
        OBVIOUS
    <2> HIDE DEF g
    <2>4. Upto(g, 0)
        BY <2>2, <2>3
    <2> HIDE DEF Upto
    <2> QED
        BY <1>1, <2>4
<1>3. ASSUME NEW m \in 0..(l - 1), m \in S
      PROVE  m + 1 \in S
    <2>1. PICK g : Upto(g, m)
        BY <1>3
    <2> DEFINE last == IF s \in q[m + 1].reached THEN Append(g[m], q[m + 1].trace) ELSE g[m]
               h == [n \in 0..(m + 1) |-> IF n = m + 1 THEN last ELSE g[n]]
    <2>2. m \in Nat /\ m \in 0..m /\ m + 1 \in 1..l /\ m + 1 \in 0..l
        BY <1>1
    <2>3. last \in Seq(E)
        <3>1. g[m] \in Seq(E) /\ q[m + 1].trace \in E
            BY <1>1, <2>1, <2>2
        <3> QED
            BY <3>1, AppendProperties
    <2> HIDE DEF last
    <2>4. \A n \in 0..(m + 1) : n = m + 1 \/ n \in 0..m
        BY <2>2
    <2>5. h \in [0..(m + 1) -> Seq(E)]
        BY <2>1, <2>3, <2>4
    <2>6. /\ \A n \in 0..m : h[n] = g[n]
          /\ h[m + 1] = last
        BY <2>2
    <2> HIDE DEF h
    <2>7. h[0] = << >>
        BY <2>1, <2>2, <2>6
    <2>8. ASSUME NEW n \in 1..(m + 1)
          PROVE  h[n] = IF s \in q[n].reached THEN Append(h[n - 1], q[n].trace) ELSE h[n - 1]
        <3>1. n - 1 \in 0..m
            BY <2>2
        <3>2. h[n - 1] = g[n - 1]
            BY <2>6, <3>1
        <3>3. CASE n = m + 1
            <4>1. n - 1 = m
                BY <2>2, <3>3
            <4> QED
                BY <2>6, <3>2, <3>3, <4>1 DEF last
        <3>4. CASE n # m + 1
            <4>1. n \in 1..m /\ n \in 0..m
                BY <2>2, <3>4
            <4>2. h[n] = g[n]
                BY <2>6, <4>1
            <4> QED
                BY <2>1, <3>2, <4>1, <4>2
        <3> QED
            BY <3>3, <3>4
    <2>9. Upto(h, m + 1)
        BY <2>5, <2>7, <2>8
    <2> HIDE DEF Upto
    <2> QED
        BY <2>2, <2>9
<1>4. 0..l \subseteq S
    <2> HIDE DEF S, l
    <2> QED
        BY <1>1, <1>2, <1>3, UpTo
<1>5. l \in S
    <2> HIDE DEF S
    <2>1. l \in 0..l
        BY <1>1
    <2> QED
        BY <1>4, <2>1
<1>6. PICK g : Upto(g, l)
    BY <1>5
<1> QED
    BY <1>6 DEF Collects

LEMMA OwnIsCollected ==
    ASSUME NEW E, NEW I, HaveTraces(I, E), NEW q \in Seq(I), NEW s
    PROVE  \E g : Collects(g, q, s, E) /\ OwnTraces(q, s) = g[Len(q)]
<1> DEFINE Grown(g) == [n \in 0..Len(q) |->
                          IF n = 0 THEN << >>
                          ELSE IF s \in q[n].reached THEN Append(g[n - 1], q[n].trace)
                          ELSE g[n - 1]]
           own == CHOOSE g : g = Grown(g)
<1>1. OwnTraces(q, s) = own[Len(q)]
    BY DEF OwnTraces
<1>2. Len(q) \in Nat
    BY LenProperties
<1>3. PICK f : Collects(f, q, s, E)
    BY CollectionExists
<1>4. f = Grown(f)
    <2>1. \A n \in 0..Len(q) : f[n] = Grown(f)[n]
        <3> SUFFICES ASSUME NEW n \in 0..Len(q)
                     PROVE  f[n] = Grown(f)[n]
            OBVIOUS
        <3>1. n = 0 \/ n \in 1..Len(q)
            BY <1>2
        <3> QED
            BY <1>3, <3>1 DEF Collects
    <2> QED
        BY <1>3, <2>1 DEF Collects
<1>5. own = Grown(own)
    <2> HIDE DEF Grown
    <2> QED
        BY <1>4
<1> HIDE DEF own
<1>6. own[0] = << >>
    <2>1. 0 \in 0..Len(q)
        BY <1>2
    <2> QED
        BY <1>5, <2>1
<1>7. \A n \in 1..Len(q) :
          own[n] = IF s \in q[n].reached THEN Append(own[n - 1], q[n].trace) ELSE own[n - 1]
    <2>1. \A n \in 1..Len(q) : n \in 0..Len(q) /\ n # 0
        BY <1>2
    <2> QED
        BY <1>5, <2>1
<1> DEFINE S == {n \in 0..Len(q) : own[n] \in Seq(E)}
<1>8. 0 \in S
    <2>1. 0 \in 0..Len(q)
        BY <1>2
    <2>2. own[0] \in Seq(E)
        BY <1>6, EmptySeq
    <2> QED
        BY <2>1, <2>2
<1>9. ASSUME NEW n \in 0..(Len(q) - 1), n \in S
      PROVE  n + 1 \in S
    <2>1. n + 1 \in 1..Len(q) /\ n + 1 \in 0..Len(q) /\ (n + 1) - 1 = n
        BY <1>2
    <2>2. q[n + 1].trace \in E /\ own[n] \in Seq(E)
        BY <1>9, <2>1, ElementOfSeq DEF HaveTraces
    <2>3. Append(own[n], q[n + 1].trace) \in Seq(E)
        BY <2>2, AppendProperties
    <2> QED
        BY <1>7, <2>1, <2>2, <2>3
<1>10. 0..Len(q) \subseteq S
    <2> HIDE DEF S
    <2> QED
        BY <1>2, <1>8, <1>9, UpTo
<1>11. own \in [0..Len(q) -> Seq(E)]
    BY <1>5, <1>10
<1> QED
    BY <1>1, <1>6, <1>7, <1>11 DEF Collects

LEMMA OwnIsSeq ==
    ASSUME NEW E, NEW I, HaveTraces(I, E), NEW q \in Seq(I), NEW s
    PROVE  OwnTraces(q, s) \in Seq(E)
<1>1. PICK g : Collects(g, q, s, E) /\ OwnTraces(q, s) = g[Len(q)]
    BY OwnIsCollected
<1>2. Len(q) \in 0..Len(q)
    BY LenProperties
<1> QED
    BY <1>1, <1>2 DEF Collects

(* The queues of one policy are joined as the common ones are.             *)
LEMMA OwnOfConcat ==
    ASSUME NEW E, NEW I, HaveTraces(I, E), NEW q \in Seq(I), NEW r \in Seq(I), NEW s
    PROVE  OwnTraces(q \o r, s) = OwnTraces(q, s) \o OwnTraces(r, s)
<1> DEFINE n == Len(q)
           m == Len(r)
           all == q \o r
<1>1. /\ all \in Seq(I) /\ Len(all) = n + m /\ n \in Nat /\ m \in Nat
      /\ \A i \in 1..(n + m) : all[i] = IF i <= n THEN q[i] ELSE r[i - n]
    BY ConcatProperties, LenProperties
<1>2. PICK f : Collects(f, q, s, E) /\ OwnTraces(q, s) = f[n]
    BY OwnIsCollected
<1>3. PICK g : Collects(g, r, s, E) /\ OwnTraces(r, s) = g[m]
    BY OwnIsCollected
<1>4. PICK h : Collects(h, all, s, E) /\ OwnTraces(all, s) = h[n + m]
    <2> HIDE DEF all
    <2> QED
        BY <1>1, OwnIsCollected
<1>5. /\ f \in [0..n -> Seq(E)] /\ f[0] = << >>
      /\ \A i \in 1..n :
            f[i] = IF s \in q[i].reached THEN Append(f[i - 1], q[i].trace) ELSE f[i - 1]
    BY <1>2 DEF Collects
<1>6. /\ g \in [0..m -> Seq(E)] /\ g[0] = << >>
      /\ \A i \in 1..m :
            g[i] = IF s \in r[i].reached THEN Append(g[i - 1], r[i].trace) ELSE g[i - 1]
      /\ \A i \in 1..m : r[i].trace \in E
    BY <1>3, ElementOfSeq DEF Collects, HaveTraces
<1>7. /\ h[0] = << >>
      /\ \A i \in 1..(n + m) :
            h[i] = IF s \in all[i].reached THEN Append(h[i - 1], all[i].trace) ELSE h[i - 1]
    BY <1>1, <1>4 DEF Collects
<1> HIDE DEF n, m, all
<1> DEFINE S == {i \in 0..n : h[i] = f[i]}
           T == {i \in 0..m : h[n + i] = f[n] \o g[i]}
<1>8. n \in S
    <2>1. 0 \in S
        BY <1>1, <1>5, <1>7
    <2>2. ASSUME NEW i \in 0..(n - 1), i \in S
          PROVE  i + 1 \in S
        <3>1. /\ i + 1 \in 1..n /\ i + 1 \in 1..(n + m) /\ i + 1 <= n
              /\ i + 1 \in 0..n /\ (i + 1) - 1 = i
            BY <1>1
        <3>2. all[i + 1] = q[i + 1]
            BY <1>1, <3>1
        <3>3. h[i + 1] = f[i + 1]
            BY <1>5, <1>7, <2>2, <3>1, <3>2
        <3> QED
            BY <3>1, <3>3
    <2> HIDE DEF S
    <2>3. 0..n \subseteq S
        BY <1>1, <2>1, <2>2, UpTo
    <2>4. n \in 0..n
        BY <1>1
    <2> QED
        BY <2>3, <2>4
<1>9. m \in T
    <2>1. f[n] \in Seq(E)
        <3>1. n \in 0..n
            BY <1>1
        <3> QED
            BY <1>5, <3>1
    <2>2. 0 \in T
        <3>1. f[n] \o << >> = f[n]
            BY <2>1, ConcatEmptySeq
        <3>2. h[n] = f[n] /\ n + 0 = n /\ 0 \in 0..m
            BY <1>1, <1>8
        <3> QED
            BY <1>6, <3>1, <3>2
    <2>3. ASSUME NEW i \in 0..(m - 1), i \in T
          PROVE  i + 1 \in T
        <3>1. /\ i + 1 \in 1..m /\ n + (i + 1) \in 1..(n + m) /\ ~(n + (i + 1) <= n)
              /\ i + 1 \in 0..m /\ i \in 0..m /\ (i + 1) - 1 = i
              /\ (n + (i + 1)) - n = i + 1 /\ (n + (i + 1)) - 1 = n + i
            BY <1>1
        <3>2. all[n + (i + 1)] = r[i + 1]
            BY <1>1, <3>1
        <3>3. h[n + (i + 1)] = IF s \in r[i + 1].reached THEN Append(h[n + i], r[i + 1].trace)
                               ELSE h[n + i]
            BY <1>7, <3>1, <3>2
        <3>4. g[i + 1] = IF s \in r[i + 1].reached THEN Append(g[i], r[i + 1].trace) ELSE g[i]
            BY <1>6, <3>1
        <3>5. h[n + i] = f[n] \o g[i]
            BY <2>3
        <3>6. g[i] \in Seq(E) /\ r[i + 1].trace \in E
            BY <1>6, <3>1
        <3>7. Append(f[n] \o g[i], r[i + 1].trace) = f[n] \o Append(g[i], r[i + 1].trace)
            <4> DEFINE x == r[i + 1].trace
                       a == f[n]
                       b == g[i]
            <4>1. a \in Seq(E) /\ b \in Seq(E) /\ x \in E
                BY <2>1, <3>6
            <4> HIDE DEF x, a, b
            <4>2. Append(a \o b, x) = a \o Append(b, x)
                <5>1. a \o b \in Seq(E) /\ <<x>> \in Seq(E)
                    BY <4>1, ConcatProperties
                <5>2. Append(a \o b, x) = (a \o b) \o <<x>> /\ Append(b, x) = b \o <<x>>
                    BY <4>1, <5>1, AppendIsConcat
                <5> QED
                    BY <4>1, <5>1, <5>2, ConcatAssociative
            <4> QED
                BY <4>2 DEF x, a, b
        <3>8. h[n + (i + 1)] = f[n] \o g[i + 1]
            BY <3>3, <3>4, <3>5, <3>7
        <3> QED
            BY <3>1, <3>8
    <2> HIDE DEF T
    <2>4. 0..m \subseteq T
        BY <1>1, <2>2, <2>3, UpTo
    <2>5. m \in 0..m
        BY <1>1
    <2> QED
        BY <2>4, <2>5
<1> QED
    BY <1>2, <1>3, <1>4, <1>9 DEF n, m, all

(* A policy owns all of a queue that it reaches, and nothing of one that   *)
(* it does not reach.                                                      *)
LEMMA OwnOfReached ==
    ASSUME NEW E, NEW I, HaveTraces(I, E), NEW q \in Seq(I), NEW s,
           \A i \in 1..Len(q) : s \in q[i].reached
    PROVE  OwnTraces(q, s) = Traces(q)
<1> DEFINE n == Len(q)
<1>1. PICK g : Collects(g, q, s, E) /\ OwnTraces(q, s) = g[n]
    BY OwnIsCollected
<1>2. /\ g \in [0..n -> Seq(E)] /\ g[0] = << >> /\ n \in Nat
      /\ \A i \in 1..n : g[i] = Append(g[i - 1], q[i].trace)
      /\ \A i \in 1..n : q[i].trace \in E
    BY <1>1, ElementOfSeq, LenProperties DEF Collects, HaveTraces
<1>3. Traces(q) \in Seq(E) /\ Len(Traces(q)) = n /\ \A i \in 1..n : Traces(q)[i] = q[i].trace
    BY TracesParts
<1> HIDE DEF n
<1> DEFINE S == {i \in 0..n : Len(g[i]) = i /\ \A j \in 1..i : g[i][j] = q[j].trace}
<1>4. 0 \in S
    <2>1. Len(g[0]) = 0 /\ 1..0 = {}
        BY <1>2, EmptySeq
    <2> QED
        BY <1>2, <2>1
<1>5. ASSUME NEW i \in 0..(n - 1), i \in S
      PROVE  i + 1 \in S
    <2>1. i + 1 \in 1..n /\ i + 1 \in 0..n /\ i \in 0..n /\ (i + 1) - 1 = i /\ i \in Nat
        BY <1>2
    <2> DEFINE a == g[i]
               b == g[i + 1]
               x == q[i + 1].trace
    <2>2. a \in Seq(E) /\ x \in E /\ b = Append(a, x)
        BY <1>2, <2>1
    <2>3. Len(a) = i /\ \A j \in 1..i : a[j] = q[j].trace
        BY <1>5
    <2> HIDE DEF a, b, x
    <2>4. Len(b) = i + 1 /\ (\A j \in 1..i : b[j] = a[j]) /\ b[i + 1] = x
        BY <2>2, <2>3, AppendProperties
    <2>5. ASSUME NEW j \in 1..(i + 1)
          PROVE  b[j] = q[j].trace
        <3>1. j \in 1..i \/ j = i + 1
            BY <2>1
        <3> QED
            BY <2>3, <2>4, <3>1 DEF x
    <2>6. Len(g[i + 1]) = i + 1 /\ \A j \in 1..(i + 1) : g[i + 1][j] = q[j].trace
        BY <2>4, <2>5 DEF b
    <2> QED
        BY <2>1, <2>6
<1> HIDE DEF S
<1>6. n \in S /\ n \in 0..n
    <2>1. 0..n \subseteq S
        BY <1>2, <1>4, <1>5, UpTo
    <2>2. n \in 0..n
        BY <1>2
    <2> QED
        BY <2>1, <2>2
<1>7. g[n] \in Seq(E) /\ Len(g[n]) = n /\ \A j \in 1..n : g[n][j] = q[j].trace
    BY <1>2, <1>6 DEF S
<1>8. g[n] = Traces(q)
    <2> DEFINE a == g[n]
               b == Traces(q)
    <2>1. a \in Seq(E) /\ b \in Seq(E) /\ Len(a) = n /\ Len(b) = n
        BY <1>3, <1>7
    <2>2. \A i \in 1..n : a[i] = b[i]
        BY <1>3, <1>7
    <2> HIDE DEF a, b
    <2>3. a = b
        BY <2>1, <2>2, SeqEqual
    <2> QED
        BY <2>3 DEF a, b
<1> QED
    BY <1>1, <1>8

LEMMA OwnOfUnreached ==
    ASSUME NEW E, NEW I, HaveTraces(I, E), NEW q \in Seq(I), NEW s,
           \A i \in 1..Len(q) : s \notin q[i].reached
    PROVE  OwnTraces(q, s) = << >>
<1> DEFINE n == Len(q)
<1>1. PICK g : Collects(g, q, s, E) /\ OwnTraces(q, s) = g[n]
    BY OwnIsCollected
<1>2. g[0] = << >> /\ n \in Nat /\ \A i \in 1..n : g[i] = g[i - 1]
    BY <1>1, LenProperties DEF Collects
<1> HIDE DEF n
<1> DEFINE S == {i \in 0..n : g[i] = << >>}
<1>3. 0 \in S
    BY <1>2
<1>4. ASSUME NEW i \in 0..(n - 1), i \in S
      PROVE  i + 1 \in S
    <2>1. i + 1 \in 1..n /\ i + 1 \in 0..n /\ (i + 1) - 1 = i
        BY <1>2
    <2> QED
        BY <1>2, <1>4, <2>1
<1> HIDE DEF S
<1>5. 0..n \subseteq S /\ n \in 0..n
    <2>1. 0..n \subseteq S
        BY <1>2, <1>3, <1>4, UpTo
    <2> QED
        BY <1>2, <2>1
<1>6. g[n] = << >>
    BY <1>5 DEF S
<1> QED
    BY <1>1, <1>6

(* What a policy owns of a queue begins with its head, if it reaches it.   *)
LEMMA OwnOfTail ==
    ASSUME NEW E, NEW I, HaveTraces(I, E), NEW q \in Seq(I), q # << >>, NEW s
    PROVE  IF s \in Head(q).reached
           THEN /\ OwnTraces(q, s) # << >> /\ Head(OwnTraces(q, s)) = Head(q).trace
                /\ Tail(OwnTraces(q, s)) = OwnTraces(Tail(q), s)
                /\ OwnTraces(Tail(q), s) \in Seq(E)
           ELSE OwnTraces(q, s) = OwnTraces(Tail(q), s)
<1> DEFINE first == <<Head(q)>>
           rest == OwnTraces(Tail(q), s)
           x == Head(q).trace
<1>1. Len(q) \in Nat /\ Len(q) # 0
    BY EmptySeq, LenProperties
<1>2. Head(q) \in I /\ Tail(q) \in Seq(I) /\ Head(q) = q[1]
    BY HeadTailProperties
<1>3. q = first \o Tail(q)
    <2>1. 1 \in 1..Len(q) /\ Len(q) \in 1..Len(q)
        BY <1>1
    <2>2. SubSeq(q, 1, Len(q)) = <<q[1]>> \o SubSeq(q, 2, Len(q))
        BY <2>1, SubSeqRecursiveFirst
    <2> QED
        BY <1>2, <2>2, SubSeqFull, TailIsSubSeq
<1>4. first \in Seq(I) /\ Len(first) = 1 /\ first[1] = Head(q) /\ x \in E
    BY <1>2 DEF HaveTraces
<1>5. rest \in Seq(E)
    BY <1>2, OwnIsSeq
<1> HIDE DEF first
<1>6. OwnTraces(q, s) = OwnTraces(first, s) \o rest
    <2>1. OwnTraces(first \o Tail(q), s) = OwnTraces(first, s) \o OwnTraces(Tail(q), s)
        <3>1. \A a, b \in Seq(I) : OwnTraces(a \o b, s) = OwnTraces(a, s) \o OwnTraces(b, s)
            BY OwnOfConcat
        <3>2. first \in Seq(I) /\ Tail(q) \in Seq(I)
            BY <1>2, <1>4
        <3> QED
            BY <3>1, <3>2
    <2> QED
        BY <1>3, <2>1
<1> HIDE DEF rest
<1>7. CASE s \in Head(q).reached
    <2>1. OwnTraces(first, s) = Traces(first)
        <3>1. \A i \in 1..Len(first) : s \in first[i].reached
            BY <1>4, <1>7
        <3> QED
            BY <1>4, <3>1, OwnOfReached
    <2>2. Traces(first) \in Seq(E) /\ Len(Traces(first)) = 1 /\ Traces(first)[1] = x
        BY <1>4, TracesParts
    <2>3. Traces(first) = <<x>>
        BY <1>4, <2>2, SeqEqual
    <2> HIDE DEF x
    <2> DEFINE all == <<x>> \o rest
    <2>4. all # << >> /\ Head(all) = x /\ Tail(all) = rest
        <3>1. <<x>> \in Seq(E) /\ Len(<<x>>) = 1 /\ <<x>>[1] = x
            BY <1>4
        <3>2. /\ all \in Seq(E) /\ Len(all) = 1 + Len(rest)
              /\ \A i \in 1..(1 + Len(rest)) : all[i] = IF i <= 1 THEN <<x>>[i] ELSE rest[i - 1]
            BY <1>5, <3>1, ConcatProperties
        <3>3. Len(rest) \in Nat
            BY <1>5, LenProperties
        <3> HIDE DEF all
        <3>4. all # << >>
            BY <3>2, <3>3, EmptySeq
        <3>5. Head(all) = all[1]
            BY <3>2, <3>4
        <3>6. all[1] = x
            BY <3>1, <3>2, <3>3
        <3>7. Tail(all) \in Seq(E) /\ Len(Tail(all)) = Len(rest)
              /\ \A i \in 1..Len(rest) : Tail(all)[i] = all[i + 1]
            BY <3>2, <3>3, <3>4, HeadTailProperties
        <3>8. \A i \in 1..Len(rest) : all[i + 1] = rest[i]
            <4> SUFFICES ASSUME NEW i \in 1..Len(rest)
                         PROVE  all[i + 1] = rest[i]
                OBVIOUS
            <4>1. i + 1 \in 1..(1 + Len(rest)) /\ ~(i + 1 <= 1) /\ (i + 1) - 1 = i
                BY <3>3
            <4> QED
                BY <3>2, <4>1
        <3>9. Tail(all) = rest
            BY <1>5, <3>7, <3>8, SeqEqual
        <3> QED
            BY <3>4, <3>5, <3>6, <3>9
    <2>5. OwnTraces(q, s) = all
        BY <1>6, <2>1, <2>3
    <2> HIDE DEF all
    <2> QED
        BY <1>5, <1>7, <2>4, <2>5 DEF rest, x
<1>8. CASE s \notin Head(q).reached
    <2>1. OwnTraces(first, s) = << >>
        <3>1. \A i \in 1..Len(first) : s \notin first[i].reached
            BY <1>4, <1>8
        <3> QED
            BY <1>4, <3>1, OwnOfUnreached
    <2>2. << >> \o rest = rest
        BY <1>5, ConcatEmptySeq
    <2> QED
        BY <1>6, <1>8, <2>1, <2>2 DEF rest
<1> QED
    BY <1>7, <1>8

(* The relational checker of one policy computes what the definitions do. *)
LEMMA AloneControls ==
    ASSUME NEW s
    PROVE  \A p, suite, t : /\ Alone(s)!Actual(p, t) = Actual(p, t)
                          /\ Alone(s)!Expected(suite, t) = Expected(suite, t)
                          /\ Alone(s)!Matched(suite, t) = Matched(suite, t)
<1>1. \A effects, past, window : Alone(s)!Sourced(effects, past, window) = Sourced(effects, past, window)
    BY DEF Alone!Sourced, Sourced, Alone!Visible, Visible, Alone!VisibleFrom, VisibleFrom,
           Alone!NoWindow, NoWindow
<1>2. \A t : Alone(s)!Called(t) = Called(t) /\ Alone(s)!Past(t) = Past(t)
    BY DEF Alone!Called, Called, Alone!Past, Past
<1>3. \A p, t : Alone(s)!Actual(p, t) = Actual(p, t)
    BY <1>1, <1>2 DEF Alone!Actual, Actual, Alone!EvaluateSequence, EvaluateSequence,
                      Alone!Matches, Matches
<1>4. \A suite, t : Alone(s)!Met(suite, t) = Met(suite, t)
    BY <1>1, <1>2 DEF Alone!Met, Met
<1>5. \A suite, t : Alone(s)!Expected(suite, t) = Expected(suite, t)
    BY <1>4 DEF Alone!Expected, Expected
<1>6. \A suite, t : Alone(s)!Matched(suite, t) = Matched(suite, t)
    BY <1>4, <1>5 DEF Alone!Matched, Matched
<1> QED
    BY <1>3, <1>5, <1>6

LEMMA AloneEvidence ==
    ASSUME NEW s
    PROVE  \A p, suite, t : /\ Alone(s)!ActualEvidence(p, t) = ActualEvidence(p, t)
                          /\ Alone(s)!RequiredEvidence(suite, t) = RequiredEvidence(suite, t)
<1>1. \A past, window : Alone(s)!Visible(past, window) = Visible(past, window)
    BY DEF Alone!Visible, Visible, Alone!VisibleFrom, VisibleFrom, Alone!NoWindow, NoWindow
<1>2. \A effects, past, window :
          Alone(s)!Evidence(effects, past, window) = Evidence(effects, past, window)
    BY <1>1 DEF Alone!Evidence, Evidence
<1>3. \A t : Alone(s)!Called(t) = Called(t) /\ Alone(s)!Past(t) = Past(t)
    BY DEF Alone!Called, Called, Alone!Past, Past
<1>4. \A rule, tool, past : Alone(s)!Matches(rule, tool, past) = Matches(rule, tool, past)
    BY <1>1 DEF Alone!Matches, Matches, Alone!Sourced, Sourced
<1>5. \A p, t : Alone(s)!ActualEvidence(p, t) = ActualEvidence(p, t)
    BY <1>2, <1>3, <1>4, AloneControls DEF Alone!ActualEvidence, ActualEvidence
<1>6. \A suite, t : Alone(s)!RequiredEvidence(suite, t) = RequiredEvidence(suite, t)
    BY <1>2, <1>3, AloneControls DEF Alone!RequiredEvidence, RequiredEvidence
<1> QED
    BY <1>5, <1>6

LEMMA AloneChecks ==
    ASSUME NEW s
    PROVE  /\ \A p, suite, t : Alone(s)!Checked(p, suite, t) = Checked(p, suite, t)
           /\ \A d : Alone(s)!Failures(d) = Failures(d) /\ Alone(s)!EvidenceComplete(d) = EvidenceComplete(d)
           /\ \A d, failures : Alone(s)!Witnesses(d, failures) = Witnesses(d, failures)
           /\ \A W : Alone(s)!Shortest(W) = Shortest(W)
           /\ \A t : Alone(s)!Extensions(t) = Extensions(t)
           /\ Alone(s)!FirstCalls = FirstCalls
<1>1. \A p, suite, t : Alone(s)!Checked(p, suite, t) = Checked(p, suite, t)
    BY AloneControls, AloneEvidence DEF Alone!Checked, Checked
<1>2. \A d : Alone(s)!Failures(d) = Failures(d) /\ Alone(s)!EvidenceComplete(d) = EvidenceComplete(d)
    BY DEF Alone!Failures, Failures, Alone!EvidenceComplete, EvidenceComplete
<1>3. \A d, failures : Alone(s)!Witnesses(d, failures) = Witnesses(d, failures)
    BY DEF Alone!Witnesses, Witnesses, Alone!Blamed, Blamed
<1>4. \A W : Alone(s)!Shortest(W) = Shortest(W)
    BY DEF Alone!Shortest, Shortest, Alone!Before, Before, Alone!Lexically, Lexically
<1>5. \A t : Alone(s)!Extensions(t) = Extensions(t)
    BY DEF Alone!Extensions, Extensions
<1>6. Alone(s)!FirstCalls = FirstCalls
    BY DEF Alone!FirstCalls, FirstCalls
<1> QED
    BY <1>1, <1>2, <1>3, <1>4, <1>5, <1>6

LEMMA AloneCardinalities ==
    ASSUME NEW s
    PROVE  \A S : Alone(s)!Cardinality(S) = Cardinality(S)
BY DEF Alone!Cardinality, Cardinality

LEMMA AloneThresholds ==
    ASSUME NEW s
    PROVE  \A m, made, suite : /\ Alone(s)!Passes(m, made, suite) <=> Passes(m, made, suite)
                            /\ Alone(s)!Covered(made, suite) = Covered(made, suite)
<1>1. \A percent, good, all : Alone(s)!AtLeast(percent, good, all) = AtLeast(percent, good, all)
    BY AloneCardinalities DEF Alone!AtLeast, AtLeast
<1>2. \A made, suite : Alone(s)!Covered(made, suite) = Covered(made, suite)
    BY AloneCardinalities DEF Alone!Covered, Covered, Alone!Neighbours, Neighbours
<1>3. \A d : Alone(s)!EvidenceComplete(d) = EvidenceComplete(d)
    BY AloneChecks
<1>4. ASSUME NEW m, NEW made, NEW suite
      PROVE  Alone(s)!Passes(m, made, suite) <=> Passes(m, made, suite)
    <2> DEFINE unsafe == {d \in made : d.expected # "allow"}
               permitted == made \ unsafe
               exact == {d \in made : d.actual = d.expected}
               stopped == {d \in unsafe : d.actual # "allow"}
               kept == {d \in permitted : d.actual = "allow"}
               proved == {d \in unsafe : EvidenceComplete(d)}
               bounded == Covered(made, suite)
    <2>1. {d \in unsafe : Alone(s)!EvidenceComplete(d)} = proved
        BY <1>3
    <2>2. Alone(s)!Covered(made, suite) = bounded
        BY <1>2
    <2>3. Alone(s)!Passes(m, made, suite)
             <=> /\ Alone(s)!AtLeast(m.conformance, exact, made)
                 /\ Alone(s)!AtLeast(m.prevention, stopped, unsafe)
                 /\ Alone(s)!AtLeast(m.retention, kept, permitted)
                 /\ Alone(s)!AtLeast(m.evidence, proved, unsafe)
                 /\ Alone(s)!AtLeast(m.boundaries, bounded, suite)
        BY <2>1, <2>2, Zenon DEF Alone!Passes
    <2>4. Passes(m, made, suite)
             <=> /\ AtLeast(m.conformance, exact, made)
                 /\ AtLeast(m.prevention, stopped, unsafe)
                 /\ AtLeast(m.retention, kept, permitted)
                 /\ AtLeast(m.evidence, proved, unsafe)
                 /\ AtLeast(m.boundaries, bounded, suite)
        BY Zenon DEF Passes
    <2> HIDE DEF unsafe, permitted, exact, stopped, kept, proved, bounded
    <2> QED
        BY <1>1, <2>3, <2>4
<1> QED
    BY <1>2, <1>4

LEMMA AloneReports ==
    ASSUME NEW s
    PROVE  /\ \A suite : Alone(s)!ValidSuite(suite) <=> Change!ValidSuite(suite)
           /\ \A made : Alone(s)!Shortest(UNION {Alone(s)!Witnesses(d, Alone(s)!Failures(d)) : d \in made})
                          = Shortest(Faults(made))
<1>1. \A suite : Alone(s)!ValidSuite(suite) <=> Change!ValidSuite(suite)
    BY DEF Alone!ValidSuite, Change!ValidSuite
<1>2. ASSUME NEW made
      PROVE  UNION {Alone(s)!Witnesses(d, Alone(s)!Failures(d)) : d \in made} = Faults(made)
    BY AloneChecks DEF Faults
<1> QED
    BY <1>1, <1>2, AloneChecks

(* A policy's own decisions are no more than the common ones.              *)
LEMMA OwnAreFewer ==
    ASSUME ChangeInv, NEW s
    PROVE  /\ Cardinality(Change!OfOwnPaths(s)) <= Cardinality(changeDecisions)
           /\ Cardinality(Change!OfOwnPaths(s)) \in Nat /\ Cardinality(changeDecisions) \in Nat
<1> DEFINE mine == {d \in changeDecisions : s \in d.reached}
           own == Change!OfOwnPaths(s)
           f == [d \in mine |-> d.by[s]]
<1>1. own = {d.by[s] : d \in mine}
    BY DEF Change!OfOwnPaths
<1>2. f \in [mine -> own] /\ \A e \in own : \E d \in mine : f[d] = e
    BY <1>1
<1>3. IsFiniteSet(changeDecisions) /\ mine \in SUBSET changeDecisions
    BY DEF ChangeInv
<1> HIDE DEF f, mine, own
<1>4. IsFiniteSet(mine) /\ Cardinality(mine) <= Cardinality(changeDecisions)
    BY <1>3, FS_Subset
<1>5. f \in Surjection(mine, own)
    BY <1>2 DEF Surjection
<1>6. IsFiniteSet(own) /\ Cardinality(own) <= Cardinality(mine)
    BY <1>4, <1>5, FS_Surjection
<1>7. Cardinality(own) \in Nat /\ Cardinality(mine) \in Nat /\ Cardinality(changeDecisions) \in Nat
    BY <1>3, <1>4, <1>6, FS_CardinalityType
<1> QED
    BY <1>4, <1>6, <1>7 DEF own

(* What is enqueued after a trace, for a policy that allows its last call  *)
(* and for one that does not.                                              *)
LEMMA OwnOfEnqueued ==
    ASSUME NEW h \in ReachedByEither, NEW s
    PROVE  OwnTraces(Enqueued(h), s) = IF s \in Onward(h) THEN Extensions(h) ELSE << >>
<1> DEFINE longer == Extensions(h)
           items == Enqueued(h)
           next == Onward(h)
           n == Len(longer)
<1>1. items \in Seq(Items)
    BY ChangeEnqueues
<1>2. HaveTraces(Items, ReachedByEither)
    BY DEF HaveTraces, Items
<1>3. h \in Trace
    BY EitherIsPrefixClosed DEF PrefixClosed
<1>4. longer \in Seq(Trace) /\ n \in Nat /\ DOMAIN longer = 1..n /\ longer = [i \in 1..n |-> longer[i]]
    <2>1. longer \in Seq(Trace)
        BY <1>3, ExtensionsParts
    <2> HIDE DEF longer
    <2> QED
        BY <2>1, LenProperties
<1>5. CASE s \in next
    <2>1. items = [i \in 1..n |-> [trace |-> longer[i], reached |-> next]]
        BY <1>4, <1>5 DEF Enqueued
    <2> HIDE DEF items, longer, next, n
    <2>2. Len(items) = n
        BY <1>1, <1>4, <2>1, LenProperties
    <2>3. \A i \in 1..n : items[i].trace = longer[i] /\ items[i].reached = next
        BY <2>1
    <2>4. Traces(items) = longer
        <3>1. Traces(items) = [i \in 1..n |-> longer[i]]
            BY <2>2, <2>3 DEF Traces
        <3> QED
            BY <1>4, <3>1
    <2>5. OwnTraces(items, s) = Traces(items)
        BY <1>1, <1>2, <1>5, <2>2, <2>3, OwnOfReached
    <2> QED
        BY <1>5, <2>4, <2>5 DEF items, longer, next
<1>6. CASE s \notin next
    <2>1. \A i \in 1..Len(items) : s \notin items[i].reached
        <3>1. CASE next = {}
            <4>1. items = << >>
                BY <3>1 DEF Enqueued
            <4>2. 1..Len(items) = {}
                BY <4>1
            <4> QED
                BY <4>2
        <3>2. CASE next # {}
            <4>1. items = [i \in 1..n |-> [trace |-> longer[i], reached |-> next]]
                BY <1>4, <3>2 DEF Enqueued
            <4> HIDE DEF items, longer, next, n
            <4>2. Len(items) = n
                BY <1>1, <1>4, <4>1, LenProperties
            <4> QED
                BY <1>6, <4>1, <4>2
        <3> QED
            BY <3>1, <3>2
    <2> HIDE DEF items, longer, next
    <2>2. OwnTraces(items, s) = << >>
        BY <1>1, <1>2, <2>1, OwnOfUnreached
    <2> QED
        BY <1>6, <2>2 DEF items, next
<1> QED
    BY <1>5, <1>6

(* A decision of the change checker is one of the relational checker, for  *)
(* a policy that reaches the trace, and nothing for another.               *)
LEMMA DecisionIsSeen ==
    ASSUME ReviewInv, NEW s \in Change!Sides, Change!Decide
    PROVE  Alone(s)!Decide \/ UNCHANGED Alone(s)!vars
<1> DEFINE item == Head(changeTodo)
           h == item.trace
           rest == Tail(changeTodo)
           own == OwnTraces(changeTodo, s)
           made == Change!OfOwnPaths(s)
           d == Checked(policy[s], requirements, h)
<1>1. ChangeInv /\ changeTodo \in Seq(Items) /\ changeTodo # << >>
    BY DEF ReviewInv, ChangeInv, Change!Decide, Items
<1>2. /\ policy' = policy /\ requirements' = requirements /\ min' = min /\ budget' = budget
      /\ verdict = "searching" /\ verdict' = verdict /\ defects' = defects
      /\ Change!Cardinality(changeDecisions) < budget /\ budget \in Nat
    BY RequirementsAreFinite DEF Change!Decide, Change!inputs, ReviewInv
<1>3. /\ h \in ReachedByEither
      /\ changeDecisions' = changeDecisions \cup {Seen(h)}
      /\ changeTodo' = rest \o Enqueued(h)
    BY <1>1, ChangeDecides
<1>4. item.reached = ReachedBy(h) /\ item \in Items /\ rest \in Seq(Items)
    <2>1. Len(changeTodo) \in Nat /\ Len(changeTodo) # 0
        BY <1>1, EmptySeq
    <2>2. item = changeTodo[1] /\ 1 \in 1..Len(changeTodo) /\ item \in Items /\ rest \in Seq(Items)
        BY <1>1, <2>1, HeadTailProperties
    <2> QED
        BY <1>1, <2>2 DEF ChangeInv
<1>5. HaveTraces(Items, ReachedByEither)
    BY DEF HaveTraces, Items
<1>6. IF s \in ReachedBy(h)
      THEN /\ own # << >> /\ Head(own) = h /\ Tail(own) = OwnTraces(rest, s)
           /\ OwnTraces(rest, s) \in Seq(ReachedByEither)
      ELSE own = OwnTraces(rest, s)
    BY <1>1, <1>4, <1>5, OwnOfTail
<1>7. own' = OwnTraces(rest, s) \o (IF s \in Onward(h) THEN Extensions(h) ELSE << >>)
    <2>1. Enqueued(h) \in Seq(Items)
        BY <1>3, ChangeEnqueues
    <2>2. \A a, b \in Seq(Items) : OwnTraces(a \o b, s) = OwnTraces(a, s) \o OwnTraces(b, s)
        BY <1>5, OwnOfConcat
    <2>3. OwnTraces(rest \o Enqueued(h), s) = OwnTraces(rest, s) \o OwnTraces(Enqueued(h), s)
        BY <1>4, <2>1, <2>2
    <2>4. OwnTraces(Enqueued(h), s) = IF s \in Onward(h) THEN Extensions(h) ELSE << >>
        BY <1>3, OwnOfEnqueued
    <2>5. own' = OwnTraces(rest \o Enqueued(h), s)
        BY <1>3
    <2> QED
        BY <2>3, <2>4, <2>5
<1>8. made' = IF s \in ReachedBy(h) THEN made \cup {d} ELSE made
    <2>1. /\ made = {x.by[s] : x \in {x \in changeDecisions : s \in x.reached}}
          /\ made' = {x.by[s] : x \in {x \in changeDecisions' : s \in x.reached}}
        BY DEF Change!OfOwnPaths
    <2>2. Seen(h).reached = ReachedBy(h) /\ Seen(h).by[s] = d
        BY SeenParts
    <2> HIDE DEF h, d, made
    <2> QED
        BY <1>3, <2>1, <2>2
<1>9. /\ SideOutcome(s) = "searching" /\ SideOutcome(s)' = "searching"
      /\ SideCovered(s) = {} /\ SideCovered(s)' = {}
    BY <1>2 DEF SideOutcome, SideCovered
<1>10. CASE s \in ReachedBy(h)
    <2>1. ~Alone(s)!BudgetSpent
        <3>1. Alone(s)!Cardinality(made) = Cardinality(made)
              /\ Change!Cardinality(changeDecisions) = Cardinality(changeDecisions)
            BY AloneCardinalities, SameCardinalities
        <3>2. Cardinality(made) < budget
            BY <1>1, <1>2, <3>1, OwnAreFewer
        <3> QED
            BY <1>2, <1>1, <3>1, <3>2, OwnAreFewer DEF Alone!BudgetSpent
    <2>2. Alone(s)!Checked(policy[s], requirements, Head(own)) = d
        BY <1>6, <1>10, AloneChecks
    <2>3. d.trace = h /\ (d.actual = "allow" <=> s \in Onward(h))
        BY <1>10, CheckedParts DEF Onward
    <2>4. Alone(s)!Extensions(h) = Extensions(h)
        BY AloneChecks
    <2>5. own' = IF d.actual = "allow" THEN Tail(own) \o Extensions(h) ELSE Tail(own)
        <3>1. OwnTraces(rest, s) \o << >> = OwnTraces(rest, s)
            BY <1>6, <1>10, ConcatEmptySeq
        <3> QED
            BY <1>6, <1>7, <1>10, <2>3, <3>1
    <2> HIDE DEF own, made, d, h
    <2>6. own # << >> /\ made' = made \cup {d}
        BY <1>6, <1>8, <1>10
    <2> QED
        BY <1>2, <1>9, <2>1, <2>2, <2>3, <2>4, <2>5, <2>6
           DEF Alone!Decide, Alone!inputs, own, made
<1>11. CASE s \notin ReachedBy(h)
    <2>1. s \notin Onward(h)
        BY <1>11 DEF Onward
    <2>2. own' = own
        <3>1. own = OwnTraces(rest, s) /\ own' = own \o << >>
            BY <1>6, <1>7, <1>11, <2>1
        <3> QED
            BY <1>1, <1>5, <3>1, OwnIsSeq, ConcatEmptySeq
    <2>3. made' = made
        BY <1>8, <1>11
    <2> QED
        BY <1>2, <1>9, <2>2, <2>3 DEF Alone!vars, Alone!inputs
<1> QED
    BY <1>10, <1>11

(* A change checker that exceeds its budget may have had enough for one of *)
(* the policies: that search is left where it is.                          *)
LEMMA ExcessIsUnseen ==
    ASSUME NEW s \in Change!Sides, Change!Exceed
    PROVE  UNCHANGED Alone(s)!vars
<1>1. /\ policy' = policy /\ requirements' = requirements /\ min' = min /\ budget' = budget
      /\ changeTodo' = changeTodo /\ changeDecisions' = changeDecisions /\ defects' = defects
      /\ verdict = "searching" /\ verdict' = "exceeded"
    BY DEF Change!Exceed, Change!inputs
<1>2. Change!OfOwnPaths(s)' = Change!OfOwnPaths(s)
    BY <1>1 DEF Change!OfOwnPaths
<1>3. /\ SideOutcome(s) = "searching" /\ SideOutcome(s)' = "searching"
      /\ SideCovered(s) = {} /\ SideCovered(s)' = {}
    BY <1>1 DEF SideOutcome, SideCovered
<1> QED
    BY <1>1, <1>2, <1>3 DEF Alone!vars, Alone!inputs

(* The report of a change has the reports of both policies.                *)
LEMMA ReportIsSeen ==
    ASSUME ChangeInv, ChangeInv', NEW s \in Change!Sides, Change!Report
    PROVE  Alone(s)!Report
<1> DEFINE made == Change!OfOwnPaths(s)
           own == OwnTraces(changeTodo, s)
<1>1. /\ policy' = policy /\ requirements' = requirements /\ min' = min /\ budget' = budget
      /\ changeTodo' = changeTodo /\ changeDecisions' = changeDecisions
      /\ verdict = "searching" /\ changeTodo = << >> /\ verdict' \in {"passed", "failed"}
    BY DEF Change!Report, Change!inputs
<1>2. made' = made
    BY <1>1 DEF Change!OfOwnPaths
<1>3. own = << >> /\ own' = << >>
    <2>1. HaveTraces({}, {}) /\ << >> \in Seq({}) /\ 1..Len(<< >>) = {}
        BY EmptySeq DEF HaveTraces
    <2>2. OwnTraces(<< >>, s) = << >>
        BY <2>1, OwnOfUnreached
    <2> QED
        BY <1>1, <2>2
<1>4. defects'[s] = Shortest(Faults(made))
    <2>1. defects'[s] = Shortest(Faults(made))'
        BY <1>1 DEF ChangeInv
    <2>2. Shortest(Faults(made))' = Shortest(Faults(made'))
        BY DEF Shortest, Faults, Witnesses, Failures, Blamed, EvidenceComplete, Before, Lexically
    <2> QED
        BY <1>2, <2>1, <2>2
<1>5. /\ SideOutcome(s) = "searching"
      /\ SideOutcome(s)' = IF Passes(min, made, requirements) THEN "passed" ELSE "failed"
    BY <1>1, <1>2 DEF SideOutcome
<1>6. SideCovered(s)' = Covered(made, requirements)
    BY <1>1, <1>2, <1>5 DEF SideCovered
<1> HIDE DEF made, own
<1>7. /\ Alone(s)!Passes(min, made, requirements) <=> Passes(min, made, requirements)
      /\ Alone(s)!Covered(made, requirements) = Covered(made, requirements)
    BY AloneThresholds
<1>8. Alone(s)!Shortest(UNION {Alone(s)!Witnesses(d, Alone(s)!Failures(d)) : d \in made})
          = Shortest(Faults(made))
    BY AloneReports
<1> QED
    BY <1>1, <1>2, <1>3, <1>4, <1>5, <1>6, <1>7, <1>8 DEF Alone!Report, Alone!inputs, made, own

LEMMA EachBegins ==
    ASSUME ReviewInit, NEW s \in Change!Sides
    PROVE  Alone(s)!Init
<1>1. /\ policy \in [Change!Sides -> Policies]
      /\ requirements \in Suites /\ Change!ValidSuite(requirements)
      /\ min \in Thresholds /\ budget \in Budgets
      /\ changeTodo = [t \in 1..Templates |-> [trace |-> FirstCalls[t], reached |-> Change!Sides]]
      /\ changeDecisions = {} /\ verdict = "searching" /\ defects = [r \in Change!Sides |-> {}]
    BY SameChecks DEF ReviewInit, Change!Init
<1>2. Change!OfOwnPaths(s) = {}
    BY <1>1 DEF Change!OfOwnPaths
<1>3. SideOutcome(s) = "searching" /\ SideCovered(s) = {}
    BY <1>1 DEF SideOutcome, SideCovered
<1>4. OwnTraces(changeTodo, s) = FirstCalls
    <2> DEFINE n == Templates
    <2>1. changeTodo \in Seq(Items) /\ HaveTraces(Items, ReachedByEither)
        BY ChangeBegins DEF ChangeInv, HaveTraces, Items
    <2>2. n \in Nat
        BY SuiteIsTyped
    <2>3. DOMAIN changeTodo = 1..n
        BY <1>1
    <2> HIDE DEF n
    <2>4. Len(changeTodo) = n
        BY <2>1, <2>2, <2>3, LenProperties
    <2>5. \A i \in 1..n : changeTodo[i].trace = FirstCalls[i] /\ changeTodo[i].reached = Change!Sides
        BY <1>1 DEF n
    <2>6. OwnTraces(changeTodo, s) = Traces(changeTodo)
        BY <2>1, <2>4, <2>5, OwnOfReached
    <2>7. Traces(changeTodo) = [i \in 1..n |-> FirstCalls[i]]
        BY <2>4, <2>5 DEF Traces
    <2>8. FirstCalls = [i \in 1..n |-> FirstCalls[i]]
        BY DEF FirstCalls, n
    <2> QED
        BY <2>6, <2>7, <2>8
<1>5. Alone(s)!FirstCalls = FirstCalls /\ (Alone(s)!ValidSuite(requirements) <=> Change!ValidSuite(requirements))
    BY AloneChecks, AloneReports
<1> QED
    BY <1>1, <1>2, <1>3, <1>4, <1>5 DEF Alone!Init

LEMMA EachGoesOn ==
    ASSUME ReviewInv, [ReviewNext]_reviewVars
    PROVE  \/ UNCHANGED changeVars
           \/ \A s \in Change!Sides : [Alone(s)!Next]_(Alone(s)!vars)
<1>1. CASE CheckChange
    <2>1. Change!Next /\ ChangeInv /\ ChangeInv'
        BY <1>1, ReviewKeepsInv DEF CheckChange, ReviewInv
    <2>2. ASSUME NEW s \in Change!Sides
          PROVE  Alone(s)!Next \/ UNCHANGED Alone(s)!vars
        <3>1. CASE Change!Decide
            BY <3>1, DecisionIsSeen DEF Alone!Next
        <3>2. CASE Change!Exceed
            BY <3>2, ExcessIsUnseen
        <3>3. CASE Change!Report
            BY <2>1, <3>3, ReportIsSeen DEF Alone!Next
        <3> QED
            BY <2>1, <3>1, <3>2, <3>3 DEF Change!Next
    <2> QED
        BY <2>2
<1>2. CASE AnalyseProposal
    BY <1>2 DEF AnalyseProposal
<1>3. CASE Analysis /\ UNCHANGED changeVars
    BY <1>3
<1>4. CASE UNCHANGED reviewVars
    BY <1>4 DEF reviewVars
<1> QED
    BY <1>1, <1>2, <1>3, <1>4 DEF ReviewNext, Finished

(* The change checker implements the relational checker of each policy: it *)
(* takes its steps, in its order, though it follows the other as well.     *)
THEOREM EachIsCheckedAlone == ReviewSpec => EachIsChecked
<1>1. ReviewInit => \A s \in Change!Sides : Alone(s)!Init
    BY EachBegins
<1>2. ReviewInv /\ [ReviewNext]_reviewVars =>
          [\/ UNCHANGED changeVars
           \/ \A s \in Change!Sides : [Alone(s)!Next]_(Alone(s)!vars)]_changeVars
    BY EachGoesOn
<1> QED
    BY <1>1, <1>2, ReviewInvariant, PTL DEF ReviewSpec, EachIsChecked
=============================================================================
