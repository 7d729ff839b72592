---------------------------- MODULE WindowTheorems ----------------------------
(***************************************************************************)
(* What the rate limiter's and the nonce store's operators return, for     *)
(* every log, every set of markers and every time.                         *)
(***************************************************************************)
EXTENDS Windows, FiniteSetTheorems, TLAPS

(* The limiter pops a prefix of its log, so what it keeps is a log.        *)
LEMMA PoppedIsFinite ==
    ASSUME NEW log \in Seq(Int), NEW now \in Int, NEW period \in Int
    PROVE  /\ IsFiniteSet(Popped(log, now, period))
           /\ Cardinality(Popped(log, now, period)) \in 0..Len(log)
<1>1. Popped(log, now, period) \subseteq 1..Len(log)
    BY DEF Popped
<1> DEFINE n == Len(log)
<1> n \in Nat
    OBVIOUS
<1> HIDE DEF n
<1>2. IsFiniteSet(1..n) /\ Cardinality(1..n) = n
    BY FS_Interval
<1>3. /\ IsFiniteSet(Popped(log, now, period))
      /\ Cardinality(Popped(log, now, period)) <= Len(log)
    BY <1>1, <1>2, FS_Subset DEF n
<1> QED
    BY <1>3, FS_CardinalityType

LEMMA PurgeIsLog ==
    ASSUME NEW log \in Seq(Nat), NEW now \in Nat, NEW period \in Nat
    PROVE  Purge(log, now, period) \in Seq(Nat)
<1>1. log \in Seq(Int) /\ Len(log) \in Nat
    OBVIOUS
<1>2. Cardinality(Popped(log, now, period)) \in 0..Len(log)
    BY <1>1, PoppedIsFinite
<1> DEFINE n == Cardinality(Popped(log, now, period))
<1>3. n + 1 \in 1..(Len(log) + 1)
    BY <1>1, <1>2
<1> HIDE DEF n
<1>4. SubSeq(log, n + 1, Len(log)) \in Seq(Nat)
    BY <1>1, <1>3
<1> QED
    BY <1>4 DEF Purge, n

LEMMA ConsumeIsLog ==
    ASSUME NEW log \in Seq(Nat), NEW now \in Nat, NEW calls \in Nat, NEW period \in Nat
    PROVE  Consume(log, now, calls, period) \in Seq(Nat)
<1>1. Purge(log, now, period) \in Seq(Nat)
    BY PurgeIsLog
<1>2. Append(Purge(log, now, period), now) \in Seq(Nat)
    BY <1>1
<1> QED
    BY <1>1, <1>2 DEF Consume

(* Dropping the first n events of a log leaves the others in their order.  *)
LEMMA PurgeParts ==
    ASSUME NEW events \in Seq(Nat), NEW n \in 0..Len(events)
    PROVE  LET kept == SubSeq(events, n + 1, Len(events)) IN
           /\ kept \in Seq(Nat) /\ Len(kept) = Len(events) - n
           /\ \A i \in 1..Len(kept) : kept[i] = events[n + i]
<1> DEFINE kept == SubSeq(events, n + 1, Len(events))
<1>1. n + 1 \in 1..(Len(events) + 1) /\ Len(events) \in Nat /\ n \in Nat
    OBVIOUS
<1>2. kept \in Seq(Nat)
    BY <1>1
<1>3. Len(kept) = Len(events) - n
    BY <1>1
<1>4. ASSUME NEW i \in 1..(Len(events) - n)
      PROVE  kept[i] = events[n + i]
    BY <1>1
<1> HIDE DEF kept
<1>5. \A i \in 1..Len(kept) : kept[i] = events[n + i]
    BY <1>3, <1>4
<1> QED
    BY <1>2, <1>3, <1>5 DEF kept
=============================================================================
