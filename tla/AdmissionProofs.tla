---------------------------- MODULE AdmissionProofs ----------------------------
(***************************************************************************)
(* What a submission passes on its way to the policy keeps its promises,   *)
(* for any number of callers and envelopes, any clock skew and rate limit. *)
(* First the nonce store on its own: a captured envelope is authenticated  *)
(* at most once when a call is authenticated within a second of reading the*)
(* clock.  Then the nonce store and the rate limiter, asked with the same  *)
(* reading after a wait for the session's lock that nothing bounds.        *)
(***************************************************************************)
EXTENDS Admission, WindowTheorems

USE EnvelopesAreTyped, SkewIsPositive, AuthenticationIsPrompt, NoneIsNoEnvelope

Inv == TypeOK /\ Replays

-----------------------------------------------------------------------------
(* Dropping expired markers guards every envelope as well as before.       *)
LEMMA LiveMarkersGuard ==
    ASSUME TypeOK, NEW e \in Envelopes, Guarded(e), NEW now \in Nat, now <= clock,
           LiveMarkers(markers, now) \subseteq markers', clock' = clock
    PROVE  Guarded(e)'
<1> DEFINE bound == IssuedAt[e] + Skew + 1
<1>1. bound \in Nat /\ clock \in Nat
    BY DEF TypeOK
<1>2. CASE clock > bound
    BY <1>2 DEF Guarded
<1>3. CASE \E m \in markers : m.mark = NonceOf[e] /\ m.expiry >= bound
    <2>1. PICK m \in markers : m.mark = NonceOf[e] /\ m.expiry >= bound
        BY <1>3
    <2>2. m.expiry \in Int
        BY DEF TypeOK
    <2>3. CASE m.expiry >= now
        <3>1. m \in markers'
            BY <2>3 DEF LiveMarkers
        <3> QED
            BY <2>1, <3>1 DEF Guarded
    <2>4. CASE m.expiry < now
        <3>1. clock' > bound
            BY <1>1, <2>1, <2>2, <2>4
        <3> QED
            BY <3>1 DEF Guarded
    <2> QED
        BY <2>2, <2>3, <2>4
<1> QED
    BY <1>2, <1>3 DEF Guarded

(* A guarded envelope passes for no caller, however late its reading.      *)
LEMMA GuardedIsRefused ==
    ASSUME TypeOK, Lagging, NEW c \in Callers, carried[c] # None, Guarded(carried[c])
    PROVE  ~Passes(carried[c], stamp[c])
<1> DEFINE e == carried[c]
           bound == IssuedAt[e] + Skew + 1
<1>1. e \in Envelopes /\ stamp[c] \in Nat /\ clock \in Nat
    BY DEF TypeOK
<1>2. IssuedAt[e] \in Nat /\ bound \in Nat
    BY <1>1
<1>3. clock - stamp[c] <= 1
    BY <1>1 DEF Lagging
<1> SUFFICES ASSUME Fresh(IssuedAt[e], stamp[c], Skew) PROVE ~Unseen(markers, NonceOf[e], stamp[c])
    BY DEF Passes
<1>4. stamp[c] <= IssuedAt[e] + Skew
    BY <1>1, <1>2 DEF Fresh
<1>5. ~(clock > bound)
    BY <1>1, <1>2, <1>3, <1>4
<1>6. PICK m \in markers : m.mark = NonceOf[e] /\ m.expiry >= bound
    BY <1>5 DEF Guarded
<1>7. m.expiry \in Int
    BY DEF TypeOK
<1>8. m.expiry >= stamp[c]
    BY <1>1, <1>2, <1>4, <1>6, <1>7
<1> QED
    BY <1>6, <1>8 DEF Unseen, LiveMarkers

(* The marker an acceptance leaves outlives the freshness of its envelope. *)
LEMMA AcceptanceGuards ==
    ASSUME NEW e \in Envelopes, NEW now \in Nat, Fresh(IssuedAt[e], now, Skew),
           markers' = Remembered(e, now)
    PROVE  Guarded(e)'
<1> DEFINE m == [mark |-> NonceOf[e], expiry |-> now + Retention(Skew)]
<1>1. m \in markers' /\ m.mark = NonceOf[e]
    BY DEF Remembered, Remember
<1>2. IssuedAt[e] \in Nat /\ IssuedAt[e] - now <= Skew
    BY DEF Fresh
<1>3. m.expiry >= IssuedAt[e] + Skew + 1
    BY <1>2 DEF Retention
<1> QED
    BY <1>1, <1>3 DEF Guarded

-----------------------------------------------------------------------------
LEMMA InvInit == Init => Inv
BY DEF Init, Inv, TypeOK, Replays, Lagging

LEMMA DeliverInv == ASSUME Inv, NEW c \in Callers, NEW e \in Envelopes, Deliver(c, e) PROVE Inv'
<1>1. TypeOK'
    BY DEF Deliver, Inv, TypeOK
<1>2. Lagging'
    BY DEF Deliver, Inv, TypeOK, Replays, Lagging
<1>3. Replays'
    BY <1>2 DEF Deliver, Inv, Replays, Guarded
<1> QED
    BY <1>1, <1>3 DEF Inv

LEMMA AcceptInv == ASSUME Inv, NEW c \in Callers, Accept(c) PROVE Inv'
<1>0. PICK e \in Envelopes : e = carried[c]
    BY DEF Accept, Inv, TypeOK
<1>1. e \in Envelopes /\ stamp[c] \in Nat /\ clock \in Nat /\ stamp[c] <= clock /\ Lagging
    BY DEF Accept, Inv, TypeOK, Replays, Lagging
<1>2. Passes(e, stamp[c]) /\ Fresh(IssuedAt[e], stamp[c], Skew)
    BY <1>0 DEF Accept, Passes
<1>3. markers' = Remembered(e, stamp[c]) /\ LiveMarkers(markers, stamp[c]) \subseteq markers'
    BY <1>0 DEF Accept, Remembered, Remember
<1>4. \A m \in markers' : m.expiry \in Int
    <2>1. stamp[c] + Retention(Skew) \in Int
        BY <1>1 DEF Retention
    <2> QED
        BY <1>3, <2>1 DEF Remembered, Remember, LiveMarkers, Inv, TypeOK
<1>5. accepted[e] = 0
    BY <1>0, <1>1, <1>2, GuardedIsRefused DEF Inv, Replays, Accept
<1>6. accepted' = [accepted EXCEPT ![e] = 1]
    BY <1>0, <1>5 DEF Accept, Inv, TypeOK
<1>7. TypeOK'
    BY <1>1, <1>4, <1>6 DEF Accept, Inv, TypeOK
<1>8. Lagging'
    BY DEF Accept, Inv, TypeOK, Replays, Lagging
<1>9. Guarded(e)'
    BY <1>1, <1>2, <1>3, AcceptanceGuards
<1>10. \A f \in Envelopes : Guarded(f) => Guarded(f)'
    BY <1>1, <1>3, LiveMarkersGuard DEF Inv, Accept
<1>11. Replays'
    BY <1>1, <1>6, <1>8, <1>9, <1>10 DEF Inv, Replays, TypeOK
<1> QED
    BY <1>7, <1>11 DEF Inv

LEMMA RefuseInv == ASSUME Inv, NEW c \in Callers, Refuse(c) PROVE Inv'
<1>1. stamp[c] \in Nat /\ clock \in Nat /\ stamp[c] <= clock
    BY DEF Refuse, Inv, TypeOK, Replays, Lagging
<1>2. LiveMarkers(markers, stamp[c]) \subseteq markers' /\ markers' \subseteq markers
    BY DEF Refuse, LiveMarkers
<1>3. TypeOK'
    BY <1>2 DEF Refuse, Inv, TypeOK
<1>4. Lagging'
    BY DEF Refuse, Inv, TypeOK, Replays, Lagging
<1>5. \A f \in Envelopes : Guarded(f) => Guarded(f)'
    BY <1>1, <1>2, LiveMarkersGuard DEF Inv, Refuse
<1>6. Replays'
    BY <1>4, <1>5 DEF Refuse, Inv, Replays
<1> QED
    BY <1>3, <1>6 DEF Inv

LEMMA TickInv == ASSUME Inv, Tick PROVE Inv'
<1>1. clock \in Nat /\ clock' = clock + 1
    BY DEF Tick, Inv, TypeOK
<1>2. TypeOK'
    BY <1>1 DEF Tick, Inv, TypeOK
<1>3. Lagging'
    <2> SUFFICES ASSUME NEW c \in Callers, carried[c] # None
                 PROVE  stamp[c] <= clock' /\ clock' - stamp[c] <= MaxLag
        BY DEF Tick, Lagging
    <2>1. stamp[c] \in Nat /\ stamp[c] <= clock /\ clock - stamp[c] < MaxLag
        BY DEF Tick, Inv, TypeOK, Replays, Lagging
    <2> QED
        BY <1>1, <2>1
<1>4. \A e \in Envelopes : Guarded(e) => Guarded(e)'
    BY <1>1 DEF Tick, Guarded
<1>5. Replays'
    BY <1>3, <1>4 DEF Tick, Inv, Replays
<1> QED
    BY <1>2, <1>5 DEF Inv

LEMMA StepInv == ASSUME Inv, [Next]_vars PROVE Inv'
<1>1. CASE UNCHANGED vars
    BY <1>1 DEF vars, Inv, TypeOK, Replays, Lagging, Guarded
<1> QED
    BY <1>1, DeliverInv, AcceptInv, RefuseInv, TickInv DEF Next

(* Every accepted envelope is guarded by its marker, or by the clock, in   *)
(* every behaviour of the nonce store.                                     *)
THEOREM ReplaysAreGuarded == Spec => []Replays
<1>1. Init => Inv
    BY InvInit
<1>2. Inv /\ [Next]_vars => Inv'
    BY StepInv
<1>3. Inv => Replays
    BY DEF Inv
<1> QED
    BY <1>1, <1>2, <1>3, PTL DEF Spec

(* Consequently no envelope is authenticated twice.                        *)
THEOREM EnvelopesAreAcceptedOnce == Spec => []AcceptedOnce
<1>1. Replays => AcceptedOnce
    BY DEF Replays, AcceptedOnce
<1> QED
    BY <1>1, ReplaysAreGuarded, PTL

-----------------------------------------------------------------------------
(* The limiter's deque against the calls it admitted.  It holds the times  *)
(* at which the last admitted calls came; a call it has forgotten came     *)
(* before the window began, and time moves on from one to the next.        *)
Calls == Seq([came : Nat, at : Nat])

Aligned(events, calls, now) ==
    LET k == Len(calls) - Len(events) IN
    /\ events \in Seq(Nat) /\ calls \in Calls
    /\ Len(events) <= Len(calls) /\ Len(events) <= RateCalls
    /\ \A i \in 1..Len(events) : events[i] = calls[k + i].came
    /\ \A j \in 1..Len(calls) : j <= k => calls[j].came <= now - RatePeriod
    /\ \A j \in 1..Len(calls) : calls[j].came <= calls[j].at /\ calls[j].at <= now
    /\ \A i, j \in 1..Len(calls) : i <= j => calls[i].at <= calls[j].at

(* As many calls as the limit allows were admitted later than this.        *)
Crowded(calls, since) ==
    \E k \in Nat : /\ k + RateCalls <= Len(calls)
                   /\ \A j \in 1..Len(calls) : j > k => calls[j].at > since

LEMMA CallsAreTimed ==
    ASSUME NEW calls \in Calls, NEW j \in 1..Len(calls)
    PROVE  calls[j].came \in Nat /\ calls[j].at \in Nat
<1> DEFINE Call == [came : Nat, at : Nat]
<1>1. calls \in Seq(Call)
    BY DEF Calls
<1> HIDE DEF Call
<1>2. calls[j] \in Call
    BY <1>1
<1> QED
    BY <1>2 DEF Call

(* The calls the limiter pops are the first ones, all out of the window,   *)
(* and the one after them is in it.                                        *)
LEMMA PoppedIsPrefix ==
    ASSUME NEW events \in Seq(Nat), NEW now \in Nat, NEW period \in Nat
    PROVE  LET n == Cardinality(Popped(events, now, period)) IN
           /\ n \in 0..Len(events)
           /\ \A i \in 1..n : events[i] <= now - period
           /\ n < Len(events) => events[n + 1] > now - period
<1> DEFINE S == Popped(events, now, period)
           n == Cardinality(S)
<1>1. IsFiniteSet(S) /\ n \in 0..Len(events)
    BY PoppedIsFinite
<1>2. S \subseteq 1..Len(events) /\ \A i \in S : 1..i \subseteq S
    BY DEF Popped
<1>3. \A i \in S : i <= n
    <2> SUFFICES ASSUME NEW i \in S PROVE i <= n
        OBVIOUS
    <2>1. i \in Nat /\ i >= 1 /\ Cardinality(1..i) = i
        BY <1>2, FS_Interval
    <2> QED
        BY <1>1, <1>2, <2>1, FS_Subset
<1>4. S = 1..n
    <2> HIDE DEF S
    <2>1. S \subseteq 1..n /\ n \in Nat
        BY <1>1, <1>2, <1>3
    <2>2. IsFiniteSet(1..n) /\ Cardinality(1..n) = n
        BY <2>1, FS_Interval
    <2> QED
        BY <2>1, <2>2, FS_Subset
<1>7. n \in Nat /\ n <= Len(events)
    BY <1>1
<1> HIDE DEF S, n
<1>5. \A i \in 1..n : events[i] <= now - period
    <2> SUFFICES ASSUME NEW i \in 1..n PROVE events[i] <= now - period
        OBVIOUS
    <2>1. i \in S /\ i \in 1..i
        BY <1>4
    <2> QED
        BY <2>1 DEF S, Popped
<1>6. ASSUME n < Len(events) PROVE events[n + 1] > now - period
    <2>1. n + 1 \in 1..Len(events) /\ n + 1 \notin S /\ n \in Nat
        BY <1>4, <1>6, <1>7
    <2>2. PICK j \in 1..(n + 1) : ~(events[j] <= now - period)
        BY <2>1 DEF S, Popped
    <2>3. j = n + 1
        BY <1>5, <2>1, <2>2
    <2>4. events[n + 1] \in Nat /\ now - period \in Int
        BY <2>1
    <2> QED
        BY <2>2, <2>3, <2>4
<1> QED
    BY <1>5, <1>6, <1>7 DEF S, n

(* Consulting the limiter keeps the deque aligned.  When it refuses, even  *)
(* the first call in the deque came in the window, so that all of them     *)
(* were admitted in it, whatever they had read.                            *)
LEMMA PurgeStaysAligned ==
    ASSUME NEW events, NEW calls, NEW now \in Nat, NEW came \in Nat,
           came <= now, Aligned(events, calls, now)
    PROVE  LET kept == Purge(events, came, RatePeriod) IN
           /\ Aligned(kept, calls, now)
           /\ Len(kept) >= RateCalls => Crowded(calls, came - RatePeriod)
<1> DEFINE n == Cardinality(Popped(events, came, RatePeriod))
           kept == Purge(events, came, RatePeriod)
           k == Len(calls) - Len(events)
           t == Len(calls)
           l == Len(events)
<1>1. /\ events \in Seq(Nat) /\ calls \in Calls /\ l \in Nat /\ t \in Nat /\ l <= t /\ l <= RateCalls
      /\ RatePeriod \in Nat /\ RateCalls \in Nat /\ RateCalls >= 1
    BY LimitIsPositive DEF Aligned, Calls
<1>2. /\ n \in 0..l
      /\ \A i \in 1..n : events[i] <= came - RatePeriod
      /\ n < l => events[n + 1] > came - RatePeriod
    BY <1>1, PoppedIsPrefix
<1> HIDE DEF n
<1>3. /\ kept \in Seq(Nat) /\ Len(kept) = l - n
      /\ \A i \in 1..Len(kept) : kept[i] = events[n + i]
    BY <1>1, <1>2, PurgeParts DEF Purge, n
<1>4. /\ \A i \in 1..l : events[i] = calls[k + i].came
      /\ \A j \in 1..t : j <= k => calls[j].came <= now - RatePeriod
      /\ \A j \in 1..t : calls[j].came <= calls[j].at /\ calls[j].at <= now
      /\ \A i, j \in 1..t : i <= j => calls[i].at <= calls[j].at
    BY DEF Aligned
<1>5. \A j \in 1..t : calls[j].came \in Nat /\ calls[j].at \in Nat
    BY <1>1, CallsAreTimed
<1>6. k \in Nat /\ n \in Nat /\ n <= l /\ k + l = t /\ t - Len(kept) = k + n /\ Len(kept) \in Nat
    BY <1>1, <1>2, <1>3
<1> HIDE DEF kept, k, t, l
<1>7. \A i \in 1..Len(kept) : kept[i] = calls[(k + n) + i].came
    <2> SUFFICES ASSUME NEW i \in 1..Len(kept) PROVE kept[i] = calls[(k + n) + i].came
        OBVIOUS
    <2>1. n + i \in 1..l /\ k + (n + i) = (k + n) + i
        BY <1>1, <1>3, <1>6
    <2> QED
        BY <1>3, <1>4, <2>1
<1>8. \A j \in 1..t : j <= k + n => calls[j].came <= now - RatePeriod
    <2> SUFFICES ASSUME NEW j \in 1..t, k < j, j <= k + n PROVE calls[j].came <= now - RatePeriod
        BY <1>1, <1>4, <1>6
    <2>1. j - k \in 1..n /\ j - k \in 1..l /\ k + (j - k) = j
        BY <1>1, <1>6
    <2>2. calls[j].came <= came - RatePeriod
        BY <1>2, <1>4, <2>1
    <2>3. calls[j].came \in Nat
        BY <1>5
    <2> QED
        BY <1>1, <2>2, <2>3
<1>9. Aligned(kept, calls, now)
    <2>1. Len(kept) <= Len(calls) /\ Len(kept) <= RateCalls
        BY <1>1, <1>3, <1>6 DEF t
    <2> QED
        BY <1>1, <1>3, <1>4, <1>6, <1>7, <1>8, <2>1 DEF Aligned, t
<1>10. ASSUME Len(kept) >= RateCalls PROVE Crowded(calls, came - RatePeriod)
    <2> DEFINE first == (k + n) + 1
    <2>1. n < l /\ n + 1 \in 1..l /\ k + (n + 1) = first /\ first \in 1..t
        BY <1>1, <1>3, <1>6, <1>10
    <2>2. calls[first].came > came - RatePeriod
        BY <1>2, <1>4, <2>1
    <2>3. ASSUME NEW j \in 1..t, j > k + n PROVE calls[j].at > came - RatePeriod
        <3>1. first <= j
            BY <1>6, <2>3
        <3>2. calls[first].came <= calls[first].at /\ calls[first].at <= calls[j].at
            BY <1>4, <2>1, <3>1
        <3>3. /\ calls[first].came \in Nat /\ calls[first].at \in Nat /\ calls[j].at \in Nat
              /\ came - RatePeriod \in Int
            BY <1>1, <1>5, <2>1
        <3> QED
            BY <2>2, <3>2, <3>3
    <2>4. k + n \in Nat /\ (k + n) + RateCalls <= t
        BY <1>1, <1>6, <1>10
    <2> QED
        BY <2>3, <2>4 DEF Crowded, t
<1> QED
    BY <1>9, <1>10 DEF kept

LEMMA AdmittedStaysAligned ==
    ASSUME NEW kept, NEW calls, NEW now \in Nat, NEW came \in Nat, came <= now,
           Aligned(kept, calls, now), Len(kept) < RateCalls
    PROVE  Aligned(Append(kept, came), Append(calls, [came |-> came, at |-> now]), now)
<1> DEFINE k == Len(calls) - Len(kept)
           l == Len(kept)
           t == Len(calls)
           call == [came |-> came, at |-> now]
           events == Append(kept, came)
           later == Append(calls, call)
<1>1. /\ kept \in Seq(Nat) /\ calls \in Calls
      /\ l \in Nat /\ t \in Nat /\ l <= t /\ RateCalls \in Nat /\ l < RateCalls
    BY LimitIsPositive DEF Aligned, Calls
<1>2. /\ events \in Seq(Nat) /\ Len(events) = l + 1 /\ events[l + 1] = came
      /\ \A i \in 1..l : events[i] = kept[i]
    BY <1>1
<1>3. /\ later \in Calls /\ Len(later) = t + 1 /\ later[t + 1] = call
      /\ \A i \in 1..t : later[i] = calls[i]
    BY <1>1 DEF Calls
<1>4. /\ \A i \in 1..l : kept[i] = calls[k + i].came
      /\ \A j \in 1..t : j <= k => calls[j].came <= now - RatePeriod
      /\ \A j \in 1..t : calls[j].came <= calls[j].at /\ calls[j].at <= now
      /\ \A i, j \in 1..t : i <= j => calls[i].at <= calls[j].at
    BY DEF Aligned
<1>5. Len(later) - Len(events) = k /\ k \in Nat /\ k + l = t /\ k <= t
    BY <1>1, <1>2, <1>3
<1>6. call.came = came /\ call.at = now
    OBVIOUS
<1> HIDE DEF events, later, k, l, t, call
<1>7. \A i \in 1..(l + 1) : i \in 1..l \/ i = l + 1
    BY <1>1
<1>8. \A i \in 1..(t + 1) : i \in 1..t \/ i = t + 1
    BY <1>1
<1>9. \A i \in 1..(l + 1) : events[i] = later[k + i].came
    <2>1. ASSUME NEW i \in 1..l PROVE events[i] = later[k + i].came
        <3>1. k + i \in 1..t
            BY <1>1, <1>5
        <3> QED
            BY <1>2, <1>3, <1>4, <3>1
    <2>2. k + (l + 1) = t + 1
        BY <1>1, <1>5
    <2>3. events[l + 1] = later[k + (l + 1)].came
        BY <1>2, <1>3, <1>6, <2>2
    <2> QED
        BY <1>7, <2>1, <2>3
<1>10. \A j \in 1..(t + 1) : j <= k => later[j].came <= now - RatePeriod
    BY <1>1, <1>3, <1>4, <1>5, <1>8
<1>11. \A j \in 1..(t + 1) : later[j].came <= later[j].at /\ later[j].at <= now
    BY <1>3, <1>4, <1>6, <1>8
<1>12. \A i, j \in 1..(t + 1) : i <= j => later[i].at <= later[j].at
    <2> SUFFICES ASSUME NEW i \in 1..(t + 1), NEW j \in 1..(t + 1), i <= j
                 PROVE  later[i].at <= later[j].at
        OBVIOUS
    <2>1. CASE j \in 1..t
        <3>1. i \in 1..t
            BY <1>1, <2>1
        <3> QED
            BY <1>3, <1>4, <2>1, <3>1
    <2>2. CASE j = t + 1
        BY <1>3, <1>6, <1>11, <2>2
    <2> QED
        BY <1>8, <2>1, <2>2
<1>13. l + 1 <= t + 1 /\ l + 1 <= RateCalls
    BY <1>1
<1> QED
    BY <1>2, <1>3, <1>5, <1>9, <1>10, <1>11, <1>12, <1>13 DEF Aligned, events, later, call

LEMMA TimePassesAligned ==
    ASSUME NEW events, NEW calls, NEW now \in Nat, Aligned(events, calls, now)
    PROVE  Aligned(events, calls, now + 1)
<1>1. RatePeriod \in Nat /\ \A j \in 1..Len(calls) : calls[j].came \in Nat /\ calls[j].at \in Nat
    BY LimitIsPositive, CallsAreTimed DEF Aligned
<1>2. \A j \in 1..Len(calls) : calls[j].at <= now => calls[j].at <= now + 1
    BY <1>1
<1>3. \A j \in 1..Len(calls) :
         calls[j].came <= now - RatePeriod => calls[j].came <= (now + 1) - RatePeriod
    BY <1>1
<1> QED
    BY <1>2, <1>3 DEF Aligned

-----------------------------------------------------------------------------
(* The two in one step: callers that wait have read the clock, however long*)
(* ago, the deque is aligned, and a call that was refused met a crowd.     *)
LimiterInv ==
    /\ waiting \in [Callers -> BOOLEAN]
    /\ \A c \in Callers : waiting[c] => stamp[c] <= clock
    /\ Aligned(log, admitted, clock)
    /\ refused # None => refused \in Nat /\ Crowded(admitted, refused - RatePeriod)

LEMMA CardinalityIsShared == ASSUME NEW S PROVE Limiter!Cardinality(S) = Cardinality(S)
BY DEF Limiter!Cardinality, Cardinality

LEMMA WindowIsShared ==
    ASSUME NEW events, NEW now, NEW period
    PROVE  Limiter!Purge(events, now, period) = Purge(events, now, period)
BY CardinalityIsShared DEF Limiter!Purge, Limiter!Popped, Purge, Popped

LEMMA ConsultInv ==
    ASSUME Aligned(log, admitted, clock), clock \in Nat, NEW came \in Nat, came <= clock,
           Limiter!Consult(came)
    PROVE  /\ Aligned(log', admitted', clock)
           /\ refused' # None => refused' \in Nat /\ Crowded(admitted', refused' - RatePeriod)
<1> DEFINE kept == Purge(log, came, RatePeriod)
<1>1. /\ Aligned(kept, admitted, clock)
      /\ Len(kept) >= RateCalls => Crowded(admitted, came - RatePeriod)
    BY PurgeStaysAligned
<1>2. /\ log' = IF Len(kept) < RateCalls THEN Append(kept, came) ELSE kept
      /\ \/ /\ Len(kept) < RateCalls
            /\ admitted' = Append(admitted, [came |-> came, at |-> clock])
            /\ refused' = None
         \/ /\ ~(Len(kept) < RateCalls)
            /\ refused' = came
            /\ admitted' = admitted
    BY WindowIsShared DEF Limiter!Consult, Limiter!Consumed, Limiter!Consume, Limiter!Admits,
                          Limiter!Period
<1> HIDE DEF kept
<1>3. Len(kept) \in Nat /\ RateCalls \in Nat
    BY <1>1, LimitIsPositive DEF Aligned
<1>4. CASE Len(kept) < RateCalls
    <2>1. Aligned(Append(kept, came), Append(admitted, [came |-> came, at |-> clock]), clock)
        BY <1>1, <1>4, AdmittedStaysAligned
    <2>2. /\ log' = Append(kept, came) /\ refused' = None
          /\ admitted' = Append(admitted, [came |-> came, at |-> clock])
        BY <1>2, <1>4
    <2> QED
        BY <2>1, <2>2
<1>5. CASE ~(Len(kept) < RateCalls)
    <2>1. Len(kept) >= RateCalls
        BY <1>3, <1>5
    <2> QED
        BY <1>1, <1>2, <1>5, <2>1
<1> QED
    BY <1>4, <1>5

LEMMA AsksInv ==
    ASSUME Inv, LimiterInv, NEW c \in Callers, Asks(c) PROVE LimiterInv'
<1>1. UNCHANGED <<clock, stamp>> /\ clock \in Nat /\ stamp[c] \in Nat /\ stamp[c] <= clock
    BY DEF Asks, vars, Inv, TypeOK, LimiterInv
<1>2. /\ Aligned(log', admitted', clock)
      /\ refused' # None => refused' \in Nat /\ Crowded(admitted', refused' - RatePeriod)
    BY <1>1, ConsultInv DEF Asks, LimiterInv
<1>3. waiting' = [waiting EXCEPT ![c] = FALSE]
    BY DEF Asks
<1>4. waiting' \in [Callers -> BOOLEAN] /\ \A d \in Callers : waiting'[d] => waiting[d]
    BY <1>3 DEF LimiterInv
<1> QED
    BY <1>1, <1>2, <1>4 DEF LimiterInv

LEMMA AuthenticationInv ==
    ASSUME Inv, LimiterInv, NEW c \in Callers,
           (\E e \in Envelopes : Submit(c, e)) \/ Authenticated(c) \/ Rejected(c)
    PROVE  LimiterInv'
<1>1. UNCHANGED <<clock, limiterVars>> /\ waiting' \in [Callers -> BOOLEAN]
    BY DEF Submit, Deliver, Authenticated, Accept, Rejected, Refuse, LimiterInv
<1>2. \A d \in Callers : waiting'[d] => stamp'[d] <= clock
    <2>1. CASE \E e \in Envelopes : Submit(c, e)
        <3>1. waiting' = waiting /\ ~waiting[c] /\ \A d \in Callers \ {c} : stamp'[d] = stamp[d]
            BY <2>1 DEF Submit, Deliver, Inv, TypeOK
        <3> QED
            BY <3>1 DEF LimiterInv
    <2>2. CASE Authenticated(c)
        <3>1. stamp' = stamp /\ stamp[c] <= clock
            BY <2>2 DEF Authenticated, Accept, Inv, Replays, Lagging
        <3>2. \A d \in Callers \ {c} : waiting'[d] = waiting[d]
            BY <2>2 DEF Authenticated, LimiterInv
        <3> QED
            BY <3>1, <3>2 DEF LimiterInv
    <2>3. CASE Rejected(c)
        BY <2>3 DEF Rejected, Refuse, LimiterInv
    <2> QED
        BY <2>1, <2>2, <2>3
<1> QED
    BY <1>1, <1>2 DEF LimiterInv, limiterVars

LEMMA AdmissionTickInv == ASSUME Inv, LimiterInv, AdmissionTick PROVE LimiterInv'
<1>1. /\ clock \in Nat /\ clock' = clock + 1
      /\ UNCHANGED <<stamp, waiting, log, admitted, refused>>
    BY DEF AdmissionTick, Tick, Inv, TypeOK, limiterVars
<1>2. \A c \in Callers : waiting'[c] => stamp'[c] <= clock'
    <2> SUFFICES ASSUME NEW c \in Callers, waiting[c] PROVE stamp[c] <= clock + 1
        BY <1>1
    <2>1. stamp[c] \in Nat /\ stamp[c] <= clock
        BY DEF Inv, TypeOK, LimiterInv
    <2> QED
        BY <1>1, <2>1
<1>3. Aligned(log, admitted, clock + 1)
    BY <1>1, TimePassesAligned DEF LimiterInv
<1>4. Aligned(log', admitted', clock')
    BY <1>1, <1>3
<1> QED
    BY <1>1, <1>2, <1>4 DEF LimiterInv

LEMMA AdmissionStepInv == ASSUME Inv, LimiterInv, [AdmissionNext]_admissionVars PROVE LimiterInv'
<1>1. CASE UNCHANGED admissionVars
    BY <1>1 DEF admissionVars, vars, limiterVars, LimiterInv
<1> QED
    BY <1>1, AsksInv, AuthenticationInv, AdmissionTickInv DEF AdmissionNext, Finished

LEMMA AdmissionStarts == AdmissionInit => LimiterInv
<1> SUFFICES ASSUME AdmissionInit PROVE LimiterInv
    OBVIOUS
<1>1. Len(log) = 0 /\ Len(admitted) = 0 /\ log \in Seq(Nat) /\ admitted \in Calls
    BY DEF AdmissionInit, Calls
<1>2. Aligned(log, admitted, clock)
    BY <1>1, LimitIsPositive DEF Aligned
<1> QED
    BY <1>2 DEF AdmissionInit, LimiterInv

-----------------------------------------------------------------------------
(* Calls that came in the window are in the deque, and a crowd is as large *)
(* as the limit.                                                           *)
LEMMA AlignedLimits ==
    ASSUME LimiterInv, clock \in Nat PROVE LaggedLimit /\ RefusalIsEarned
<1> DEFINE t == Len(admitted)
           l == Len(log)
           late == {i \in DOMAIN admitted : admitted[i].came > clock - RatePeriod}
           last == (t - l + 1)..t
<1>1. Aligned(log, admitted, clock)
    BY DEF LimiterInv
<1>2. /\ t \in Nat /\ l \in Nat /\ l <= t /\ l <= RateCalls /\ RateCalls \in Nat
      /\ DOMAIN admitted = 1..t /\ \A j \in 1..t : admitted[j].came \in Nat
      /\ RatePeriod \in Nat
    <2>1. admitted \in Calls
        BY <1>1 DEF Aligned
    <2>2. DOMAIN admitted = 1..t /\ t \in Nat
        BY <2>1 DEF Calls
    <2>3. \A j \in 1..t : admitted[j].came \in Nat
        BY <2>1, CallsAreTimed
    <2> QED
        BY <1>1, <2>2, <2>3, LimitIsPositive DEF Aligned
<1>3. \A j \in 1..t : j <= t - l => ~(admitted[j].came > clock - RatePeriod)
    <2> SUFFICES ASSUME NEW j \in 1..t, j <= t - l
                 PROVE  ~(admitted[j].came > clock - RatePeriod)
        OBVIOUS
    <2>1. admitted[j].came <= clock - RatePeriod
        BY <1>1 DEF Aligned
    <2> QED
        BY <1>2, <2>1
<1> HIDE DEF t, l
<1>4. IsFiniteSet(1..t) /\ \A k \in Nat : k <= t =>
          IsFiniteSet((k + 1)..t) /\ Cardinality((k + 1)..t) = t - k
    <2>1. t \in Int /\ 1 \in Int
        BY <1>2
    <2>2. ASSUME NEW k \in Nat, k <= t
          PROVE  IsFiniteSet((k + 1)..t) /\ Cardinality((k + 1)..t) = t - k
        <3> DEFINE first == k + 1
        <3>1. first \in Int /\ (first > t => t - k = 0) /\ (t - first) + 1 = t - k
            BY <1>2, <2>2
        <3> HIDE DEF first
        <3>2. /\ IsFiniteSet(first..t)
              /\ Cardinality(first..t) = IF first > t THEN 0 ELSE (t - first) + 1
            BY <2>1, <3>1, FS_Interval
        <3> QED
            BY <3>1, <3>2 DEF first
    <2> QED
        BY <2>1, <2>2, FS_Interval
<1>5. Cardinality(late) <= RateCalls
    <2>1. late \subseteq last
        BY <1>2, <1>3
    <2>2. IsFiniteSet(last) /\ Cardinality(last) = l
        <3>1. t - l \in Nat /\ t - l <= t /\ t - (t - l) = l
            BY <1>2
        <3> QED
            BY <1>4, <3>1
    <2> HIDE DEF late, last
    <2>3. Cardinality(late) <= l /\ IsFiniteSet(late)
        BY <2>1, <2>2, FS_Subset
    <2>4. Cardinality(late) \in Nat
        BY <2>3, FS_CardinalityType
    <2> QED
        BY <1>2, <2>3, <2>4
<1>6. ASSUME refused # None
      PROVE  Cardinality({i \in DOMAIN admitted : admitted[i].at > refused - RatePeriod}) >= RateCalls
    <2> DEFINE near == {i \in DOMAIN admitted : admitted[i].at > refused - RatePeriod}
               others(k) == (k + 1)..t
    <2>1. PICK k \in Nat : /\ k + RateCalls <= t
                           /\ \A j \in 1..t : j > k => admitted[j].at > refused - RatePeriod
        BY <1>6 DEF LimiterInv, Crowded, t
    <2>2. others(k) \subseteq near /\ near \subseteq 1..t
        BY <1>2, <2>1
    <2>3. Cardinality(others(k)) = t - k /\ k <= t
        BY <1>2, <1>4, <2>1
    <2> HIDE DEF near, others
    <2>4. IsFiniteSet(near)
        BY <1>4, <2>2, FS_Subset
    <2>5. t - k <= Cardinality(near) /\ Cardinality(near) \in Nat
        BY <2>2, <2>3, <2>4, FS_Subset, FS_CardinalityType
    <2>6. Cardinality(near) >= RateCalls
        BY <1>2, <2>1, <2>5
    <2> QED
        BY <2>6 DEF near
<1>7. LaggedLimit
    BY <1>5, CardinalityIsShared DEF LaggedLimit, Limiter!LaggedLimit, late
<1>8. RefusalIsEarned
    BY <1>6, CardinalityIsShared DEF RefusalIsEarned, Limiter!RefusalIsEarned
<1> QED
    BY <1>7, <1>8

(* A step of the two is a step of the nonce store, or invisible to it.     *)
THEOREM AdmissionKeepsNonces == AdmissionSpec => Spec
<1>1. AdmissionInit => Init
    BY DEF AdmissionInit
<1>2. [AdmissionNext]_admissionVars => [Next]_vars
    BY DEF AdmissionNext, Submit, Authenticated, Rejected, Asks, AdmissionTick, Finished, Next,
           admissionVars, vars
<1> QED
    BY <1>1, <1>2, PTL DEF AdmissionSpec, Spec

LEMMA AdmissionInvariant == AdmissionSpec => [](Inv /\ LimiterInv)
<1>1. AdmissionInit => Inv /\ LimiterInv
    BY InvInit, AdmissionStarts DEF AdmissionInit
<1>2. Inv /\ LimiterInv /\ [AdmissionNext]_admissionVars => Inv' /\ LimiterInv'
    <2>1. [AdmissionNext]_admissionVars => [Next]_vars
        BY DEF AdmissionNext, Submit, Authenticated, Rejected, Asks, AdmissionTick, Finished, Next,
               admissionVars, vars
    <2> QED
        BY <2>1, StepInv, AdmissionStepInv
<1> QED
    BY <1>1, <1>2, PTL DEF AdmissionSpec

(* However long callers wait for the session's lock: at no time have more  *)
(* admitted calls than the limit come within the period before it.         *)
THEOREM LimitHoldsDespiteLag == AdmissionSpec => []LaggedLimit
<1>1. Inv /\ LimiterInv => LaggedLimit
    BY AlignedLimits DEF Inv, TypeOK
<1> QED
    BY <1>1, AdmissionInvariant, PTL

(* However long callers wait: a call is refused only when as many calls as *)
(* the limit were admitted since a period before it came, although stale   *)
(* readings may keep calls that came earlier in the deque.                 *)
THEOREM RefusalsAreEarned == AdmissionSpec => []RefusalIsEarned
<1>1. Inv /\ LimiterInv => RefusalIsEarned
    BY AlignedLimits DEF Inv, TypeOK
<1> QED
    BY <1>1, AdmissionInvariant, PTL
=============================================================================
