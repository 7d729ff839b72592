------------------------------- MODULE Windows -------------------------------
(***************************************************************************)
(* The two time windows of the gateway process: the nonce markers of       *)
(* auth.py and the per-tool call log of rate_limit.py, as operators on     *)
(* their data.  Time is a whole number of seconds.                         *)
(***************************************************************************)
EXTENDS Integers, Sequences, FiniteSets

(* Authenticator.authenticate: the envelope's issue time is near enough.   *)
Fresh(issued, now, skew) == now - issued <= skew /\ issued - now <= skew

Retention(skew) == 2 * skew + 1

(* NonceStore.consume drops the markers that expired before now ...        *)
LiveMarkers(markers, now) == {m \in markers : m.expiry >= now}

(* ... and accepts a marker it no longer holds.                            *)
Unseen(markers, mark, now) == \A m \in LiveMarkers(markers, now) : m.mark # mark

Remember(markers, mark, now, skew) ==
    LiveMarkers(markers, now) \cup {[mark |-> mark, expiry |-> now + Retention(skew)]}

-----------------------------------------------------------------------------
(* The calls the limiter forgets: it pops the head of the log as long as   *)
(* that is at or before the boundary, and stops at the first younger one.  *)
Popped(log, now, period) == {i \in DOMAIN log : \A j \in 1..i : log[j] <= now - period}

Purge(log, now, period) ==
    SubSeq(log, Cardinality(Popped(log, now, period)) + 1, Len(log))

Admits(log, now, calls, period) == Len(Purge(log, now, period)) < calls

(* SlidingWindowRateLimiter.consume: a refused call still purges the log.  *)
Consume(log, now, calls, period) ==
    IF Admits(log, now, calls, period)
    THEN Append(Purge(log, now, period), now)
    ELSE Purge(log, now, period)
=============================================================================
