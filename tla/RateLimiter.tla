----------------------------- MODULE RateLimiter -----------------------------
(***************************************************************************)
(* The sliding window of one principal and tool over real time.  submit    *)
(* reads the clock on entry; the limiter is asked only once the session    *)
(* lock is held, with that earlier time.  Nothing bounds the time between: *)
(* the holder of the in-memory lock runs its adapter under it, and SQLite  *)
(* waits for as long as its busy timeout says.                             *)
(***************************************************************************)
EXTENDS Integers, Sequences, FiniteSets, Windows

CONSTANTS Callers, RateCalls, RatePeriod, None, MaxClock

VARIABLES
    clock,
    stamp,      \* the time a waiting caller read, None when it is not waiting
    log,        \* the limiter's deque for this principal and tool
    admitted,   \* meta: per admitted call, the time it read and that of its admission
    refused     \* meta: the time read by the call refused last, None once one is admitted

vars == <<clock, stamp, log, admitted, refused>>

Init ==
    /\ clock = 0
    /\ stamp = [c \in Callers |-> None]
    /\ log = << >> /\ admitted = << >>
    /\ refused = None

Arrive(c) ==
    /\ stamp[c] = None
    /\ stamp' = [stamp EXCEPT ![c] = clock]
    /\ UNCHANGED <<clock, log, admitted, refused>>

(* Slip: the window is a second short.                                     *)
PeriodEarly == RatePeriod - 1
Period == RatePeriod

(* Slip: a refused call is logged as well.                                 *)
ConsumeAlways(events, now) == Append(Purge(events, now, Period), now)
Consumed(events, now) == Consume(events, now, RateCalls, Period)

(* The limiter is asked by a caller that has read this time.               *)
Consult(now) ==
    /\ log' = Consumed(log, now)
    /\ \/ /\ Admits(log, now, RateCalls, Period)
          /\ admitted' = Append(admitted, [came |-> now, at |-> clock])
          /\ refused' = None
       \/ /\ ~Admits(log, now, RateCalls, Period)
          /\ refused' = now
          /\ UNCHANGED admitted

Ask(c) ==
    /\ stamp[c] # None
    /\ Consult(stamp[c])
    /\ stamp' = [stamp EXCEPT ![c] = None]
    /\ UNCHANGED clock

Tick ==
    /\ clock < MaxClock
    /\ clock' = clock + 1
    /\ UNCHANGED <<stamp, log, admitted, refused>>

(* The model's time is over.                                               *)
Finished == clock = MaxClock /\ UNCHANGED vars

Next == (\E c \in Callers : Arrive(c) \/ Ask(c)) \/ Tick \/ Finished

Spec == Init /\ [][Next]_vars

-----------------------------------------------------------------------------
(* The limit as the documentation words it: no more than RateCalls calls   *)
(* are admitted within RatePeriod seconds.                                 *)
WindowLimit ==
    Cardinality({i \in DOMAIN admitted : admitted[i].at > clock - RatePeriod}) <= RateCalls

(* What holds of stale readings: an admitted call counts for RatePeriod    *)
(* seconds from when it came, however late it was admitted, so its window  *)
(* is shorter by its own wait.                                             *)
LaggedLimit ==
    Cardinality({i \in DOMAIN admitted : admitted[i].came > clock - RatePeriod}) <= RateCalls

(* Nobody is refused unless RateCalls calls were admitted since RatePeriod *)
(* seconds before it came, though stale readings may leave calls that came *)
(* long before in the deque, behind younger ones.                          *)
RefusalIsEarned ==
    refused # None =>
       Cardinality({i \in DOMAIN admitted : admitted[i].at > refused - RatePeriod}) >= RateCalls
=============================================================================
