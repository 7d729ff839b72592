------------------------------ MODULE Admission ------------------------------
(***************************************************************************)
(* What a submission passes on its way to the policy: the authenticator    *)
(* with its nonce store, and after a wait for the session's lock the rate  *)
(* limiter.  submit reads the clock once, on entry, and both get that      *)
(* time: the nonce store within MaxLag, the limiter after any wait.        *)
(***************************************************************************)
EXTENDS NonceStore

CONSTANTS RateCalls, RatePeriod

ASSUME LimitIsPositive == {RateCalls, RatePeriod} \subseteq Nat \ {0}
ASSUME NoneIsNoTime == None \notin Nat

VARIABLES
    waiting,                    \* an authenticated caller waits for the lock
    log, admitted, refused      \* of the rate limiter

limiterVars == <<log, admitted, refused>>
admissionVars == <<vars, waiting, limiterVars>>

Limiter == INSTANCE RateLimiter

AdmissionInit ==
    /\ Init
    /\ waiting = [c \in Callers |-> FALSE]
    /\ log = << >> /\ admitted = << >> /\ refused = None

Submit(c, e) == ~waiting[c] /\ Deliver(c, e) /\ UNCHANGED <<waiting, limiterVars>>

Authenticated(c) ==
    Accept(c) /\ waiting' = [waiting EXCEPT ![c] = TRUE] /\ UNCHANGED limiterVars

Rejected(c) == Refuse(c) /\ UNCHANGED <<waiting, limiterVars>>

(* The lock is held; whatever the limiter says, the caller is done here.   *)
Asks(c) ==
    /\ waiting[c]
    /\ Limiter!Consult(stamp[c])
    /\ waiting' = [waiting EXCEPT ![c] = FALSE]
    /\ UNCHANGED vars

AdmissionTick ==
    /\ Tick
    /\ UNCHANGED <<waiting, limiterVars>>

(* The model's time is over.                                               *)
Finished == clock = MaxClock /\ UNCHANGED admissionVars

AdmissionNext ==
    \/ \E c \in Callers :
          (\E e \in Envelopes : Submit(c, e)) \/ Authenticated(c) \/ Rejected(c) \/ Asks(c)
    \/ AdmissionTick \/ Finished

AdmissionSpec == AdmissionInit /\ [][AdmissionNext]_admissionVars

-----------------------------------------------------------------------------
(* The limits that hold for callers that read the clock before they wait   *)
(* (see RateLimiter): an admitted call counts for a period from when it    *)
(* came, and nobody is refused unless the limit was admitted since a       *)
(* period before it came.                                                  *)
LaggedLimit == Limiter!LaggedLimit
RefusalIsEarned == Limiter!RefusalIsEarned
=============================================================================
