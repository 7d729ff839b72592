------------------------------ MODULE NonceStore ------------------------------
(***************************************************************************)
(* Authentication of replayed envelopes in one process, over real time.    *)
(* submit reads the clock on entry, then snapshots the envelope and checks *)
(* its signature; only then are the issue time and the nonce looked at,    *)
(* with the earlier time.  MaxLag bounds the seconds in between, in which  *)
(* a call takes no session lock and runs no adapter.  A nonce is remembered*)
(* for 2 * Skew + 1 seconds, one more than two deliveries of one envelope  *)
(* can be apart.                                                           *)
(***************************************************************************)
EXTENDS Integers, FiniteSets, Windows

CONSTANTS Callers, Envelopes, NonceOf, IssuedAt, Skew, MaxLag, None, MaxClock

ASSUME EnvelopesAreTyped == IssuedAt \in [Envelopes -> Nat]
ASSUME SkewIsPositive == Skew \in Nat \ {0} /\ MaxClock \in Nat
ASSUME AuthenticationIsPrompt == MaxLag \in {0, 1}
ASSUME NoneIsNoEnvelope == None \notin Envelopes

VARIABLES
    clock,
    carried, stamp, \* the envelope a caller has in hand, the time it read
    markers,        \* the nonce store
    accepted        \* meta: how often each envelope was authenticated

vars == <<clock, carried, stamp, markers, accepted>>

Init ==
    /\ clock = 0
    /\ carried = [c \in Callers |-> None]
    /\ stamp = [c \in Callers |-> 0]
    /\ markers = {}
    /\ accepted = [e \in Envelopes |-> 0]

(* Any envelope may be delivered at any time, again and again.             *)
Deliver(c, e) ==
    /\ carried[c] = None
    /\ carried' = [carried EXCEPT ![c] = e]
    /\ stamp' = [stamp EXCEPT ![c] = clock]
    /\ UNCHANGED <<clock, markers, accepted>>

Passes(e, now) == Fresh(IssuedAt[e], now, Skew) /\ Unseen(markers, NonceOf[e], now)

(* Slip: a marker that lasts as long as the skew on one side only.         *)
RememberedForSkew(e, now) ==
    LiveMarkers(markers, now) \cup {[mark |-> NonceOf[e], expiry |-> now + Skew]}
Remembered(e, now) == Remember(markers, NonceOf[e], now, Skew)

Accept(c) ==
    LET e == carried[c] IN
    /\ e # None
    /\ Passes(e, stamp[c])
    /\ markers' = Remembered(e, stamp[c])
    /\ accepted' = [accepted EXCEPT ![e] = @ + 1]
    /\ carried' = [carried EXCEPT ![c] = None]
    /\ UNCHANGED <<clock, stamp>>

(* A stale envelope is refused before the nonce store is asked.            *)
Refuse(c) ==
    LET e == carried[c] IN
    /\ e # None
    /\ ~Passes(e, stamp[c])
    /\ markers' = IF Fresh(IssuedAt[e], stamp[c], Skew)
                  THEN LiveMarkers(markers, stamp[c]) ELSE markers
    /\ carried' = [carried EXCEPT ![c] = None]
    /\ UNCHANGED <<clock, stamp, accepted>>

Tick ==
    /\ clock < MaxClock
    /\ \A c \in Callers : carried[c] # None => clock - stamp[c] < MaxLag
    /\ clock' = clock + 1
    /\ UNCHANGED <<carried, stamp, markers, accepted>>

Next ==
    \/ \E c \in Callers : (\E e \in Envelopes : Deliver(c, e)) \/ Accept(c) \/ Refuse(c)
    \/ Tick

Spec == Init /\ [][Next]_vars

-----------------------------------------------------------------------------
TypeOK ==
    /\ clock \in Nat
    /\ carried \in [Callers -> Envelopes \cup {None}]
    /\ stamp \in [Callers -> Nat]
    /\ \A m \in markers : m.expiry \in Int
    /\ accepted \in [Envelopes -> Nat]

(* A captured envelope is authenticated at most once, however many times   *)
(* and whenever it is delivered.                                           *)
AcceptedOnce == \A e \in Envelopes : accepted[e] <= 1

(* Why: once accepted, an envelope's marker is still held, or any caller   *)
(* that could find it gone reads a time at which the envelope is stale.    *)
Lagging == \A c \in Callers : carried[c] # None => stamp[c] <= clock /\ clock - stamp[c] <= MaxLag

Guarded(e) ==
    \/ \E m \in markers : m.mark = NonceOf[e] /\ m.expiry >= IssuedAt[e] + Skew + 1
    \/ clock > IssuedAt[e] + Skew + 1

Replays == Lagging /\ \A e \in Envelopes : accepted[e] = 0 \/ (accepted[e] = 1 /\ Guarded(e))
=============================================================================
