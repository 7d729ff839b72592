------------------------------- MODULE Gateway -------------------------------
(***************************************************************************)
(* SecureAgentGateway (gateway.py) with the components it drives: the      *)
(* authenticator and its nonce store, the policy engine and its rate       *)
(* limiter, the approval authority, the session store (in memory or        *)
(* SQLite), the audit log and the registered adapters.                     *)
(*                                                                         *)
(* Calls are the calls hosts make of submit or resume, each on a thread of *)
(* a gateway process.  A call is cut into one action per stretch of code   *)
(* that other threads cannot interrupt; pc says which stretch is next and  *)
(* frame holds the call's local variables.  A process may stop at any      *)
(* point; what it kept in memory is gone and its call never returns.       *)
(***************************************************************************)
EXTENDS Integers, Sequences, FiniteSets, SequencePolicy, Approvals, Windows

CONSTANTS
    Calls, Procs,           \* the calls hosts make, the gateway processes
    Sessions, Principals,   \* a session is a (principal, session_id) pair
    PrincipalOf,            \* [Sessions -> Principals]
    Tools, Effects,         \* the registry: names and
    EffectsOf,              \* ... the effects a tool declares
    Forbidden,              \* tools the role, secret or schema check denies
    Gated,                  \* destructive or approval_required tools
    Volatile,               \* tools whose path or host may stop being allowed
    Fragile,                \* tools whose path or host check may raise
    Uncredentialed,         \* tools whose credential alias is not available
    Fallible,               \* tools whose adapter may raise
    Rules,                  \* the sequence policy
    Ids, Nonces,            \* request identifiers, nonces
    Requests,               \* the signed requests hosts may submit
    ReceiptIds, ReceiptTtls, MaxTtl,    \* approval identifiers, lifetimes
    PendingTtl, Skew,       \* pending_ttl_seconds, max_clock_skew_seconds
    RateCalls, RatePeriod,  \* every tool's RateLimit
    Sqlite,                 \* SQLiteSessionStore, else InMemorySessionStore
    Db,                     \* the write lock of the SQLite file
    Null,                   \* Python's None
    MaxClock, MaxVersion, MaxFaults, MaxCrashes     \* bounds of the model

Request == [id : Ids, nonce : Nonces, session : Sessions, tool : Tools, issued : Nat]

(* PolicyDecision, with the request for its digest and the session history *)
(* for its context digest, and what the approver signs about it.           *)
Decision == [req : Requests, version : Nat, context : Seq(Requests)]
Receipt == [aid : ReceiptIds, dec : Decision, issued : Nat, expires : Nat]

ASSUME RequestsAreTyped == Requests \subseteq Request
ASSUME RegistryIsTyped ==
    /\ PrincipalOf \in [Sessions -> Principals]
    /\ EffectsOf \in [Tools -> SUBSET Effects]
    /\ Rules \subseteq RuleType(Tools, Effects)
ASSUME TimesAreNaturals ==
    /\ {MaxTtl, PendingTtl, Skew, RateCalls, RatePeriod} \subseteq Nat \ {0}
    /\ ReceiptTtls \subseteq 1..MaxTtl
    /\ {MaxClock, MaxFaults, MaxCrashes} \subseteq Nat
    /\ MaxVersion \in Nat \ {0}
ASSUME StoreIsDecided == Sqlite \in BOOLEAN
ASSUME NullIsNothing == Null \notin Calls \cup Receipt
ASSUME MemoryIsOneProcess == Sqlite \/ (\A p, q \in Procs : p = q)

VARIABLES
    clock, blocked,             \* the time; the tools now off their target
    version, nonces, rate, pending, consumed,   \* a process's memory
    claimed, history, holder,   \* the session store and its locks
    offered, receipts,          \* decisions to be approved, receipts issued
    trail, runs,                \* per request: audit statuses, adapter calls
    pc, frame,                  \* the calls
    faults, crashes             \* meta: what has gone wrong so far

clockVars == <<clock, blocked>>
memory == <<version, nonces, rate, pending, consumed>>
store == <<claimed, history, holder>>
host == <<offered, receipts>>
world == <<trail, runs>>
meta == <<faults, crashes>>
vars == <<clockVars, memory, store, host, world, pc, frame, meta>>

-----------------------------------------------------------------------------
(* A call's local variables.  outcome is the result's status ("raised" for *)
(* an exception); ran is for the properties: this call invoked the adapter.*)
Blank == [proc |-> Null, req |-> Null, via |-> Null, at |-> 0, dec |-> Null,
          view |-> << >>, outcome |-> "none", ran |-> FALSE]

Init ==
    /\ clock = 0 /\ blocked = {}
    /\ version = [p \in Procs |-> 1]
    /\ nonces = [p \in Procs |-> {}]
    /\ rate = [p \in Procs |-> [k \in Principals \X Tools |-> << >>]]
    /\ pending = [p \in Procs |-> {}]
    /\ consumed = [p \in Procs |-> {}]
    /\ claimed = {}
    /\ history = [s \in Sessions |-> << >>]
    /\ holder = [l \in IF Sqlite THEN {Db} ELSE Sessions |-> Null]
    /\ offered = {} /\ receipts = {}
    /\ trail = [i \in Ids |-> << >>]
    /\ runs = [i \in Ids |-> << >>]
    /\ pc = [c \in Calls |-> "ready"]
    /\ frame = [c \in Calls |-> Blank]
    /\ faults = 0 /\ crashes = 0

(* One lock per session in memory; BEGIN IMMEDIATE takes the whole file's. *)
LockOf(r) == IF Sqlite THEN Db ELSE r.session

(* Slip: a serialise() that hands the session out without its lock.        *)
LockIgnored(r) == TRUE
LockFree(r) == holder[LockOf(r)] = Null

Holds(c) == \E l \in DOMAIN holder : holder[l] = c
Released(c) == [l \in DOMAIN holder |-> IF holder[l] = c THEN Null ELSE holder[l]]

(* The effect sets of a session history, for the sequence policy.          *)
Trace(h) == [i \in DOMAIN h |-> EffectsOf[h[i].tool]]

Goto(c, label) == pc' = [pc EXCEPT ![c] = label]
With(c, f) == frame' = [frame EXCEPT ![c] = f]

(* The call goes on to report this status in the audit log.                *)
Report(c, status) ==
    Goto(c, "record") /\ With(c, [frame[c] EXCEPT !.outcome = status])

(* The call returns: its locals are gone, what the caller saw remains.     *)
Return(c, status) ==
    /\ Goto(c, "returned")
    /\ With(c, [Blank EXCEPT !.proc = frame[c].proc, !.req = frame[c].req,
                             !.outcome = status, !.ran = frame[c].ran])

(* The database refuses a statement: its lock stays taken for longer than  *)
(* the busy timeout, or the statement fails.  Memory never refuses.        *)
Fails == faults < MaxFaults /\ faults' = faults + 1 /\ UNCHANGED crashes
Refuses ==
    /\ Sqlite
    /\ \/ holder[Db] # Null /\ UNCHANGED meta
       \/ holder[Db] = Null /\ Fails

-----------------------------------------------------------------------------
(* submit: read the clock, authenticate, claim the request identifier.     *)
Submit(c) ==
    /\ pc[c] = "ready"
    /\ \E r \in Requests, p \in Procs :
          With(c, [Blank EXCEPT !.proc = p, !.req = r, !.at = clock])
    /\ Goto(c, "authenticate")
    /\ UNCHANGED <<clockVars, memory, store, host, world, meta>>

(* An envelope of the wrong shape, key, signature, principal or session is *)
(* refused as a stale one is, before the nonce store is asked.  A principal*)
(* has one credential here, so its name stands for the key identifier.     *)
Authenticate(c) ==
    LET r == frame[c].req
        p == frame[c].proc
        mark == <<PrincipalOf[r.session], r.nonce>>
        fresh == Fresh(r.issued, frame[c].at, Skew)
        unseen == Unseen(nonces[p], mark, frame[c].at)
    IN
    /\ pc[c] = "authenticate"
    /\ nonces' = [nonces EXCEPT ![p] =
          IF ~fresh THEN @
          ELSE IF unseen THEN Remember(@, mark, frame[c].at, Skew)
          ELSE LiveMarkers(@, frame[c].at)]
    /\ \/ fresh /\ unseen /\ Goto(c, "claim") /\ UNCHANGED frame
       \/ ~(fresh /\ unseen) /\ Report(c, "denied")
    /\ UNCHANGED <<clockVars, version, rate, pending, consumed, store, host, world, meta>>

(* Slip: claim_request's answer is not looked at.                          *)
AnyClaim(r) == TRUE
Unclaimed(r) == r.id \notin claimed

Claim(c) ==
    /\ pc[c] = "claim"
    /\ Sqlite => holder[Db] = Null
    /\ claimed' = claimed \cup {frame[c].req.id}
    /\ \/ Unclaimed(frame[c].req) /\ Goto(c, "enter") /\ UNCHANGED frame
       \/ ~Unclaimed(frame[c].req) /\ Report(c, "denied")
    /\ UNCHANGED <<clockVars, memory, history, holder, host, world, meta>>

(* claim_request or BEGIN IMMEDIATE raises: state.unavailable.             *)
StoreUnavailable(c) ==
    /\ pc[c] \in {"claim", "enter"}
    /\ Refuses
    /\ Report(c, "denied")
    /\ UNCHANGED <<clockVars, memory, store, host, world>>

(* Entering the session's transaction, from submit and from resume.        *)
Enter(c) ==
    /\ pc[c] = "enter"
    /\ LockFree(frame[c].req)
    /\ holder' = [holder EXCEPT ![LockOf(frame[c].req)] = c]
    /\ Goto(c, IF frame[c].via = Null THEN "judge" ELSE "check")
    /\ UNCHANGED <<clockVars, memory, claimed, history, host, world, frame, meta>>

(* The snapshot raises inside the transaction.                             *)
SnapshotFails(c) ==
    /\ pc[c] \in {"judge", "check"}
    /\ Sqlite /\ Fails
    /\ Report(c, "denied")
    /\ UNCHANGED <<clockVars, memory, store, host, world>>

-----------------------------------------------------------------------------
(* PolicyEngine.evaluate, where admitted is the rate limiter's answer, and *)
(* PolicyEngine.revalidate, which leaves rates and approvals aside.        *)
OnTarget(tool) == tool \notin blocked

BaseControl(tool, admitted) ==
    IF tool \in Forbidden \/ ~admitted \/ ~OnTarget(tool) THEN "deny"
    ELSE IF tool \in Gated THEN "require_approval" ELSE "allow"

Revalidated(tool) ==
    IF tool \in Forbidden \/ ~OnTarget(tool) THEN "deny" ELSE "allow"

(* Slip: the sequence policy is left out.                                  *)
BaseOnly(tool, view, base) == base
Verdict(tool, view, base) == EvaluateSequence(Rules, tool, Trace(view), base)

(* The rate limiter is asked only about a request whose role, secrets and  *)
(* schema pass.                                                            *)
RateKey(c) == <<PrincipalOf[frame[c].req.session], frame[c].req.tool>>

Admitted(c) ==
    Admits(rate[frame[c].proc][RateKey(c)], frame[c].at, RateCalls, RatePeriod)

Metered(c) ==
    IF frame[c].req.tool \in Forbidden THEN rate
    ELSE [rate EXCEPT ![frame[c].proc][RateKey(c)] =
             Consume(@, frame[c].at, RateCalls, RatePeriod)]

(* Snapshot and evaluation, under the session's lock.                      *)
Judge(c) ==
    LET r == frame[c].req
        p == frame[c].proc
        h == history[r.session]
        verdict == Verdict(r.tool, h, BaseControl(r.tool, Admitted(c)))
    IN
    /\ pc[c] = "judge"
    /\ rate' = Metered(c)
    /\ With(c, [frame[c] EXCEPT
          !.view = h, !.dec = [req |-> r, version |-> version[p], context |-> h],
          !.outcome = IF verdict = "deny" THEN "denied"
                      ELSE IF verdict = "require_approval" THEN "pending_approval"
                      ELSE @])
    /\ Goto(c, IF verdict = "deny" THEN "record"
               ELSE IF verdict = "require_approval" THEN "park"
               ELSE "execute")
    /\ UNCHANGED <<clockVars, version, nonces, pending, consumed, store, host, world, meta>>

(* The pending call is stored before its audit record is written and the   *)
(* call returns: from here on other threads find it, and a host that knows *)
(* request, policy and session may have its decision signed.               *)
Park(c) ==
    LET p == frame[c].proc
        others == {e \in pending[p] : e.dec.req.id # frame[c].req.id}
    IN
    /\ pc[c] = "park"
    /\ pending' = [pending EXCEPT ![p] =
                     others \cup {[dec |-> frame[c].dec, created |-> frame[c].at]}]
    /\ offered' = offered \cup {frame[c].dec}
    /\ Goto(c, "record")
    /\ UNCHANGED <<clockVars, version, nonces, rate, consumed, store, receipts, world, frame, meta>>

-----------------------------------------------------------------------------
(* resume: the host names any request, parked or not, and hands in any     *)
(* receipt.                                                                *)
Resume(c) ==
    /\ pc[c] = "ready"
    /\ \E r \in Requests, receipt \in receipts, p \in Procs :
          With(c, [Blank EXCEPT !.proc = p, !.req = r, !.via = receipt, !.at = clock])
    /\ Goto(c, "redeem")
    /\ UNCHANGED <<clockVars, memory, store, host, world, meta>>

(* The pending calls stored under a request identifier: one or none.       *)
PendingOf(p, r) == {e \in pending[p] : e.dec.req.id = r.id}

(* KeyError: not parked here, already taken, or lost in a restart.         *)
RedeemUnknown(c) ==
    /\ pc[c] = "redeem"
    /\ PendingOf(frame[c].proc, frame[c].req) = {}
    /\ Return(c, "raised")
    /\ UNCHANGED <<clockVars, memory, store, host, world, meta>>

(* Slip: parked calls never grow too old.                                  *)
NeverExpired(e, now) == FALSE
Expired(e, now) == now - e.created > PendingTtl
(* Slip: a redeemed call stays parked.                                     *)
Kept(p, e) == UNCHANGED pending
Spent(p, e) == pending' = [pending EXCEPT ![p] = @ \ {e}]

(* Under the pending-state lock: too old, decided under another policy     *)
(* version, a receipt the authority refuses, or a receipt it consumes.     *)
Redeem(c) ==
    LET p == frame[c].proc
        receipt == frame[c].via
        now == frame[c].at
        good(e) == Accepts(receipt, e.dec, now, MaxTtl, consumed[p])
    IN
    /\ pc[c] = "redeem"
    /\ \E e \in PendingOf(p, frame[c].req) :
          \/ /\ Expired(e, now) \/ e.dec.version # version[p]
             /\ Spent(p, e)
             /\ Report(c, "denied")
             /\ UNCHANGED consumed
          \/ /\ ~Expired(e, now) /\ e.dec.version = version[p] /\ ~good(e)
             /\ Report(c, "denied")
             /\ UNCHANGED <<pending, consumed>>
          \/ /\ ~Expired(e, now) /\ e.dec.version = version[p] /\ good(e)
             /\ Spent(p, e)
             /\ consumed' = [consumed EXCEPT ![p] = @ \cup {receipt.aid}]
             /\ Goto(c, "enter")
             /\ With(c, [frame[c] EXCEPT !.req = e.dec.req, !.dec = e.dec])
    /\ UNCHANGED <<clockVars, version, nonces, rate, store, host, world, meta>>

(* Slip: the session's history is not compared again.                      *)
AnyContext(dec, h) == TRUE
(* The session may have moved on since the decision; the receipt is spent. *)
SameContext(dec, h) == dec.context = h

CheckContext(c) ==
    LET h == history[frame[c].req.session] IN
    /\ pc[c] = "check"
    /\ \/ /\ SameContext(frame[c].dec, h)
          /\ Goto(c, "execute")
          /\ With(c, [frame[c] EXCEPT !.view = h])
       \/ ~SameContext(frame[c].dec, h) /\ Report(c, "denied")
    /\ UNCHANGED <<clockVars, memory, store, host, world, meta>>

-----------------------------------------------------------------------------
(* _execute: the version is read again, targets and the sequence policy    *)
(* are evaluated again on the snapshot; an approval now needed is not      *)
(* asked for.                                                              *)
Execute(c) ==
    LET tool == frame[c].req.tool
        denied == \/ frame[c].dec.version # version[frame[c].proc]
                  \/ Verdict(tool, frame[c].view, Revalidated(tool)) = "deny"
    IN
    /\ pc[c] = "execute"
    /\ \/ denied /\ Report(c, "denied")
       \/ ~denied /\ Goto(c, "announce") /\ UNCHANGED frame
    /\ UNCHANGED <<clockVars, memory, store, host, world, meta>>

(* Path.expanduser, Path.resolve or urlsplit raises while the targets are  *)
(* checked, after the rate limiter was asked: the exception leaves submit  *)
(* or resume without an audit record, rolling the transaction back.        *)
EvaluationRaises(c) ==
    /\ pc[c] \in {"judge", "execute"}
    /\ frame[c].req.tool \in Fragile \ Forbidden
    /\ \/ /\ pc[c] = "judge" /\ Admitted(c)
          /\ rate' = Metered(c)
       \/ /\ pc[c] = "execute" /\ frame[c].dec.version = version[frame[c].proc]
          /\ UNCHANGED rate
    /\ holder' = Released(c)
    /\ Return(c, "raised")
    /\ UNCHANGED <<clockVars, version, nonces, pending, consumed, claimed, history, host, world, meta>>

Logged(i, status) == trail' = [trail EXCEPT ![i] = Append(@, status)]

(* execution_started is on disk before the adapter is called.              *)
Announce(c) ==
    /\ pc[c] = "announce"
    /\ Logged(frame[c].req.id, "execution_started")
    /\ Goto(c, "invoke")
    /\ UNCHANGED <<clockVars, memory, store, host, runs, frame, meta>>

(* The credential is fetched, then the adapter is called.                  *)
Invoke(c) ==
    LET r == frame[c].req IN
    /\ pc[c] = "invoke"
    /\ \/ /\ r.tool \in Uncredentialed
          /\ Report(c, "execution_failed")
          /\ UNCHANGED runs
       \/ /\ r.tool \notin Uncredentialed
          /\ runs' = [runs EXCEPT ![r.id] = Append(@, [via |-> frame[c].via, dec |-> frame[c].dec])]
          /\ Goto(c, "adapter")
          /\ With(c, [frame[c] EXCEPT !.ran = TRUE])
    /\ UNCHANGED <<clockVars, memory, store, host, trail, meta>>

(* The adapter returns, or raises whatever it has done by then.            *)
AdapterReturns(c) ==
    /\ pc[c] = "adapter"
    /\ Goto(c, "settle")
    /\ UNCHANGED <<clockVars, memory, store, host, world, frame, meta>>

(* Slip: a failure is answered without an audit record.                    *)
AdapterRaisesSilently(c) ==
    /\ pc[c] = "adapter"
    /\ frame[c].req.tool \in Fallible
    /\ Goto(c, "exit")
    /\ With(c, [frame[c] EXCEPT !.outcome = "execution_failed"])
    /\ UNCHANGED <<clockVars, memory, store, host, world, meta>>

AdapterRaises(c) ==
    /\ pc[c] = "adapter"
    /\ frame[c].req.tool \in Fallible
    /\ Report(c, "execution_failed")
    /\ UNCHANGED <<clockVars, memory, store, host, world, meta>>

(* Slip: the event recorded is the bare request identifier.                *)
AppendedBare(r) == history' = [history EXCEPT ![r.session] = Append(@, r.id)]
Appended(r) == history' = [history EXCEPT ![r.session] = Append(@, r)]

(* record_success: memory appends the event, SQLite stages it until commit.*)
Settle(c) ==
    /\ pc[c] = "settle"
    /\ IF Sqlite THEN UNCHANGED history ELSE Appended(frame[c].req)
    /\ Goto(c, "exit")
    /\ With(c, [frame[c] EXCEPT !.outcome = "succeeded"])
    /\ UNCHANGED <<clockVars, memory, claimed, holder, host, world, meta>>

SettleFails(c) ==
    /\ pc[c] = "settle"
    /\ Sqlite /\ Fails
    /\ Report(c, "execution_uncertain")
    /\ UNCHANGED <<clockVars, memory, store, host, world>>

-----------------------------------------------------------------------------
(* The transaction ends: SQLite commits what is staged, the lock is free,  *)
(* and success is reported only now.                                       *)
Exit(c) ==
    LET succeeded == frame[c].outcome = "succeeded" IN
    /\ pc[c] = "exit"
    /\ holder' = Released(c)
    /\ IF Sqlite /\ succeeded THEN Appended(frame[c].req) ELSE UNCHANGED history
    /\ \/ succeeded /\ Report(c, "succeeded")
       \/ ~succeeded /\ Return(c, frame[c].outcome)
    /\ UNCHANGED <<clockVars, memory, claimed, host, world, meta>>

(* Slips: the lost commit is answered with the body's result, or with the  *)
(* denial that an unavailable store gets before the adapter runs.          *)
Optimistic(outcome) == outcome
FallbackDenial(outcome) == IF outcome = "succeeded" THEN "denied" ELSE outcome

(* _session_failure_result, where the transaction's body had a result.     *)
AfterLostCommit(outcome) ==
    IF outcome = "succeeded" THEN "execution_uncertain" ELSE outcome

(* The commit raises: the transaction is rolled back.                      *)
ExitFails(c) ==
    LET outcome == AfterLostCommit(frame[c].outcome) IN
    /\ pc[c] = "exit"
    /\ Sqlite /\ Fails
    /\ holder' = Released(c)
    /\ \/ frame[c].outcome = "succeeded" /\ Report(c, outcome)
       \/ frame[c].outcome # "succeeded" /\ Return(c, outcome)
    /\ UNCHANGED <<clockVars, memory, claimed, history, host, world>>

(* _record of a result: within the transaction, or after it.               *)
Record(c) ==
    /\ pc[c] = "record"
    /\ Logged(frame[c].req.id, frame[c].outcome)
    /\ IF Holds(c) THEN Goto(c, "exit") /\ UNCHANGED frame
       ELSE Return(c, frame[c].outcome)
    /\ UNCHANGED <<clockVars, memory, store, host, runs, meta>>

(* Slip: the exception leaves the session locked.                          *)
RecordFailsLocked(c) ==
    /\ pc[c] \in {"record", "announce"}
    /\ Fails
    /\ Return(c, "raised")
    /\ UNCHANGED <<clockVars, memory, store, host, world>>

(* The audit log raises: the exception leaves submit or resume, rolling    *)
(* the transaction back if one is open.                                    *)
RecordFails(c) ==
    /\ pc[c] \in {"record", "announce"}
    /\ Fails
    /\ holder' = Released(c)
    /\ Return(c, "raised")
    /\ UNCHANGED <<clockVars, memory, claimed, history, host, world>>

-----------------------------------------------------------------------------
(* The approver signs a decision, before or after the host gets it back.   *)
Issue ==
    /\ \E d \in offered, aid \in ReceiptIds, ttl \in ReceiptTtls :
          receipts' = receipts \cup {IssuedReceipt(aid, d, clock, ttl)}
    /\ UNCHANGED <<clockVars, memory, store, offered, world, pc, frame, meta>>

Tick ==
    /\ clock < MaxClock
    /\ clock' = clock + 1
    /\ UNCHANGED <<blocked, memory, store, host, world, pc, frame, meta>>

(* A host installs a policy; a path or host moves on or off its target.    *)
ChangePolicy(p) ==
    /\ version[p] < MaxVersion
    /\ version' = [version EXCEPT ![p] = @ + 1]
    /\ UNCHANGED <<clockVars, nonces, rate, pending, consumed, store, host, world, pc, frame, meta>>

Retarget(tool) ==
    /\ blocked' = IF tool \in blocked THEN blocked \ {tool} ELSE blocked \cup {tool}
    /\ UNCHANGED <<clock, memory, store, host, world, pc, frame, meta>>

(* The process stops and a new one is started.  Its calls never return and *)
(* its memory is lost; SQLite rolls its open transaction back.             *)
InFlight(c) == pc[c] \notin {"ready", "returned", "lost"}

Crash(p) ==
    LET gone(c) == InFlight(c) /\ frame[c].proc = p IN
    /\ crashes < MaxCrashes
    /\ crashes' = crashes + 1
    /\ pc' = [c \in Calls |-> IF gone(c) THEN "lost" ELSE pc[c]]
    /\ frame' = [c \in Calls |->
          IF gone(c) THEN [Blank EXCEPT !.proc = p, !.req = frame[c].req, !.ran = frame[c].ran]
          ELSE frame[c]]
    /\ nonces' = [nonces EXCEPT ![p] = {}]
    /\ rate' = [rate EXCEPT ![p] = [k \in DOMAIN @ |-> << >>]]
    /\ pending' = [pending EXCEPT ![p] = {}]
    /\ consumed' = [consumed EXCEPT ![p] = {}]
    /\ holder' = [l \in DOMAIN holder |->
          IF \E c \in Calls : gone(c) /\ holder[l] = c THEN Null ELSE holder[l]]
    /\ claimed' = IF Sqlite THEN claimed ELSE {}
    /\ history' = IF Sqlite THEN history ELSE [s \in Sessions |-> << >>]
    /\ UNCHANGED <<clockVars, version, host, world, faults>>

-----------------------------------------------------------------------------
(* What a call does without waiting for a failure, a time or another host. *)
Step(c) ==
    \/ Authenticate(c) \/ Claim(c) \/ Enter(c) \/ Judge(c) \/ Park(c)
    \/ RedeemUnknown(c) \/ Redeem(c) \/ CheckContext(c)
    \/ Execute(c) \/ Announce(c) \/ Invoke(c) \/ AdapterReturns(c)
    \/ Settle(c) \/ Exit(c) \/ Record(c)

Failure(c) ==
    \/ StoreUnavailable(c) \/ SnapshotFails(c) \/ EvaluationRaises(c) \/ AdapterRaises(c)
    \/ SettleFails(c) \/ ExitFails(c) \/ RecordFails(c)

Environment ==
    \/ Issue \/ Tick
    \/ \E p \in Procs : ChangePolicy(p) \/ Crash(p)
    \/ \E tool \in Volatile : Retarget(tool)

(* Every call has been answered or lost: the hosts ask nothing more.       *)
Finished == (\A c \in Calls : pc[c] \in {"returned", "lost"}) /\ UNCHANGED vars

Next ==
    \/ \E c \in Calls : Submit(c) \/ Resume(c) \/ Step(c) \/ Failure(c)
    \/ Environment
    \/ Finished

Spec == Init /\ [][Next]_vars

(* Threads are scheduled, locks are handed on, and adapters answer: each   *)
(* call that has begun keeps taking its steps.  Nothing makes hosts call,  *)
(* approvers sign, clocks advance or components fail.                      *)
FairSpec == Spec /\ \A c \in Calls : WF_vars(Step(c))
=============================================================================
