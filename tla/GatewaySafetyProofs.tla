------------------------- MODULE GatewaySafetyProofs --------------------------
(***************************************************************************)
(* The session lock does what it is for: from the snapshot on which a call *)
(* is decided to the commit of its effect, the session's history stays as  *)
(* it is.  So every committed event was decided on the history before it,  *)
(* on either store, for any number of calls, processes and sessions.  With *)
(* claims that are not forgotten, the histories are moreover those of      *)
(* PolicyHistory.  From there: no call runs that was not approved as it    *)
(* had to be, in time, and once for each receipt; and the trail and the    *)
(* answers tell what ran.                                                  *)
(***************************************************************************)
EXTENDS GatewayProofs

USE RequestsAreTyped, NullIsNothing, StoreIsDecided

(* Where a call holds its session; where its decision, its snapshot and    *)
(* its adapter call have been made.                                        *)
Working(c) ==
    pc[c] \in {"judge", "check", "execute", "announce", "invoke", "adapter", "settle"}
OwnsSession(c) == holder[LockOf(frame[c].req)] = c
Committing(c) == Sqlite /\ pc[c] = "exit" /\ frame[c].outcome = "succeeded"
Ran(c) == pc[c] \in {"adapter", "settle"} \/ Committing(c)
Decided(c) == pc[c] \in {"execute", "announce", "invoke"} \/ Ran(c)
Resumed(c) == pc[c] = "check" \/ (pc[c] = "enter" /\ frame[c].via # Null)

(* Each part is needed by the one before it, from the commit backwards.    *)
Serial(c) ==
    /\ Working(c) \/ Committing(c) => OwnsSession(c)
    /\ Resumed(c) \/ Decided(c) => frame[c].dec.req = frame[c].req
    /\ Decided(c) => /\ frame[c].view = history[frame[c].req.session]
                     /\ frame[c].dec.context = history[frame[c].req.session]
    /\ Ran(c) => \E n \in DOMAIN runs[frame[c].req.id] :
                    runs[frame[c].req.id][n].dec = frame[c].dec
    /\ pc[c] = "park" => frame[c].outcome # "succeeded"
    /\ pc[c] = "record" /\ frame[c].outcome = "succeeded" =>
          \A l \in DOMAIN holder : holder[l] # c

AllSerial == \A c \in Calls : Serial(c)

-----------------------------------------------------------------------------
(* What a step of one call leaves to the others.                           *)
Alone(c) == \A d \in Calls \ {c} : pc'[d] = pc[d] /\ frame'[d] = frame[d]

LocksKept(c) ==
    \A d \in Calls \ {c} : \A l \in DOMAIN holder : holder'[l] = d <=> holder[l] = d

RunsKept ==
    \A i \in Ids : \A n \in DOMAIN runs[i] : n \in DOMAIN runs'[i] /\ runs'[i][n] = runs[i][n]

HistoriesKept(c) ==
    \A s \in Sessions : history'[s] = history[s] \/ (Ran(c) /\ s = frame[c].req.session)

LEMMA RequestFields ==
    ASSUME NEW r \in Requests
    PROVE  /\ r.session \in Sessions /\ r.id \in Ids
           /\ LockOf(r) \in IF Sqlite THEN {Db} ELSE Sessions
BY DEF Request, LockOf

LEMMA OthersStaySerial ==
    ASSUME TypeOK, TypeOK', AllSerial, NEW c \in Calls,
           Alone(c), LocksKept(c), RunsKept, HistoriesKept(c), Serial(c)'
    PROVE  AllSerial'
<1> SUFFICES ASSUME NEW d \in Calls, d # c PROVE Serial(d)'
    BY DEF AllSerial
<1> DEFINE r == frame[d].req
           Locks == IF Sqlite THEN {Db} ELSE Sessions
<1>1. Serial(c) /\ Serial(d) /\ pc'[d] = pc[d] /\ frame'[d] = frame[d]
    BY DEF AllSerial, Alone
<1>2. DOMAIN holder = Locks /\ DOMAIN holder' = Locks
    BY DEF TypeOK, StoreOK
<1>3. CASE pc[d] = "ready"
    BY <1>1, <1>3 DEF Serial, Working, Committing, Ran, Decided, Resumed
<1>4. CASE pc[d] # "ready"
    <2>1. r \in Requests
        BY <1>4, CallTyped DEF TypeOK
    <2>2. r.session \in Sessions /\ r.id \in Ids /\ LockOf(r) \in Locks
        BY <2>1, RequestFields
    <2>3. /\ Working(d)' = Working(d) /\ Committing(d)' = Committing(d) /\ Ran(d)' = Ran(d)
          /\ Decided(d)' = Decided(d) /\ Resumed(d)' = Resumed(d)
        BY <1>1 DEF Working, Committing, Ran, Decided, Resumed
    <2>4. OwnsSession(d)' <=> OwnsSession(d)
        BY <1>1, <1>2, <2>2 DEF LocksKept, OwnsSession, LockOf
    <2>5. ASSUME Decided(d) PROVE history'[r.session] = history[r.session]
        <3> SUFFICES ASSUME Ran(c), r.session = frame[c].req.session PROVE FALSE
            BY <2>2 DEF HistoriesKept
        <3>1. OwnsSession(d) /\ OwnsSession(c)
            BY <1>1, <2>5 DEF Serial, Decided, Ran, Working
        <3> QED
            BY <3>1 DEF OwnsSession, LockOf
    <2>6. ASSUME Ran(d)
          PROVE  \E n \in DOMAIN runs'[r.id] : runs'[r.id][n].dec = frame[d].dec
        <3>1. PICK n \in DOMAIN runs[r.id] : runs[r.id][n].dec = frame[d].dec
            BY <1>1, <2>6 DEF Serial
        <3> QED
            BY <2>2, <3>1 DEF RunsKept
    <2>7. ASSUME pc[d] = "record", frame[d].outcome = "succeeded"
          PROVE  \A l \in DOMAIN holder' : holder'[l] # d
        BY <1>1, <1>2, <2>7 DEF Serial, LocksKept
    <2> QED
        BY <1>1, <2>3, <2>4, <2>5, <2>6, <2>7 DEF Serial
<1> QED
    BY <1>3, <1>4

(* Most steps touch no lock, no history and no adapter.                    *)
LEMMA QuietStaysSerial ==
    ASSUME TypeOK, TypeOK', AllSerial, NEW c \in Calls,
           Alone(c), UNCHANGED <<history, holder, runs>>, Serial(c)'
    PROVE  AllSerial'
BY OthersStaySerial DEF LocksKept, RunsKept, HistoriesKept

(* At these labels a call claims nothing about its session.                *)
LEMMA IdleIsSerial ==
    ASSUME NEW c, pc'[c] \in {"ready", "authenticate", "claim", "redeem", "returned", "lost"}
    PROVE  Serial(c)'
BY DEF Serial, Working, Committing, Ran, Decided, Resumed

LEMMA ReportIsSerial ==
    ASSUME TypeOK, NEW c \in Calls, NEW status \in Outcomes, Report(c, status),
           status # "succeeded"
    PROVE  Serial(c)' /\ Alone(c)
<1>1. /\ pc'[c] = "record" /\ frame'[c] = [frame[c] EXCEPT !.outcome = status]
      /\ frame[c] \in CallType /\ Alone(c)
    BY ReportType DEF TypeOK, CallsOK, Alone
<1>2. frame'[c].outcome = status
    BY <1>1 DEF CallType
<1> QED
    BY <1>1, <1>2 DEF Serial, Working, Committing, Ran, Decided, Resumed

LEMMA ReturnIsSerial ==
    ASSUME TypeOK, NEW c \in Calls, NEW status \in Outcomes, Return(c, status)
    PROVE  Serial(c)' /\ Alone(c)
BY ReturnType, IdleIsSerial DEF TypeOK, CallsOK, Alone

LEMMA GotoIsAlone ==
    ASSUME TypeOK, NEW c \in Calls, NEW label \in Labels, Goto(c, label), UNCHANGED frame
    PROVE  pc'[c] = label /\ frame'[c] = frame[c] /\ Alone(c)
BY GotoType DEF TypeOK, CallsOK, Alone

LEMMA MoveIsAlone ==
    ASSUME TypeOK, NEW c \in Calls, NEW label \in Labels, Goto(c, label), NEW f, With(c, f)
    PROVE  pc'[c] = label /\ frame'[c] = f /\ Alone(c)
BY GotoType DEF TypeOK, CallsOK, Alone, With

LEMMA ReleaseKeepsLocks ==
    ASSUME TypeOK, NEW c \in Calls, holder' = Released(c)
    PROVE  LocksKept(c) /\ \A l \in DOMAIN holder' : holder'[l] # c
BY DEF Released, LocksKept, TypeOK, StoreOK

-----------------------------------------------------------------------------
LEMMA ArrivalSerial ==
    ASSUME TypeOK, TypeOK', AllSerial, NEW c \in Calls, Submit(c) \/ Resume(c)
    PROVE  AllSerial'
<1>1. UNCHANGED <<history, holder, runs>>
    BY DEF Submit, Resume, store, world
<1>2. PICK label \in {"authenticate", "redeem"} : Goto(c, label) /\ \E f : With(c, f)
    BY DEF Submit, Resume
<1>3. pc'[c] = label /\ Alone(c)
    BY <1>2, MoveIsAlone DEF Labels
<1> QED
    BY <1>1, <1>3, IdleIsSerial, QuietStaysSerial

LEMMA AuthenticateSerial ==
    ASSUME TypeOK, TypeOK', AllSerial, NEW c \in Calls, Authenticate(c)
    PROVE  AllSerial'
<1>1. UNCHANGED <<history, holder, runs>>
    BY DEF Authenticate, store, world
<1>2. CASE Report(c, "denied")
    BY <1>1, <1>2, ReportIsSerial, QuietStaysSerial DEF Outcomes
<1>3. CASE Goto(c, "claim") /\ UNCHANGED frame
    BY <1>1, <1>3, GotoIsAlone, IdleIsSerial, QuietStaysSerial DEF Labels
<1> QED
    BY <1>2, <1>3 DEF Authenticate

LEMMA ClaimSerial ==
    ASSUME TypeOK, TypeOK', AllSerial, NEW c \in Calls, Claim(c)
    PROVE  AllSerial'
<1>1. UNCHANGED <<history, holder, runs>> /\ pc[c] = "claim"
    BY DEF Claim, world
<1>2. CASE Report(c, "denied")
    BY <1>1, <1>2, ReportIsSerial, QuietStaysSerial DEF Outcomes
<1>3. CASE Goto(c, "enter") /\ UNCHANGED frame
    <2>1. pc'[c] = "enter" /\ frame'[c] = frame[c] /\ Alone(c)
        BY <1>3, GotoIsAlone DEF Labels
    <2>2. frame[c].via = Null
        BY <1>1 DEF TypeOK, CallsOK
    <2>3. Serial(c)'
        BY <2>1, <2>2 DEF Serial, Working, Committing, Ran, Decided, Resumed
    <2> QED
        BY <1>1, <2>1, <2>3, QuietStaysSerial
<1> QED
    BY <1>2, <1>3 DEF Claim

LEMMA EnterSerial ==
    ASSUME TypeOK, TypeOK', AllSerial, NEW c \in Calls, Enter(c)
    PROVE  AllSerial'
<1> DEFINE lock == LockOf(frame[c].req)
<1>1. /\ pc[c] = "enter" /\ UNCHANGED <<history, runs, frame>> /\ holder[lock] = Null
      /\ holder' = [holder EXCEPT ![lock] = c]
    BY DEF Enter, LockFree, world
<1>2. lock \in DOMAIN holder
    <2>1. frame[c].req \in Requests
        BY <1>1, CallTyped DEF TypeOK
    <2> QED
        BY <2>1, RequestFields DEF TypeOK, StoreOK
<1>3. /\ pc'[c] = IF frame[c].via = Null THEN "judge" ELSE "check"
      /\ frame'[c] = frame[c] /\ Alone(c)
    BY <1>1, GotoIsAlone DEF Enter, Labels
<1>4. LocksKept(c)
    BY <1>1, <1>2 DEF LocksKept, TypeOK, StoreOK
<1>5. Serial(c)'
    <2>1. OwnsSession(c)'
        BY <1>1, <1>2, <1>3 DEF OwnsSession, LockOf, TypeOK, StoreOK
    <2>2. pc'[c] = "check" => frame[c].dec.req = frame[c].req
        BY <1>1, <1>3 DEF AllSerial, Serial, Resumed
    <2> QED
        BY <1>3, <2>1, <2>2 DEF Serial, Working, Committing, Ran, Decided, Resumed
<1> QED
    BY <1>1, <1>3, <1>4, <1>5, OthersStaySerial DEF RunsKept, HistoriesKept

LEMMA JudgeSerial ==
    ASSUME TypeOK, TypeOK', AllSerial, NEW c \in Calls, Judge(c)
    PROVE  AllSerial'
<1> DEFINE r == frame[c].req
           h == history[r.session]
           dec == [req |-> r, version |-> version[frame[c].proc], context |-> h]
<1>1. UNCHANGED <<history, holder, runs>> /\ pc[c] = "judge" /\ frame[c] \in CallType
    BY CallTyped DEF Judge, store, world, TypeOK
<1>2. PICK verdict, f :
          /\ With(c, f) /\ f.req = r /\ f.dec = dec /\ f.view = h
          /\ verdict = "deny" => f.outcome = "denied"
          /\ verdict = "require_approval" => f.outcome = "pending_approval"
          /\ Goto(c, IF verdict = "deny" THEN "record"
                     ELSE IF verdict = "require_approval" THEN "park" ELSE "execute")
    <2> DEFINE base == BaseControl(r.tool, Admitted(c))
               v == Verdict(r.tool, h, base)
               g == [frame[c] EXCEPT !.view = h, !.dec = dec,
                       !.outcome = IF v = "deny" THEN "denied"
                                   ELSE IF v = "require_approval" THEN "pending_approval" ELSE @]
    <2>1. With(c, g) /\ Goto(c, IF v = "deny" THEN "record"
                                ELSE IF v = "require_approval" THEN "park" ELSE "execute")
        BY DEF Judge
    <2> HIDE DEF v
    <2>2. /\ g.req = r /\ g.dec = dec /\ g.view = h
          /\ v = "deny" => g.outcome = "denied"
          /\ v = "require_approval" => g.outcome = "pending_approval"
        BY <1>1 DEF CallType
    <2> QED
        BY <2>1, <2>2
<1>3. PICK label \in {"record", "park", "execute"} :
          /\ Goto(c, label)
          /\ label # "execute" => f.outcome # "succeeded"
    BY <1>2
<1>4. pc'[c] = label /\ frame'[c] = f /\ Alone(c)
    BY <1>2, <1>3, MoveIsAlone DEF Labels
<1>5. OwnsSession(c)' /\ history'[f.req.session] = h
    BY <1>1, <1>2, <1>4 DEF AllSerial, Serial, Working, OwnsSession, LockOf
<1>6. f.dec.req = f.req /\ f.dec.context = h
    BY <1>2
<1>7. Serial(c)'
    BY <1>2, <1>3, <1>4, <1>5, <1>6 DEF Serial, Working, Committing, Ran, Decided, Resumed
<1> QED
    BY <1>1, <1>4, <1>7, QuietStaysSerial

LEMMA ParkSerial ==
    ASSUME TypeOK, TypeOK', AllSerial, NEW c \in Calls, Park(c)
    PROVE  AllSerial'
<1>1. UNCHANGED <<history, holder, runs>> /\ pc[c] = "park"
    BY DEF Park, store, world
<1>2. pc'[c] = "record" /\ frame'[c] = frame[c] /\ Alone(c)
    BY GotoIsAlone DEF Park, Labels
<1>3. Serial(c)'
    BY <1>1, <1>2 DEF AllSerial, Serial, Working, Committing, Ran, Decided, Resumed
<1> QED
    BY <1>1, <1>2, <1>3, QuietStaysSerial

LEMMA RedeemSerial ==
    ASSUME TypeOK, TypeOK', AllSerial, NEW c \in Calls, Redeem(c)
    PROVE  AllSerial'
<1>1. UNCHANGED <<history, holder, runs>> /\ pc[c] = "redeem" /\ frame[c] \in CallType
    BY CallTyped DEF Redeem, store, world, TypeOK
<1>2. CASE Report(c, "denied")
    BY <1>1, <1>2, ReportIsSerial, QuietStaysSerial DEF Outcomes
<1>3. CASE \E e : Goto(c, "enter") /\ With(c, [frame[c] EXCEPT !.req = e.dec.req, !.dec = e.dec])
    <2>1. PICK e : Goto(c, "enter") /\ With(c, [frame[c] EXCEPT !.req = e.dec.req, !.dec = e.dec])
        BY <1>3
    <2>2. /\ pc'[c] = "enter" /\ Alone(c)
          /\ frame'[c] = [frame[c] EXCEPT !.req = e.dec.req, !.dec = e.dec]
        BY <2>1, MoveIsAlone DEF Labels
    <2>3. frame'[c].dec.req = frame'[c].req
        BY <1>1, <2>2 DEF CallType
    <2>4. Serial(c)'
        BY <2>2, <2>3 DEF Serial, Working, Committing, Ran, Decided, Resumed
    <2> QED
        BY <1>1, <2>2, <2>4, QuietStaysSerial
<1> QED
    BY <1>2, <1>3 DEF Redeem

LEMMA CheckContextSerial ==
    ASSUME TypeOK, TypeOK', AllSerial, NEW c \in Calls, CheckContext(c)
    PROVE  AllSerial'
<1> DEFINE h == history[frame[c].req.session]
           f == [frame[c] EXCEPT !.view = h]
<1>1. UNCHANGED <<history, holder, runs>> /\ pc[c] = "check" /\ frame[c] \in CallType
    BY CallTyped DEF CheckContext, store, world, TypeOK
<1>2. CASE Report(c, "denied")
    BY <1>1, <1>2, ReportIsSerial, QuietStaysSerial DEF Outcomes
<1>3. CASE SameContext(frame[c].dec, h) /\ Goto(c, "execute") /\ With(c, f)
    <2>1. pc'[c] = "execute" /\ frame'[c] = f /\ Alone(c)
        BY <1>3, MoveIsAlone DEF Labels
    <2>2. f.req = frame[c].req /\ f.dec = frame[c].dec /\ f.view = h
        BY <1>1 DEF CallType
    <2>3. /\ OwnsSession(c) /\ frame[c].dec.req = frame[c].req
          /\ frame[c].dec.context = h
        BY <1>1, <1>3 DEF AllSerial, Serial, Working, Resumed, SameContext
    <2> HIDE DEF f
    <2>4. OwnsSession(c)'
        BY <1>1, <2>1, <2>2, <2>3 DEF OwnsSession, LockOf
    <2>5. Serial(c)'
        BY <1>1, <2>1, <2>2, <2>3, <2>4 DEF Serial, Working, Committing, Ran, Decided, Resumed
    <2> QED
        BY <1>1, <2>1, <2>5, QuietStaysSerial
<1> QED
    BY <1>2, <1>3 DEF CheckContext

(* The steps of a decided call that change only its label.                 *)
LEMMA StridesSerial ==
    ASSUME TypeOK, TypeOK', AllSerial, NEW c \in Calls,
           \/ pc[c] = "execute" /\ Goto(c, "announce")
           \/ pc[c] = "announce" /\ Goto(c, "invoke")
           \/ pc[c] = "adapter" /\ Goto(c, "settle"),
           UNCHANGED <<history, holder, runs, frame>>
    PROVE  AllSerial'
<1>1. PICK label \in {"announce", "invoke", "settle"} :
          /\ Goto(c, label) /\ Decided(c) /\ Working(c) /\ (label = "settle" => Ran(c))
    BY DEF Decided, Ran, Working
<1>2. pc'[c] = label /\ frame'[c] = frame[c] /\ Alone(c)
    BY <1>1, GotoIsAlone DEF Labels
<1>3. OwnsSession(c)' <=> OwnsSession(c)
    BY <1>2 DEF OwnsSession, LockOf
<1>4. Serial(c)
    BY DEF AllSerial
<1>5. Ran(c)' => Ran(c)
    BY <1>1, <1>2 DEF Ran, Committing
<1>6. Serial(c)'
    <2>1. OwnsSession(c)' /\ frame'[c].dec.req = frame'[c].req
        BY <1>1, <1>2, <1>3, <1>4 DEF Serial
    <2>2. /\ frame'[c].view = history'[frame'[c].req.session]
          /\ frame'[c].dec.context = history'[frame'[c].req.session]
        BY <1>1, <1>2, <1>4 DEF Serial
    <2>3. Ran(c)' => \E n \in DOMAIN runs'[frame'[c].req.id] :
                        runs'[frame'[c].req.id][n].dec = frame'[c].dec
        BY <1>2, <1>4, <1>5 DEF Serial
    <2> QED
        BY <1>2, <2>1, <2>2, <2>3 DEF Serial
<1> QED
    BY <1>2, <1>6, QuietStaysSerial

LEMMA AppendKeepsRuns ==
    ASSUME TypeOK, NEW i \in Ids, NEW run, runs' = [runs EXCEPT ![i] = Append(@, run)]
    PROVE  RunsKept /\ \E n \in DOMAIN runs'[i] : runs'[i][n] = run
<1>1. runs[i] \in Seq([via : Receipt \cup {Null}, dec : Decision]) /\ DOMAIN runs = Ids
    BY DEF TypeOK, WorldOK
<1>2. runs'[i] = Append(runs[i], run) /\ \A j \in Ids \ {i} : runs'[j] = runs[j]
    BY <1>1
<1>3. \A n \in DOMAIN runs[i] : n \in DOMAIN runs'[i] /\ runs'[i][n] = runs[i][n]
    BY <1>1, <1>2
<1>4. Len(runs[i]) + 1 \in DOMAIN runs'[i] /\ runs'[i][Len(runs[i]) + 1] = run
    BY <1>1, <1>2
<1> QED
    BY <1>2, <1>3, <1>4 DEF RunsKept

LEMMA InvokeSerial ==
    ASSUME TypeOK, TypeOK', AllSerial, NEW c \in Calls, Invoke(c)
    PROVE  AllSerial'
<1> DEFINE i == frame[c].req.id
           run == [via |-> frame[c].via, dec |-> frame[c].dec]
           f == [frame[c] EXCEPT !.ran = TRUE]
<1>1. UNCHANGED <<history, holder>> /\ pc[c] = "invoke"
    BY DEF Invoke, store
<1>2. CASE Report(c, "execution_failed") /\ UNCHANGED runs
    BY <1>1, <1>2, ReportIsSerial, QuietStaysSerial DEF Outcomes
<1>3. CASE /\ runs' = [runs EXCEPT ![i] = Append(@, run)]
           /\ Goto(c, "adapter") /\ With(c, f)
    <2>1. frame[c] \in CallType /\ i \in Ids /\ run.dec = frame[c].dec
        BY <1>1, CallTyped DEF TypeOK, Request
    <2>2. /\ pc'[c] = "adapter" /\ frame'[c] = f /\ Alone(c)
          /\ f.req = frame[c].req /\ f.dec = frame[c].dec /\ f.view = frame[c].view
        BY <1>3, <2>1, MoveIsAlone DEF Labels, CallType
    <2>3. RunsKept /\ \E n \in DOMAIN runs'[i] : runs'[i][n] = run
        <3> HIDE DEF run, f, i
        <3> QED
            BY <1>3, <2>1, AppendKeepsRuns
    <2> HIDE DEF f, run
    <2>4. \E n \in DOMAIN runs'[i] : runs'[i][n].dec = frame[c].dec
        BY <2>1, <2>3
    <2>5. OwnsSession(c)' <=> OwnsSession(c)
        BY <1>1, <2>2 DEF OwnsSession, LockOf
    <2>6. Serial(c) /\ Working(c) /\ Decided(c)
        BY <1>1 DEF AllSerial, Working, Decided
    <2>7. Serial(c)'
        BY <1>1, <2>2, <2>4, <2>5, <2>6 DEF Serial, Working, Committing, Ran, Decided, Resumed
    <2> QED
        BY <1>1, <2>2, <2>3, <2>7, OthersStaySerial DEF LocksKept, HistoriesKept
<1> QED
    BY <1>2, <1>3 DEF Invoke

LEMMA SettleSerial ==
    ASSUME TypeOK, TypeOK', AllSerial, NEW c \in Calls, Settle(c)
    PROVE  AllSerial'
<1> DEFINE r == frame[c].req
           f == [frame[c] EXCEPT !.outcome = "succeeded"]
<1>1. /\ UNCHANGED <<holder, runs>> /\ pc[c] = "settle" /\ frame[c] \in CallType
      /\ r \in Requests /\ r.session \in Sessions
    BY CallTyped, RequestFields DEF Settle, world, TypeOK
<1>2. /\ pc'[c] = "exit" /\ frame'[c] = f /\ Alone(c)
      /\ f.req = r /\ f.dec = frame[c].dec /\ f.view = frame[c].view
    BY <1>1, MoveIsAlone DEF Settle, Labels, CallType
<1> HIDE DEF f
<1>3. Serial(c) /\ Working(c) /\ Decided(c) /\ Ran(c)
    BY <1>1 DEF AllSerial, Working, Decided, Ran
<1>4. HistoriesKept(c)
    BY <1>1, <1>3 DEF Settle, Appended, HistoriesKept, TypeOK, StoreOK
<1>5. OwnsSession(c)' <=> OwnsSession(c)
    BY <1>1, <1>2 DEF OwnsSession, LockOf
<1>6. Sqlite => history' = history
    BY DEF Settle
<1>7. Serial(c)'
    BY <1>1, <1>2, <1>3, <1>5, <1>6 DEF Serial, Working, Committing, Ran, Decided, Resumed
<1> QED
    BY <1>1, <1>2, <1>4, <1>7, OthersStaySerial DEF LocksKept, RunsKept

(* The steps that end a transaction, and those within it that fail.        *)
LEMMA ReleasingSerial ==
    ASSUME TypeOK, TypeOK', AllSerial, NEW c \in Calls, holder' = Released(c),
           UNCHANGED runs, HistoriesKept(c), NEW status \in Outcomes,
           Report(c, status) \/ Return(c, status)
    PROVE  AllSerial'
<1>1. LocksKept(c) /\ \A l \in DOMAIN holder' : holder'[l] # c
    BY ReleaseKeepsLocks
<1>2. CASE Return(c, status)
    BY <1>1, <1>2, ReturnIsSerial, OthersStaySerial DEF RunsKept
<1>3. CASE Report(c, status)
    <2>1. pc'[c] = "record" /\ Alone(c)
        BY <1>3, ReportType DEF TypeOK, CallsOK, Alone
    <2>2. Serial(c)'
        BY <1>1, <2>1 DEF Serial, Working, Committing, Ran, Decided, Resumed
    <2> QED
        BY <1>1, <2>1, <2>2, OthersStaySerial DEF RunsKept
<1> QED
    BY <1>2, <1>3

LEMMA ExitSerial ==
    ASSUME TypeOK, TypeOK', AllSerial, NEW c \in Calls, Exit(c) \/ ExitFails(c)
    PROVE  AllSerial'
<1>1. /\ holder' = Released(c) /\ UNCHANGED runs /\ pc[c] = "exit"
      /\ frame[c].outcome \in Outcomes /\ frame[c].req \in Requests
    BY CallTyped DEF Exit, ExitFails, world, TypeOK
<1>2. AfterLostCommit(frame[c].outcome) \in Outcomes
    BY <1>1 DEF AfterLostCommit, Outcomes
<1>3. PICK status \in Outcomes : Report(c, status) \/ Return(c, status)
    BY <1>1, <1>2 DEF Exit, ExitFails, Outcomes
<1>4. HistoriesKept(c)
    <2>1. CASE UNCHANGED history
        BY <2>1 DEF HistoriesKept
    <2>2. CASE Sqlite /\ frame[c].outcome = "succeeded" /\ Appended(frame[c].req)
        BY <1>1, <2>2, RequestFields DEF Appended, HistoriesKept, Ran, Committing, TypeOK, StoreOK
    <2> QED
        BY <2>1, <2>2 DEF Exit, ExitFails
<1> QED
    BY <1>1, <1>3, <1>4, ReleasingSerial

LEMMA RecordSerial ==
    ASSUME TypeOK, TypeOK', AllSerial, NEW c \in Calls,
           Record(c) \/ RecordFails(c) \/ EvaluationRaises(c)
    PROVE  AllSerial'
<1>1. UNCHANGED <<history, runs>> /\ "raised" \in Outcomes
    BY DEF Record, RecordFails, EvaluationRaises, store, world, Outcomes
<1>2. CASE RecordFails(c) \/ EvaluationRaises(c)
    BY <1>1, <1>2, ReleasingSerial DEF RecordFails, EvaluationRaises, HistoriesKept
<1>3. CASE Record(c) /\ Holds(c) /\ Goto(c, "exit") /\ UNCHANGED frame
    <2>1. pc'[c] = "exit" /\ frame'[c] = frame[c] /\ Alone(c)
        BY <1>3, GotoIsAlone DEF Labels
    <2>2. frame[c].outcome # "succeeded" /\ UNCHANGED holder
        BY <1>3 DEF AllSerial, Serial, Record, Holds, store
    <2>3. Serial(c)'
        BY <2>1, <2>2 DEF Serial, Working, Committing, Ran, Decided, Resumed
    <2> QED
        BY <1>1, <2>1, <2>2, <2>3, QuietStaysSerial
<1>4. CASE Record(c) /\ Return(c, frame[c].outcome)
    <2>1. frame[c].outcome \in Outcomes
        BY <1>4, CallTyped DEF Record, TypeOK
    <2> QED
        BY <1>1, <1>4, <2>1, ReturnIsSerial, QuietStaysSerial DEF Record, store
<1> QED
    BY <1>2, <1>3, <1>4 DEF Record

LEMMA DenialSerial ==
    ASSUME TypeOK, TypeOK', AllSerial, NEW c \in Calls,
           StoreUnavailable(c) \/ SnapshotFails(c) \/ AdapterRaises(c) \/ SettleFails(c)
    PROVE  AllSerial'
<1>1. UNCHANGED <<history, holder, runs>>
    BY DEF StoreUnavailable, SnapshotFails, AdapterRaises, SettleFails, store, world
<1>2. PICK status \in Outcomes \ {"succeeded"} : Report(c, status)
    BY DEF StoreUnavailable, SnapshotFails, AdapterRaises, SettleFails, Outcomes
<1> QED
    BY <1>1, <1>2, ReportIsSerial, QuietStaysSerial

LEMMA RedeemUnknownSerial ==
    ASSUME TypeOK, TypeOK', AllSerial, NEW c \in Calls, RedeemUnknown(c)
    PROVE  AllSerial'
BY ReturnIsSerial, QuietStaysSerial DEF RedeemUnknown, store, world, Outcomes

LEMMA ProgressSerial ==
    ASSUME TypeOK, TypeOK', AllSerial, NEW c \in Calls,
           Execute(c) \/ Announce(c) \/ AdapterReturns(c)
    PROVE  AllSerial'
<1>1. UNCHANGED <<history, holder, runs>>
    BY DEF Execute, Announce, AdapterReturns, store, world
<1>2. CASE Report(c, "denied")
    BY <1>1, <1>2, ReportIsSerial, QuietStaysSerial DEF Outcomes
<1>3. CASE ~Report(c, "denied")
    BY <1>1, <1>3, StridesSerial DEF Execute, Announce, AdapterReturns
<1> QED
    BY <1>2, <1>3

(* A restart loses the calls that held something; in memory, where it also *)
(* empties the histories, it loses every call there is.                    *)
LEMMA OneProcess ==
    ASSUME ~Sqlite, NEW p \in Procs, NEW q \in Procs
    PROVE  p = q
BY MemoryIsOneProcess

LEMMA CrashSerial ==
    ASSUME TypeOK, TypeOK', AllSerial, NEW p \in Procs, Crash(p)
    PROVE  AllSerial'
<1> DEFINE gone(c) == InFlight(c) /\ frame[c].proc = p
<1> SUFFICES ASSUME NEW c \in Calls PROVE Serial(c)'
    BY DEF AllSerial
<1>1. UNCHANGED runs /\ pc'[c] = IF gone(c) THEN "lost" ELSE pc[c]
    BY DEF Crash, world
<1>2. CASE gone(c)
    <2>1. pc'[c] = "lost"
        BY <1>1, <1>2
    <2> QED
        BY <2>1, IdleIsSerial
<1>3. CASE ~InFlight(c)
    <2>1. pc'[c] \in {"ready", "returned", "lost"}
        BY <1>1, <1>3 DEF InFlight
    <2> QED
        BY <2>1, IdleIsSerial
<1>4. CASE InFlight(c) /\ frame[c].proc # p
    <2>1. frame[c].proc \in Procs
        BY <1>4, CallTyped DEF InFlight, TypeOK
    <2>2. Sqlite
        BY <1>4, <2>1, OneProcess
    <2>3. history' = history /\ pc'[c] = pc[c] /\ frame'[c] = frame[c]
        BY <1>4, <2>2 DEF Crash
    <2>4. /\ holder[LockOf(frame[c].req)] = c => holder'[LockOf(frame[c].req)] = c
          /\ (\A l \in DOMAIN holder : holder[l] # c) => \A l \in DOMAIN holder' : holder'[l] # c
        BY <1>4, <2>2 DEF Crash, LockOf, TypeOK, StoreOK
    <2>5. OwnsSession(c) => OwnsSession(c)'
        BY <2>3, <2>4 DEF OwnsSession, LockOf
    <2> QED
        BY <1>1, <2>3, <2>4, <2>5 DEF AllSerial, Serial, Working, Committing, Ran, Decided, Resumed
<1> QED
    BY <1>2, <1>3, <1>4

LEMMA UntouchedSerial ==
    ASSUME AllSerial, UNCHANGED <<history, holder, runs, pc, frame>>
    PROVE  AllSerial'
<1> SUFFICES ASSUME NEW c \in Calls PROVE Serial(c)'
    BY DEF AllSerial
<1>1. OwnsSession(c)' <=> OwnsSession(c)
    BY DEF OwnsSession, LockOf
<1> QED
    BY <1>1 DEF AllSerial, Serial, Working, Committing, Ran, Decided, Resumed

LEMMA EnvironmentSerial ==
    ASSUME TypeOK, TypeOK', AllSerial, Environment
    PROVE  AllSerial'
<1>1. CASE Issue \/ Tick \/ (\E p \in Procs : ChangePolicy(p)) \/ (\E tool \in Volatile : Retarget(tool))
    <2>1. UNCHANGED <<history, holder, runs, pc, frame>>
        BY <1>1 DEF Issue, Tick, ChangePolicy, Retarget, store, world
    <2> QED
        BY <2>1, UntouchedSerial
<1>2. CASE \E p \in Procs : Crash(p)
    BY <1>2, CrashSerial
<1> QED
    BY <1>1, <1>2 DEF Environment

LEMMA StepSerial == ASSUME TypeOK, TypeOK', AllSerial, [Next]_vars PROVE AllSerial'
<1>1. ASSUME NEW c \in Calls, Submit(c) \/ Resume(c) PROVE AllSerial'
    BY <1>1, ArrivalSerial
<1>2. ASSUME NEW c \in Calls, Step(c) PROVE AllSerial'
    BY <1>2, AuthenticateSerial, ClaimSerial, EnterSerial, JudgeSerial, ParkSerial,
       RedeemUnknownSerial, RedeemSerial, CheckContextSerial, ProgressSerial,
       InvokeSerial, SettleSerial, ExitSerial, RecordSerial DEF Step
<1>3. ASSUME NEW c \in Calls, Failure(c) PROVE AllSerial'
    BY <1>3, DenialSerial, ExitSerial, RecordSerial DEF Failure
<1>4. CASE UNCHANGED vars
    BY <1>4, UntouchedSerial DEF vars, store, world
<1> QED
    BY <1>1, <1>2, <1>3, <1>4, EnvironmentSerial DEF Next, Finished

LEMMA InitSerial == Init => AllSerial
BY DEF Init, AllSerial, Serial, Working, Committing, Ran, Decided, Resumed

(* A call keeps its session's lock, and the history it was decided on, from*)
(* its snapshot to the commit of its event, whatever others do meanwhile.  *)
THEOREM SessionsAreSerial == Spec => []AllSerial
<1>1. Init => AllSerial
    BY InitSerial
<1>2. TypeOK /\ TypeOK' /\ AllSerial /\ [Next]_vars => AllSerial'
    BY StepSerial
<1> QED
    BY <1>1, <1>2, TypeCorrect, PTL DEF Spec

-----------------------------------------------------------------------------
(* How a step changes what matters to the histories: an event is appended  *)
(* by a call that has run, which then has nothing more to do; a call is    *)
(* ready to run once _execute has found it lawful.                         *)
Lawful(r, h) == Verdict(r.tool, h, "allow") # "deny"
Ready(c) == pc[c] \in {"announce", "invoke"} \/ Ran(c)

Moves(c) ==
    /\ Ready(c)' => /\ frame'[c].req = frame[c].req
                    /\ Ready(c) \/ (pc[c] = "execute" /\ Lawful(frame[c].req, history[frame[c].req.session]))
    /\ Ran(c)' => Ran(c) \/ pc[c] = "invoke"
    /\ history' = history \/ (Ran(c) /\ Appended(frame[c].req) /\ ~Ready(c)')
    /\ RunsKept

LEMMA UnreadyMoves ==
    ASSUME NEW c, UNCHANGED <<history, runs>>,
           pc'[c] \in {"authenticate", "claim", "enter", "judge", "park", "redeem", "check",
                       "execute", "record", "returned"}
    PROVE  Moves(c)
BY DEF Moves, Ready, Ran, Committing, RunsKept

LEMMA RefusalMoves ==
    ASSUME TypeOK, NEW c \in Calls, NEW status \in Outcomes, Report(c, status) \/ Return(c, status)
    PROVE  pc'[c] \in {"record", "returned"} /\ Alone(c)
BY ReportType, ReturnType DEF TypeOK, CallsOK, Alone

LEMMA EarlyMoves ==
    ASSUME TypeOK, NEW c \in Calls,
           \/ Submit(c) \/ Resume(c) \/ Authenticate(c) \/ Claim(c) \/ Enter(c)
           \/ Judge(c) \/ Park(c) \/ Redeem(c) \/ CheckContext(c)
    PROVE  Moves(c) /\ Alone(c)
<1>1. UNCHANGED <<history, runs>>
    BY DEF Submit, Resume, Authenticate, Claim, Enter, Judge, Park, Redeem, CheckContext,
           store, world
<1>2. CASE Report(c, "denied")
    BY <1>1, <1>2, RefusalMoves, UnreadyMoves DEF Outcomes
<1>3. CASE \E label \in {"authenticate", "claim", "enter", "judge", "park", "redeem",
                         "check", "execute", "record"} :
              Goto(c, label) /\ (UNCHANGED frame \/ \E f : With(c, f))
    <2>1. PICK label \in {"authenticate", "claim", "enter", "judge", "park", "redeem",
                          "check", "execute", "record"} :
                 Goto(c, label) /\ (UNCHANGED frame \/ \E f : With(c, f))
        BY <1>3
    <2>2. pc'[c] = label /\ Alone(c)
        BY <2>1, GotoIsAlone, MoveIsAlone DEF Labels
    <2> QED
        BY <1>1, <2>2, UnreadyMoves
<1>4. Submit(c) \/ Resume(c) \/ Authenticate(c) \/ Claim(c) \/ Enter(c) \/ Park(c) =>
         Report(c, "denied") \/
         \E label \in {"authenticate", "claim", "enter", "judge", "park", "redeem",
                       "check", "execute", "record"} :
              Goto(c, label) /\ (UNCHANGED frame \/ \E f : With(c, f))
    BY DEF Submit, Resume, Authenticate, Claim, Enter, Park
<1>5. Redeem(c) \/ CheckContext(c) =>
         Report(c, "denied") \/
         \E label \in {"enter", "execute"} : Goto(c, label) /\ \E f : With(c, f)
    BY DEF Redeem, CheckContext
<1>6. Judge(c) => \E label \in {"record", "park", "execute"} : Goto(c, label) /\ \E f : With(c, f)
    <2> SUFFICES ASSUME Judge(c)
                 PROVE  \E label \in {"record", "park", "execute"} : Goto(c, label) /\ \E f : With(c, f)
        OBVIOUS
    <2>1. PICK outcome \in Outcomes, label \in {"record", "park", "execute"} :
             /\ With(c, [frame[c] EXCEPT
                   !.view = history[frame[c].req.session],
                   !.dec = [req |-> frame[c].req, version |-> version[frame[c].proc],
                            context |-> history[frame[c].req.session]],
                   !.outcome = outcome])
             /\ Goto(c, label)
        BY JudgeMoves
    <2> QED
        BY <2>1
<1> QED
    BY <1>2, <1>3, <1>4, <1>5, <1>6

LEMMA RefusedMoves ==
    ASSUME TypeOK, NEW c \in Calls,
           \/ RedeemUnknown(c) \/ StoreUnavailable(c) \/ SnapshotFails(c) \/ AdapterRaises(c)
           \/ SettleFails(c) \/ ExitFails(c) \/ RecordFails(c) \/ EvaluationRaises(c)
    PROVE  Moves(c) /\ Alone(c)
<1>1. UNCHANGED <<history, runs>>
    BY DEF RedeemUnknown, StoreUnavailable, SnapshotFails, AdapterRaises, SettleFails,
           ExitFails, RecordFails, EvaluationRaises, store, world
<1>2. ExitFails(c) => AfterLostCommit(frame[c].outcome) \in Outcomes
    BY CallTyped DEF ExitFails, AfterLostCommit, TypeOK, Outcomes
<1>3. PICK status \in Outcomes : Report(c, status) \/ Return(c, status)
    BY <1>2 DEF RedeemUnknown, StoreUnavailable, SnapshotFails, AdapterRaises, SettleFails,
                ExitFails, RecordFails, EvaluationRaises, Outcomes
<1> QED
    BY <1>1, <1>3, RefusalMoves, UnreadyMoves

LEMMA ExecuteMoves ==
    ASSUME TypeOK, AllSerial, NEW c \in Calls, Execute(c)
    PROVE  Moves(c) /\ Alone(c)
<1>1. UNCHANGED <<history, runs>> /\ pc[c] = "execute"
    BY DEF Execute, store, world
<1>2. CASE Report(c, "denied")
    BY <1>1, <1>2, RefusalMoves, UnreadyMoves DEF Outcomes
<1>3. CASE /\ Verdict(frame[c].req.tool, frame[c].view, Revalidated(frame[c].req.tool)) # "deny"
           /\ Goto(c, "announce") /\ UNCHANGED frame
    <2>1. pc'[c] = "announce" /\ frame'[c] = frame[c] /\ Alone(c)
        BY <1>3, GotoIsAlone DEF Labels
    <2>2. frame[c].view = history[frame[c].req.session]
        BY <1>1 DEF AllSerial, Serial, Decided
    <2>3. Revalidated(frame[c].req.tool) = "allow"
        BY <1>3 DEF Revalidated, Verdict, EvaluateSequence
    <2>4. Lawful(frame[c].req, history[frame[c].req.session])
        BY <1>3, <2>2, <2>3 DEF Lawful
    <2> QED
        BY <1>1, <2>1, <2>4 DEF Moves, Ready, Ran, Committing, RunsKept
<1> QED
    BY <1>2, <1>3 DEF Execute

LEMMA StrideMoves ==
    ASSUME TypeOK, NEW c \in Calls, Announce(c) \/ AdapterReturns(c)
    PROVE  Moves(c) /\ Alone(c)
<1>1. UNCHANGED <<history, runs, frame>>
    BY DEF Announce, AdapterReturns, store, world
<1>2. PICK label \in {"invoke", "settle"} :
         /\ Goto(c, label) /\ (label = "settle" => pc[c] = "adapter")
         /\ pc[c] \in {"announce", "adapter"}
    BY DEF Announce, AdapterReturns
<1>3. pc'[c] = label /\ frame'[c] = frame[c] /\ Alone(c)
    BY <1>1, <1>2, GotoIsAlone DEF Labels
<1> QED
    BY <1>1, <1>2, <1>3 DEF Moves, Ready, Ran, Committing, RunsKept

LEMMA InvokeMoves ==
    ASSUME TypeOK, NEW c \in Calls, Invoke(c)
    PROVE  Moves(c) /\ Alone(c)
<1> DEFINE i == frame[c].req.id
           run == [via |-> frame[c].via, dec |-> frame[c].dec]
           f == [frame[c] EXCEPT !.ran = TRUE]
<1>1. UNCHANGED history /\ pc[c] = "invoke"
    BY DEF Invoke, store
<1>2. CASE Report(c, "execution_failed") /\ UNCHANGED runs
    BY <1>1, <1>2, RefusalMoves, UnreadyMoves DEF Outcomes
<1>3. CASE /\ runs' = [runs EXCEPT ![i] = Append(@, run)]
           /\ Goto(c, "adapter") /\ With(c, f)
    <2>1. frame[c] \in CallType /\ i \in Ids
        BY <1>1, CallTyped DEF TypeOK, Request
    <2>2. pc'[c] = "adapter" /\ frame'[c] = f /\ Alone(c) /\ f.req = frame[c].req
        BY <1>3, <2>1, MoveIsAlone DEF Labels, CallType
    <2> HIDE DEF f, run, i
    <2>3. RunsKept
        BY <1>3, <2>1, AppendKeepsRuns
    <2> QED
        BY <1>1, <2>2, <2>3 DEF Moves, Ready, Ran, Committing
<1> QED
    BY <1>2, <1>3 DEF Invoke

LEMMA SettleMoves ==
    ASSUME TypeOK, NEW c \in Calls, Settle(c)
    PROVE  Moves(c) /\ Alone(c)
<1>1. UNCHANGED runs /\ pc[c] = "settle" /\ frame[c] \in CallType
    BY CallTyped DEF Settle, world, TypeOK
<1>2. /\ pc'[c] = "exit" /\ frame'[c] = [frame[c] EXCEPT !.outcome = "succeeded"] /\ Alone(c)
    BY MoveIsAlone DEF Settle, Labels
<1>3. frame'[c].req = frame[c].req
    BY <1>1, <1>2 DEF CallType
<1>4. IF Sqlite THEN history' = history ELSE Appended(frame[c].req)
    BY DEF Settle
<1> QED
    BY <1>1, <1>2, <1>3, <1>4 DEF Moves, Ready, Ran, Committing, RunsKept

LEMMA EndMoves ==
    ASSUME TypeOK, AllSerial, NEW c \in Calls, Exit(c) \/ Record(c)
    PROVE  Moves(c) /\ Alone(c)
<1>1. UNCHANGED runs /\ frame[c].outcome \in Outcomes
    BY CallTyped DEF Exit, Record, world, TypeOK
<1>2. CASE Exit(c)
    <2>1. pc'[c] \in {"record", "returned"} /\ Alone(c)
        BY <1>1, <1>2, RefusalMoves DEF Exit, Outcomes
    <2>2. pc[c] = "exit" /\ (history' = history \/ (Committing(c) /\ Appended(frame[c].req)))
        BY <1>2 DEF Exit, Committing
    <2> QED
        BY <1>1, <2>1, <2>2 DEF Moves, Ready, Ran, Committing, RunsKept
<1>3. CASE Record(c) /\ Return(c, frame[c].outcome)
    BY <1>1, <1>3, RefusalMoves, UnreadyMoves DEF Record, store
<1>4. CASE Record(c) /\ Holds(c) /\ Goto(c, "exit") /\ UNCHANGED frame
    <2>1. pc'[c] = "exit" /\ frame'[c] = frame[c] /\ Alone(c)
        BY <1>4, GotoIsAlone DEF Labels
    <2>2. frame[c].outcome # "succeeded" /\ UNCHANGED history
        BY <1>4 DEF AllSerial, Serial, Record, Holds, store
    <2> QED
        BY <1>1, <2>1, <2>2 DEF Moves, Ready, Ran, Committing, RunsKept
<1> QED
    BY <1>2, <1>3, <1>4 DEF Record

(* Every step is a call's move, a restart, or touches none of this.        *)
LEMMA StepMoves ==
    ASSUME TypeOK, AllSerial, [Next]_vars
    PROVE  \/ \E c \in Calls : Moves(c) /\ Alone(c)
           \/ \E p \in Procs : Crash(p)
           \/ UNCHANGED <<history, runs, pc, frame>>
<1>1. ASSUME NEW c \in Calls, Submit(c) \/ Resume(c) \/ Step(c) \/ Failure(c)
      PROVE  Moves(c) /\ Alone(c)
    BY <1>1, EarlyMoves, RefusedMoves, ExecuteMoves, StrideMoves, InvokeMoves, SettleMoves,
       EndMoves DEF Step, Failure
<1>2. CASE Issue \/ Tick \/ (\E p \in Procs : ChangePolicy(p)) \/ (\E tool \in Volatile : Retarget(tool))
    BY <1>2 DEF Issue, Tick, ChangePolicy, Retarget, store, world
<1>3. CASE UNCHANGED vars
    BY <1>3 DEF vars, store, world
<1> QED
    BY <1>1, <1>2, <1>3 DEF Next, Finished, Environment

-----------------------------------------------------------------------------
(* Decided on the prefix: what was committed before stays decided, and the *)
(* event appended was decided on all that was there.                       *)
LEMMA PrefixOfAppend ==
    ASSUME NEW S, NEW h \in Seq(S), NEW e \in S, NEW k \in 1..Len(h)
    PROVE  Append(h, e)[k] = h[k] /\ SubSeq(Append(h, e), 1, k - 1) = SubSeq(h, 1, k - 1)
OBVIOUS

LEMMA WholeOfAppend ==
    ASSUME NEW S, NEW h \in Seq(S), NEW e \in S
    PROVE  /\ DOMAIN Append(h, e) = 1..(Len(h) + 1) /\ Append(h, e)[Len(h) + 1] = e
           /\ SubSeq(Append(h, e), 1, Len(h)) = h
OBVIOUS

Backed(adapterRuns, r, before) ==
    \E n \in DOMAIN adapterRuns[r.id] :
       adapterRuns[r.id][n].dec.req = r /\ adapterRuns[r.id][n].dec.context = before

LEMMA BackedStays ==
    ASSUME RunsKept, NEW r \in Requests, NEW before, Backed(runs, r, before)
    PROVE  Backed(runs', r, before)
<1>1. r.id \in Ids
    BY RequestFields
<1> QED
    BY <1>1 DEF Backed, RunsKept

LEMMA AppendStaysDecided ==
    ASSUME TypeOK, TypeOK', AllSerial, DecidedOnPrefix, RunsKept,
           NEW c \in Calls, Ran(c), Appended(frame[c].req)
    PROVE  DecidedOnPrefix'
<1> DEFINE r == frame[c].req
           h == history[r.session]
<1>1. r \in Requests /\ r.session \in Sessions /\ h \in Seq(Requests)
    BY CallTyped, RequestFields DEF Ran, Committing, TypeOK, StoreOK
<1>2. history'[r.session] = Append(h, r) /\ \A s \in Sessions \ {r.session} : history'[s] = history[s]
    BY <1>1 DEF Appended, TypeOK, StoreOK
<1>3. Backed(runs, r, h)
    BY DEF AllSerial, Serial, Decided, Backed
<1> SUFFICES ASSUME NEW s \in Sessions, NEW k \in DOMAIN history'[s]
             PROVE  Backed(runs', history'[s][k], SubSeq(history'[s], 1, k - 1))
    BY DEF DecidedOnPrefix, Backed
<1>4. history[s] \in Seq(Requests)
    BY DEF TypeOK, StoreOK
<1>5. ASSUME k \in DOMAIN history[s]
      PROVE  Backed(runs', history[s][k], SubSeq(history[s], 1, k - 1))
    <2>1. Backed(runs, history[s][k], SubSeq(history[s], 1, k - 1))
        BY <1>5 DEF DecidedOnPrefix, Backed
    <2> QED
        BY <1>4, <1>5, <2>1, BackedStays
<1>6. CASE s # r.session
    BY <1>2, <1>5, <1>6
<1>7. CASE s = r.session /\ k \in 1..Len(h)
    <2>1. history'[s] = Append(h, r) /\ history[s] = h /\ k \in DOMAIN history[s]
        BY <1>1, <1>2, <1>7
    <2>2. /\ history'[s][k] = history[s][k]
          /\ SubSeq(history'[s], 1, k - 1) = SubSeq(history[s], 1, k - 1)
        BY <1>1, <1>7, <2>1, PrefixOfAppend
    <2> QED
        BY <1>5, <2>1, <2>2
<1>8. CASE s = r.session /\ k \notin 1..Len(h)
    <2>1. k = Len(h) + 1
        BY <1>1, <1>2, <1>8, WholeOfAppend
    <2>2. history'[s][k] = r /\ SubSeq(history'[s], 1, k - 1) = h
        BY <1>1, <1>2, <1>8, <2>1, WholeOfAppend
    <2> QED
        BY <1>1, <1>3, <2>2, BackedStays
<1> QED
    BY <1>6, <1>7, <1>8

LEMMA UnchangedStaysDecided ==
    ASSUME TypeOK, DecidedOnPrefix, RunsKept, UNCHANGED history
    PROVE  DecidedOnPrefix'
<1> SUFFICES ASSUME NEW s \in Sessions, NEW k \in DOMAIN history[s]
             PROVE  Backed(runs', history[s][k], SubSeq(history[s], 1, k - 1))
    BY DEF DecidedOnPrefix, Backed
<1>1. Backed(runs, history[s][k], SubSeq(history[s], 1, k - 1))
    BY DEF DecidedOnPrefix, Backed
<1>2. history[s][k] \in Requests
    BY DEF TypeOK, StoreOK
<1> QED
    BY <1>1, <1>2, BackedStays

LEMMA CrashKeepsHistories ==
    ASSUME NEW p \in Procs, Crash(p)
    PROVE  RunsKept /\ (history' = history \/ history' = [s \in Sessions |-> << >>])
BY DEF Crash, world, RunsKept

LEMMA StepStaysDecided ==
    ASSUME TypeOK, TypeOK', AllSerial, DecidedOnPrefix, [Next]_vars
    PROVE  DecidedOnPrefix'
<1>1. CASE \E c \in Calls : Moves(c) /\ Alone(c)
    BY <1>1, AppendStaysDecided, UnchangedStaysDecided DEF Moves
<1>2. CASE \E p \in Procs : Crash(p)
    <2>1. CASE history' = [s \in Sessions |-> << >>]
        BY <2>1 DEF DecidedOnPrefix
    <2> QED
        BY <1>2, <2>1, CrashKeepsHistories, UnchangedStaysDecided
<1>3. CASE UNCHANGED <<history, runs, pc, frame>>
    BY <1>3, UnchangedStaysDecided DEF RunsKept
<1> QED
    BY <1>1, <1>2, <1>3, StepMoves

(* Every event in a session's history was decided on exactly the events    *)
(* before it, in either store, whatever calls compete, fail or are lost.   *)
THEOREM EventsAreDecidedOnPrefix == Spec => []DecidedOnPrefix
<1>1. Init => DecidedOnPrefix
    BY DEF Init, DecidedOnPrefix
<1>2. TypeOK /\ TypeOK' /\ AllSerial /\ DecidedOnPrefix /\ [Next]_vars => DecidedOnPrefix'
    BY StepStaysDecided
<1> QED
    BY <1>1, <1>2, TypeCorrect, SessionsAreSerial, PTL DEF Spec

-----------------------------------------------------------------------------
(* What makes a commit an event PolicyHistory admits: the call about to    *)
(* commit is alone with its identifier, the identifier is new to every     *)
(* session, and the policy does not deny the event on what is there now.   *)
MayRun(c) == Lawful(frame[c].req, history[frame[c].req.session])

Alike(c, d) == frame[d].req.id = frame[c].req.id

OneCommit ==
    /\ \A c \in Calls : Ready(c) => MayRun(c)
    /\ \A c \in Calls : Ran(c) => ~Committed(frame[c].req.id)
    /\ \A c \in Calls : \A d \in Calls : Ran(c) /\ Ran(d) /\ Alike(c, d) => d = c
    /\ \A i \in Ids : Committed(i) => DOMAIN runs[i] # {}

LEMMA RanHasRun ==
    ASSUME TypeOK, AllSerial, NEW c \in Calls, Ran(c)
    PROVE  frame[c].req \in Requests /\ frame[c].req.id \in Ids /\ DOMAIN runs[frame[c].req.id] # {}
<1>1. frame[c].req \in Requests
    BY CallTyped DEF Ran, Committing, TypeOK
<1> QED
    BY <1>1, RequestFields DEF AllSerial, Serial

HasEvent(logs, i) == \E s \in Sessions : \E k \in DOMAIN logs[s] : logs[s][k].id = i

LEMMA CommittedAfter ==
    ASSUME TypeOK, NEW r \in Requests, Appended(r), NEW i
    PROVE  HasEvent(history', i) <=> HasEvent(history, i) \/ i = r.id
<1> DEFINE h == history[r.session]
<1>1. r.session \in Sessions /\ h \in Seq(Requests)
    BY RequestFields DEF TypeOK, StoreOK
<1>2. history'[r.session] = Append(h, r) /\ \A s \in Sessions \ {r.session} : history'[s] = history[s]
    BY <1>1 DEF Appended, TypeOK, StoreOK
<1>3. /\ DOMAIN Append(h, r) = 1..(Len(h) + 1) /\ Append(h, r)[Len(h) + 1] = r
      /\ \A k \in 1..Len(h) : Append(h, r)[k] = h[k]
      /\ DOMAIN h = 1..Len(h) /\ Len(h) \in Nat
    BY <1>1
<1> HIDE DEF h
<1>4. \A k \in DOMAIN Append(h, r) : k \in DOMAIN h \/ k = Len(h) + 1
    BY <1>3
<1>5. \A k \in DOMAIN h : k \in DOMAIN Append(h, r)
    BY <1>3
<1>6. (\E k \in DOMAIN history'[r.session] : history'[r.session][k].id = i) <=>
         (\E k \in DOMAIN h : h[k].id = i) \/ i = r.id
    BY <1>2, <1>3, <1>4, <1>5
<1> QED
    BY <1>1, <1>2, <1>6 DEF HasEvent, h

LEMMA StillMayRun ==
    ASSUME TypeOK, AllSerial, OneCommit, NEW c \in Calls, Moves(c), Alone(c),
           NEW d \in Calls, Ready(d)'
    PROVE  MayRun(d)'
<1>1. frame'[d].req = frame[d].req /\ MayRun(d) /\ Decided(d)
    BY DEF Moves, Alone, Ready, Ran, Committing, Decided, OneCommit, MayRun
<1>2. history'[frame[d].req.session] = history[frame[d].req.session]
    <2>1. CASE history' = history
        BY <2>1
    <2>2. CASE Ran(c) /\ Appended(frame[c].req) /\ ~Ready(c)'
        <3>1. OwnsSession(c) /\ OwnsSession(d) /\ d # c
            BY <1>1, <2>2 DEF AllSerial, Serial, Decided, Ran, Working
        <3>2. frame[d].req.session # frame[c].req.session
            BY <3>1 DEF OwnsSession, LockOf
        <3>3. frame[d].req \in Requests
            BY <1>1, CallTyped DEF Decided, Ran, Committing, TypeOK
        <3> QED
            BY <2>2, <3>2, <3>3, RequestFields DEF Appended, TypeOK, StoreOK
    <2> QED
        BY <2>1, <2>2 DEF Moves
<1> QED
    BY <1>1, <1>2 DEF MayRun, Lawful

LEMMA InvokerIsFirst ==
    ASSUME OneDriver, NEW c \in Calls, pc[c] = "invoke"
    PROVE  DOMAIN runs[frame[c].req.id] = {}
<1>1. runs[frame[c].req.id] = << >>
    BY DEF OneDriver, Driving, Claimant
<1> QED
    BY <1>1

LEMMA StillNew ==
    ASSUME TypeOK, AllSerial, OneDriver, OneCommit, NEW c \in Calls, Moves(c), Alone(c),
           NEW d \in Calls, Ran(d)'
    PROVE  ~Committed(frame[d].req.id)'
<1>1. frame'[d].req = frame[d].req /\ (Ran(d) \/ (d = c /\ pc[c] = "invoke"))
    BY DEF Moves, Alone, Ready, Ran, Committing
<1>2. frame[d].req \in Requests
    BY <1>1, CallTyped DEF Ran, Committing, TypeOK
<1>3. ~Committed(frame[d].req.id)
    BY <1>1, <1>2, InvokerIsFirst, RequestFields DEF OneCommit
<1> DEFINE i == frame[d].req.id
<1>4. ~HasEvent(history, i)
    BY <1>3 DEF Committed, HasEvent
<1>5. ~HasEvent(history', i)
    <2>1. CASE history' = history
        BY <1>4, <2>1
    <2>2. CASE Ran(c) /\ Appended(frame[c].req) /\ ~Ready(c)'
        <3>1. d # c /\ Ran(d)
            BY <1>1, <2>2 DEF Ready
        <3>2. i # frame[c].req.id
            BY <2>2, <3>1 DEF OneCommit, Alike
        <3>3. frame[c].req \in Requests
            BY <2>2, RanHasRun
        <3> HIDE DEF i
        <3> QED
            BY <1>4, <2>2, <3>2, <3>3, CommittedAfter
    <2> QED
        BY <2>1, <2>2 DEF Moves
<1> QED
    BY <1>1, <1>5 DEF Committed, HasEvent

LEMMA StillAlone ==
    ASSUME TypeOK, AllSerial, OneDriver, OneCommit, NEW c \in Calls, Moves(c), Alone(c),
           NEW d \in Calls, NEW e \in Calls, Ran(d)', Ran(e)', Alike(d, e)'
    PROVE  e = d
<1>1. /\ frame'[d].req = frame[d].req /\ (Ran(d) \/ (d = c /\ pc[c] = "invoke"))
      /\ frame'[e].req = frame[e].req /\ (Ran(e) \/ (e = c /\ pc[c] = "invoke"))
    BY DEF Moves, Alone, Ready, Ran, Committing
<1>2. frame[e].req.id = frame[d].req.id
    BY <1>1 DEF Alike
<1>3. CASE Ran(d) /\ Ran(e)
    BY <1>2, <1>3 DEF OneCommit, Alike
<1>4. CASE ~Ran(d)
    BY <1>1, <1>2, <1>4, InvokerIsFirst, RanHasRun
<1>5. CASE ~Ran(e)
    BY <1>1, <1>2, <1>5, InvokerIsFirst, RanHasRun
<1> QED
    BY <1>3, <1>4, <1>5

LEMMA StillLogged ==
    ASSUME TypeOK, AllSerial, OneCommit, NEW c \in Calls, Moves(c),
           NEW i \in Ids, Committed(i)'
    PROVE  DOMAIN runs'[i] # {}
<1>1. DOMAIN runs[i] # {}
    <2>1. CASE history' = history
        BY <2>1 DEF Committed, OneCommit
    <2>2. CASE Ran(c) /\ Appended(frame[c].req)
        <3>1. Committed(i) \/ i = frame[c].req.id
            BY <2>2, RanHasRun, CommittedAfter DEF Committed, HasEvent
        <3> QED
            BY <2>2, <3>1, RanHasRun DEF OneCommit
    <2> QED
        BY <2>1, <2>2 DEF Moves
<1> QED
    BY <1>1 DEF Moves, RunsKept

LEMMA MoveKeepsOneCommit ==
    ASSUME TypeOK, AllSerial, OneDriver, OneCommit, NEW c \in Calls, Moves(c), Alone(c)
    PROVE  OneCommit'
<1>1. \A d \in Calls : Ready(d)' => MayRun(d)'
    BY StillMayRun
<1>2. \A d \in Calls : Ran(d)' => ~Committed(frame[d].req.id)'
    BY StillNew
<1>3. \A d \in Calls : \A e \in Calls : Ran(d)' /\ Ran(e)' /\ Alike(d, e)' => e = d
    BY StillAlone
<1>4. \A i \in Ids : Committed(i)' => DOMAIN runs'[i] # {}
    BY StillLogged
<1> QED
    BY <1>1, <1>2, <1>3, <1>4 DEF OneCommit

(* Steps that end calls or leave them alone.                               *)
LEMMA QuietKeepsOneCommit ==
    ASSUME OneCommit, UNCHANGED <<history, runs>>,
           \A d \in Calls : pc'[d] = "lost" \/ (pc'[d] = pc[d] /\ frame'[d] = frame[d])
    PROVE  OneCommit'
<1>1. \A d \in Calls : (Ready(d)' => Ready(d)) /\ (Ran(d)' => Ran(d))
                       /\ (Ready(d)' \/ Ran(d)' => frame'[d] = frame[d])
    BY DEF Ready, Ran, Committing
<1>2. \A d \in Calls : Ready(d)' => MayRun(d)'
    BY <1>1 DEF OneCommit, MayRun, Lawful
<1>3. \A d \in Calls : Ran(d)' => ~Committed(frame[d].req.id)'
    BY <1>1 DEF OneCommit, Committed
<1>4. \A d \in Calls : \A e \in Calls : Ran(d)' /\ Ran(e)' /\ Alike(d, e)' => e = d
    BY <1>1 DEF OneCommit, Alike
<1>5. \A i \in Ids : Committed(i)' => DOMAIN runs'[i] # {}
    BY DEF OneCommit, Committed
<1> QED
    BY <1>2, <1>3, <1>4, <1>5 DEF OneCommit

LEMMA DurableCrash ==
    ASSUME Durable, TypeOK, NEW p \in Procs, Crash(p)
    PROVE  /\ UNCHANGED <<history, runs>>
           /\ \A d \in Calls : pc'[d] = "lost" \/ (pc'[d] = pc[d] /\ frame'[d] = frame[d])
<1>1. Sqlite
    <2>1. crashes \in 0..MaxCrashes /\ crashes < MaxCrashes
        BY DEF TypeOK, WorldOK, Crash
    <2> QED
        BY <2>1 DEF Durable
<1>2. UNCHANGED <<history, runs>>
    BY <1>1 DEF Crash, world
<1> QED
    BY <1>2 DEF Crash

LEMMA StepKeepsOneCommit ==
    ASSUME Durable, TypeOK, AllSerial, OneDriver, OneCommit, [Next]_vars
    PROVE  OneCommit'
<1>1. CASE \E c \in Calls : Moves(c) /\ Alone(c)
    BY <1>1, MoveKeepsOneCommit
<1>2. CASE \E p \in Procs : Crash(p)
    BY <1>2, DurableCrash, QuietKeepsOneCommit
<1>3. CASE UNCHANGED <<history, runs, pc, frame>>
    BY <1>3, QuietKeepsOneCommit
<1> QED
    BY <1>1, <1>2, <1>3, StepMoves

LEMMA InitOneCommit == Init => OneCommit
BY DEF Init, OneCommit, Ready, Ran, Committing, Committed

LEMMA PolicyIsShared ==
    ASSUME NEW rules, NEW tool, NEW trace, NEW base
    PROVE  Promise!EvaluateSequence(rules, tool, trace, base) = EvaluateSequence(rules, tool, trace, base)
BY DEF EvaluateSequence, Matches, Sourced, Visible, VisibleFrom, NoWindow,
       Promise!EvaluateSequence, Promise!Matches, Promise!Sourced, Promise!Visible,
       Promise!VisibleFrom, Promise!NoWindow

LEMMA LawfulIsPromised ==
    ASSUME NEW r
    PROVE  Promise!Lawful(r) <=> Lawful(r, history[r.session])
<1>1. Promise!LogTrace(r.session) = Trace(history[r.session])
    BY DEF Promise!LogTrace, Trace
<1> QED
    BY <1>1, PolicyIsShared DEF Lawful, Promise!Lawful, Verdict

(* A step of the gateway is a step of PolicyHistory, or invisible to it.   *)
LEMMA StepRefines ==
    ASSUME Durable, TypeOK, AllSerial, OneCommit, [Next]_vars
    PROVE  [Promise!Next]_history
<1>1. CASE \E c \in Calls : Moves(c)
    <2>1. PICK c \in Calls : Moves(c)
        BY <1>1
    <2>2. CASE history' = history
        BY <2>2
    <2>3. CASE Ran(c) /\ Appended(frame[c].req)
        <3>1. frame[c].req \in Requests
            BY <2>3, RanHasRun
        <3>2. ~Promise!Logged(frame[c].req.id)
            BY <2>3 DEF OneCommit, Committed, Promise!Logged
        <3>3. Promise!Lawful(frame[c].req)
            BY <2>3, LawfulIsPromised DEF OneCommit, Ready, MayRun
        <3> QED
            BY <2>3, <3>1, <3>2, <3>3 DEF Promise!Next, Promise!Admit, Appended
    <2> QED
        BY <2>1, <2>2, <2>3 DEF Moves
<1>2. CASE \E p \in Procs : Crash(p)
    BY <1>2, DurableCrash
<1>3. CASE UNCHANGED <<history, runs, pc, frame>>
    BY <1>3
<1> QED
    BY <1>1, <1>2, <1>3, StepMoves

(* The gateway implements PolicyHistory: with claims that are not forgotten*)
(* its session histories grow by one lawful event of a new identifier at a *)
(* time, for any number of calls, processes, sessions and rules.           *)
THEOREM GatewayKeepsPromise == ASSUME Durable PROVE Spec => KeepsPromise
<1>1. Init => Promise!Init /\ OneCommit
    BY InitOneCommit DEF Init, Promise!Init
<1>2. TypeOK /\ AllSerial /\ OneDriver /\ OneCommit /\ [Next]_vars => OneCommit'
    BY StepKeepsOneCommit
<1>3. TypeOK /\ AllSerial /\ OneCommit /\ [Next]_vars => [Promise!Next]_history
    BY StepRefines
<1> QED
    BY <1>1, <1>2, <1>3, TypeCorrect, SessionsAreSerial, DriverIsUnique, PTL
       DEF Spec, KeepsPromise, Promise!Spec

-----------------------------------------------------------------------------
(* Approvals and answers.                                                  *)
USE TimesAreNaturals

(* A call resumed under a receipt, from its redemption to its adapter.     *)
Resuming(c) == frame[c].via # Null /\ (pc[c] = "enter" \/ Executing(c))

(* A call that was submitted, from its authentication to its decision.     *)
Submitted(c) == frame[c].via = Null /\ pc[c] \in {"claim", "enter", "judge", "park"}

InTime(c) ==
    /\ frame[c].at - frame[c].req.issued <= Skew + PendingTtl
    /\ frame[c].via.issued <= frame[c].at /\ frame[c].at <= frame[c].via.expires

Vouched(c) ==
    /\ pc[c] \in {"claim", "judge", "park"} => frame[c].via = Null
    /\ pc[c] = "redeem" => frame[c].via \in receipts
    /\ pc[c] = "check" => frame[c].via # Null
    /\ Resuming(c) => /\ frame[c].via \in receipts /\ frame[c].via.dec = frame[c].dec
                      /\ InTime(c)
    /\ Submitted(c) => frame[c].at - frame[c].req.issued <= Skew
    /\ pc[c] = "park" => frame[c].dec.req = frame[c].req
    /\ frame[c].via = Null /\ pc[c] \in {"execute", "announce", "invoke"} =>
          ~NeedsApproval(frame[c].dec)

AllVouched == \A c \in Calls : Vouched(c)

(* A parked call was signed shortly before it was parked.                  *)
ParkedInTime ==
    \A p \in Procs : \A e \in pending[p] : e.created - e.dec.req.issued <= Skew

-----------------------------------------------------------------------------
LEMMA OthersStayVouched ==
    ASSUME AllVouched, NEW c \in Calls, Alone(c), receipts \subseteq receipts', Vouched(c)'
    PROVE  AllVouched'
<1> SUFFICES ASSUME NEW d \in Calls, d # c PROVE Vouched(d)'
    BY DEF AllVouched
<1>1. Vouched(d) /\ pc'[d] = pc[d] /\ frame'[d] = frame[d]
    BY DEF AllVouched, Alone
<1>2. /\ (Resuming(d)' <=> Resuming(d)) /\ (Submitted(d)' <=> Submitted(d))
      /\ (InTime(d)' <=> InTime(d))
    BY <1>1 DEF Resuming, Submitted, InTime, Executing
<1>3. NeedsApproval(frame'[d].dec) <=> NeedsApproval(frame[d].dec)
    BY <1>1
<1> QED
    BY <1>1, <1>2, <1>3 DEF Vouched

LEMMA IdleIsVouched ==
    ASSUME NEW c, pc'[c] \in {"ready", "authenticate", "exit", "record", "returned", "lost"}
    PROVE  Vouched(c)'
BY DEF Vouched, Resuming, Submitted, Executing

LEMMA StepKeepsReceipts == ASSUME NEW c, Submit(c) \/ Resume(c) \/ Step(c) \/ Failure(c)
                           PROVE receipts' = receipts
BY DEF Submit, Resume, Step, Failure, Authenticate, Claim, Enter, Judge, Park, RedeemUnknown,
       Redeem, CheckContext, Execute, Announce, Invoke, AdapterReturns, Settle, Exit, Record,
       StoreUnavailable, SnapshotFails, AdapterRaises, SettleFails, ExitFails, RecordFails,
       EvaluationRaises, host

LEMMA RefusalIsVouched ==
    ASSUME TypeOK, NEW c \in Calls, NEW status \in Outcomes, Report(c, status) \/ Return(c, status)
    PROVE  Vouched(c)'
BY RefusalMoves, IdleIsVouched

(* A call whose locals stay keeps what is known of them.                   *)
LEMMA SameFrameIsVouched ==
    ASSUME NEW c \in Calls, Vouched(c), frame'[c] = frame[c], UNCHANGED receipts,
           \/ pc[c] = "claim" /\ pc'[c] = "enter"
           \/ pc[c] = "enter" /\ pc'[c] = "judge" /\ frame[c].via = Null
           \/ pc[c] = "enter" /\ pc'[c] = "check" /\ frame[c].via # Null
           \/ pc[c] = "execute" /\ pc'[c] = "announce"
           \/ pc[c] = "announce" /\ pc'[c] = "invoke"
           \/ pc[c] = "adapter" /\ pc'[c] = "settle"
    PROVE  Vouched(c)'
<1>1. /\ Resuming(c)' => Resuming(c)
      /\ Submitted(c)' => Submitted(c)
      /\ InTime(c)' <=> InTime(c)
    BY DEF Vouched, Resuming, Submitted, InTime, Executing
<1>2. NeedsApproval(frame'[c].dec) <=> NeedsApproval(frame[c].dec)
    OBVIOUS
<1> QED
    BY <1>1, <1>2 DEF Vouched

LEMMA ArrivalVouched ==
    ASSUME TypeOK, AllVouched, NEW c \in Calls, Submit(c) \/ Resume(c)
    PROVE  Vouched(c)'
<1>1. CASE Submit(c)
    <2>1. pc'[c] = "authenticate"
        BY <1>1, GotoType DEF Submit, TypeOK, CallsOK, Labels
    <2> QED
        BY <2>1, IdleIsVouched
<1>2. CASE Resume(c)
    <2>1. PICK r \in Requests, receipt \in receipts, p \in Procs :
             With(c, [Blank EXCEPT !.proc = p, !.req = r, !.via = receipt, !.at = clock])
        BY <1>2 DEF Resume
    <2>2. pc'[c] = "redeem" /\ frame'[c].via = receipt /\ UNCHANGED receipts
        <3> DEFINE f == [Blank EXCEPT !.proc = p, !.req = r, !.via = receipt, !.at = clock]
        <3>1. f.via = receipt
            BY DEF Blank
        <3>2. With(c, f) /\ Goto(c, "redeem") /\ UNCHANGED receipts
            BY <1>2, <2>1 DEF Resume, host
        <3> HIDE DEF f
        <3> QED
            BY <3>1, <3>2, MoveIsAlone DEF Labels
    <2> QED
        BY <2>2 DEF Vouched, Resuming, Submitted, Executing
<1> QED
    BY <1>1, <1>2

LEMMA AuthenticateVouched ==
    ASSUME TypeOK, AllVouched, NEW c \in Calls, Authenticate(c)
    PROVE  Vouched(c)'
<1>1. CASE Report(c, "denied")
    BY <1>1, RefusalIsVouched DEF Outcomes
<1>2. CASE /\ Fresh(frame[c].req.issued, frame[c].at, Skew)
           /\ Goto(c, "claim") /\ UNCHANGED frame
    <2>1. pc'[c] = "claim" /\ frame'[c] = frame[c]
        BY <1>2, GotoIsAlone DEF Labels
    <2>2. frame[c].via = Null /\ frame[c].at - frame[c].req.issued <= Skew
        BY <1>2 DEF Authenticate, TypeOK, CallsOK, Fresh
    <2> QED
        BY <2>1, <2>2 DEF Vouched, Resuming, Submitted, Executing
<1> QED
    BY <1>1, <1>2 DEF Authenticate

LEMMA SameFrameSteps ==
    ASSUME TypeOK, AllVouched, NEW c \in Calls,
           Claim(c) \/ Enter(c) \/ Execute(c) \/ Announce(c) \/ AdapterReturns(c)
    PROVE  Vouched(c)'
<1>1. CASE Report(c, "denied")
    BY <1>1, RefusalIsVouched DEF Outcomes
<1>2. CASE ~Report(c, "denied")
    <2>1. UNCHANGED <<frame, receipts>>
        BY <1>2 DEF Claim, Enter, Execute, Announce, AdapterReturns, host
    <2>2. PICK label \in Labels :
             /\ Goto(c, label)
             /\ \/ pc[c] = "claim" /\ label = "enter"
                \/ pc[c] = "enter" /\ label = "judge" /\ frame[c].via = Null
                \/ pc[c] = "enter" /\ label = "check" /\ frame[c].via # Null
                \/ pc[c] = "execute" /\ label = "announce"
                \/ pc[c] = "announce" /\ label = "invoke"
                \/ pc[c] = "adapter" /\ label = "settle"
        BY <1>2 DEF Claim, Enter, Execute, Announce, AdapterReturns, Labels
    <2>3. pc'[c] = label /\ frame'[c] = frame[c]
        BY <2>1, <2>2, GotoIsAlone
    <2> QED
        BY <2>1, <2>2, <2>3, SameFrameIsVouched DEF AllVouched
<1> QED
    BY <1>1, <1>2

LEMMA JudgeVouched ==
    ASSUME TypeOK, AllVouched, NEW c \in Calls, Judge(c)
    PROVE  Vouched(c)'
<1> DEFINE r == frame[c].req
           h == history[r.session]
           dec == [req |-> r, version |-> version[frame[c].proc], context |-> h]
           base == BaseControl(r.tool, Admitted(c))
           verdict == Verdict(r.tool, h, base)
           f == [frame[c] EXCEPT !.view = h, !.dec = dec,
                   !.outcome = IF verdict = "deny" THEN "denied"
                               ELSE IF verdict = "require_approval" THEN "pending_approval" ELSE @]
           label == IF verdict = "deny" THEN "record"
                    ELSE IF verdict = "require_approval" THEN "park" ELSE "execute"
<1>1. pc[c] = "judge" /\ frame[c] \in CallType /\ With(c, f) /\ Goto(c, label)
    BY CallTyped DEF Judge, TypeOK
<1>2. label \in Labels
    BY DEF Labels
<1>3. f.req = r /\ f.via = frame[c].via /\ f.at = frame[c].at /\ f.dec = dec
    BY <1>1 DEF CallType
<1>4. frame[c].via = Null /\ frame[c].at - r.issued <= Skew
    BY <1>1 DEF AllVouched, Vouched, Submitted
<1>5. verdict # "deny" => base = IF r.tool \in Gated THEN "require_approval" ELSE "allow"
    BY DEF Verdict, EvaluateSequence, BaseControl
<1>6. verdict \notin {"deny", "require_approval"} => ~NeedsApproval(dec)
    BY <1>5 DEF NeedsApproval
<1>7. /\ label \in {"record", "park", "execute"} /\ dec.req = r
      /\ label = "execute" => ~NeedsApproval(dec)
    BY <1>6
<1> HIDE DEF f, label, dec
<1>8. pc'[c] = label /\ frame'[c] = f
    BY <1>1, <1>2, MoveIsAlone
<1> QED
    BY <1>3, <1>4, <1>7, <1>8 DEF Vouched, Resuming, Submitted, Executing

LEMMA DecisionParts ==
    ASSUME NEW d \in Decision
    PROVE  d = [req |-> d.req, version |-> d.version, context |-> d.context]
BY DEF Decision

LEMMA RedeemVouched ==
    ASSUME TypeOK, AllVouched, ParkedInTime, NEW c \in Calls, Redeem(c)
    PROVE  Vouched(c)'
<1> DEFINE p == frame[c].proc
           receipt == frame[c].via
           now == frame[c].at
<1>1. pc[c] = "redeem" /\ frame[c] \in CallType /\ p \in Procs /\ now \in Nat /\ receipts' = receipts
    BY CallTyped DEF Redeem, TypeOK, host
<1>2. CASE Report(c, "denied")
    BY <1>2, RefusalIsVouched DEF Outcomes
<1>3. CASE \E e \in PendingOf(p, frame[c].req) :
              /\ ~Expired(e, now) /\ Accepts(receipt, e.dec, now, MaxTtl, consumed[p])
              /\ Goto(c, "enter")
              /\ With(c, [frame[c] EXCEPT !.req = e.dec.req, !.dec = e.dec])
    <2>1. PICK e \in PendingOf(p, frame[c].req) :
              /\ ~Expired(e, now) /\ Accepts(receipt, e.dec, now, MaxTtl, consumed[p])
              /\ Goto(c, "enter")
              /\ With(c, [frame[c] EXCEPT !.req = e.dec.req, !.dec = e.dec])
        BY <1>3
    <2> DEFINE f == [frame[c] EXCEPT !.req = e.dec.req, !.dec = e.dec]
    <2>2. f.req = e.dec.req /\ f.dec = e.dec /\ f.via = receipt /\ f.at = now
        BY <1>1 DEF CallType
    <2>3. e \in pending[p] /\ e.dec \in Decision /\ e.created \in Nat
        BY <1>1 DEF PendingOf, TypeOK, MemoryOK
    <2>4. e.dec.req.issued \in Nat
        BY <2>3 DEF Decision, Request
    <2>5. now - e.dec.req.issued <= Skew + PendingTtl
        <3>1. e.created - e.dec.req.issued <= Skew /\ ~(now - e.created > PendingTtl)
            BY <1>1, <2>1, <2>3 DEF ParkedInTime, Expired
        <3>2. Skew \in Nat /\ PendingTtl \in Nat
            OBVIOUS
        <3> QED
            BY <1>1, <2>3, <2>4, <3>1, <3>2
    <2>6. receipt \in Receipt /\ receipt \in receipts /\ receipt # Null
        <3>1. receipt \in receipts
            BY <1>1 DEF AllVouched, Vouched
        <3> QED
            BY <3>1 DEF TypeOK, WorldOK
    <2>7. receipt.dec = e.dec /\ receipt.issued <= now /\ now <= receipt.expires
        <3>1. receipt.dec \in Decision
            BY <2>6 DEF Receipt
        <3>2. Bound(receipt, e.dec)
            BY <2>1 DEF Accepts
        <3>3. receipt.dec = e.dec
            BY <2>3, <3>1, <3>2, DecisionParts DEF Bound
        <3> QED
            BY <2>1, <3>3 DEF Accepts, InDate
    <2>8. With(c, f) /\ Goto(c, "enter")
        BY <2>1
    <2> HIDE DEF f
    <2>9. pc'[c] = "enter" /\ frame'[c] = f
        BY <2>8, MoveIsAlone DEF Labels
    <2> QED
        BY <1>1, <2>2, <2>5, <2>6, <2>7, <2>9 DEF Vouched, Resuming, Submitted, Executing, InTime
<1> QED
    BY <1>2, <1>3 DEF Redeem

LEMMA CheckContextVouched ==
    ASSUME TypeOK, AllVouched, NEW c \in Calls, CheckContext(c)
    PROVE  Vouched(c)'
<1> DEFINE f == [frame[c] EXCEPT !.view = history[frame[c].req.session]]
<1>1. pc[c] = "check" /\ frame[c] \in CallType /\ receipts' = receipts /\ Vouched(c)
    BY CallTyped DEF CheckContext, TypeOK, host, AllVouched
<1>2. CASE Report(c, "denied")
    BY <1>2, RefusalIsVouched DEF Outcomes
<1>3. CASE Goto(c, "execute") /\ With(c, f)
    <2>1. pc'[c] = "execute" /\ frame'[c] = f
        BY <1>3, MoveIsAlone DEF Labels
    <2>2. f.req = frame[c].req /\ f.dec = frame[c].dec /\ f.via = frame[c].via /\ f.at = frame[c].at
        BY <1>1 DEF CallType
    <2> HIDE DEF f
    <2> QED
        BY <1>1, <2>1, <2>2 DEF Vouched, Resuming, Submitted, Executing, InTime
<1> QED
    BY <1>2, <1>3 DEF CheckContext

LEMMA InvokeVouched ==
    ASSUME TypeOK, AllVouched, NEW c \in Calls, Invoke(c)
    PROVE  Vouched(c)'
<1> DEFINE f == [frame[c] EXCEPT !.ran = TRUE]
<1>1. pc[c] = "invoke" /\ frame[c] \in CallType /\ receipts' = receipts /\ Vouched(c)
    BY CallTyped DEF Invoke, TypeOK, host, AllVouched
<1>2. CASE Report(c, "execution_failed")
    BY <1>2, RefusalIsVouched DEF Outcomes
<1>3. CASE Goto(c, "adapter") /\ With(c, f)
    <2>1. pc'[c] = "adapter" /\ frame'[c] = f
        BY <1>3, MoveIsAlone DEF Labels
    <2>2. f.req = frame[c].req /\ f.dec = frame[c].dec /\ f.via = frame[c].via /\ f.at = frame[c].at
        BY <1>1 DEF CallType
    <2> HIDE DEF f
    <2> QED
        BY <1>1, <2>1, <2>2 DEF Vouched, Resuming, Submitted, Executing, InTime
<1> QED
    BY <1>2, <1>3 DEF Invoke

LEMMA LastStepsEnd ==
    ASSUME TypeOK, NEW c \in Calls,
           Park(c) \/ RedeemUnknown(c) \/ Settle(c) \/ Exit(c) \/ Record(c) \/ Failure(c)
    PROVE  pc'[c] \in {"exit", "record", "returned"}
<1>1. CASE Park(c) \/ Settle(c)
    BY <1>1, GotoType DEF Park, Settle, TypeOK, CallsOK, Labels
<1>2. CASE Failure(c) \/ RedeemUnknown(c)
    BY <1>2, GotoType DEF Failure, RedeemUnknown, StoreUnavailable, SnapshotFails, AdapterRaises,
       SettleFails, ExitFails, RecordFails, EvaluationRaises, Report, Return, TypeOK, CallsOK, Labels
<1>3. CASE Exit(c) \/ Record(c)
    BY <1>3, GotoType DEF Exit, Record, Report, Return, TypeOK, CallsOK, Labels
<1> QED
    BY <1>1, <1>2, <1>3

LEMMA LastStepsVouched ==
    ASSUME TypeOK, AllVouched, NEW c \in Calls,
           Park(c) \/ RedeemUnknown(c) \/ Settle(c) \/ Exit(c) \/ Record(c) \/ Failure(c)
    PROVE  Vouched(c)'
BY LastStepsEnd, IdleIsVouched

LEMMA CallVouched ==
    ASSUME TypeOK, AllSerial, AllVouched, ParkedInTime, NEW c \in Calls,
           Submit(c) \/ Resume(c) \/ Step(c) \/ Failure(c)
    PROVE  AllVouched'
<1>1. Vouched(c)'
    BY ArrivalVouched, AuthenticateVouched, SameFrameSteps, JudgeVouched, RedeemVouched,
       CheckContextVouched, InvokeVouched, LastStepsVouched DEF Step
<1>2. Alone(c)
    BY EarlyMoves, RefusedMoves, ExecuteMoves, StrideMoves, InvokeMoves, SettleMoves,
       EndMoves DEF Step, Failure
<1> QED
    BY <1>1, <1>2, StepKeepsReceipts, OthersStayVouched

(* Steps that end calls or leave them alone, and may issue receipts.       *)
LEMMA QuietVouched ==
    ASSUME AllVouched, receipts \subseteq receipts',
           \A d \in Calls : pc'[d] = "lost" \/ (pc'[d] = pc[d] /\ frame'[d] = frame[d])
    PROVE  AllVouched'
<1> SUFFICES ASSUME NEW d \in Calls PROVE Vouched(d)'
    BY DEF AllVouched
<1>1. CASE pc'[d] = "lost"
    BY <1>1, IdleIsVouched
<1>2. CASE pc'[d] = pc[d] /\ frame'[d] = frame[d]
    <2>1. /\ (Resuming(d)' <=> Resuming(d)) /\ (Submitted(d)' <=> Submitted(d))
          /\ (InTime(d)' <=> InTime(d))
        BY <1>2 DEF Resuming, Submitted, InTime, Executing
    <2>2. NeedsApproval(frame'[d].dec) <=> NeedsApproval(frame[d].dec)
        BY <1>2
    <2> QED
        BY <1>2, <2>1, <2>2 DEF AllVouched, Vouched
<1> QED
    BY <1>1, <1>2

LEMMA StepVouched ==
    ASSUME TypeOK, AllSerial, AllVouched, ParkedInTime, [Next]_vars
    PROVE  AllVouched' /\ receipts \subseteq receipts'
<1>1. ASSUME NEW c \in Calls, Submit(c) \/ Resume(c) \/ Step(c) \/ Failure(c)
      PROVE  AllVouched' /\ receipts \subseteq receipts'
    BY <1>1, CallVouched, StepKeepsReceipts
<1>2. CASE Issue \/ Tick \/ (\E p \in Procs : ChangePolicy(p)) \/ (\E tool \in Volatile : Retarget(tool))
    <2>1. receipts \subseteq receipts' /\ UNCHANGED <<pc, frame>>
        BY <1>2 DEF Issue, Tick, ChangePolicy, Retarget, host
    <2> QED
        BY <2>1, QuietVouched
<1>3. ASSUME NEW p \in Procs, Crash(p) PROVE AllVouched' /\ receipts \subseteq receipts'
    <2>1. \A d \in Calls : pc'[d] = "lost" \/ (pc'[d] = pc[d] /\ frame'[d] = frame[d])
        BY <1>3 DEF Crash
    <2>2. receipts' = receipts
        BY <1>3 DEF Crash, host
    <2> QED
        BY <2>1, <2>2, QuietVouched
<1>4. CASE UNCHANGED vars
    BY <1>4, QuietVouched DEF vars, host
<1> QED
    BY <1>1, <1>2, <1>3, <1>4 DEF Next, Finished, Environment

-----------------------------------------------------------------------------
(* Only Park adds to what is parked.                                       *)
LEMMA ParkInTime ==
    ASSUME TypeOK, AllVouched, ParkedInTime, NEW c \in Calls, Park(c)
    PROVE  ParkedInTime'
<1> DEFINE p == frame[c].proc
           mine == [dec |-> frame[c].dec, created |-> frame[c].at]
<1>1. pc[c] = "park" /\ p \in Procs
    BY CallTyped DEF Park, TypeOK
<1>2. mine.created - mine.dec.req.issued <= Skew
    BY <1>1 DEF AllVouched, Vouched, Submitted
<1>3. \A q \in Procs : \A e \in pending'[q] : e \in pending[q] \/ e = mine
    BY <1>1 DEF Park, TypeOK, MemoryOK
<1> HIDE DEF mine
<1> QED
    BY <1>2, <1>3 DEF ParkedInTime

LEMMA OthersParkNothing ==
    ASSUME TypeOK, [Next]_vars
    PROVE  (\E c \in Calls : Park(c)) \/ (\A q \in Procs : pending'[q] \subseteq pending[q])
<1>1. ASSUME NEW c \in Calls, Redeem(c) PROVE \A q \in Procs : pending'[q] \subseteq pending[q]
    <2>1. PICK e : Spent(frame[c].proc, e) \/ UNCHANGED pending
        BY <1>1 DEF Redeem
    <2> QED
        BY <2>1 DEF Spent, TypeOK, MemoryOK
<1>2. ASSUME NEW c \in Calls, Submit(c) \/ Resume(c) \/ Step(c) \/ Failure(c), ~Park(c), ~Redeem(c)
      PROVE  UNCHANGED pending
    BY <1>2 DEF Submit, Resume, Step, Failure, Authenticate, Claim, Enter, Judge, RedeemUnknown,
       CheckContext, Execute, Announce, Invoke, AdapterReturns, Settle, Exit, Record,
       StoreUnavailable, SnapshotFails, AdapterRaises, SettleFails, ExitFails, RecordFails,
       EvaluationRaises, memory
<1>3. ASSUME NEW p \in Procs, Crash(p) PROVE \A q \in Procs : pending'[q] \subseteq pending[q]
    BY <1>3 DEF Crash, TypeOK, MemoryOK
<1>4. CASE Issue \/ Tick \/ (\E p \in Procs : ChangePolicy(p)) \/ (\E tool \in Volatile : Retarget(tool))
    BY <1>4 DEF Issue, Tick, ChangePolicy, Retarget, memory
<1>5. CASE UNCHANGED vars
    BY <1>5 DEF vars, memory
<1> QED
    BY <1>1, <1>2, <1>3, <1>4, <1>5 DEF Next, Finished, Environment

LEMMA StepParksInTime ==
    ASSUME TypeOK, AllVouched, ParkedInTime, [Next]_vars
    PROVE  ParkedInTime'
<1>1. CASE \A q \in Procs : pending'[q] \subseteq pending[q]
    BY <1>1 DEF ParkedInTime
<1> QED
    BY <1>1, ParkInTime, OthersParkNothing

(* Only Invoke adds to what has run.                                       *)
Approved(r, known) == NeedsApproval(r.dec) => r.via \in known /\ r.via.dec = r.dec

LEMMA OldOrLast ==
    ASSUME NEW S, NEW h \in Seq(S), NEW e, NEW n \in DOMAIN Append(h, e)
    PROVE  Append(h, e)[n] = e \/ (n \in DOMAIN h /\ Append(h, e)[n] = h[n])
<1>1. DOMAIN Append(h, e) = 1..(Len(h) + 1) /\ DOMAIN h = 1..Len(h) /\ Len(h) \in Nat
    OBVIOUS
<1>2. CASE n = Len(h) + 1
    BY <1>2
<1>3. CASE n \in 1..Len(h)
    BY <1>1, <1>3
<1> QED
    BY <1>1, <1>2, <1>3

LEMMA InvokeApproved ==
    ASSUME TypeOK, AllVouched, ApprovedRuns, NEW c \in Calls, Invoke(c)
    PROVE  ApprovedRuns'
<1> DEFINE i == frame[c].req.id
           run == [via |-> frame[c].via, dec |-> frame[c].dec]
<1>1. pc[c] = "invoke" /\ receipts' = receipts /\ i \in Ids
    BY CallTyped DEF Invoke, host, TypeOK, Request
<1>2. CASE UNCHANGED runs
    BY <1>1, <1>2 DEF ApprovedRuns
<1>3. CASE runs' = [runs EXCEPT ![i] = Append(@, run)]
    <2>1. Approved(run, receipts)
        <3>1. frame[c].via = Null => ~NeedsApproval(frame[c].dec)
            BY <1>1 DEF AllVouched, Vouched
        <3>2. frame[c].via # Null => frame[c].via \in receipts /\ frame[c].via.dec = frame[c].dec
            BY <1>1 DEF AllVouched, Vouched, Resuming, Executing
        <3> QED
            BY <3>1, <3>2 DEF Approved
    <2> HIDE DEF run
    <2>2. runs[i] \in Seq([via : Receipt \cup {Null}, dec : Decision]) /\ DOMAIN runs = Ids
        BY <1>1 DEF TypeOK, WorldOK
    <2>3. runs'[i] = Append(runs[i], run) /\ \A j \in Ids \ {i} : runs'[j] = runs[j]
        BY <1>1, <1>3, <2>2
    <2>4. \A n \in DOMAIN runs'[i] : runs'[i][n] = run \/ (n \in DOMAIN runs[i] /\ runs'[i][n] = runs[i][n])
        <3> DEFINE h == runs[i]
        <3>1. h \in Seq([via : Receipt \cup {Null}, dec : Decision])
            BY <2>2
        <3> HIDE DEF i, h
        <3>2. \A n \in DOMAIN Append(h, run) :
                 Append(h, run)[n] = run \/ (n \in DOMAIN h /\ Append(h, run)[n] = h[n])
            BY <3>1, OldOrLast
        <3> QED
            BY <2>3, <3>2 DEF h
    <2>5. \A j \in Ids : \A n \in DOMAIN runs[j] : Approved(runs[j][n], receipts)
        BY DEF ApprovedRuns, Approved
    <2>6. \A j \in Ids : \A n \in DOMAIN runs'[j] : Approved(runs'[j][n], receipts')
        BY <1>1, <2>1, <2>3, <2>4, <2>5
    <2> QED
        BY <2>6 DEF ApprovedRuns, Approved
<1> QED
    BY <1>2, <1>3 DEF Invoke

LEMMA OthersRunNothing ==
    ASSUME [Next]_vars
    PROVE  (\E c \in Calls : Invoke(c)) \/ UNCHANGED runs
<1>1. ASSUME NEW c \in Calls, Submit(c) \/ Resume(c) \/ Step(c) \/ Failure(c), ~Invoke(c)
      PROVE  UNCHANGED runs
    BY <1>1 DEF Submit, Resume, Step, Failure, Authenticate, Claim, Enter, Judge, Park,
       RedeemUnknown, Redeem, CheckContext, Execute, Announce, AdapterReturns, Settle, Exit,
       Record, StoreUnavailable, SnapshotFails, AdapterRaises, SettleFails, ExitFails,
       RecordFails, EvaluationRaises, world
<1>2. CASE Environment
    BY <1>2 DEF Environment, Issue, Tick, ChangePolicy, Retarget, Crash, world
<1>3. CASE UNCHANGED vars
    BY <1>3 DEF vars, world
<1> QED
    BY <1>1, <1>2, <1>3 DEF Next, Finished

LEMMA StepApproved ==
    ASSUME TypeOK, AllVouched, ApprovedRuns, receipts \subseteq receipts', [Next]_vars
    PROVE  ApprovedRuns'
<1>1. CASE UNCHANGED runs
    BY <1>1 DEF ApprovedRuns
<1> QED
    BY <1>1, InvokeApproved, OthersRunNothing

LEMMA InitVouched == Init => AllVouched /\ ParkedInTime /\ ApprovedRuns
BY DEF Init, AllVouched, Vouched, Resuming, Submitted, Executing, ParkedInTime, ApprovedRuns

(* Who resumes a call does so within the lives of its signature, of its    *)
(* parking and of its receipt.                                             *)
LEMMA VouchedIsTimely == AllVouched => TimelyResumes
BY DEF AllVouched, Vouched, Resuming, InTime, TimelyResumes, Executing

Vouching == AllVouched /\ ParkedInTime /\ ApprovedRuns

(* What is known of calls, parked calls and runs holds in every behaviour. *)
THEOREM CallsAreVouched == Spec => []Vouching
<1>1. Init => Vouching
    BY InitVouched DEF Vouching
<1>2. TypeOK /\ AllSerial /\ Vouching /\ [Next]_vars => Vouching'
    BY StepVouched, StepParksInTime, StepApproved DEF Vouching
<1> QED
    BY <1>1, <1>2, TypeCorrect, SessionsAreSerial, PTL DEF Spec

(* No adapter runs a call whose decision asked for approval, except under  *)
(* a receipt an approver issued for exactly that decision.                 *)
THEOREM RunsAreApproved == Spec => []ApprovedRuns
<1>1. Vouching => ApprovedRuns
    BY DEF Vouching
<1> QED
    BY <1>1, CallsAreVouched, PTL

(* From the agent's signature to the approved call, no more than the clock *)
(* skew and the pending lifetime go by, and the receipt is in date.        *)
THEOREM ResumesAreTimely == Spec => []TimelyResumes
<1>1. Vouching => TimelyResumes
    BY VouchedIsTimely DEF Vouching
<1> QED
    BY <1>1, CallsAreVouched, PTL

-----------------------------------------------------------------------------
(* Consumed approvals are a process's memory: one process that does not    *)
(* restart is what it takes for an identifier to be used once.             *)
OneMemory == (\A p, q \in Procs : p = q) /\ MaxCrashes = 0

(* A call that has redeemed a receipt and not used it yet.                 *)
Holder(c) ==
    frame[c].via # Null /\ pc[c] \in {"enter", "check", "execute", "announce", "invoke"}

Uses(run, a) == run.via # Null /\ run.via.aid = a

HoldersConsumed ==
    \A c \in Calls : Holder(c) => \A p \in Procs : frame[c].via.aid \in consumed[p]

HoldersAreFirst ==
    \A c \in Calls : Holder(c) =>
       \A i \in Ids : \A n \in DOMAIN runs[i] : ~Uses(runs[i][n], frame[c].via.aid)

HoldersDiffer ==
    \A c \in Calls : \A d \in Calls :
       Holder(c) /\ Holder(d) /\ frame[d].via.aid = frame[c].via.aid => d = c

RunsConsumed ==
    \A i \in Ids : \A n \in DOMAIN runs[i] : runs[i][n].via # Null =>
       \A p \in Procs : runs[i][n].via.aid \in consumed[p]

OneUse ==
    HoldersConsumed /\ HoldersAreFirst /\ HoldersDiffer /\ RunsConsumed /\ ReceiptOneUse

LEMMA QuietOneUse ==
    ASSUME OneUse, UNCHANGED <<runs, consumed>>,
           \A d \in Calls : Holder(d)' => Holder(d) /\ frame'[d].via = frame[d].via
    PROVE  OneUse'
<1>1. HoldersConsumed' /\ HoldersDiffer' /\ RunsConsumed' /\ ReceiptOneUse'
    BY DEF OneUse, HoldersConsumed, HoldersDiffer, RunsConsumed, ReceiptOneUse
<1>2. HoldersAreFirst'
    <2> SUFFICES ASSUME NEW d \in Calls, Holder(d)', NEW i \in Ids, NEW n \in DOMAIN runs[i]
                 PROVE  ~Uses(runs[i][n], frame[d].via.aid)
        BY DEF HoldersAreFirst
    <2> QED
        BY DEF OneUse, HoldersAreFirst
<1> QED
    BY <1>1, <1>2 DEF OneUse

LEMMA HolderStays ==
    ASSUME TypeOK, AllVouched, NEW c \in Calls,
           Submit(c) \/ Resume(c) \/ Step(c) \/ Failure(c), ~Redeem(c), ~Invoke(c), Holder(c)'
    PROVE  Holder(c) /\ frame'[c].via = frame[c].via
<1>1. pc'[c] \in {"enter", "check", "execute", "announce", "invoke"}
    BY DEF Holder
<1>2. ~(Submit(c) \/ Resume(c) \/ Authenticate(c) \/ Park(c) \/ AdapterReturns(c) \/ Settle(c))
    <2>1. \A label \in Labels : Goto(c, label) => pc'[c] = label
        BY GotoType DEF TypeOK, CallsOK
    <2>2. \A status \in Outcomes : ~Report(c, status) /\ ~Return(c, status)
        BY <1>1, RefusalMoves
    <2> QED
        BY <1>1, <2>1, <2>2 DEF Submit, Resume, Authenticate, Park, AdapterReturns, Settle,
                                Labels, Outcomes
<1>3. ~(RedeemUnknown(c) \/ Exit(c) \/ Record(c) \/ Failure(c))
    <2>1. pc'[c] \in {"exit", "record", "returned"}
             \/ ~(RedeemUnknown(c) \/ Exit(c) \/ Record(c) \/ Failure(c))
        BY LastStepsEnd
    <2> QED
        BY <1>1, <2>1
<1>4. CASE Claim(c) \/ Enter(c) \/ Execute(c) \/ Announce(c)
    <2>1. ~Report(c, "denied")
        BY <1>1, RefusalMoves DEF Outcomes
    <2>2. UNCHANGED frame /\ pc[c] \in {"claim", "enter", "execute", "announce"}
        BY <1>4, <2>1 DEF Claim, Enter, Execute, Announce
    <2>3. pc[c] = "claim" => frame[c].via = Null
        BY DEF AllVouched, Vouched
    <2> QED
        BY <2>2, <2>3 DEF Holder
<1>5. CASE Judge(c)
    <2>1. pc[c] = "judge" /\ frame[c] \in CallType
        BY <1>5, CallTyped DEF Judge, TypeOK
    <2>2. PICK f : With(c, f) /\ f.via = frame[c].via
        <3>1. PICK outcome \in Outcomes :
                 With(c, [frame[c] EXCEPT
                       !.view = history[frame[c].req.session],
                       !.dec = [req |-> frame[c].req, version |-> version[frame[c].proc],
                                context |-> history[frame[c].req.session]],
                       !.outcome = outcome])
            BY <1>5, JudgeMoves
        <3> DEFINE f == [frame[c] EXCEPT
                           !.view = history[frame[c].req.session],
                           !.dec = [req |-> frame[c].req, version |-> version[frame[c].proc],
                                    context |-> history[frame[c].req.session]],
                           !.outcome = outcome]
        <3>2. f.via = frame[c].via
            BY <2>1 DEF CallType
        <3> QED
            BY <3>1, <3>2
    <2>3. frame'[c].via = Null
        BY <2>1, <2>2 DEF With, AllVouched, Vouched, TypeOK, CallsOK
    <2> QED
        BY <2>3 DEF Holder
<1>6. CASE CheckContext(c)
    <2> DEFINE f == [frame[c] EXCEPT !.view = history[frame[c].req.session]]
    <2>1. pc[c] = "check" /\ frame[c] \in CallType
        BY <1>6, CallTyped DEF CheckContext, TypeOK
    <2>2. With(c, f) /\ f.via = frame[c].via
        BY <1>1, <1>6, <2>1, RefusalMoves DEF CheckContext, Outcomes, CallType
    <2>3. frame'[c].via = frame[c].via
        BY <2>2 DEF With, TypeOK, CallsOK
    <2> QED
        BY <2>1, <2>3 DEF Holder
<1> QED
    BY <1>2, <1>3, <1>4, <1>5, <1>6 DEF Step

(* What has been consumed only grows, and each redemption is of something  *)
(* nobody has consumed.                                                    *)
LEMMA RedeemOneUse ==
    ASSUME TypeOK, AllVouched, OneUse, \A p, q \in Procs : p = q, NEW c \in Calls, Redeem(c)
    PROVE  OneUse'
<1> DEFINE p == frame[c].proc
           a == frame[c].via.aid
<1>1. pc[c] = "redeem" /\ frame[c] \in CallType /\ p \in Procs /\ runs' = runs /\ Alone(c)
    BY CallTyped, EarlyMoves DEF Redeem, TypeOK, world
<1>2. frame[c].via # Null
    <2>1. frame[c].via \in Receipt
        BY <1>1 DEF TypeOK, CallsOK
    <2> QED
        BY <2>1
<1>3. CASE Report(c, "denied")
    <2>1. pc'[c] \in {"record", "returned"}
        BY <1>3, RefusalMoves DEF Outcomes
    <2>2. consumed' = consumed
        <3>1. ~Goto(c, "enter")
            BY <2>1, GotoType DEF Labels, TypeOK, CallsOK
        <3> QED
            BY <3>1 DEF Redeem
    <2>3. \A d \in Calls : Holder(d)' => Holder(d) /\ frame'[d].via = frame[d].via
        BY <1>1, <2>1 DEF Holder, Alone
    <2> QED
        BY <1>1, <2>2, <2>3, QuietOneUse
<1>4. CASE \E e \in PendingOf(p, frame[c].req) :
              /\ Accepts(frame[c].via, e.dec, frame[c].at, MaxTtl, consumed[p])
              /\ consumed' = [consumed EXCEPT ![p] = @ \cup {a}]
              /\ Goto(c, "enter")
              /\ With(c, [frame[c] EXCEPT !.req = e.dec.req, !.dec = e.dec])
    <2>1. PICK e \in PendingOf(p, frame[c].req) :
              /\ Accepts(frame[c].via, e.dec, frame[c].at, MaxTtl, consumed[p])
              /\ consumed' = [consumed EXCEPT ![p] = @ \cup {a}]
              /\ Goto(c, "enter")
              /\ With(c, [frame[c] EXCEPT !.req = e.dec.req, !.dec = e.dec])
        BY <1>4
    <2>2. frame'[c].via = frame[c].via
        BY <1>1, <2>1 DEF With, CallType, TypeOK, CallsOK
    <2>3. a \notin consumed[p]
        BY <2>1 DEF Accepts
    <2>4. \A q \in Procs : q = p /\ consumed'[q] = consumed[q] \cup {a}
        BY <1>1, <2>1 DEF TypeOK, MemoryOK
    <2>5. \A d \in Calls : Holder(d)' =>
             frame'[d].via = frame[d].via /\ (d = c \/ (Holder(d) /\ frame[d].via.aid # a))
        <3>1. \A d \in Calls : Holder(d) => frame[d].via.aid # a
            BY <1>1, <2>3 DEF OneUse, HoldersConsumed
        <3> QED
            BY <1>1, <2>2, <3>1 DEF Holder, Alone
    <2>6. \A i \in Ids : \A n \in DOMAIN runs[i] : ~Uses(runs[i][n], a)
        BY <1>1, <2>3 DEF OneUse, RunsConsumed, Uses
    <2>7. HoldersConsumed'
        BY <2>2, <2>4, <2>5 DEF OneUse, HoldersConsumed
    <2>8. HoldersAreFirst'
        <3> SUFFICES ASSUME NEW d \in Calls, Holder(d)', NEW i \in Ids, NEW n \in DOMAIN runs[i]
                     PROVE  ~Uses(runs[i][n], frame[d].via.aid)
            BY <1>1, <2>5 DEF HoldersAreFirst, Uses
        <3> QED
            BY <2>5, <2>6 DEF OneUse, HoldersAreFirst
    <2>9. HoldersDiffer'
        BY <2>2, <2>5 DEF OneUse, HoldersDiffer
    <2>10. RunsConsumed' /\ ReceiptOneUse'
        BY <1>1, <2>4 DEF OneUse, RunsConsumed, ReceiptOneUse
    <2> QED
        BY <2>7, <2>8, <2>9, <2>10 DEF OneUse
<1> QED
    BY <1>3, <1>4 DEF Redeem

LEMMA InvokeOneUse ==
    ASSUME TypeOK, AllVouched, OneUse, NEW c \in Calls, Invoke(c)
    PROVE  OneUse'
<1> DEFINE i == frame[c].req.id
           run == [via |-> frame[c].via, dec |-> frame[c].dec]
<1>1. pc[c] = "invoke" /\ consumed' = consumed /\ i \in Ids /\ Alone(c)
    BY CallTyped, InvokeMoves DEF Invoke, memory, TypeOK, Request
<1>2. pc'[c] \in {"record", "returned", "adapter"}
    <2>1. CASE Report(c, "execution_failed")
        BY <2>1, RefusalMoves DEF Outcomes
    <2>2. CASE Goto(c, "adapter")
        BY <2>2, GotoType DEF Labels, TypeOK, CallsOK
    <2> QED
        BY <2>1, <2>2 DEF Invoke
<1>3. \A d \in Calls : Holder(d)' => Holder(d) /\ d # c /\ frame'[d].via = frame[d].via
    BY <1>1, <1>2 DEF Holder, Alone
<1>4. CASE UNCHANGED runs
    BY <1>1, <1>3, <1>4, QuietOneUse
<1>5. CASE runs' = [runs EXCEPT ![i] = Append(@, run)]
    <2>1. run.via = frame[c].via /\ (run.via # Null => Holder(c))
        BY <1>1 DEF Holder
    <2> HIDE DEF run
    <2>2. runs[i] \in Seq([via : Receipt \cup {Null}, dec : Decision]) /\ DOMAIN runs = Ids
        BY <1>1 DEF TypeOK, WorldOK
    <2>3. runs'[i] = Append(runs[i], run) /\ \A j \in Ids \ {i} : runs'[j] = runs[j]
        BY <1>1, <1>5, <2>2
    <2> DEFINE last == Len(runs[i]) + 1
    <2>4. \A j \in Ids : \A n \in DOMAIN runs'[j] :
             \/ j = i /\ n = last /\ runs'[j][n] = run
             \/ n \in DOMAIN runs[j] /\ runs'[j][n] = runs[j][n]
        <3>1. \A n \in DOMAIN runs'[i] :
                 \/ n = last /\ runs'[i][n] = run
                 \/ n \in DOMAIN runs[i] /\ runs'[i][n] = runs[i][n]
            <4> DEFINE h == runs[i]
            <4>1. h \in Seq([via : Receipt \cup {Null}, dec : Decision])
                BY <2>2
            <4> HIDE DEF i, h
            <4>2. \A n \in DOMAIN Append(h, run) :
                     \/ n = Len(h) + 1 /\ Append(h, run)[n] = run
                     \/ n \in DOMAIN h /\ Append(h, run)[n] = h[n]
                BY <4>1, OldOrLast
            <4> QED
                BY <2>3, <4>2 DEF h
        <3> QED
            BY <2>3, <3>1
    <2> HIDE DEF last
    <2>5. run.via # Null => /\ \A p \in Procs : run.via.aid \in consumed[p]
                            /\ \A j \in Ids : \A n \in DOMAIN runs[j] : ~Uses(runs[j][n], run.via.aid)
                            /\ \A d \in Calls : Holder(d) /\ d # c => frame[d].via.aid # run.via.aid
        BY <2>1 DEF OneUse, HoldersConsumed, HoldersAreFirst, HoldersDiffer
    <2>6. HoldersConsumed' /\ HoldersDiffer'
        BY <1>1, <1>3 DEF OneUse, HoldersConsumed, HoldersDiffer
    <2>7. HoldersAreFirst'
        <3> SUFFICES ASSUME NEW d \in Calls, Holder(d)', NEW j \in Ids, NEW n \in DOMAIN runs'[j]
                     PROVE  ~Uses(runs'[j][n], frame[d].via.aid)
            BY <1>3 DEF HoldersAreFirst, Uses
        <3>1. Holder(d) /\ d # c
            BY <1>3
        <3>2. \A m \in DOMAIN runs[j] : ~Uses(runs[j][m], frame[d].via.aid)
            BY <3>1 DEF OneUse, HoldersAreFirst
        <3>3. ~Uses(run, frame[d].via.aid)
            BY <2>5, <3>1 DEF Uses
        <3> QED
            BY <2>4, <3>2, <3>3
    <2>8. RunsConsumed'
        BY <1>1, <2>4, <2>5 DEF OneUse, RunsConsumed
    <2>9. ReceiptOneUse'
        <3> SUFFICES ASSUME NEW a \in ReceiptIds, NEW j \in Ids, NEW k \in Ids,
                            NEW m \in DOMAIN runs'[j], NEW n \in DOMAIN runs'[k],
                            Uses(runs'[j][m], a), Uses(runs'[k][n], a)
                     PROVE  j = k /\ m = n
            BY DEF ReceiptOneUse, Uses
        <3>1. CASE m \in DOMAIN runs[j] /\ runs'[j][m] = runs[j][m]
                   /\ n \in DOMAIN runs[k] /\ runs'[k][n] = runs[k][n]
            BY <3>1 DEF OneUse, ReceiptOneUse, Uses
        <3>2. CASE runs'[j][m] = run /\ ~(runs'[k][n] = run /\ j = i /\ k = i /\ m = last /\ n = last)
            BY <2>4, <2>5, <3>2 DEF Uses
        <3>3. CASE runs'[k][n] = run /\ ~(runs'[j][m] = run /\ j = i /\ k = i /\ m = last /\ n = last)
            BY <2>4, <2>5, <3>3 DEF Uses
        <3> QED
            BY <2>4, <3>1, <3>2, <3>3
    <2> QED
        BY <2>6, <2>7, <2>8, <2>9 DEF OneUse
<1> QED
    BY <1>4, <1>5 DEF Invoke

LEMMA StepOneUse ==
    ASSUME OneMemory, TypeOK, AllSerial, AllVouched, OneUse, [Next]_vars
    PROVE  OneUse'
<1>1. ASSUME NEW c \in Calls, Submit(c) \/ Resume(c) \/ Step(c) \/ Failure(c),
             ~Redeem(c), ~Invoke(c)
      PROVE  OneUse'
    <2>1. UNCHANGED <<runs, consumed>>
        BY <1>1 DEF Submit, Resume, Step, Failure, Authenticate, Claim, Enter, Judge, Park,
           RedeemUnknown, CheckContext, Execute, Announce, AdapterReturns, Settle, Exit,
           Record, StoreUnavailable, SnapshotFails, AdapterRaises, SettleFails, ExitFails,
           RecordFails, EvaluationRaises, world, memory
    <2>2. Alone(c)
        BY <1>1, EarlyMoves, RefusedMoves, ExecuteMoves, StrideMoves, SettleMoves, EndMoves
           DEF Step, Failure
    <2>3. \A d \in Calls : Holder(d)' => Holder(d) /\ frame'[d].via = frame[d].via
        <3>1. Holder(c)' => Holder(c) /\ frame'[c].via = frame[c].via
            BY <1>1, HolderStays
        <3> QED
            BY <2>2, <3>1 DEF Holder, Alone
    <2> QED
        BY <2>1, <2>3, QuietOneUse
<1>2. ASSUME NEW c \in Calls, Redeem(c) PROVE OneUse'
    BY <1>2, RedeemOneUse DEF OneMemory
<1>3. ASSUME NEW c \in Calls, Invoke(c) PROVE OneUse'
    BY <1>3, InvokeOneUse
<1>4. CASE Issue \/ Tick \/ (\E p \in Procs : ChangePolicy(p)) \/ (\E tool \in Volatile : Retarget(tool))
    <2>1. UNCHANGED <<runs, consumed, pc, frame>>
        BY <1>4 DEF Issue, Tick, ChangePolicy, Retarget, world, memory
    <2> QED
        BY <2>1, QuietOneUse DEF Holder
<1>5. CASE \E p \in Procs : Crash(p)
    <2>1. crashes \in 0..MaxCrashes /\ crashes < MaxCrashes /\ MaxCrashes = 0
        BY <1>5 DEF TypeOK, WorldOK, Crash, OneMemory
    <2> QED
        BY <2>1
<1>6. CASE UNCHANGED vars
    BY <1>6, QuietOneUse DEF Holder, vars, world, memory
<1> QED
    BY <1>1, <1>2, <1>3, <1>4, <1>5, <1>6 DEF Next, Finished, Environment

LEMMA InitOneUse == Init => OneUse
BY DEF Init, OneUse, HoldersConsumed, HoldersAreFirst, HoldersDiffer, RunsConsumed,
       ReceiptOneUse, Holder

(* In one process, as long as it does not restart, an approval identifier  *)
(* buys at most one adapter call, however many decisions it is issued for  *)
(* and however many resumptions compete for it.                            *)
THEOREM ReceiptsBuyOneRun == ASSUME OneMemory PROVE Spec => []ReceiptOneUse
<1>1. Init => OneUse
    BY InitOneUse
<1>2. TypeOK /\ AllSerial /\ Vouching /\ OneUse /\ [Next]_vars => OneUse'
    BY StepOneUse DEF Vouching
<1>3. OneUse => ReceiptOneUse
    BY DEF OneUse
<1> QED
    BY <1>1, <1>2, <1>3, TypeCorrect, SessionsAreSerial, CallsAreVouched, PTL DEF Spec

-----------------------------------------------------------------------------
(* What is told about a request.  A call that has ended says whether its   *)
(* adapter ran; a request whose failure is told is closed: nobody is left  *)
(* who could run it or commit it.                                          *)
Early == {"authenticate", "claim", "enter", "judge", "park", "redeem", "check",
          "execute", "announce", "invoke"}
Ended(c) == pc[c] \in {"record", "exit", "returned"}

Told(c) ==
    /\ pc[c] \in Early => ~frame[c].ran
    /\ pc[c] \in {"adapter", "settle"} => frame[c].ran
    /\ pc[c] = "park" => frame[c].outcome = "pending_approval"
    /\ Ended(c) /\ frame[c].outcome \in {"denied", "pending_approval"} => ~frame[c].ran
    /\ Ended(c) /\ frame[c].outcome \in {"succeeded", "execution_uncertain"} => frame[c].ran

Active(d, i) == (Driving(d) \/ Ran(d)) /\ frame[d].req.id = i

NotParked(i) == \A p \in Procs : \A e \in pending[p] : e.dec.req.id # i

Closed(i) ==
    i \in claimed /\ ~HasEvent(history, i) /\ NotParked(i) /\ \A d \in Calls : ~Active(d, i)

Sealed(c) ==
    /\ frame[c].outcome = "succeeded"
    /\ pc[c] \in {"record", "returned"} \/ (pc[c] = "exit" /\ ~Sqlite)

Failed(c) == Ended(c) /\ frame[c].outcome \in {"execution_failed", "execution_uncertain"}

About(c, i) == pc[c] # "ready" /\ frame[c].req.id = i

AnswerHolds(c, i) ==
    /\ Sealed(c) => HasEvent(history, i)
    /\ Failed(c) => Closed(i)
    /\ pc[c] = "invoke" => Reported(i, "execution_started")

TrailHolds(i) ==
    /\ Reported(i, "succeeded") => HasEvent(history, i)
    /\ Reported(i, "execution_failed") \/ Reported(i, "execution_uncertain") => Closed(i)
    /\ DOMAIN runs[i] # {} => Reported(i, "execution_started")

Truth ==
    /\ \A c \in Calls : Told(c)
    /\ \A c \in Calls : \A i \in Ids : About(c, i) => AnswerHolds(c, i)
    /\ \A i \in Ids : TrailHolds(i)

(* How a step of a call ends it, if it does.                               *)
Refused(c) == frame'[c].outcome = "denied" /\ pc[c] \in Early
Parked(c) == frame'[c].outcome = "pending_approval" /\ pc[c] = "park"
FailedNow(c) ==
    /\ frame'[c].outcome = "execution_failed" /\ pc[c] \in {"invoke", "adapter"}
    /\ UNCHANGED history
LostNow(c) == frame'[c].outcome = "execution_uncertain" /\ Ran(c) /\ UNCHANGED history
Settled(c) ==
    /\ frame'[c].outcome = "succeeded" /\ Ran(c) /\ (pc'[c] = "exit" \/ Committing(c))
    /\ (pc'[c] = "exit" /\ Sqlite) \/ Appended(frame[c].req)
Repeated(c) ==
    /\ frame'[c].outcome = frame[c].outcome /\ pc[c] \in {"exit", "record"}
    /\ pc'[c] = "exit" => pc[c] = "record" /\ frame[c].outcome # "succeeded"
    /\ ~Committing(c)

Ends(c) ==
    /\ frame'[c].req = frame[c].req /\ frame'[c].ran = frame[c].ran
    /\ \/ Refused(c) \/ Parked(c) \/ FailedNow(c) \/ LostNow(c) \/ Settled(c) \/ Repeated(c)
       \/ frame'[c].outcome = "raised"

LEMMA ReportFields ==
    ASSUME TypeOK, NEW c \in Calls, NEW status \in Outcomes, Report(c, status) \/ Return(c, status)
    PROVE  /\ frame'[c].outcome = status
           /\ pc[c] # "ready" => frame'[c].req = frame[c].req /\ frame'[c].ran = frame[c].ran
<1>1. CASE Return(c, status)
    BY <1>1, ReturnType DEF TypeOK, CallsOK
<1>2. CASE Report(c, status)
    <2>1. frame[c] \in CallType /\ frame'[c] = [frame[c] EXCEPT !.outcome = status]
        BY <1>2, ReportType DEF TypeOK, CallsOK
    <2> QED
        BY <2>1 DEF CallType
<1> QED
    BY <1>1, <1>2

LEMMA RefusalEnds ==
    ASSUME TypeOK, NEW c \in Calls,
           \/ pc[c] \in Early /\ Report(c, "denied")
           \/ pc[c] # "ready" /\ Return(c, "raised")
           \/ /\ pc[c] \in {"invoke", "adapter"} /\ Report(c, "execution_failed")
              /\ UNCHANGED history
           \/ Ran(c) /\ Report(c, "execution_uncertain") /\ UNCHANGED history
    PROVE  Ends(c)
<1>1. {"denied", "raised", "execution_failed", "execution_uncertain"} \subseteq Outcomes
    BY DEF Outcomes
<1>2. pc[c] # "ready"
    BY DEF Early, Ran, Committing
<1> QED
    BY <1>1, <1>2, ReportFields DEF Ends, Refused, FailedNow, LostNow

LEMMA FailureEnds ==
    ASSUME TypeOK, NEW c \in Calls, Failure(c) \/ RedeemUnknown(c)
    PROVE  Ends(c)
<1>1. CASE ExitFails(c) /\ frame[c].outcome # "succeeded"
    <2>1. frame[c].outcome \in Outcomes /\ pc[c] = "exit"
        BY <1>1, CallTyped DEF ExitFails, TypeOK
    <2>2. Return(c, frame[c].outcome)
        BY <1>1 DEF ExitFails, AfterLostCommit
    <2>3. pc'[c] = "returned"
        BY <2>1, <2>2, ReturnType DEF TypeOK, CallsOK
    <2> QED
        BY <1>1, <2>1, <2>2, <2>3, ReportFields DEF Ends, Repeated, Committing
<1>2. CASE ExitFails(c) /\ frame[c].outcome = "succeeded"
    BY <1>2, RefusalEnds DEF ExitFails, AfterLostCommit, Ran, Committing, store
<1>3. CASE ~ExitFails(c)
    BY <1>3, RefusalEnds DEF Failure, RedeemUnknown, StoreUnavailable, SnapshotFails,
       AdapterRaises, SettleFails, RecordFails, EvaluationRaises, Early, Ran, store
<1> QED
    BY <1>1, <1>2, <1>3

LEMMA JudgeTells ==
    ASSUME TypeOK, NEW c \in Calls, Judge(c)
    PROVE  /\ frame'[c].req = frame[c].req /\ frame'[c].ran = frame[c].ran
           /\ pc'[c] \in {"record", "park", "execute"}
           /\ pc'[c] = "record" => frame'[c].outcome = "denied"
           /\ pc'[c] = "park" => frame'[c].outcome = "pending_approval"
<1> DEFINE r == frame[c].req
           h == history[r.session]
           base == BaseControl(r.tool, Admitted(c))
           verdict == Verdict(r.tool, h, base)
           dec == [req |-> r, version |-> version[frame[c].proc], context |-> h]
           f == [frame[c] EXCEPT !.view = h, !.dec = dec,
                   !.outcome = IF verdict = "deny" THEN "denied"
                               ELSE IF verdict = "require_approval" THEN "pending_approval" ELSE @]
           label == IF verdict = "deny" THEN "record"
                    ELSE IF verdict = "require_approval" THEN "park" ELSE "execute"
<1>1. frame[c] \in CallType /\ With(c, f) /\ Goto(c, label)
    BY CallTyped DEF Judge, TypeOK
<1> HIDE DEF verdict, dec, h
<1>2. f.req = r /\ f.ran = frame[c].ran
    BY <1>1 DEF CallType
<1>3. /\ verdict = "deny" => f.outcome = "denied"
      /\ verdict = "require_approval" => f.outcome = "pending_approval"
    BY <1>1 DEF CallType
<1>4. /\ label \in {"record", "park", "execute"}
      /\ label = "record" => f.outcome = "denied"
      /\ label = "park" => f.outcome = "pending_approval"
    BY <1>3
<1> HIDE DEF f, label
<1>5. pc'[c] = label /\ frame'[c] = f
    BY <1>1, <1>4, MoveIsAlone DEF Labels
<1> QED
    BY <1>2, <1>4, <1>5

LEMMA EarlyEnds ==
    ASSUME TypeOK, AllSerial, AllVouched, Truth, NEW c \in Calls, Ended(c)',
           \/ Submit(c) \/ Resume(c) \/ Authenticate(c) \/ Claim(c) \/ Enter(c) \/ Judge(c)
           \/ Park(c) \/ Redeem(c) \/ CheckContext(c) \/ Execute(c) \/ Announce(c)
           \/ AdapterReturns(c) \/ Invoke(c)
    PROVE  Ends(c)
<1>1. \A label \in Labels : Goto(c, label) => pc'[c] = label
    BY GotoType DEF TypeOK, CallsOK
<1>2. pc'[c] \in {"record", "exit", "returned"}
    BY DEF Ended
<1>3. CASE Submit(c) \/ Resume(c) \/ Enter(c) \/ Announce(c) \/ AdapterReturns(c)
    BY <1>1, <1>2, <1>3 DEF Submit, Resume, Enter, Announce, AdapterReturns, Labels
<1>4. CASE Judge(c)
    BY <1>2, <1>4, JudgeTells DEF Ends, Refused, Early, Judge
<1>5. CASE Park(c)
    <2>1. pc[c] = "park" /\ frame' = frame
        BY <1>5 DEF Park
    <2>2. frame[c].outcome = "pending_approval"
        BY <2>1 DEF Truth, Told
    <2> QED
        BY <2>1, <2>2 DEF Ends, Parked
<1>6. CASE Authenticate(c) \/ Claim(c) \/ Redeem(c) \/ CheckContext(c) \/ Execute(c)
    <2>1. Report(c, "denied")
        BY <1>1, <1>2, <1>6 DEF Authenticate, Claim, Redeem, CheckContext, Execute, Labels
    <2>2. pc[c] \in Early
        BY <1>6 DEF Authenticate, Claim, Redeem, CheckContext, Execute, Early
    <2> QED
        BY <2>1, <2>2, RefusalEnds
<1>7. CASE Invoke(c)
    BY <1>1, <1>2, <1>7, RefusalEnds DEF Invoke, Labels, store
<1> QED
    BY <1>3, <1>4, <1>5, <1>6, <1>7

LEMMA LateEnds ==
    ASSUME TypeOK, AllSerial, NEW c \in Calls, Settle(c) \/ Exit(c) \/ Record(c)
    PROVE  Ends(c)
<1>1. frame[c] \in CallType /\ frame[c].outcome \in Outcomes
    BY CallTyped DEF Settle, Exit, Record, TypeOK
<1>2. CASE Settle(c)
    <2>1. pc'[c] = "exit" /\ frame'[c] = [frame[c] EXCEPT !.outcome = "succeeded"]
        BY <1>2, MoveIsAlone DEF Settle, Labels
    <2>2. /\ frame'[c].outcome = "succeeded" /\ frame'[c].req = frame[c].req
          /\ frame'[c].ran = frame[c].ran
        BY <1>1, <2>1 DEF CallType
    <2>3. Ran(c) /\ (Sqlite \/ Appended(frame[c].req))
        BY <1>2 DEF Settle, Ran
    <2> QED
        BY <2>1, <2>2, <2>3 DEF Ends, Settled
<1>3. CASE Exit(c)
    <2>1. PICK status \in Outcomes :
             status = frame[c].outcome /\ (Report(c, status) \/ Return(c, status))
        BY <1>1, <1>3 DEF Exit
    <2>2. pc[c] = "exit" /\ pc'[c] # "exit"
        BY <1>3, <2>1, RefusalMoves DEF Exit
    <2>3. /\ frame'[c].outcome = frame[c].outcome /\ frame'[c].req = frame[c].req
          /\ frame'[c].ran = frame[c].ran
        BY <2>1, <2>2, ReportFields
    <2>4. Committing(c) => Appended(frame[c].req)
        BY <1>3 DEF Exit, Committing
    <2> QED
        BY <2>2, <2>3, <2>4 DEF Ends, Settled, Repeated, Ran, Committing
<1>4. CASE Record(c) /\ Return(c, frame[c].outcome)
    <2>1. pc[c] = "record" /\ pc'[c] # "exit"
        BY <1>1, <1>4, RefusalMoves DEF Record
    <2> QED
        BY <1>1, <1>4, <2>1, ReportFields DEF Ends, Repeated, Committing
<1>5. CASE Record(c) /\ Holds(c) /\ Goto(c, "exit") /\ UNCHANGED frame
    BY <1>5 DEF Ends, Repeated, Record, Holds, Committing, AllSerial, Serial
<1> QED
    BY <1>2, <1>3, <1>4, <1>5 DEF Record

LEMMA CallEnds ==
    ASSUME TypeOK, AllSerial, AllVouched, Truth, NEW c \in Calls,
           Submit(c) \/ Resume(c) \/ Step(c) \/ Failure(c), Ended(c)'
    PROVE  Ends(c)
BY EarlyEnds, LateEnds, FailureEnds DEF Step

LEMMA CallIsAlone ==
    ASSUME TypeOK, AllSerial, NEW c \in Calls, Submit(c) \/ Resume(c) \/ Step(c) \/ Failure(c)
    PROVE  Moves(c) /\ Alone(c)
BY EarlyMoves, RefusedMoves, ExecuteMoves, StrideMoves, InvokeMoves, SettleMoves, EndMoves
   DEF Step, Failure

(* A closed request stays closed: it can be claimed, redeemed or committed *)
(* by nobody.                                                              *)
LEMMA ActiveStays ==
    ASSUME TypeOK, AllSerial, NEW c \in Calls, NEW i \in Ids,
           Submit(c) \/ Resume(c) \/ Step(c) \/ Failure(c), Active(c, i)'
    PROVE  Active(c, i) \/ i \notin claimed \/ ~NotParked(i)
<1>1. Moves(c) /\ Alone(c) /\ frame'[c].req.id = i
    BY CallIsAlone DEF Active
<1>2. CASE Ready(c)'
    BY <1>1, <1>2 DEF Moves, Ready, Active, Driving
<1>3. CASE ~Ready(c)'
    <2>1. pc'[c] \in {"enter", "judge", "park", "check", "execute"}
        BY <1>3 DEF Active, Driving, Ready
    <2>2. \A label \in Labels : Goto(c, label) => pc'[c] = label
        BY GotoType DEF TypeOK, CallsOK
    <2>3. \A status \in Outcomes : ~Report(c, status) /\ ~Return(c, status)
        BY <2>1, RefusalMoves
    <2>4. Claim(c) \/ Enter(c) \/ Judge(c) \/ Redeem(c) \/ CheckContext(c)
        <3>1. ~Failure(c) /\ ~RedeemUnknown(c)
            BY <2>1, LastStepsEnd
        <3>2. ~(Park(c) \/ Settle(c) \/ Exit(c) \/ Record(c))
            BY <2>1, LastStepsEnd
        <3>3. ~(Submit(c) \/ Resume(c) \/ Authenticate(c) \/ Execute(c) \/ Announce(c)
                \/ Invoke(c) \/ AdapterReturns(c))
            BY <2>1, <2>2, <2>3 DEF Submit, Resume, Authenticate, Execute, Announce, Invoke,
                                    AdapterReturns, Labels, Outcomes
        <3> QED
            BY <3>1, <3>2, <3>3 DEF Step
    <2>5. CASE Claim(c)
        BY <1>1, <2>3, <2>5 DEF Claim, Unclaimed, Outcomes
    <2>6. CASE Enter(c)
        BY <1>1, <2>6 DEF Enter, Active, Driving
    <2>7. CASE Judge(c)
        BY <1>1, <2>7, JudgeTells DEF Judge, Active, Driving
    <2>8. CASE CheckContext(c)
        <3>1. pc[c] = "check" /\ frame[c] \in CallType
            BY <2>8, CallTyped DEF CheckContext, TypeOK
        <3>2. With(c, [frame[c] EXCEPT !.view = history[frame[c].req.session]])
            BY <2>3, <2>8 DEF CheckContext, Outcomes
        <3>3. frame'[c].req = frame[c].req
            BY <3>1, <3>2 DEF With, CallType, TypeOK, CallsOK
        <3> QED
            BY <1>1, <3>1, <3>3 DEF Active, Driving
    <2>9. CASE Redeem(c)
        <3>1. pc[c] = "redeem" /\ frame[c] \in CallType /\ frame[c].proc \in Procs
            BY <2>9, CallTyped DEF Redeem, TypeOK
        <3>2. PICK e \in PendingOf(frame[c].proc, frame[c].req) :
                 With(c, [frame[c] EXCEPT !.req = e.dec.req, !.dec = e.dec])
            BY <2>3, <2>9 DEF Redeem, Outcomes
        <3>3. frame'[c].req = e.dec.req
            BY <3>1, <3>2 DEF With, CallType, TypeOK, CallsOK
        <3> QED
            BY <1>1, <3>1, <3>2, <3>3 DEF PendingOf, NotParked
    <2> QED
        BY <2>4, <2>5, <2>6, <2>7, <2>8, <2>9
<1> QED
    BY <1>2, <1>3

LEMMA ParkKeepsOut ==
    ASSUME TypeOK, OneDriver, NEW c \in Calls, Park(c), NEW i \in Ids, NotParked(i), ~Active(c, i)
    PROVE  NotParked(i)'
<1> DEFINE p == frame[c].proc
           mine == [dec |-> frame[c].dec, created |-> frame[c].at]
<1>1. pc[c] = "park" /\ p \in Procs
    BY CallTyped DEF Park, TypeOK
<1>2. mine.dec.req.id # i
    BY <1>1 DEF OneDriver, Claimant, Driving, Active
<1>3. \A q \in Procs : \A e \in pending'[q] : e \in pending[q] \/ e = mine
    BY <1>1 DEF Park, TypeOK, MemoryOK
<1> HIDE DEF mine
<1> QED
    BY <1>2, <1>3 DEF NotParked

LEMMA StepKeepsOut ==
    ASSUME TypeOK, OneDriver, [Next]_vars, NEW i \in Ids, NotParked(i),
           \A d \in Calls : ~Active(d, i)
    PROVE  NotParked(i)'
<1>1. CASE \A q \in Procs : pending'[q] \subseteq pending[q]
    BY <1>1 DEF NotParked
<1> QED
    BY <1>1, ParkKeepsOut, OthersParkNothing

LEMMA ClaimsStay ==
    ASSUME Durable, TypeOK, [Next]_vars
    PROVE  claimed \subseteq claimed'
<1>1. ASSUME NEW c \in Calls, Submit(c) \/ Resume(c) \/ Step(c) \/ Failure(c)
      PROVE  claimed \subseteq claimed'
    BY <1>1 DEF Submit, Resume, Step, Failure, Authenticate, Claim, Enter, Judge, Park,
       RedeemUnknown, Redeem, CheckContext, Execute, Announce, Invoke, AdapterReturns, Settle,
       Exit, Record, StoreUnavailable, SnapshotFails, AdapterRaises, SettleFails, ExitFails,
       RecordFails, EvaluationRaises, store
<1>2. ASSUME NEW p \in Procs, Crash(p) PROVE claimed \subseteq claimed'
    <2>1. crashes \in 0..MaxCrashes /\ crashes < MaxCrashes
        BY <1>2 DEF TypeOK, WorldOK, Crash
    <2>2. Sqlite
        BY <2>1 DEF Durable
    <2> QED
        BY <1>2, <2>2 DEF Crash
<1>3. CASE Issue \/ Tick \/ (\E p \in Procs : ChangePolicy(p)) \/ (\E tool \in Volatile : Retarget(tool))
    BY <1>3 DEF Issue, Tick, ChangePolicy, Retarget, store
<1>4. CASE UNCHANGED vars
    BY <1>4 DEF vars, store
<1> QED
    BY <1>1, <1>2, <1>3, <1>4 DEF Next, Finished, Environment

(* The shape of a step, as far as calls, histories and trails go.          *)
LEMMA StepShape ==
    ASSUME Durable, TypeOK, [Next]_vars
    PROVE  \/ \E c \in Calls : Submit(c) \/ Resume(c) \/ Step(c) \/ Failure(c)
           \/ /\ UNCHANGED <<history, runs, trail>>
              /\ \A d \in Calls : pc'[d] = "lost" \/ (pc'[d] = pc[d] /\ frame'[d] = frame[d])
<1>1. CASE \E p \in Procs : Crash(p)
    <2>1. UNCHANGED trail
        BY <1>1 DEF Crash, world
    <2> QED
        BY <1>1, <2>1, DurableCrash
<1>2. CASE Issue \/ Tick \/ (\E p \in Procs : ChangePolicy(p)) \/ (\E tool \in Volatile : Retarget(tool))
    BY <1>2 DEF Issue, Tick, ChangePolicy, Retarget, store, world
<1>3. CASE UNCHANGED vars
    BY <1>3 DEF vars, store, world
<1> QED
    BY <1>1, <1>2, <1>3 DEF Next, Finished, Environment

LEMMA ClosedStays ==
    ASSUME Durable, TypeOK, AllSerial, OneDriver, [Next]_vars, NEW i \in Ids, Closed(i)
    PROVE  Closed(i)'
<1>1. i \in claimed'
    BY ClaimsStay DEF Closed
<1>2. NotParked(i)'
    BY StepKeepsOut DEF Closed
<1>3. CASE \E c \in Calls : Submit(c) \/ Resume(c) \/ Step(c) \/ Failure(c)
    <2>1. PICK c \in Calls : Submit(c) \/ Resume(c) \/ Step(c) \/ Failure(c)
        BY <1>3
    <2>2. Moves(c) /\ Alone(c)
        BY <2>1, CallIsAlone
    <2>3. \A d \in Calls : ~Active(d, i)'
        <3>1. ~Active(c, i)'
            BY <2>1, ActiveStays DEF Closed
        <3>2. \A d \in Calls \ {c} : Active(d, i)' => Active(d, i)
            BY <2>2 DEF Alone, Active, Driving, Ran, Committing
        <3> QED
            BY <3>1, <3>2 DEF Closed
    <2>4. ~HasEvent(history', i)
        <3>1. CASE Ran(c) /\ Appended(frame[c].req)
            <4>1. frame[c].req \in Requests /\ frame[c].req.id # i
                BY <3>1, RanHasRun DEF Closed, Active
            <4> QED
                BY <3>1, <4>1, CommittedAfter DEF Closed
        <3> QED
            BY <2>2, <3>1 DEF Moves, Closed
    <2> QED
        BY <1>1, <1>2, <2>3, <2>4 DEF Closed
<1>4. CASE /\ UNCHANGED <<history, runs, trail>>
           /\ \A d \in Calls : pc'[d] = "lost" \/ (pc'[d] = pc[d] /\ frame'[d] = frame[d])
    <2>1. \A d \in Calls : Active(d, i)' => Active(d, i)
        BY <1>4 DEF Active, Driving, Ran, Committing
    <2> QED
        BY <1>1, <1>2, <1>4, <2>1 DEF Closed
<1> QED
    BY <1>3, <1>4, StepShape

LEMMA EventStays ==
    ASSUME Durable, TypeOK, AllSerial, [Next]_vars, NEW i \in Ids, HasEvent(history, i)
    PROVE  HasEvent(history', i)
<1>1. ASSUME NEW c \in Calls, Moves(c) PROVE HasEvent(history', i)
    <2>1. CASE Ran(c) /\ Appended(frame[c].req)
        BY <2>1, RanHasRun, CommittedAfter
    <2> QED
        BY <1>1, <2>1 DEF Moves
<1> QED
    BY <1>1, StepShape, CallIsAlone

-----------------------------------------------------------------------------
(* What a step of a call makes of what it tells.                           *)
LEMMA KeptFields ==
    ASSUME TypeOK, NEW c \in Calls, pc[c] # "ready", Redeem(c) \/ CheckContext(c),
           pc'[c] # "record"
    PROVE  frame'[c].ran = frame[c].ran
<1>1. frame[c] \in CallType /\ \A status \in Outcomes : ~Report(c, status)
    BY CallTyped, ReportType DEF TypeOK, CallsOK
<1>2. CASE Redeem(c)
    <2>1. PICK e : With(c, [frame[c] EXCEPT !.req = e.dec.req, !.dec = e.dec])
        BY <1>1, <1>2 DEF Redeem, Outcomes
    <2> QED
        BY <1>1, <2>1 DEF With, CallType, TypeOK, CallsOK
<1>3. CASE CheckContext(c)
    <2>1. With(c, [frame[c] EXCEPT !.view = history[frame[c].req.session]])
        BY <1>1, <1>3 DEF CheckContext, Outcomes
    <2> QED
        BY <1>1, <2>1 DEF With, CallType, TypeOK, CallsOK
<1> QED
    BY <1>2, <1>3

LEMMA EarlyTells ==
    ASSUME TypeOK, Truth, NEW c \in Calls, Submit(c) \/ Resume(c) \/ Step(c) \/ Failure(c),
           pc'[c] \in Early
    PROVE  ~frame'[c].ran /\ (pc'[c] = "park" => frame'[c].outcome = "pending_approval")
<1>1. pc[c] \in Early => ~frame[c].ran
    BY DEF Truth, Told
<1>2. pc'[c] \notin {"record", "exit", "returned", "adapter", "settle", "ready", "lost"}
    BY DEF Early
<1>3. /\ ~(Park(c) \/ RedeemUnknown(c) \/ Settle(c) \/ Exit(c) \/ Record(c) \/ Failure(c))
      /\ \A status \in Outcomes : ~Report(c, status)
    BY <1>2, LastStepsEnd, ReportType DEF TypeOK, CallsOK
<1>4. \A label \in Labels : Goto(c, label) => pc'[c] = label
    BY GotoType DEF TypeOK, CallsOK
<1>5. CASE Submit(c) \/ Resume(c)
    <2>1. Submit(c) => ~frame'[c].ran
        BY DEF Submit, With, Blank, TypeOK, CallsOK
    <2>2. ASSUME Resume(c) PROVE ~frame'[c].ran
        <3>1. PICK r, receipt, p :
                 With(c, [Blank EXCEPT !.proc = p, !.req = r, !.via = receipt, !.at = clock])
            BY <2>2 DEF Resume
        <3>2. [Blank EXCEPT !.proc = p, !.req = r, !.via = receipt, !.at = clock].ran = FALSE
            BY DEF Blank
        <3> QED
            BY <3>1, <3>2 DEF With, TypeOK, CallsOK
    <2>3. ~frame'[c].ran
        BY <1>5, <2>1, <2>2
    <2> QED
        BY <1>4, <1>5, <2>3 DEF Submit, Resume, Labels
<1>6. CASE Judge(c)
    BY <1>1, <1>2, <1>6, JudgeTells DEF Judge, Early
<1>7. CASE Authenticate(c) \/ Claim(c) \/ Enter(c) \/ Execute(c) \/ Announce(c)
    <2>1. UNCHANGED frame /\ pc[c] \in Early
        BY <1>3, <1>7 DEF Authenticate, Claim, Enter, Execute, Announce, Outcomes, Early
    <2>2. pc'[c] # "park"
        BY <1>3, <1>4, <1>7 DEF Authenticate, Claim, Enter, Execute, Announce, Outcomes, Labels
    <2> QED
        BY <1>1, <2>1, <2>2
<1>8. CASE Redeem(c) \/ CheckContext(c)
    <2>1. pc[c] \in Early /\ pc[c] # "ready"
        BY <1>8 DEF Redeem, CheckContext, Early
    <2>2. frame'[c].ran = frame[c].ran
        BY <1>2, <1>8, <2>1, KeptFields
    <2>3. pc'[c] # "park"
        BY <1>3, <1>4, <1>8 DEF Redeem, CheckContext, Outcomes, Labels
    <2> QED
        BY <1>1, <2>1, <2>2, <2>3
<1>9. CASE Invoke(c) \/ AdapterReturns(c)
    BY <1>2, <1>3, <1>4, <1>9 DEF Invoke, AdapterReturns, Outcomes, Labels
<1> QED
    BY <1>3, <1>5, <1>6, <1>7, <1>8, <1>9 DEF Step

LEMMA RunTells ==
    ASSUME TypeOK, AllSerial, Truth, NEW c \in Calls,
           Submit(c) \/ Resume(c) \/ Step(c) \/ Failure(c), pc'[c] \in {"adapter", "settle"}
    PROVE  frame'[c].ran
<1>1. Ran(c)' /\ (Ran(c) \/ pc[c] = "invoke")
    BY CallIsAlone DEF Ran, Moves
<1>2. ~(Settle(c) \/ Exit(c) \/ Record(c) \/ Failure(c))
    BY LastStepsEnd
<1>3. Invoke(c) \/ AdapterReturns(c)
    BY <1>1, <1>2 DEF Step, Submit, Resume, Authenticate, Claim, Enter, Judge, Park,
       RedeemUnknown, Redeem, CheckContext, Execute, Announce, Ran, Committing
<1>4. CASE Invoke(c)
    <2>1. pc[c] = "invoke" /\ frame[c] \in CallType
        BY <1>4, CallTyped DEF Invoke, TypeOK
    <2>2. ~Report(c, "execution_failed")
        BY ReportType DEF Outcomes, TypeOK, CallsOK
    <2>3. With(c, [frame[c] EXCEPT !.ran = TRUE])
        BY <1>4, <2>2 DEF Invoke
    <2> QED
        BY <2>1, <2>3 DEF With, CallType, TypeOK, CallsOK
<1>5. CASE AdapterReturns(c)
    BY <1>5 DEF AdapterReturns, Truth, Told
<1> QED
    BY <1>3, <1>4, <1>5

LEMMA CallTells ==
    ASSUME TypeOK, AllSerial, AllVouched, Truth, NEW c \in Calls,
           Submit(c) \/ Resume(c) \/ Step(c) \/ Failure(c)
    PROVE  Told(c)'
<1>1. Told(c)
    BY DEF Truth
<1>2. Ran(c) => frame[c].ran
    BY <1>1 DEF Ran, Committing, Told, Ended
<1>3. ASSUME Ended(c)', frame'[c].outcome \in {"denied", "pending_approval"}
      PROVE  ~frame'[c].ran
    <2>1. Ends(c)
        BY <1>3, CallEnds
    <2>2. Refused(c) \/ Parked(c) \/ Repeated(c)
        BY <1>3, <2>1 DEF Ends, FailedNow, LostNow, Settled
    <2>3. CASE Refused(c) \/ Parked(c)
        BY <1>1, <2>1, <2>3 DEF Refused, Parked, Told, Early, Ends
    <2>4. CASE Repeated(c)
        BY <1>1, <1>3, <2>1, <2>4 DEF Repeated, Told, Ended, Ends
    <2> QED
        BY <2>2, <2>3, <2>4
<1>4. ASSUME Ended(c)', frame'[c].outcome \in {"succeeded", "execution_uncertain"}
      PROVE  frame'[c].ran
    <2>1. Ends(c)
        BY <1>4, CallEnds
    <2>2. Ran(c) \/ Repeated(c)
        BY <1>4, <2>1 DEF Ends, Refused, Parked, FailedNow, LostNow, Settled
    <2>3. CASE Ran(c)
        BY <1>2, <2>1, <2>3 DEF Ends
    <2>4. CASE Repeated(c)
        BY <1>1, <1>4, <2>1, <2>4 DEF Repeated, Told, Ended, Ends
    <2> QED
        BY <2>2, <2>3, <2>4
<1>5. pc'[c] \in Early => /\ ~frame'[c].ran
                          /\ pc'[c] = "park" => frame'[c].outcome = "pending_approval"
    BY EarlyTells
<1>6. pc'[c] \in {"adapter", "settle"} => frame'[c].ran
    BY RunTells
<1>7. pc'[c] = "park" => pc'[c] \in Early
    BY DEF Early
<1> QED
    BY <1>3, <1>4, <1>5, <1>6, <1>7 DEF Told

-----------------------------------------------------------------------------
(* A failure that is told is final: the call that fails was the only one   *)
(* that could still run or commit its request.                             *)
LEMMA RunnerIsAlone ==
    ASSUME TypeOK, AllSerial, OneDriver, OneCommit, NEW c \in Calls, pc[c] = "invoke" \/ Ran(c),
           NEW i \in Ids, frame[c].req.id = i
    PROVE  /\ i \in claimed /\ ~HasEvent(history, i) /\ NotParked(i)
           /\ \A d \in Calls \ {c} : ~Active(d, i)
<1>1. \A d \in Calls : Ran(d) /\ frame[d].req.id = i => DOMAIN runs[i] # {}
    BY RanHasRun
<1>2. runs[i] = << >> => DOMAIN runs[i] = {}
    OBVIOUS
<1>3. Committed(i) <=> HasEvent(history, i)
    BY DEF Committed, HasEvent
<1>4. CASE pc[c] = "invoke"
    <2>1. Driving(c) /\ Claimant(c)
        BY <1>4 DEF Driving, OneDriver
    <2>2. i \in claimed /\ runs[i] = << >>
        BY <2>1 DEF Claimant
    <2>3. ~HasEvent(history, i)
        BY <1>2, <1>3, <2>2 DEF OneCommit
    <2>4. NotParked(i)
        BY <2>1 DEF OneDriver, ParkedIsIdle, Carries, NotParked
    <2>5. \A d \in Calls \ {c} : ~Active(d, i)
        BY <1>1, <1>2, <2>1, <2>2 DEF Active, Claimant
    <2> QED
        BY <2>2, <2>3, <2>4, <2>5
<1>5. CASE Ran(c)
    <2>1. DOMAIN runs[i] # {} /\ runs[i] # << >>
        BY <1>1, <1>2, <1>5
    <2>2. i \in claimed
        BY <2>1 DEF OneDriver
    <2>3. ~HasEvent(history, i)
        BY <1>3, <1>5 DEF OneCommit
    <2>4. NotParked(i)
        BY <2>1 DEF OneDriver, ParkedIsIdle, Idle, NotParked
    <2>5. \A d \in Calls \ {c} : ~Active(d, i)
        BY <1>5, <2>1 DEF Active, OneDriver, Claimant, OneCommit, Alike
    <2> QED
        BY <2>2, <2>3, <2>4, <2>5
<1> QED
    BY <1>4, <1>5

LEMMA FailureCloses ==
    ASSUME Durable, TypeOK, AllSerial, OneDriver, OneCommit, [Next]_vars, NEW c \in Calls,
           Submit(c) \/ Resume(c) \/ Step(c) \/ Failure(c), Ended(c)',
           FailedNow(c) \/ LostNow(c), NEW i \in Ids, frame[c].req.id = i
    PROVE  Closed(i)'
<1>1. /\ i \in claimed /\ ~HasEvent(history, i) /\ NotParked(i)
      /\ \A d \in Calls \ {c} : ~Active(d, i)
    BY RunnerIsAlone DEF FailedNow, LostNow, Ran
<1>2. Alone(c)
    BY CallIsAlone
<1>3. i \in claimed'
    BY <1>1, ClaimsStay
<1>4. ~HasEvent(history', i)
    BY <1>1 DEF FailedNow, LostNow
<1>5. \A d \in Calls : ~Active(d, i)'
    <2>1. ~Active(c, i)'
        BY DEF Active, Driving, Ran, Committing, Ended, FailedNow, LostNow
    <2>2. \A d \in Calls \ {c} : Active(d, i)' => Active(d, i)
        BY <1>2 DEF Alone, Active, Driving, Ran, Committing
    <2> QED
        BY <1>1, <2>1, <2>2
<1>6. NotParked(i)'
    <2>1. \A d \in Calls : ~Park(d)
        <3> SUFFICES ASSUME NEW d \in Calls, Park(d) PROVE FALSE
            OBVIOUS
        <3>1. pc[d] = "park" /\ pc'[d] # "park"
            BY GotoType DEF Park, Labels, TypeOK, CallsOK
        <3> QED
            BY <1>2, <3>1 DEF Alone, FailedNow, LostNow, Ran, Committing
    <2> QED
        BY <1>1, <2>1, OthersParkNothing DEF NotParked
<1> QED
    BY <1>3, <1>4, <1>5, <1>6 DEF Closed

-----------------------------------------------------------------------------
(* What a step leaves of the trail, and what it adds.                      *)
LEMMA LoggedAfter ==
    ASSUME TypeOK, NEW j \in Ids, NEW status, Logged(j, status), NEW i \in Ids, NEW s
    PROVE  Reported(i, s)' <=> Reported(i, s) \/ (i = j /\ s = status)
<1>1. /\ trail'[j] = Append(trail[j], status) /\ \A k \in Ids \ {j} : trail'[k] = trail[k]
      /\ trail[j] \in Seq(Outcomes \cup {"execution_started"})
    BY DEF Logged, TypeOK, WorldOK
<1> DEFINE t == trail[j]
<1>2. /\ DOMAIN Append(t, status) = 1..(Len(t) + 1) /\ DOMAIN t = 1..Len(t) /\ Len(t) \in Nat
      /\ Append(t, status)[Len(t) + 1] = status
      /\ \A n \in 1..Len(t) : Append(t, status)[n] = t[n]
    BY <1>1
<1> HIDE DEF t
<1>3. (\E n \in DOMAIN Append(t, status) : Append(t, status)[n] = s)
         <=> (\E n \in DOMAIN t : t[n] = s) \/ s = status
    <2>1. \A n \in 1..(Len(t) + 1) : n \in 1..Len(t) \/ n = Len(t) + 1
        BY <1>2
    <2>2. 1..Len(t) \subseteq 1..(Len(t) + 1) /\ Len(t) + 1 \in 1..(Len(t) + 1)
        BY <1>2
    <2> QED
        BY <1>2, <2>1, <2>2
<1> QED
    BY <1>1, <1>3 DEF Reported, t

LEMMA StepLogs ==
    ASSUME TypeOK, [Next]_vars
    PROVE  UNCHANGED trail \/ \E c \in Calls : Announce(c) \/ Record(c)
<1>1. ASSUME NEW c \in Calls, Submit(c) \/ Resume(c) \/ Step(c) \/ Failure(c),
             ~Announce(c), ~Record(c)
      PROVE  UNCHANGED trail
    BY <1>1 DEF Submit, Resume, Step, Failure, Authenticate, Claim, Enter, Judge, Park,
       RedeemUnknown, Redeem, CheckContext, Execute, Invoke, AdapterReturns, Settle, Exit,
       StoreUnavailable, SnapshotFails, AdapterRaises, SettleFails, ExitFails, RecordFails,
       EvaluationRaises, world
<1>2. CASE Environment
    BY <1>2 DEF Environment, Issue, Tick, ChangePolicy, Crash, Retarget, world
<1>3. CASE UNCHANGED vars
    BY <1>3 DEF vars, world
<1> QED
    BY <1>1, <1>2, <1>3 DEF Next, Finished

LEMMA CallInRequests ==
    ASSUME TypeOK, NEW c \in Calls, pc[c] # "ready"
    PROVE  frame[c].req \in Requests /\ frame[c].req.id \in Ids
BY CallTyped DEF TypeOK, Request

LEMMA ReportsStay ==
    ASSUME TypeOK, [Next]_vars, NEW i \in Ids, NEW s, Reported(i, s)
    PROVE  Reported(i, s)'
<1>1. CASE UNCHANGED trail
    BY <1>1 DEF Reported
<1>2. ASSUME NEW c \in Calls, Announce(c) \/ Record(c) PROVE Reported(i, s)'
    <2>1. PICK status : Logged(frame[c].req.id, status)
        BY <1>2 DEF Announce, Record
    <2>2. frame[c].req.id \in Ids
        BY <1>2, CallInRequests DEF Announce, Record
    <2> QED
        BY <2>1, <2>2, LoggedAfter
<1> QED
    BY <1>1, <1>2, StepLogs

(* What a step reports of how a request ended, a call had ended with.      *)
LEMMA NewReport ==
    ASSUME TypeOK, [Next]_vars, NEW i \in Ids, NEW s, s # "execution_started",
           Reported(i, s)', ~Reported(i, s)
    PROVE  \E c \in Calls : pc[c] = "record" /\ frame[c].req.id = i /\ frame[c].outcome = s
<1>1. CASE UNCHANGED trail
    BY <1>1 DEF Reported
<1>2. ASSUME NEW c \in Calls, Announce(c) \/ Record(c)
      PROVE  pc[c] = "record" /\ frame[c].req.id = i /\ frame[c].outcome = s
    <2>1. frame[c].req.id \in Ids
        BY <1>2, CallInRequests DEF Announce, Record
    <2>2. CASE Announce(c)
        BY <2>1, <2>2, LoggedAfter DEF Announce
    <2>3. CASE Record(c)
        BY <2>1, <2>3, LoggedAfter DEF Record
    <2> QED
        BY <1>2, <2>2, <2>3
<1> QED
    BY <1>1, <1>2, StepLogs

LEMMA InvokesAnnounced ==
    ASSUME TypeOK, AllSerial, [Next]_vars, NEW c \in Calls,
           Submit(c) \/ Resume(c) \/ Step(c) \/ Failure(c), pc'[c] = "invoke",
           NEW i \in Ids, frame'[c].req.id = i
    PROVE  Reported(i, "execution_started")'
<1>1. \A label \in Labels : Goto(c, label) => pc'[c] = label
    BY GotoType DEF TypeOK, CallsOK
<1>2. ~(Park(c) \/ RedeemUnknown(c) \/ Settle(c) \/ Exit(c) \/ Record(c) \/ Failure(c))
    BY LastStepsEnd
<1>3. \A status \in Outcomes : ~Report(c, status)
    BY ReportType DEF TypeOK, CallsOK
<1>4. ~Judge(c)
    BY JudgeTells
<1>5. Announce(c)
    BY <1>1, <1>2, <1>3, <1>4 DEF Step, Submit, Resume, Authenticate, Claim, Enter, Redeem,
       CheckContext, Execute, Invoke, AdapterReturns, Labels, Outcomes
<1>6. frame'[c] = frame[c] /\ frame[c].req.id \in Ids
    BY <1>5, CallInRequests DEF Announce
<1> QED
    BY <1>5, <1>6, LoggedAfter DEF Announce

-----------------------------------------------------------------------------
(* Answers and trail stay true.                                            *)
LEMMA SealedIsCommitted ==
    ASSUME Durable, TypeOK, AllSerial, AllVouched, Truth, [Next]_vars, NEW c \in Calls,
           Submit(c) \/ Resume(c) \/ Step(c) \/ Failure(c), Sealed(c)',
           NEW i \in Ids, frame'[c].req.id = i
    PROVE  HasEvent(history', i)
<1>1. Ended(c)' /\ frame'[c].outcome = "succeeded"
    BY DEF Sealed, Ended
<1>2. Ends(c)
    BY <1>1, CallEnds
<1>3. Settled(c) \/ Repeated(c)
    BY <1>1, <1>2 DEF Ends, Refused, Parked, FailedNow, LostNow
<1>4. frame[c].req.id = i
    BY <1>2 DEF Ends
<1>5. CASE Settled(c)
    <2>1. Appended(frame[c].req)
        BY <1>5 DEF Settled, Sealed
    <2>2. frame[c].req \in Requests
        BY <1>5, RanHasRun DEF Settled
    <2> QED
        BY <1>4, <2>1, <2>2, CommittedAfter
<1>6. CASE Repeated(c)
    <2>1. Sealed(c) /\ pc[c] # "ready"
        BY <1>1, <1>6 DEF Repeated, Sealed, Committing
    <2>2. HasEvent(history, i)
        BY <1>4, <2>1 DEF Truth, About, AnswerHolds
    <2> QED
        BY <2>2, EventStays
<1> QED
    BY <1>3, <1>5, <1>6

LEMMA FailedIsClosed ==
    ASSUME Durable, TypeOK, AllSerial, AllVouched, OneDriver, OneCommit, Truth, [Next]_vars,
           NEW c \in Calls, Submit(c) \/ Resume(c) \/ Step(c) \/ Failure(c), Failed(c)',
           NEW i \in Ids, frame'[c].req.id = i
    PROVE  Closed(i)'
<1>1. Ended(c)' /\ frame'[c].outcome \in {"execution_failed", "execution_uncertain"}
    BY DEF Failed
<1>2. Ends(c)
    BY <1>1, CallEnds
<1>3. FailedNow(c) \/ LostNow(c) \/ Repeated(c)
    BY <1>1, <1>2 DEF Ends, Refused, Parked, Settled
<1>4. frame[c].req.id = i
    BY <1>2 DEF Ends
<1>5. CASE FailedNow(c) \/ LostNow(c)
    BY <1>1, <1>4, <1>5, FailureCloses
<1>6. CASE Repeated(c)
    <2>1. Failed(c) /\ pc[c] # "ready"
        BY <1>1, <1>6 DEF Repeated, Failed, Ended
    <2>2. Closed(i)
        BY <1>4, <2>1 DEF Truth, About, AnswerHolds
    <2> QED
        BY <2>2, ClosedStays
<1> QED
    BY <1>3, <1>5, <1>6

LEMMA CallAnswers ==
    ASSUME Durable, TypeOK, AllSerial, AllVouched, OneDriver, OneCommit, Truth, [Next]_vars,
           NEW c \in Calls, Submit(c) \/ Resume(c) \/ Step(c) \/ Failure(c),
           NEW i \in Ids, About(c, i)'
    PROVE  AnswerHolds(c, i)'
<1>1. frame'[c].req.id = i
    BY DEF About
<1>2. Sealed(c)' => HasEvent(history', i)
    BY <1>1, SealedIsCommitted
<1>3. Failed(c)' => Closed(i)'
    BY <1>1, FailedIsClosed
<1>4. pc'[c] = "invoke" => Reported(i, "execution_started")'
    BY <1>1, InvokesAnnounced
<1> QED
    BY <1>2, <1>3, <1>4 DEF AnswerHolds, HasEvent

LEMMA AnswerStays ==
    ASSUME Durable, TypeOK, AllSerial, OneDriver, Truth, [Next]_vars, NEW d \in Calls,
           pc'[d] = pc[d], frame'[d] = frame[d], NEW i \in Ids, About(d, i)'
    PROVE  AnswerHolds(d, i)'
<1>1. AnswerHolds(d, i)
    BY DEF Truth, About
<1>2. /\ Sealed(d)' => Sealed(d)
      /\ Failed(d)' => Failed(d)
    BY DEF Sealed, Failed, Ended
<1>3. HasEvent(history, i) => HasEvent(history', i)
    BY EventStays
<1>4. Closed(i) => Closed(i)'
    BY ClosedStays
<1>5. Reported(i, "execution_started") => Reported(i, "execution_started")'
    BY ReportsStay
<1> QED
    BY <1>1, <1>2, <1>3, <1>4, <1>5 DEF AnswerHolds, HasEvent

LEMMA LostAnswersNothing ==
    ASSUME NEW d, pc'[d] = "lost", NEW i
    PROVE  Told(d)' /\ AnswerHolds(d, i)'
BY DEF Told, Early, Ended, AnswerHolds, Sealed, Failed

LEMMA TrailStays ==
    ASSUME Durable, TypeOK, AllSerial, OneDriver, Truth, [Next]_vars, NEW i \in Ids
    PROVE  TrailHolds(i)'
<1>1. TrailHolds(i)
    BY DEF Truth
<1>2. \A c \in Calls : pc[c] = "record" /\ frame[c].req.id = i => AnswerHolds(c, i)
    BY DEF Truth, About
<1>3. HasEvent(history, i) => HasEvent(history', i)
    BY EventStays
<1>4. Closed(i) => Closed(i)'
    BY ClosedStays
<1>5. Reported(i, "succeeded")' => HasEvent(history', i)
    <2>1. CASE Reported(i, "succeeded")
        BY <1>1, <1>3, <2>1 DEF TrailHolds
    <2>2. CASE ~Reported(i, "succeeded")
        <3>1. ASSUME NEW c \in Calls, pc[c] = "record", frame[c].req.id = i,
                     frame[c].outcome = "succeeded"
              PROVE  HasEvent(history', i)
            BY <1>2, <1>3, <3>1 DEF AnswerHolds, Sealed
        <3> QED
            BY <2>2, <3>1, NewReport
    <2> QED
        BY <2>1, <2>2
<1>6. ASSUME NEW s \in {"execution_failed", "execution_uncertain"}, Reported(i, s)'
      PROVE  Closed(i)'
    <2>1. CASE Reported(i, s)
        BY <1>1, <1>4, <2>1 DEF TrailHolds
    <2>2. CASE ~Reported(i, s)
        <3>1. PICK c \in Calls : pc[c] = "record" /\ frame[c].req.id = i /\ frame[c].outcome = s
            BY <1>6, <2>2, NewReport
        <3>2. Failed(c)
            BY <3>1 DEF Failed, Ended
        <3> QED
            BY <1>2, <1>4, <3>1, <3>2 DEF AnswerHolds
    <2> QED
        BY <2>1, <2>2
<1>7. DOMAIN runs'[i] # {} => Reported(i, "execution_started")'
    <2>1. CASE UNCHANGED runs
        BY <1>1, <2>1, ReportsStay DEF TrailHolds
    <2>2. ASSUME NEW c \in Calls, Invoke(c), DOMAIN runs'[i] # {}
          PROVE  Reported(i, "execution_started")'
        <3>1. CASE frame[c].req.id = i
            BY <2>2, <3>1, ReportsStay DEF Truth, About, AnswerHolds, Invoke
        <3>2. CASE frame[c].req.id # i
            <4>1. runs'[i] = runs[i]
                BY <2>2, <3>2 DEF Invoke, TypeOK, WorldOK
            <4> QED
                BY <1>1, <2>2, <4>1, ReportsStay DEF TrailHolds
        <3> QED
            BY <3>1, <3>2
    <2> QED
        BY <2>1, <2>2, OthersRunNothing
<1> QED
    BY <1>5, <1>6, <1>7 DEF TrailHolds, HasEvent

LEMMA StepTells ==
    ASSUME Durable, TypeOK, AllSerial, AllVouched, OneDriver, OneCommit, Truth, [Next]_vars
    PROVE  Truth'
<1>1. \A i \in Ids : TrailHolds(i)'
    BY TrailStays
<1>2. ASSUME NEW d \in Calls, pc'[d] = pc[d], frame'[d] = frame[d]
      PROVE  Told(d)' /\ \A i \in Ids : About(d, i)' => AnswerHolds(d, i)'
    BY <1>2, AnswerStays DEF Truth, Told, Ended
<1>3. ASSUME NEW d \in Calls
      PROVE  Told(d)' /\ \A i \in Ids : About(d, i)' => AnswerHolds(d, i)'
    <2>1. ASSUME NEW c \in Calls, Submit(c) \/ Resume(c) \/ Step(c) \/ Failure(c)
          PROVE  Told(d)' /\ \A i \in Ids : About(d, i)' => AnswerHolds(d, i)'
        <3>1. CASE d = c
            BY <2>1, <3>1, CallTells, CallAnswers
        <3>2. CASE d # c
            BY <1>2, <2>1, <3>2, CallIsAlone DEF Alone
        <3> QED
            BY <3>1, <3>2
    <2>2. CASE pc'[d] = "lost" \/ (pc'[d] = pc[d] /\ frame'[d] = frame[d])
        BY <1>2, <2>2, LostAnswersNothing
    <2> QED
        BY <2>1, <2>2, StepShape
<1> QED
    BY <1>1, <1>3 DEF Truth

LEMMA InitTruth == Init => Truth
BY DEF Init, Truth, Told, Early, Ended, About, TrailHolds, Reported

LEMMA TruthTells == ASSUME TypeOK, OneDriver, OneCommit, Truth PROVE TrailIsTrue /\ AnswerIsTrue
<1>1. \A i \in Ids : Committed(i) <=> HasEvent(history, i)
    BY DEF Committed, HasEvent
<1>2. \A i \in Ids : DOMAIN runs[i] # {} <=> runs[i] # << >>
    <2> SUFFICES ASSUME NEW i \in Ids, runs[i] # << >> PROVE DOMAIN runs[i] # {}
        OBVIOUS
    <2>1. Len(runs[i]) = 1 /\ DOMAIN runs[i] = 1..Len(runs[i])
        BY DEF OneDriver, TypeOK, WorldOK
    <2> QED
        BY <2>1
<1>3. TrailIsTrue
    BY <1>1, <1>2 DEF TrailIsTrue, Truth, TrailHolds, Closed, OneCommit
<1>4. ASSUME NEW c \in Calls, pc[c] = "returned"
      PROVE  /\ frame[c].outcome \in {"denied", "pending_approval"} => ~frame[c].ran
             /\ frame[c].outcome \in {"succeeded", "execution_uncertain"} => frame[c].ran
             /\ frame[c].outcome = "succeeded" => Committed(frame[c].req.id)
             /\ frame[c].outcome \in {"execution_failed", "execution_uncertain"} =>
                   ~Committed(frame[c].req.id)
    <2>1. Told(c) /\ Ended(c) /\ frame[c].req.id \in Ids
        BY <1>4, CallInRequests DEF Truth, Ended
    <2>2. AnswerHolds(c, frame[c].req.id)
        BY <1>4, <2>1 DEF Truth, About
    <2>3. frame[c].outcome = "succeeded" => Committed(frame[c].req.id)
        BY <1>1, <1>4, <2>1, <2>2 DEF AnswerHolds, Sealed
    <2>4. frame[c].outcome \in {"execution_failed", "execution_uncertain"} =>
             ~Committed(frame[c].req.id)
        BY <1>1, <2>1, <2>2 DEF AnswerHolds, Failed, Closed
    <2> QED
        BY <2>1, <2>3, <2>4 DEF Told
<1> QED
    BY <1>3, <1>4 DEF AnswerIsTrue

(* With claims that are not forgotten, the trail and every answer are true *)
(* of what was run and committed, whatever fails, races or restarts.       *)
THEOREM OutcomesAreTrue == ASSUME Durable PROVE Spec => [](TrailIsTrue /\ AnswerIsTrue)
<1>1. Init => OneCommit /\ Truth
    BY InitOneCommit, InitTruth
<1>2. TypeOK /\ AllSerial /\ Vouching /\ OneDriver /\ OneCommit /\ Truth /\ [Next]_vars
         => OneCommit' /\ Truth'
    BY StepKeepsOneCommit, StepTells DEF Vouching
<1>3. TypeOK /\ OneDriver /\ OneCommit /\ Truth => TrailIsTrue /\ AnswerIsTrue
    BY TruthTells
<1> QED
    BY <1>1, <1>2, <1>3, TypeCorrect, SessionsAreSerial, CallsAreVouched, DriverIsUnique, PTL
       DEF Spec

(* Auditors: a reported success is in its session's history, a reported    *)
(* failure never will be, and no adapter ran unannounced.                  *)
THEOREM TrailTellsTheTruth == ASSUME Durable PROVE Spec => []TrailIsTrue
<1>1. TrailIsTrue /\ AnswerIsTrue => TrailIsTrue
    OBVIOUS
<1> QED
    BY <1>1, OutcomesAreTrue, PTL

(* Callers: denied or parked means never run, succeeded means recorded.    *)
THEOREM AnswersTellTheTruth == ASSUME Durable PROVE Spec => []AnswerIsTrue
<1>1. TrailIsTrue /\ AnswerIsTrue => AnswerIsTrue
    OBVIOUS
<1> QED
    BY <1>1, OutcomesAreTrue, PTL
=============================================================================
