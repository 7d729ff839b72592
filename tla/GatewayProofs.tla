----------------------------- MODULE GatewayProofs -----------------------------
(***************************************************************************)
(* Proofs about Gateway for any number of calls, processes, sessions,      *)
(* requests and receipts, any policy and either session store: its types,  *)
(* and that a request identifier drives its adapter at most once, provided *)
(* that the claims outlive the processes: on SQLite, or in memory without  *)
(* a restart.                                                              *)
(***************************************************************************)
EXTENDS GatewayProperties, WindowTheorems

USE RequestsAreTyped, RegistryIsTyped, TimesAreNaturals, StoreIsDecided, NullIsNothing

-----------------------------------------------------------------------------
(* What Goto, With, Report and Return do to the calls, whoever uses them.  *)
LEMMA GotoType ==
    ASSUME pc \in [Calls -> Labels], NEW c \in Calls, NEW label \in Labels, Goto(c, label)
    PROVE  /\ pc' \in [Calls -> Labels]
           /\ pc'[c] = label
           /\ \A d \in Calls \ {c} : pc'[d] = pc[d]
BY DEF Goto

LEMMA WithType ==
    ASSUME frame \in [Calls -> CallType], NEW c \in Calls, NEW f \in CallType, With(c, f)
    PROVE  /\ frame' \in [Calls -> CallType]
           /\ frame'[c] = f
           /\ \A d \in Calls \ {c} : frame'[d] = frame[d]
BY DEF With

LEMMA BlankType == Blank \in CallType
BY DEF Blank, CallType, Outcomes

LEMMA ReportType ==
    ASSUME pc \in [Calls -> Labels], frame \in [Calls -> CallType],
           NEW c \in Calls, NEW status \in Outcomes, Report(c, status)
    PROVE  /\ pc' \in [Calls -> Labels] /\ frame' \in [Calls -> CallType]
           /\ pc'[c] = "record"
           /\ frame'[c] = [frame[c] EXCEPT !.outcome = status]
           /\ \A d \in Calls \ {c} : pc'[d] = pc[d] /\ frame'[d] = frame[d]
<1>1. [frame[c] EXCEPT !.outcome = status] \in CallType
    BY DEF CallType
<1>2. "record" \in Labels
    BY DEF Labels
<1> QED
    BY <1>1, <1>2, GotoType, WithType DEF Report

LEMMA ReturnType ==
    ASSUME pc \in [Calls -> Labels], frame \in [Calls -> CallType],
           NEW c \in Calls, NEW status \in Outcomes, Return(c, status)
    PROVE  /\ pc' \in [Calls -> Labels] /\ frame' \in [Calls -> CallType]
           /\ pc'[c] = "returned"
           /\ frame'[c].req = frame[c].req /\ frame'[c].proc = frame[c].proc
           /\ frame'[c].via = Null
           /\ frame'[c].outcome = status /\ frame'[c].ran = frame[c].ran
           /\ \A d \in Calls \ {c} : pc'[d] = pc[d] /\ frame'[d] = frame[d]
<1> DEFINE f == [Blank EXCEPT !.proc = frame[c].proc, !.req = frame[c].req,
                             !.outcome = status, !.ran = frame[c].ran]
<1>1. f \in CallType /\ f.req = frame[c].req /\ f.proc = frame[c].proc /\ f.via = Null
        /\ f.outcome = status /\ f.ran = frame[c].ran
    BY BlankType DEF CallType, Blank
<1>2. "returned" \in Labels
    BY DEF Labels
<1> HIDE DEF f
<1>3. Goto(c, "returned") /\ With(c, f)
    BY DEF Return, f
<1> QED
    BY <1>1, <1>2, <1>3, GotoType, WithType

(* Locks are held by calls or free, and stay so when a call lets go.       *)
LEMMA ReleasedType ==
    ASSUME StoreOK, NEW c
    PROVE  Released(c) \in [IF Sqlite THEN {Db} ELSE Sessions -> Calls \cup {Null}]
BY DEF StoreOK, Released

(* A step of one call leaves the others' locals as they were.              *)
LEMMA CallsStep ==
    ASSUME CallsOK, NEW c \in Calls,
           pc' \in [Calls -> Labels], frame' \in [Calls -> CallType],
           \A d \in Calls \ {c} : pc'[d] = pc[d] /\ frame'[d] = frame[d],
           pc'[c] # "ready" => frame'[c].req \in Requests /\ frame'[c].proc \in Procs,
           pc'[c] \in {"authenticate", "claim"} => frame'[c].via = Null,
           pc'[c] = "redeem" => frame'[c].via \in Receipt,
           Deciding(c)' => frame'[c].dec \in Decision
    PROVE  CallsOK'
BY DEF CallsOK, Deciding

(* A label moves and the locals stay: what must be known of the new label. *)
LEMMA GotoStep ==
    ASSUME CallsOK, NEW c \in Calls, NEW label \in Labels, Goto(c, label), UNCHANGED frame,
           pc[c] # "ready", label # "redeem",
           label \in {"authenticate", "claim"} => frame[c].via = Null,
           Deciding(c)' => frame[c].dec \in Decision
    PROVE  CallsOK'
<1>1. pc \in [Calls -> Labels] /\ frame \in [Calls -> CallType]
    BY DEF CallsOK
<1>2. pc' \in [Calls -> Labels] /\ pc'[c] = label /\ \A d \in Calls \ {c} : pc'[d] = pc[d]
    BY <1>1, GotoType
<1> QED
    BY <1>1, <1>2, CallsStep DEF CallsOK

LEMMA ReportStep ==
    ASSUME CallsOK, NEW c \in Calls, NEW status \in Outcomes, Report(c, status),
           pc[c] # "ready", status # "pending_approval"
    PROVE  CallsOK'
<1>1. pc \in [Calls -> Labels] /\ frame \in [Calls -> CallType]
    BY DEF CallsOK
<1>2. /\ pc' \in [Calls -> Labels] /\ frame' \in [Calls -> CallType]
      /\ pc'[c] = "record" /\ frame'[c] = [frame[c] EXCEPT !.outcome = status]
      /\ \A d \in Calls \ {c} : pc'[d] = pc[d] /\ frame'[d] = frame[d]
    BY <1>1, ReportType
<1>3. frame'[c].req = frame[c].req /\ frame'[c].proc = frame[c].proc /\ frame'[c].outcome = status
    BY <1>1, <1>2 DEF CallType
<1>4. frame[c].req \in Requests /\ frame[c].proc \in Procs
    BY DEF CallsOK
<1> QED
    BY <1>1, <1>2, <1>3, <1>4, CallsStep DEF Deciding

LEMMA ReturnStep ==
    ASSUME CallsOK, NEW c \in Calls, NEW status \in Outcomes, Return(c, status), pc[c] # "ready"
    PROVE  CallsOK'
<1>1. pc \in [Calls -> Labels] /\ frame \in [Calls -> CallType]
    BY DEF CallsOK
<1>2. /\ pc' \in [Calls -> Labels] /\ frame' \in [Calls -> CallType]
      /\ pc'[c] = "returned"
      /\ frame'[c].req = frame[c].req /\ frame'[c].proc = frame[c].proc
      /\ \A d \in Calls \ {c} : pc'[d] = pc[d] /\ frame'[d] = frame[d]
    BY <1>1, ReturnType
<1>3. frame[c].req \in Requests /\ frame[c].proc \in Procs
    BY DEF CallsOK
<1> QED
    BY <1>1, <1>2, <1>3, CallsStep DEF Deciding

LEMMA LoggedType ==
    ASSUME WorldOK, NEW i \in Ids, NEW status \in Outcomes \cup {"execution_started"},
           Logged(i, status)
    PROVE  trail' \in [Ids -> Seq(Outcomes \cup {"execution_started"})]
<1>1. Append(trail[i], status) \in Seq(Outcomes \cup {"execution_started"})
    BY DEF WorldOK
<1> QED
    BY <1>1 DEF WorldOK, Logged

LEMMA AppendedType ==
    ASSUME StoreOK, NEW r \in Requests, Appended(r)
    PROVE  history' \in [Sessions -> Seq(Requests)]
<1>1. r.session \in Sessions
    BY DEF Request
<1>2. history[r.session] \in Seq(Requests)
    BY <1>1 DEF StoreOK
<1>3. Append(history[r.session], r) \in Seq(Requests)
    BY <1>2
<1> QED
    BY <1>1, <1>3 DEF StoreOK, Appended

LEMMA FailsType ==
    ASSUME WorldOK, Fails
    PROVE  faults' \in 0..MaxFaults /\ crashes' \in 0..MaxCrashes
BY DEF WorldOK, Fails

LEMMA MoveStep ==
    ASSUME CallsOK, NEW c \in Calls, NEW label \in Labels, NEW f \in CallType,
           Goto(c, label), With(c, f),
           f.req \in Requests, f.proc \in Procs,
           label \in {"authenticate", "claim"} => f.via = Null,
           label = "redeem" => f.via \in Receipt,
           Deciding(c)' => f.dec \in Decision
    PROVE  CallsOK'
<1>1. pc \in [Calls -> Labels] /\ frame \in [Calls -> CallType]
    BY DEF CallsOK
<1>2. /\ pc' \in [Calls -> Labels] /\ pc'[c] = label
      /\ frame' \in [Calls -> CallType] /\ frame'[c] = f
      /\ \A d \in Calls \ {c} : pc'[d] = pc[d] /\ frame'[d] = frame[d]
    BY <1>1, GotoType, WithType
<1> QED
    BY <1>1, <1>2, CallsStep

(* The variables a step does not touch keep their types.                   *)
LEMMA MemoryKept == ASSUME MemoryOK, UNCHANGED memory PROVE MemoryOK'
BY DEF MemoryOK, memory

LEMMA StoreKept == ASSUME StoreOK, UNCHANGED store PROVE StoreOK'
BY DEF StoreOK, store

LEMMA WorldKept ==
    ASSUME WorldOK, UNCHANGED <<clockVars, host, world, meta>> PROVE WorldOK'
BY DEF WorldOK, clockVars, host, world, meta

LEMMA WorldFails ==
    ASSUME WorldOK, UNCHANGED <<clockVars, host, world>>, Fails PROVE WorldOK'
BY FailsType DEF WorldOK, clockVars, host, world

LEMMA CallsKept == ASSUME CallsOK, UNCHANGED <<pc, frame>> PROVE CallsOK'
BY DEF CallsOK, Deciding

(* What is known of the locals of a call that has begun.                   *)
LEMMA CallTyped ==
    ASSUME CallsOK, NEW c \in Calls, pc[c] # "ready"
    PROVE  /\ frame[c] \in CallType
           /\ frame[c].req \in Requests /\ frame[c].req \in Request /\ frame[c].proc \in Procs
           /\ frame[c].via \in Receipt \cup {Null} /\ frame[c].at \in Nat
           /\ frame[c].view \in Seq(Requests) /\ frame[c].outcome \in Outcomes
           /\ Deciding(c) => frame[c].dec \in Decision
<1>1. frame[c] \in CallType
    BY DEF CallsOK
<1>2. frame[c].req \in Requests /\ frame[c].proc \in Procs
    BY DEF CallsOK
<1> QED
    BY <1>1, <1>2 DEF CallsOK, CallType

-----------------------------------------------------------------------------
LEMMA InitIsTyped == Init => TypeOK
<1> SUFFICES ASSUME Init PROVE TypeOK
    OBVIOUS
<1>1. MemoryOK
    BY DEF Init, MemoryOK
<1>2. StoreOK
    BY DEF Init, StoreOK
<1>3. WorldOK
    BY DEF Init, WorldOK
<1>4. CallsOK
    BY BlankType DEF Init, CallsOK, Labels, Deciding
<1> QED
    BY <1>1, <1>2, <1>3, <1>4 DEF TypeOK

-----------------------------------------------------------------------------
(* Every action keeps the types: one lemma for each.                       *)
LEMMA SubmitTyped == ASSUME TypeOK, NEW c \in Calls, Submit(c) PROVE TypeOK'
<1>1. MemoryOK' /\ StoreOK' /\ WorldOK'
    BY MemoryKept, StoreKept, WorldKept DEF Submit, TypeOK
<1>2. CallsOK /\ clock \in Nat
    BY DEF TypeOK, WorldOK
<1>3. PICK r \in Requests, p \in Procs :
          With(c, [Blank EXCEPT !.proc = p, !.req = r, !.at = clock])
    BY DEF Submit
<1> DEFINE f == [Blank EXCEPT !.proc = p, !.req = r, !.at = clock]
<1>4. f \in CallType /\ f.req = r /\ f.proc = p /\ f.via = Null
    BY <1>2, BlankType DEF CallType, Blank
<1>5. Goto(c, "authenticate") /\ "authenticate" \in Labels
    BY DEF Submit, Labels
<1>6. ~Deciding(c)'
    BY <1>2, <1>5, GotoType DEF Deciding, CallsOK
<1> HIDE DEF f
<1>7. CallsOK'
    BY <1>2, <1>3, <1>4, <1>5, <1>6, MoveStep DEF f
<1> QED
    BY <1>1, <1>7 DEF TypeOK

LEMMA AuthenticateTyped == ASSUME TypeOK, NEW c \in Calls, Authenticate(c) PROVE TypeOK'
<1> DEFINE r == frame[c].req
           p == frame[c].proc
           at == frame[c].at
           mark == <<PrincipalOf[r.session], r.nonce>>
           marks == [mark : Principals \X Nonces, expiry : Nat]
<1>1. pc[c] = "authenticate" /\ CallsOK
    BY DEF Authenticate, TypeOK
<1>2. r \in Request /\ p \in Procs /\ at \in Nat
    BY <1>1, CallTyped
<1>3. mark \in Principals \X Nonces
    BY <1>2 DEF Request
<1>4. nonces[p] \in SUBSET marks /\ nonces \in [Procs -> SUBSET marks]
    BY <1>2 DEF TypeOK, MemoryOK
<1>5. at + Retention(Skew) \in Nat
    BY <1>2 DEF Retention
<1>6. LiveMarkers(nonces[p], at) \in SUBSET marks
    BY <1>4 DEF LiveMarkers
<1>7. Remember(nonces[p], mark, at, Skew) \in SUBSET marks
    BY <1>3, <1>5, <1>6 DEF Remember
<1>8. nonces' \in [Procs -> SUBSET marks]
    BY <1>2, <1>4, <1>6, <1>7 DEF Authenticate
<1>9. MemoryOK'
    BY <1>8 DEF TypeOK, MemoryOK, Authenticate
<1>10. StoreOK' /\ WorldOK'
    BY StoreKept, WorldKept DEF Authenticate, TypeOK
<1>11. CASE Goto(c, "claim") /\ UNCHANGED frame
    <2>1. "claim" \in Labels /\ ~Deciding(c)' /\ frame[c].via = Null
        BY <1>1, <1>11, GotoType DEF Labels, Deciding, CallsOK
    <2> QED
        BY <1>1, <1>9, <1>10, <1>11, <2>1, GotoStep DEF TypeOK
<1>12. CASE Report(c, "denied")
    BY <1>1, <1>9, <1>10, <1>12, ReportStep DEF TypeOK, Outcomes
<1> QED
    BY <1>11, <1>12 DEF Authenticate

LEMMA ClaimTyped == ASSUME TypeOK, NEW c \in Calls, Claim(c) PROVE TypeOK'
<1>1. pc[c] = "claim" /\ CallsOK
    BY DEF Claim, TypeOK
<1>2. frame[c].req.id \in Ids
    BY <1>1, CallTyped DEF Request
<1>3. StoreOK'
    BY <1>2 DEF Claim, TypeOK, StoreOK
<1>4. MemoryOK' /\ WorldOK'
    BY MemoryKept, WorldKept DEF Claim, TypeOK
<1>5. CASE Unclaimed(frame[c].req) /\ Goto(c, "enter") /\ UNCHANGED frame
    <2>1. "enter" \in Labels
        BY DEF Labels
    <2>2. ~Deciding(c)'
        BY <1>1, <1>5, <2>1, GotoType DEF Deciding, CallsOK
    <2> QED
        BY <1>1, <1>3, <1>4, <1>5, <2>1, <2>2, GotoStep DEF TypeOK
<1>6. CASE Report(c, "denied")
    BY <1>1, <1>3, <1>4, <1>6, ReportStep DEF TypeOK, Outcomes
<1> QED
    BY <1>5, <1>6 DEF Claim

LEMMA StoreUnavailableTyped == ASSUME TypeOK, NEW c \in Calls, StoreUnavailable(c) PROVE TypeOK'
<1>1. pc[c] \in {"claim", "enter"} /\ CallsOK /\ WorldOK
    BY DEF StoreUnavailable, TypeOK
<1>2. WorldOK'
    BY <1>1, WorldKept, WorldFails DEF StoreUnavailable, Refuses
<1>3. MemoryOK' /\ StoreOK'
    BY MemoryKept, StoreKept DEF StoreUnavailable, TypeOK
<1>4. CallsOK'
    BY <1>1, ReportStep DEF StoreUnavailable, Outcomes
<1> QED
    BY <1>2, <1>3, <1>4 DEF TypeOK

LEMMA EnterTyped == ASSUME TypeOK, NEW c \in Calls, Enter(c) PROVE TypeOK'
<1>1. pc[c] = "enter" /\ CallsOK
    BY DEF Enter, TypeOK
<1>2. frame[c].req.session \in Sessions
    BY <1>1, CallTyped DEF Request
<1>3. LockOf(frame[c].req) \in IF Sqlite THEN {Db} ELSE Sessions
    BY <1>2 DEF LockOf
<1>4. holder' \in [IF Sqlite THEN {Db} ELSE Sessions -> Calls \cup {Null}]
    BY <1>3 DEF Enter, TypeOK, StoreOK
<1>5. StoreOK'
    BY <1>4 DEF Enter, TypeOK, StoreOK
<1>6. MemoryOK' /\ WorldOK'
    BY MemoryKept, WorldKept DEF Enter, TypeOK
<1>7. CASE frame[c].via = Null
    <2>1. Goto(c, "judge") /\ "judge" \in Labels /\ UNCHANGED frame
        BY <1>7 DEF Enter, Labels
    <2>2. ~Deciding(c)'
        BY <1>1, <2>1, GotoType DEF Deciding, CallsOK
    <2> QED
        BY <1>1, <1>5, <1>6, <2>1, <2>2, GotoStep DEF TypeOK
<1>8. CASE frame[c].via # Null
    <2>1. Goto(c, "check") /\ "check" \in Labels /\ UNCHANGED frame
        BY <1>8 DEF Enter, Labels
    <2>2. frame[c].dec \in Decision
        BY <1>1, <1>8 DEF CallsOK, Deciding
    <2> QED
        BY <1>1, <1>5, <1>6, <2>1, <2>2, GotoStep DEF TypeOK
<1> QED
    BY <1>7, <1>8

LEMMA SnapshotFailsTyped == ASSUME TypeOK, NEW c \in Calls, SnapshotFails(c) PROVE TypeOK'
<1>1. pc[c] \in {"judge", "check"} /\ CallsOK /\ WorldOK
    BY DEF SnapshotFails, TypeOK
<1>2. WorldOK'
    BY <1>1, WorldFails DEF SnapshotFails
<1>3. MemoryOK' /\ StoreOK'
    BY MemoryKept, StoreKept DEF SnapshotFails, TypeOK
<1>4. CallsOK'
    BY <1>1, ReportStep DEF SnapshotFails, Outcomes
<1> QED
    BY <1>2, <1>3, <1>4 DEF TypeOK

(* Asking the rate limiter leaves typed logs.                              *)
LEMMA MeteredTyped ==
    ASSUME TypeOK, NEW c \in Calls, pc[c] \notin {"ready", "lost"}
    PROVE  Metered(c) \in [Procs -> [Principals \X Tools -> Seq(Nat)]]
<1> DEFINE p == frame[c].proc
           now == frame[c].at
           key == RateKey(c)
<1>1. frame[c].req \in Request /\ p \in Procs /\ now \in Nat
    BY CallTyped DEF TypeOK
<1>2. key \in Principals \X Tools
    BY <1>1 DEF RateKey, Request
<1>3. rate[p] \in [Principals \X Tools -> Seq(Nat)] /\ rate \in [Procs -> [Principals \X Tools -> Seq(Nat)]]
    BY <1>1 DEF TypeOK, MemoryOK
<1>4. rate[p][key] \in Seq(Nat)
    BY <1>2, <1>3
<1>5. RateCalls \in Nat /\ RatePeriod \in Nat
    OBVIOUS
<1>6. Consume(rate[p][key], now, RateCalls, RatePeriod) \in Seq(Nat)
    BY <1>1, <1>4, <1>5, ConsumeIsLog
<1> HIDE DEF key
<1> QED
    BY <1>1, <1>2, <1>3, <1>6 DEF Metered, key

(* What a judgement leaves in the call's locals, and where the call goes.  *)
LEMMA JudgeMoves ==
    ASSUME TypeOK, NEW c \in Calls, Judge(c)
    PROVE  LET h == history[frame[c].req.session]
               dec == [req |-> frame[c].req, version |-> version[frame[c].proc], context |-> h]
           IN
           \E outcome \in Outcomes, label \in {"record", "park", "execute"} :
              /\ With(c, [frame[c] EXCEPT !.view = h, !.dec = dec, !.outcome = outcome])
              /\ Goto(c, label)
<1> DEFINE r == frame[c].req
           p == frame[c].proc
           h == history[r.session]
           dec == [req |-> r, version |-> version[p], context |-> h]
           verdict == Verdict(r.tool, h, BaseControl(r.tool, Admitted(c)))
<1>1. /\ With(c, [frame[c] EXCEPT !.view = h, !.dec = dec,
             !.outcome = IF verdict = "deny" THEN "denied"
                         ELSE IF verdict = "require_approval" THEN "pending_approval"
                         ELSE frame[c].outcome])
      /\ Goto(c, IF verdict = "deny" THEN "record"
                 ELSE IF verdict = "require_approval" THEN "park" ELSE "execute")
    BY DEF Judge
<1>2. {"denied", "pending_approval", frame[c].outcome} \subseteq Outcomes
    BY CallTyped DEF Judge, TypeOK, Outcomes
<1> HIDE DEF verdict
<1>3. CASE verdict = "deny"
    BY <1>1, <1>2, <1>3
<1>4. CASE verdict = "require_approval"
    BY <1>1, <1>2, <1>4
<1>5. CASE verdict \notin {"deny", "require_approval"}
    BY <1>1, <1>2, <1>5
<1> QED
    BY <1>3, <1>4, <1>5

LEMMA JudgeTyped == ASSUME TypeOK, NEW c \in Calls, Judge(c) PROVE TypeOK'
<1> DEFINE r == frame[c].req
           p == frame[c].proc
           h == history[r.session]
           dec == [req |-> r, version |-> version[p], context |-> h]
<1>1. pc[c] = "judge" /\ CallsOK
    BY DEF Judge, TypeOK
<1>2. /\ r \in Requests /\ r \in Request /\ p \in Procs
      /\ frame[c] \in CallType /\ frame[c].outcome \in Outcomes
    BY <1>1, CallTyped
<1>3. h \in Seq(Requests) /\ version[p] \in Nat
    BY <1>2 DEF Request, TypeOK, StoreOK, MemoryOK
<1>4. dec \in Decision
    BY <1>2, <1>3 DEF Decision
<1>5. rate' \in [Procs -> [Principals \X Tools -> Seq(Nat)]]
    BY <1>1, MeteredTyped DEF Judge
<1>6. MemoryOK'
    BY <1>5 DEF TypeOK, MemoryOK, Judge
<1>7. StoreOK' /\ WorldOK'
    BY StoreKept, WorldKept DEF Judge, TypeOK
<1>8. PICK outcome \in Outcomes, label \in {"record", "park", "execute"} :
          /\ With(c, [frame[c] EXCEPT !.view = h, !.dec = dec, !.outcome = outcome])
          /\ Goto(c, label)
    BY JudgeMoves
<1> DEFINE f == [frame[c] EXCEPT !.view = h, !.dec = dec, !.outcome = outcome]
<1>9. f \in CallType /\ f.req = r /\ f.proc = p /\ f.dec = dec
    BY <1>2, <1>3, <1>4 DEF CallType
<1>10. label \in Labels
    BY DEF Labels
<1> HIDE DEF f, dec
<1>11. CallsOK'
    BY <1>1, <1>2, <1>4, <1>8, <1>9, <1>10, MoveStep DEF f
<1> QED
    BY <1>6, <1>7, <1>11 DEF TypeOK

LEMMA ParkTyped == ASSUME TypeOK, NEW c \in Calls, Park(c) PROVE TypeOK'
<1>1. pc[c] = "park" /\ CallsOK
    BY DEF Park, TypeOK
<1>2. frame[c].dec \in Decision /\ frame[c].at \in Nat /\ frame[c].proc \in Procs
    BY <1>1, CallTyped DEF Deciding
<1>3. [dec |-> frame[c].dec, created |-> frame[c].at] \in [dec : Decision, created : Nat]
    BY <1>2
<1>4. MemoryOK'
    BY <1>2, <1>3 DEF TypeOK, MemoryOK, Park
<1>5. StoreOK' /\ WorldOK'
    <2>1. offered \subseteq Decision /\ offered' = offered \cup {frame[c].dec}
        BY DEF Park, TypeOK, WorldOK
    <2>2. offered' \subseteq Decision
        BY <1>2, <2>1
    <2>3. UNCHANGED <<clockVars, receipts, world, meta>> /\ UNCHANGED store
        BY DEF Park
    <2> QED
        BY <2>2, <2>3, StoreKept DEF TypeOK, WorldOK, clockVars, world, meta
<1>6. "record" \in Labels /\ Goto(c, "record") /\ UNCHANGED frame
    BY DEF Labels, Park
<1>7. CallsOK'
    BY <1>1, <1>2, <1>6, GotoStep
<1> QED
    BY <1>4, <1>5, <1>7 DEF TypeOK

LEMMA ResumeTyped == ASSUME TypeOK, NEW c \in Calls, Resume(c) PROVE TypeOK'
<1>1. MemoryOK' /\ StoreOK' /\ WorldOK'
    BY MemoryKept, StoreKept, WorldKept DEF Resume, TypeOK
<1>2. CallsOK /\ clock \in Nat /\ receipts \subseteq Receipt
    BY DEF TypeOK, WorldOK
<1>3. PICK r \in Requests, receipt \in receipts, p \in Procs :
          With(c, [Blank EXCEPT !.proc = p, !.req = r, !.via = receipt, !.at = clock])
    BY DEF Resume
<1> DEFINE f == [Blank EXCEPT !.proc = p, !.req = r, !.via = receipt, !.at = clock]
<1>4. r \in Requests /\ receipt \in Receipt
    BY <1>2
<1>5. f \in CallType /\ f.req \in Requests /\ f.proc \in Procs /\ f.via \in Receipt
    BY <1>2, <1>4, BlankType DEF CallType, Blank
<1>6. Goto(c, "redeem") /\ "redeem" \in Labels
    BY DEF Resume, Labels
<1>7. ~Deciding(c)'
    BY <1>2, <1>6, GotoType DEF Deciding, CallsOK
<1> HIDE DEF f
<1>8. CallsOK'
    BY <1>2, <1>3, <1>5, <1>6, <1>7, MoveStep DEF f
<1> QED
    BY <1>1, <1>8 DEF TypeOK

LEMMA RedeemUnknownTyped == ASSUME TypeOK, NEW c \in Calls, RedeemUnknown(c) PROVE TypeOK'
<1>1. MemoryOK' /\ StoreOK' /\ WorldOK'
    BY MemoryKept, StoreKept, WorldKept DEF RedeemUnknown, TypeOK
<1>2. CallsOK'
    BY ReturnStep DEF RedeemUnknown, TypeOK, Outcomes
<1> QED
    BY <1>1, <1>2 DEF TypeOK

LEMMA RedeemTyped == ASSUME TypeOK, NEW c \in Calls, Redeem(c) PROVE TypeOK'
<1> DEFINE p == frame[c].proc
           receipt == frame[c].via
           now == frame[c].at
<1>1. pc[c] = "redeem" /\ CallsOK
    BY DEF Redeem, TypeOK
<1>2. p \in Procs /\ receipt \in Receipt /\ frame[c] \in CallType
    BY <1>1, CallTyped DEF CallsOK
<1>3. StoreOK' /\ WorldOK'
    BY StoreKept, WorldKept DEF Redeem, TypeOK
<1>4. PICK e \in PendingOf(p, frame[c].req) :
          \/ Spent(p, e) /\ Report(c, "denied") /\ UNCHANGED consumed
          \/ Report(c, "denied") /\ UNCHANGED <<pending, consumed>>
          \/ /\ Spent(p, e)
             /\ consumed' = [consumed EXCEPT ![p] = @ \cup {receipt.aid}]
             /\ Goto(c, "enter")
             /\ With(c, [frame[c] EXCEPT !.req = e.dec.req, !.dec = e.dec])
    BY DEF Redeem
<1>5. UNCHANGED <<version, nonces, rate>>
    BY DEF Redeem
<1>6. e \in pending[p] /\ e \in [dec : Decision, created : Nat]
    BY <1>2, <1>4 DEF PendingOf, TypeOK, MemoryOK
<1>7. Spent(p, e) => pending' \in [Procs -> SUBSET [dec : Decision, created : Nat]]
    BY <1>2 DEF Spent, TypeOK, MemoryOK
<1>8. CASE Report(c, "denied")
    <2>1. UNCHANGED consumed /\ (Spent(p, e) \/ UNCHANGED pending)
        <3>1. pc'[c] = "record"
            BY <1>1, <1>8, ReportType DEF CallsOK, Outcomes
        <3>2. ~Goto(c, "enter")
            BY <1>1, <3>1, GotoType DEF Labels, CallsOK
        <3> QED
            BY <1>4, <3>2
    <2>2. MemoryOK'
        BY <1>5, <1>7, <2>1 DEF TypeOK, MemoryOK
    <2>3. CallsOK'
        BY <1>1, <1>8, ReportStep DEF Outcomes
    <2> QED
        BY <1>3, <2>2, <2>3 DEF TypeOK
<1>9. CASE /\ Spent(p, e)
           /\ consumed' = [consumed EXCEPT ![p] = @ \cup {receipt.aid}]
           /\ Goto(c, "enter")
           /\ With(c, [frame[c] EXCEPT !.req = e.dec.req, !.dec = e.dec])
    <2>1. receipt.aid \in ReceiptIds
        BY <1>2 DEF Receipt
    <2>2. MemoryOK'
        BY <1>2, <1>5, <1>7, <1>9, <2>1 DEF TypeOK, MemoryOK
    <2> DEFINE f == [frame[c] EXCEPT !.req = e.dec.req, !.dec = e.dec]
    <2>3. /\ f \in CallType /\ f.req \in Requests /\ f.proc \in Procs
          /\ f.dec \in Decision
        BY <1>2, <1>6 DEF CallType, Decision
    <2>4. "enter" \in Labels
        BY DEF Labels
    <2>5. With(c, f) /\ Goto(c, "enter")
        BY <1>9
    <2> HIDE DEF f
    <2>6. CallsOK'
        BY <1>1, <2>3, <2>4, <2>5, MoveStep
    <2> QED
        BY <1>3, <2>2, <2>6 DEF TypeOK
<1> QED
    BY <1>4, <1>8, <1>9

LEMMA CheckContextTyped == ASSUME TypeOK, NEW c \in Calls, CheckContext(c) PROVE TypeOK'
<1> DEFINE h == history[frame[c].req.session]
<1>1. pc[c] = "check" /\ CallsOK
    BY DEF CheckContext, TypeOK
<1>2. /\ frame[c] \in CallType /\ frame[c].req \in Requests /\ frame[c].proc \in Procs
      /\ frame[c].dec \in Decision /\ frame[c].req.session \in Sessions
    BY <1>1, CallTyped DEF Deciding, Request
<1>3. h \in Seq(Requests)
    BY <1>2 DEF TypeOK, StoreOK
<1>4. MemoryOK' /\ StoreOK' /\ WorldOK'
    BY MemoryKept, StoreKept, WorldKept DEF CheckContext, TypeOK
<1>5. CASE Goto(c, "execute") /\ With(c, [frame[c] EXCEPT !.view = h])
    <2> DEFINE f == [frame[c] EXCEPT !.view = h]
    <2>1. /\ f \in CallType /\ f.req \in Requests /\ f.proc \in Procs
          /\ f.dec \in Decision
        BY <1>2, <1>3 DEF CallType
    <2>2. "execute" \in Labels
        BY DEF Labels
    <2>3. With(c, f) /\ Goto(c, "execute")
        BY <1>5
    <2> HIDE DEF f
    <2>4. CallsOK'
        BY <1>1, <2>1, <2>2, <2>3, MoveStep
    <2> QED
        BY <1>4, <2>4 DEF TypeOK
<1>6. CASE Report(c, "denied")
    BY <1>1, <1>4, <1>6, ReportStep DEF TypeOK, Outcomes
<1> QED
    BY <1>5, <1>6 DEF CheckContext

LEMMA ExecuteTyped == ASSUME TypeOK, NEW c \in Calls, Execute(c) PROVE TypeOK'
<1>1. pc[c] = "execute" /\ CallsOK
    BY DEF Execute, TypeOK
<1>2. frame[c].dec \in Decision
    BY <1>1, CallTyped DEF Deciding
<1>3. MemoryOK' /\ StoreOK' /\ WorldOK'
    BY MemoryKept, StoreKept, WorldKept DEF Execute, TypeOK
<1>4. CASE Goto(c, "announce") /\ UNCHANGED frame
    BY <1>1, <1>2, <1>3, <1>4, GotoStep DEF TypeOK, Labels
<1>5. CASE Report(c, "denied")
    BY <1>1, <1>3, <1>5, ReportStep DEF TypeOK, Outcomes
<1> QED
    BY <1>4, <1>5 DEF Execute

LEMMA AnnounceTyped == ASSUME TypeOK, NEW c \in Calls, Announce(c) PROVE TypeOK'
<1>1. pc[c] = "announce" /\ CallsOK /\ WorldOK
    BY DEF Announce, TypeOK
<1>2. frame[c].dec \in Decision /\ frame[c].req.id \in Ids
    BY <1>1, CallTyped DEF Deciding, Request
<1>3. trail' \in [Ids -> Seq(Outcomes \cup {"execution_started"})]
    BY <1>1, <1>2, LoggedType DEF Announce
<1>4. WorldOK'
    BY <1>1, <1>3 DEF Announce, WorldOK, clockVars, host, meta
<1>5. MemoryOK' /\ StoreOK'
    BY MemoryKept, StoreKept DEF Announce, TypeOK
<1>6. CallsOK'
    BY <1>1, <1>2, GotoStep DEF Announce, Labels
<1> QED
    BY <1>4, <1>5, <1>6 DEF TypeOK

LEMMA InvokeTyped == ASSUME TypeOK, NEW c \in Calls, Invoke(c) PROVE TypeOK'
<1> DEFINE r == frame[c].req
           run == [via |-> frame[c].via, dec |-> frame[c].dec]
           Run == [via : Receipt \cup {Null}, dec : Decision]
<1>1. pc[c] = "invoke" /\ CallsOK /\ WorldOK
    BY DEF Invoke, TypeOK
<1>2. /\ frame[c] \in CallType /\ r \in Requests /\ r.id \in Ids /\ frame[c].proc \in Procs
      /\ frame[c].via \in Receipt \cup {Null} /\ frame[c].dec \in Decision
    BY <1>1, CallTyped DEF Deciding, Request
<1>3. MemoryOK' /\ StoreOK'
    BY MemoryKept, StoreKept DEF Invoke, TypeOK
<1>4. CASE Report(c, "execution_failed") /\ UNCHANGED runs
    <2>1. WorldOK'
        BY <1>1, <1>4, WorldKept DEF Invoke, world
    <2>2. CallsOK'
        BY <1>1, <1>4, ReportStep DEF Outcomes
    <2> QED
        BY <1>3, <2>1, <2>2 DEF TypeOK
<1>5. CASE /\ runs' = [runs EXCEPT ![r.id] = Append(@, run)]
           /\ Goto(c, "adapter")
           /\ With(c, [frame[c] EXCEPT !.ran = TRUE])
    <2>1. run \in Run /\ runs[r.id] \in Seq(Run)
        BY <1>1, <1>2 DEF WorldOK
    <2>2. Append(runs[r.id], run) \in Seq(Run)
        BY <2>1
    <2>3. runs' \in [Ids -> Seq(Run)]
        BY <1>1, <1>5, <2>2 DEF WorldOK
    <2>4. WorldOK'
        BY <1>1, <2>3 DEF Invoke, WorldOK, clockVars, host, meta
    <2> DEFINE f == [frame[c] EXCEPT !.ran = TRUE]
    <2>5. /\ f \in CallType /\ f.req \in Requests /\ f.proc \in Procs
          /\ f.dec \in Decision
        BY <1>2 DEF CallType
    <2>6. "adapter" \in Labels /\ With(c, f) /\ Goto(c, "adapter")
        BY <1>5 DEF Labels
    <2> HIDE DEF f
    <2>7. CallsOK'
        BY <1>1, <2>5, <2>6, MoveStep
    <2> QED
        BY <1>3, <2>4, <2>7 DEF TypeOK
<1> QED
    BY <1>4, <1>5 DEF Invoke

LEMMA AdapterReturnsTyped == ASSUME TypeOK, NEW c \in Calls, AdapterReturns(c) PROVE TypeOK'
<1>1. pc[c] = "adapter" /\ CallsOK
    BY DEF AdapterReturns, TypeOK
<1>2. frame[c].dec \in Decision
    BY <1>1, CallTyped DEF Deciding
<1>3. MemoryOK' /\ StoreOK' /\ WorldOK'
    BY MemoryKept, StoreKept, WorldKept DEF AdapterReturns, TypeOK
<1>4. CallsOK'
    BY <1>1, <1>2, GotoStep DEF AdapterReturns, Labels
<1> QED
    BY <1>3, <1>4 DEF TypeOK

LEMMA AdapterRaisesTyped == ASSUME TypeOK, NEW c \in Calls, AdapterRaises(c) PROVE TypeOK'
<1>1. MemoryOK' /\ StoreOK' /\ WorldOK'
    BY MemoryKept, StoreKept, WorldKept DEF AdapterRaises, TypeOK
<1>2. CallsOK'
    BY ReportStep DEF AdapterRaises, TypeOK, Outcomes
<1> QED
    BY <1>1, <1>2 DEF TypeOK

LEMMA SettleTyped == ASSUME TypeOK, NEW c \in Calls, Settle(c) PROVE TypeOK'
<1>1. pc[c] = "settle" /\ CallsOK /\ StoreOK
    BY DEF Settle, TypeOK
<1>2. /\ frame[c] \in CallType /\ frame[c].req \in Requests /\ frame[c].proc \in Procs
      /\ frame[c].dec \in Decision
    BY <1>1, CallTyped DEF Deciding
<1>3. history' \in [Sessions -> Seq(Requests)]
    BY <1>1, <1>2, AppendedType DEF Settle, StoreOK
<1>4. StoreOK'
    BY <1>1, <1>3 DEF Settle, StoreOK
<1>5. MemoryOK' /\ WorldOK'
    BY MemoryKept, WorldKept DEF Settle, TypeOK
<1> DEFINE f == [frame[c] EXCEPT !.outcome = "succeeded"]
<1>6. /\ f \in CallType /\ f.req \in Requests /\ f.proc \in Procs
      /\ f.dec \in Decision
    BY <1>2 DEF CallType, Outcomes
<1>7. "exit" \in Labels /\ With(c, f) /\ Goto(c, "exit")
    BY DEF Labels, Settle
<1> HIDE DEF f
<1>8. CallsOK'
    BY <1>1, <1>6, <1>7, MoveStep
<1> QED
    BY <1>4, <1>5, <1>8 DEF TypeOK

LEMMA SettleFailsTyped == ASSUME TypeOK, NEW c \in Calls, SettleFails(c) PROVE TypeOK'
<1>1. WorldOK'
    BY WorldFails DEF SettleFails, TypeOK
<1>2. MemoryOK' /\ StoreOK'
    BY MemoryKept, StoreKept DEF SettleFails, TypeOK
<1>3. CallsOK'
    BY ReportStep DEF SettleFails, TypeOK, Outcomes
<1> QED
    BY <1>1, <1>2, <1>3 DEF TypeOK

LEMMA ExitTyped == ASSUME TypeOK, NEW c \in Calls, Exit(c) PROVE TypeOK'
<1>1. pc[c] = "exit" /\ CallsOK /\ StoreOK
    BY DEF Exit, TypeOK
<1>2. frame[c].req \in Requests /\ frame[c].outcome \in Outcomes
    BY <1>1, CallTyped
<1>3. history' \in [Sessions -> Seq(Requests)]
    BY <1>1, <1>2, AppendedType DEF Exit, StoreOK
<1>4. StoreOK'
    BY <1>1, <1>3, ReleasedType DEF Exit, StoreOK
<1>5. "succeeded" \in Outcomes \ {"pending_approval"}
    BY DEF Outcomes
<1>6. CallsOK'
    BY <1>1, <1>2, <1>5, ReportStep, ReturnStep DEF Exit
<1>7. MemoryOK' /\ WorldOK'
    BY MemoryKept, WorldKept DEF Exit, TypeOK
<1> QED
    BY <1>4, <1>6, <1>7 DEF TypeOK

LEMMA ExitFailsTyped == ASSUME TypeOK, NEW c \in Calls, ExitFails(c) PROVE TypeOK'
<1> DEFINE outcome == AfterLostCommit(frame[c].outcome)
<1>1. pc[c] = "exit" /\ CallsOK /\ StoreOK /\ WorldOK
    BY DEF ExitFails, TypeOK
<1>2. frame[c].outcome \in Outcomes
    BY <1>1, CallTyped
<1>3. outcome \in Outcomes /\ "execution_uncertain" \in Outcomes \ {"pending_approval"}
    BY <1>2 DEF AfterLostCommit, Outcomes
<1>4. Report(c, "execution_uncertain") \/ Return(c, outcome)
    BY DEF ExitFails, AfterLostCommit
<1>5. CallsOK'
    BY <1>1, <1>3, <1>4, ReportStep, ReturnStep
<1>6. StoreOK'
    BY <1>1, ReleasedType DEF ExitFails, StoreOK
<1>7. WorldOK'
    BY <1>1, WorldFails DEF ExitFails
<1>8. MemoryOK'
    BY MemoryKept DEF ExitFails, TypeOK
<1> QED
    BY <1>5, <1>6, <1>7, <1>8 DEF TypeOK

LEMMA RecordTyped == ASSUME TypeOK, NEW c \in Calls, Record(c) PROVE TypeOK'
<1>1. pc[c] = "record" /\ CallsOK /\ WorldOK
    BY DEF Record, TypeOK
<1>2. frame[c].outcome \in Outcomes /\ frame[c].req.id \in Ids
    BY <1>1, CallTyped DEF Request
<1>3. trail' \in [Ids -> Seq(Outcomes \cup {"execution_started"})]
    BY <1>1, <1>2, LoggedType DEF Record
<1>4. WorldOK'
    BY <1>1, <1>3 DEF Record, WorldOK, clockVars, host, meta
<1>5. MemoryOK' /\ StoreOK'
    BY MemoryKept, StoreKept DEF Record, TypeOK
<1>6. CASE Goto(c, "exit") /\ UNCHANGED frame
    <2>1. pc'[c] = "exit"
        BY <1>1, <1>6, GotoType DEF CallsOK, Labels
    <2>2. Deciding(c)' => frame[c].dec \in Decision
        BY <1>1, <1>6, <2>1 DEF Deciding, CallsOK
    <2>3. CallsOK'
        BY <1>1, <1>6, <2>2, GotoStep DEF Labels
    <2> QED
        BY <1>4, <1>5, <2>3 DEF TypeOK
<1>7. CASE Return(c, frame[c].outcome)
    <2>1. CallsOK'
        BY <1>1, <1>2, <1>7, ReturnStep
    <2> QED
        BY <1>4, <1>5, <2>1 DEF TypeOK
<1> QED
    BY <1>6, <1>7 DEF Record

LEMMA RecordFailsTyped == ASSUME TypeOK, NEW c \in Calls, RecordFails(c) PROVE TypeOK'
<1>1. StoreOK'
    BY ReleasedType DEF RecordFails, TypeOK, StoreOK
<1>2. WorldOK'
    BY WorldFails DEF RecordFails, TypeOK
<1>3. MemoryOK'
    BY MemoryKept DEF RecordFails, TypeOK
<1>4. CallsOK'
    BY ReturnStep DEF RecordFails, TypeOK, Outcomes
<1> QED
    BY <1>1, <1>2, <1>3, <1>4 DEF TypeOK

LEMMA EvaluationRaisesTyped ==
    ASSUME TypeOK, NEW c \in Calls, EvaluationRaises(c) PROVE TypeOK'
<1>1. pc[c] \in {"judge", "execute"} /\ CallsOK
    BY DEF EvaluationRaises, TypeOK
<1>2. rate' \in [Procs -> [Principals \X Tools -> Seq(Nat)]]
    BY <1>1, MeteredTyped DEF EvaluationRaises, TypeOK, MemoryOK
<1>3. MemoryOK'
    BY <1>2 DEF EvaluationRaises, TypeOK, MemoryOK
<1>4. StoreOK'
    BY ReleasedType DEF EvaluationRaises, TypeOK, StoreOK
<1>5. WorldOK'
    BY WorldKept DEF EvaluationRaises, TypeOK
<1>6. CallsOK'
    BY <1>1, ReturnStep DEF EvaluationRaises, Outcomes
<1> QED
    BY <1>3, <1>4, <1>5, <1>6 DEF TypeOK

LEMMA EnvironmentTyped == ASSUME TypeOK, Environment PROVE TypeOK'
<1>1. CASE Issue
    <2>1. PICK d \in offered, aid \in ReceiptIds, ttl \in ReceiptTtls :
              receipts' = receipts \cup {IssuedReceipt(aid, d, clock, ttl)}
        BY <1>1 DEF Issue
    <2>2. clock \in Nat /\ d \in Decision
        BY DEF TypeOK, WorldOK
    <2>3. ttl \in Nat
        <3>1. ReceiptTtls \subseteq 1..MaxTtl
            OBVIOUS
        <3>2. MaxTtl \in Nat
            OBVIOUS
        <3> QED
            BY <3>1, <3>2
    <2>4. IssuedReceipt(aid, d, clock, ttl) \in Receipt
        BY <2>2, <2>3 DEF IssuedReceipt, Receipt
    <2>5. WorldOK'
        BY <1>1, <2>1, <2>4 DEF Issue, TypeOK, WorldOK, clockVars, world, meta
    <2> QED
        BY <1>1, <2>5, MemoryKept, StoreKept, CallsKept DEF Issue, TypeOK
<1>2. CASE Tick
    <2>1. clock' \in 0..MaxClock
        <3>1. clock \in 0..MaxClock /\ MaxClock \in Nat
            BY DEF TypeOK, WorldOK
        <3>2. clock < MaxClock /\ clock' = clock + 1
            BY <1>2 DEF Tick
        <3> QED
            BY <3>1, <3>2
    <2>2. WorldOK'
        BY <1>2, <2>1 DEF Tick, TypeOK, WorldOK, host, world, meta
    <2> QED
        BY <1>2, <2>2, MemoryKept, StoreKept, CallsKept DEF Tick, TypeOK
<1>3. ASSUME NEW p \in Procs, ChangePolicy(p) PROVE TypeOK'
    <2>1. version' \in [Procs -> 1..MaxVersion]
        BY <1>3 DEF ChangePolicy, TypeOK, MemoryOK
    <2>2. MemoryOK'
        BY <1>3, <2>1 DEF ChangePolicy, TypeOK, MemoryOK
    <2> QED
        BY <1>3, <2>2, WorldKept, StoreKept, CallsKept DEF ChangePolicy, TypeOK
<1>4. ASSUME NEW p \in Procs, Crash(p) PROVE TypeOK'
    <2> DEFINE gone(c) == InFlight(c) /\ frame[c].proc = p
    <2>1. rate' \in [Procs -> [Principals \X Tools -> Seq(Nat)]]
        <3>1. << >> \in Seq(Nat)
            OBVIOUS
        <3>2. rate \in [Procs -> [Principals \X Tools -> Seq(Nat)]]
            BY DEF TypeOK, MemoryOK
        <3>3. [k \in DOMAIN rate[p] |-> << >>] \in [Principals \X Tools -> Seq(Nat)]
            BY <3>1, <3>2
        <3>4. rate' = [rate EXCEPT ![p] = [k \in DOMAIN rate[p] |-> << >>]]
            BY <1>4 DEF Crash
        <3> QED
            BY <3>2, <3>3, <3>4
    <2>2. MemoryOK'
        BY <1>4, <2>1 DEF Crash, TypeOK, MemoryOK
    <2>3. StoreOK'
        <3>1. holder \in [IF Sqlite THEN {Db} ELSE Sessions -> Calls \cup {Null}]
            BY DEF TypeOK, StoreOK
        <3>2. holder' = [l \in DOMAIN holder |->
                  IF \E c \in Calls : gone(c) /\ holder[l] = c THEN Null ELSE holder[l]]
            BY <1>4 DEF Crash
        <3>3. holder' \in [IF Sqlite THEN {Db} ELSE Sessions -> Calls \cup {Null}]
            <4> HIDE DEF gone
            <4> QED
                BY <3>1, <3>2
        <3>4. history' \in [Sessions -> Seq(Requests)]
            <4>1. history' = IF Sqlite THEN history ELSE [s \in Sessions |-> << >>]
                BY <1>4 DEF Crash
            <4>2. [s \in Sessions |-> << >>] \in [Sessions -> Seq(Requests)]
                OBVIOUS
            <4>3. history \in [Sessions -> Seq(Requests)]
                BY DEF TypeOK, StoreOK
            <4> QED
                BY <4>1, <4>2, <4>3
        <3>5. claimed' \subseteq Ids
            BY <1>4 DEF Crash, TypeOK, StoreOK
        <3> QED
            BY <3>3, <3>4, <3>5 DEF StoreOK
    <2>4. WorldOK'
        <3>1. crashes \in 0..MaxCrashes /\ MaxCrashes \in Nat
            BY DEF TypeOK, WorldOK
        <3>2. crashes < MaxCrashes /\ crashes' = crashes + 1
            BY <1>4 DEF Crash
        <3>3. crashes' \in 0..MaxCrashes
            BY <3>1, <3>2
        <3> QED
            BY <1>4, <3>3 DEF Crash, TypeOK, WorldOK, clockVars, host, world
    <2>5. CallsOK /\ p \in Procs
        BY DEF TypeOK
    <2>6. pc' \in [Calls -> Labels]
        BY <1>4, <2>5 DEF Crash, CallsOK, Labels
    <2>7. \A c \in Calls : gone(c) =>
              [Blank EXCEPT !.proc = p, !.req = frame[c].req, !.ran = frame[c].ran] \in CallType
        BY <2>5, BlankType DEF CallsOK, CallType, Blank
    <2>8. frame' \in [Calls -> CallType]
        BY <1>4, <2>5, <2>7 DEF Crash, CallsOK
    <2>9. \A c \in Calls : /\ gone(c) => pc'[c] = "lost"
                           /\ ~gone(c) => pc'[c] = pc[c] /\ frame'[c] = frame[c]
        BY <1>4 DEF Crash
    <2>10. \A c \in Calls : gone(c) =>
              frame'[c].req \in Requests /\ frame'[c].proc \in Procs
        BY <1>4, <2>5, <2>7 DEF Crash, CallsOK, InFlight, Blank
    <2>11. CallsOK'
        BY <2>5, <2>6, <2>8, <2>9, <2>10 DEF CallsOK, Deciding
    <2> QED
        BY <2>2, <2>3, <2>4, <2>11 DEF TypeOK
<1>5. ASSUME NEW tool \in Volatile, Retarget(tool) PROVE TypeOK'
    <2>1. WorldOK'
        BY <1>5 DEF Retarget, TypeOK, WorldOK, host, world, meta
    <2> QED
        BY <1>5, <2>1, MemoryKept, StoreKept, CallsKept DEF Retarget, TypeOK
<1> QED
    BY <1>1, <1>2, <1>3, <1>4, <1>5 DEF Environment

LEMMA StutterTyped == ASSUME TypeOK, UNCHANGED vars PROVE TypeOK'
BY MemoryKept, StoreKept, WorldKept, CallsKept DEF TypeOK, vars, meta

LEMMA StepTyped == ASSUME TypeOK, [Next]_vars PROVE TypeOK'
<1>1. ASSUME NEW c \in Calls, Submit(c) \/ Resume(c) PROVE TypeOK'
    BY <1>1, SubmitTyped, ResumeTyped
<1>2. ASSUME NEW c \in Calls, Step(c) PROVE TypeOK'
    BY <1>2, AuthenticateTyped, ClaimTyped, EnterTyped, JudgeTyped, ParkTyped,
       RedeemUnknownTyped, RedeemTyped, CheckContextTyped, ExecuteTyped, AnnounceTyped,
       InvokeTyped, AdapterReturnsTyped, SettleTyped, ExitTyped, RecordTyped DEF Step
<1>3. ASSUME NEW c \in Calls, Failure(c) PROVE TypeOK'
    BY <1>3, StoreUnavailableTyped, SnapshotFailsTyped, AdapterRaisesTyped,
       SettleFailsTyped, ExitFailsTyped, RecordFailsTyped, EvaluationRaisesTyped DEF Failure
<1> QED
    BY <1>1, <1>2, <1>3, EnvironmentTyped, StutterTyped DEF Next, Finished

(* Every variable of the gateway keeps its type in every behaviour: in     *)
(* particular only real requests enter histories, only decisions that were *)
(* made are offered, parked and run, and locks are held only by calls.     *)
THEOREM TypeCorrect == Spec => []TypeOK
<1>1. Init => TypeOK
    BY InitIsTyped
<1>2. TypeOK /\ [Next]_vars => TypeOK'
    BY StepTyped
<1> QED
    BY <1>1, <1>2, PTL DEF Spec

-----------------------------------------------------------------------------
(* A request identifier has one driver.                                    *)
Durable == Sqlite \/ MaxCrashes = 0

-----------------------------------------------------------------------------
(* Steps that claim, park, redeem and invoke nothing: they keep OneDriver  *)
(* as long as no call becomes a driver.                                    *)
LEMMA NoNewDriver ==
    ASSUME OneDriver, UNCHANGED <<claimed, runs>>,
           \A q \in Procs : pending'[q] \subseteq pending[q],
           \A d \in Calls : Driving(d)' =>
              /\ Driving(d) /\ frame'[d].req = frame[d].req
              /\ pc'[d] = "park" => frame'[d].dec.req = frame'[d].req,
           \A d \in Calls : pc'[d] \in {"adapter", "settle"} =>
              pc[d] \in {"adapter", "settle"} /\ frame'[d].req = frame[d].req
    PROVE  OneDriver'
<1>1. \A d \in Calls : Driving(d)' => Claimant(d)'
    BY DEF OneDriver, Claimant
<1>2. \A d \in Calls : pc'[d] \in {"adapter", "settle"} => runs'[frame'[d].req.id] # << >>
    BY DEF OneDriver
<1>3. \A p \in Procs : \A e \in pending'[p] : Idle(p, e)'
    BY DEF OneDriver, ParkedIsIdle, Idle
<1>4. \A p \in Procs : \A e \in pending'[p] : \A d \in Calls : ~Carries(d, e.dec.req.id)'
    BY DEF OneDriver, ParkedIsIdle, Carries
<1>5. \A i \in Ids : runs'[i] = << >> \/ (Len(runs'[i]) = 1 /\ i \in claimed')
    BY DEF OneDriver
<1> QED
    BY <1>1, <1>2, <1>3, <1>4, <1>5 DEF OneDriver, ParkedIsIdle

LEMMA QuietCall ==
    ASSUME OneDriver, NEW c \in Calls, UNCHANGED <<claimed, runs>>,
           \A q \in Procs : pending'[q] \subseteq pending[q],
           \A d \in Calls \ {c} : pc'[d] = pc[d] /\ frame'[d] = frame[d],
           Driving(c)' =>
              /\ Driving(c) /\ frame'[c].req = frame[c].req
              /\ pc'[c] = "park" => frame'[c].dec.req = frame'[c].req,
           pc'[c] \in {"adapter", "settle"} =>
              pc[c] \in {"adapter", "settle"} /\ frame'[c].req = frame[c].req
    PROVE  OneDriver'
<1>1. \A d \in Calls : Driving(d)' =>
          /\ Driving(d) /\ frame'[d].req = frame[d].req
          /\ pc'[d] = "park" => frame'[d].dec.req = frame'[d].req
    BY DEF Driving, OneDriver, Claimant
<1>2. \A d \in Calls : pc'[d] \in {"adapter", "settle"} =>
          pc[d] \in {"adapter", "settle"} /\ frame'[d].req = frame[d].req
    OBVIOUS
<1> QED
    BY <1>1, <1>2, NoNewDriver

LEMMA QuietReport ==
    ASSUME TypeOK, OneDriver, NEW c \in Calls, NEW status \in Outcomes, Report(c, status),
           UNCHANGED <<claimed, runs>>, \A q \in Procs : pending'[q] \subseteq pending[q]
    PROVE  OneDriver'
<1>1. pc'[c] = "record" /\ \A d \in Calls \ {c} : pc'[d] = pc[d] /\ frame'[d] = frame[d]
    BY ReportType DEF TypeOK, CallsOK
<1> QED
    BY <1>1, QuietCall DEF Driving

LEMMA QuietReturn ==
    ASSUME TypeOK, OneDriver, NEW c \in Calls, NEW status \in Outcomes, Return(c, status),
           UNCHANGED <<claimed, runs, pending>>
    PROVE  OneDriver'
<1>1. pc'[c] = "returned" /\ \A d \in Calls \ {c} : pc'[d] = pc[d] /\ frame'[d] = frame[d]
    BY ReturnType DEF TypeOK, CallsOK
<1> QED
    BY <1>1, QuietCall DEF Driving

LEMMA QuietGoto ==
    ASSUME TypeOK, OneDriver, NEW c \in Calls, NEW label \in Labels, Goto(c, label),
           UNCHANGED <<frame, claimed, runs, pending>>,
           \/ label \in {"exit", "record", "claim"}
           \/ label = "settle" /\ pc[c] = "adapter"
           \/ label \in {"judge", "check", "announce", "invoke"} /\ Driving(c)
    PROVE  OneDriver'
<1>1. pc'[c] = label /\ \A d \in Calls \ {c} : pc'[d] = pc[d]
    BY GotoType DEF TypeOK, CallsOK
<1> QED
    BY <1>1, QuietCall DEF Driving

LEMMA QuietMove ==
    ASSUME TypeOK, OneDriver, NEW c \in Calls, NEW label \in Labels, NEW f \in CallType,
           Goto(c, label), With(c, f), UNCHANGED <<claimed, runs, pending>>,
           \/ label \in {"authenticate", "redeem", "exit", "record"}
           \/ label \in {"park", "execute"} /\ Driving(c) /\ f.req = frame[c].req
                 /\ (label = "park" => f.dec.req = f.req)
    PROVE  OneDriver'
<1>1. /\ pc'[c] = label /\ frame'[c] = f
      /\ \A d \in Calls \ {c} : pc'[d] = pc[d] /\ frame'[d] = frame[d]
    BY GotoType, WithType DEF TypeOK, CallsOK
<1> QED
    BY <1>1, QuietCall DEF Driving

-----------------------------------------------------------------------------
(* The steps at which a request changes hands.                             *)
LEMMA ClaimDrives == ASSUME TypeOK, OneDriver, NEW c \in Calls, Claim(c) PROVE OneDriver'
<1> DEFINE i == frame[c].req.id
<1>1. pc[c] = "claim" /\ claimed' = claimed \cup {i} /\ UNCHANGED <<pending, runs>> /\ CallsOK
    BY DEF Claim, memory, world, TypeOK
<1>2. CASE Unclaimed(frame[c].req) /\ Goto(c, "enter") /\ UNCHANGED frame
    <2>1. i \notin claimed /\ i \in Ids
        BY <1>1, <1>2, CallTyped DEF Unclaimed, Request
    <2>2. pc'[c] = "enter" /\ \A d \in Calls \ {c} : pc'[d] = pc[d]
        BY <1>1, <1>2, GotoType DEF CallsOK, Labels
    <2>3. runs[i] = << >>
        BY <2>1 DEF OneDriver
    <2>4. \A d \in Calls : Driving(d) => frame[d].req.id # i
        BY <2>1 DEF OneDriver, Claimant
    <2>5. \A d \in Calls : Driving(d)' => Claimant(d)'
        BY <1>1, <1>2, <2>2, <2>3, <2>4 DEF OneDriver, Claimant, Driving
    <2>6. \A d \in Calls : pc'[d] \in {"adapter", "settle"} => runs'[frame'[d].req.id] # << >>
        BY <1>1, <1>2, <2>2 DEF OneDriver
    <2>7. \A p \in Procs : \A e \in pending'[p] : Idle(p, e)'
        BY <1>1 DEF OneDriver, ParkedIsIdle, Idle
    <2>8. \A p \in Procs : \A e \in pending'[p] : e.dec.req.id # i
        BY <1>1, <2>1 DEF OneDriver, ParkedIsIdle, Idle
    <2>9. \A p \in Procs : \A e \in pending'[p] : \A d \in Calls : ~Carries(d, e.dec.req.id)'
        BY <1>1, <1>2, <2>2, <2>8 DEF OneDriver, ParkedIsIdle, Carries, Driving
    <2>10. \A j \in Ids : runs'[j] = << >> \/ (Len(runs'[j]) = 1 /\ j \in claimed')
        BY <1>1 DEF OneDriver
    <2> QED
        BY <2>5, <2>6, <2>7, <2>9, <2>10 DEF OneDriver, ParkedIsIdle
<1>3. CASE ~Unclaimed(frame[c].req) /\ Report(c, "denied")
    <2>1. claimed' = claimed
        BY <1>1, <1>3 DEF Unclaimed
    <2> QED
        BY <1>1, <1>3, <2>1, QuietReport DEF Outcomes
<1> QED
    BY <1>2, <1>3 DEF Claim

LEMMA ParkDrives == ASSUME TypeOK, OneDriver, NEW c \in Calls, Park(c) PROVE OneDriver'
<1> DEFINE p == frame[c].proc
           i == frame[c].req.id
           others == {e \in pending[p] : e.dec.req.id # i}
           mine == [dec |-> frame[c].dec, created |-> frame[c].at]
<1>1. /\ pc[c] = "park" /\ UNCHANGED <<claimed, runs, frame>> /\ CallsOK
      /\ Goto(c, "record") /\ pending' = [pending EXCEPT ![p] = others \cup {mine}]
    BY DEF Park, store, world, TypeOK
<1>2. p \in Procs /\ pending \in [Procs -> SUBSET [dec : Decision, created : Nat]]
    BY <1>1, CallTyped DEF TypeOK, MemoryOK
<1>3. pc'[c] = "record" /\ \A d \in Calls \ {c} : pc'[d] = pc[d]
    BY <1>1, GotoType DEF CallsOK, Labels
<1>4. Claimant(c) /\ Driving(c)
    BY <1>1 DEF OneDriver, Driving
<1>5. mine.dec.req.id = i /\ i \in claimed /\ runs[i] = << >>
    BY <1>1, <1>4 DEF Claimant
<1>6. \A d \in Calls \ {c} : ~Carries(d, i)
    BY <1>4, <1>5 DEF Claimant, Carries, OneDriver
<1>7. \A q \in Procs : \A o \in pending[q] : o.dec.req.id # i
    BY <1>4 DEF OneDriver, ParkedIsIdle, Carries
<1>8. \A q \in Procs : \A o \in pending'[q] :
          o \in pending[q] \/ (q = p /\ o = mine)
    BY <1>1, <1>2
<1>9. \A d \in Calls : Driving(d)' => Claimant(d)'
    BY <1>1, <1>3 DEF OneDriver, Claimant, Driving
<1>10. \A d \in Calls : pc'[d] \in {"adapter", "settle"} => runs'[frame'[d].req.id] # << >>
    BY <1>1, <1>3 DEF OneDriver
<1>11. \A q \in Procs : \A e \in pending'[q] : Idle(q, e)'
    <2>1. \A q \in Procs : \A e \in pending[q] : Idle(q, e)
        BY DEF OneDriver, ParkedIsIdle
    <2> QED
        BY <1>1, <1>5, <1>7, <1>8, <2>1 DEF Idle
<1>12. \A q \in Procs : \A e \in pending'[q] : \A d \in Calls : ~Carries(d, e.dec.req.id)'
    <2>1. \A d \in Calls : \A j : Carries(d, j)' => Carries(d, j) /\ d # c
        BY <1>1, <1>3 DEF Carries, Driving
    <2>2. \A q \in Procs : \A e \in pending[q] : \A d \in Calls : ~Carries(d, e.dec.req.id)
        BY DEF OneDriver, ParkedIsIdle
    <2> QED
        BY <1>5, <1>6, <1>8, <2>1, <2>2
<1>13. \A j \in Ids : runs'[j] = << >> \/ (Len(runs'[j]) = 1 /\ j \in claimed')
    BY <1>1 DEF OneDriver
<1> QED
    BY <1>9, <1>10, <1>11, <1>12, <1>13 DEF OneDriver, ParkedIsIdle

LEMMA RedeemDrives == ASSUME TypeOK, OneDriver, NEW c \in Calls, Redeem(c) PROVE OneDriver'
<1> DEFINE p == frame[c].proc
           i == frame[c].req.id
<1>1. pc[c] = "redeem" /\ UNCHANGED <<claimed, runs>> /\ CallsOK
    BY DEF Redeem, store, world, TypeOK
<1>2. p \in Procs /\ frame[c] \in CallType
    BY <1>1, CallTyped
<1>3. pending \in [Procs -> SUBSET [dec : Decision, created : Nat]]
    BY DEF TypeOK, MemoryOK
<1>4. PICK e \in PendingOf(p, frame[c].req) :
          \/ (Spent(p, e) \/ UNCHANGED pending) /\ Report(c, "denied")
          \/ /\ Spent(p, e)
             /\ Goto(c, "enter")
             /\ With(c, [frame[c] EXCEPT !.req = e.dec.req, !.dec = e.dec])
    BY DEF Redeem
<1>5. e \in pending[p] /\ e.dec.req.id = i /\ e.dec \in Decision /\ e.dec.req \in Requests
    BY <1>2, <1>3, <1>4 DEF PendingOf, Decision
<1>6. Spent(p, e) => /\ \A q \in Procs : pending'[q] \subseteq pending[q]
                     /\ pending'[p] = pending[p] \ {e}
    BY <1>2, <1>3 DEF Spent
<1>7. CASE (Spent(p, e) \/ UNCHANGED pending) /\ Report(c, "denied")
    <2>1. \A q \in Procs : pending'[q] \subseteq pending[q]
        BY <1>6, <1>7
    <2> QED
        BY <1>1, <1>7, <2>1, QuietReport DEF Outcomes
<1>8. CASE /\ Spent(p, e)
           /\ Goto(c, "enter")
           /\ With(c, [frame[c] EXCEPT !.req = e.dec.req, !.dec = e.dec])
    <2> DEFINE f == [frame[c] EXCEPT !.req = e.dec.req, !.dec = e.dec]
    <2>1. f \in CallType /\ f.req = e.dec.req
        BY <1>2, <1>5 DEF CallType
    <2>2. With(c, f) /\ Goto(c, "enter")
        BY <1>8
    <2> HIDE DEF f
    <2>3. /\ pc'[c] = "enter" /\ frame'[c].req = e.dec.req
          /\ \A d \in Calls \ {c} : pc'[d] = pc[d] /\ frame'[d] = frame[d]
        BY <1>1, <2>1, <2>2, GotoType, WithType DEF CallsOK, Labels
    <2>4. Idle(p, e) /\ \A d \in Calls : ~Carries(d, i)
        BY <1>2, <1>5 DEF OneDriver, ParkedIsIdle
    <2>5. \A q \in Procs : \A o \in pending'[q] : o \in pending[q] /\ o.dec.req.id # i
        BY <1>2, <1>5, <1>6, <1>8, <2>4 DEF Idle
    <2>6. \A d \in Calls : Driving(d)' => Claimant(d)'
        BY <1>1, <1>5, <2>3, <2>4 DEF OneDriver, Claimant, Driving, Idle, Carries
    <2>7. \A d \in Calls : pc'[d] \in {"adapter", "settle"} => runs'[frame'[d].req.id] # << >>
        BY <1>1, <2>3 DEF OneDriver
    <2>8. \A q \in Procs : \A o \in pending'[q] : Idle(q, o)'
        <3>1. \A q \in Procs : \A o \in pending[q] : Idle(q, o)
            BY DEF OneDriver, ParkedIsIdle
        <3> QED
            BY <1>1, <2>5, <3>1 DEF Idle
    <2>9. \A q \in Procs : \A o \in pending'[q] : \A d \in Calls : ~Carries(d, o.dec.req.id)'
        <3>1. \A d \in Calls : \A j : Carries(d, j)' => Carries(d, j) \/ j = i
            BY <1>5, <2>3 DEF Carries, Driving
        <3>2. \A q \in Procs : \A o \in pending[q] : \A d \in Calls : ~Carries(d, o.dec.req.id)
            BY DEF OneDriver, ParkedIsIdle
        <3> QED
            BY <2>5, <3>1, <3>2
    <2>10. \A j \in Ids : runs'[j] = << >> \/ (Len(runs'[j]) = 1 /\ j \in claimed')
        BY <1>1 DEF OneDriver
    <2> QED
        BY <2>6, <2>7, <2>8, <2>9, <2>10 DEF OneDriver, ParkedIsIdle
<1> QED
    BY <1>4, <1>7, <1>8

LEMMA InvokeDrives == ASSUME TypeOK, OneDriver, NEW c \in Calls, Invoke(c) PROVE OneDriver'
<1> DEFINE i == frame[c].req.id
           run == [via |-> frame[c].via, dec |-> frame[c].dec]
<1>1. pc[c] = "invoke" /\ UNCHANGED <<claimed, pending>> /\ CallsOK
    BY DEF Invoke, store, memory, TypeOK
<1>2. CASE Report(c, "execution_failed") /\ UNCHANGED runs
    BY <1>1, <1>2, QuietReport DEF Outcomes
<1>3. CASE /\ runs' = [runs EXCEPT ![i] = Append(@, run)]
           /\ Goto(c, "adapter")
           /\ With(c, [frame[c] EXCEPT !.ran = TRUE])
    <2>1. frame[c] \in CallType /\ i \in Ids
        BY <1>1, CallTyped DEF Request
    <2> DEFINE f == [frame[c] EXCEPT !.ran = TRUE]
    <2>2. f \in CallType /\ f.req = frame[c].req
        BY <2>1 DEF CallType
    <2>3. With(c, f) /\ Goto(c, "adapter")
        BY <1>3
    <2> HIDE DEF f
    <2>4. /\ pc'[c] = "adapter" /\ frame'[c].req = frame[c].req
          /\ \A d \in Calls \ {c} : pc'[d] = pc[d] /\ frame'[d] = frame[d]
        BY <1>1, <2>2, <2>3, GotoType, WithType DEF CallsOK, Labels
    <2>5. Driving(c) /\ Claimant(c)
        BY <1>1 DEF OneDriver, Driving
    <2>6. i \in claimed /\ runs[i] = << >> /\ runs \in [Ids -> Seq([via : Receipt \cup {Null}, dec : Decision])]
        BY <2>5 DEF Claimant, TypeOK, WorldOK
    <2> HIDE DEF run
    <2>7. runs'[i] = <<run>> /\ \A j \in Ids \ {i} : runs'[j] = runs[j]
        BY <1>3, <2>1, <2>6
    <2>8. \A d \in Calls : Driving(d)' => Driving(d) /\ d # c /\ frame[d].req.id # i /\ frame[d].req.id \in Ids
        BY <1>1, <2>4, <2>5, CallTyped DEF Driving, Claimant, Request
    <2>9. \A d \in Calls : Driving(d)' => Claimant(d)'
        BY <1>1, <2>4, <2>7, <2>8 DEF OneDriver, Claimant, Driving
    <2>10. \A d \in Calls : pc'[d] \in {"adapter", "settle"} => runs'[frame'[d].req.id] # << >>
        <3>1. \A d \in Calls : pc'[d] \in {"adapter", "settle"} /\ d # c =>
                 runs[frame[d].req.id] # << >> /\ frame[d].req.id \in Ids
            BY <1>1, <2>4, CallTyped DEF OneDriver, Request
        <3>2. <<run>> # << >>
            OBVIOUS
        <3> QED
            BY <2>4, <2>7, <3>1, <3>2
    <2>11. \A q \in Procs : \A o \in pending'[q] : Idle(q, o)' /\ o.dec.req.id # i
        <3>1. \A q \in Procs : \A o \in pending[q] : Idle(q, o) /\ o.dec.req.id # i
            BY <2>5 DEF OneDriver, ParkedIsIdle, Carries
        <3>2. \A q \in Procs : \A o \in pending[q] : o.dec \in Decision
            BY DEF TypeOK, MemoryOK
        <3>3. \A dec \in Decision : dec.req.id \in Ids
            <4>1. \A dec \in Decision : dec.req \in Requests
                BY DEF Decision
            <4>2. \A r \in Requests : r.id \in Ids
                BY DEF Request
            <4> QED
                BY <4>1, <4>2
        <3> QED
            BY <1>1, <2>7, <3>1, <3>2, <3>3 DEF Idle
    <2>12. \A q \in Procs : \A o \in pending'[q] : \A d \in Calls : ~Carries(d, o.dec.req.id)'
        <3>1. \A d \in Calls : \A j : Carries(d, j)' => Carries(d, j)
            BY <1>1, <2>4 DEF Carries, Driving
        <3> QED
            BY <1>1, <3>1 DEF OneDriver, ParkedIsIdle
    <2>13. \A j \in Ids : runs'[j] = << >> \/ (Len(runs'[j]) = 1 /\ j \in claimed')
        <3>1. Len(<<run>>) = 1
            OBVIOUS
        <3> QED
            BY <1>1, <2>6, <2>7, <3>1 DEF OneDriver
    <2> QED
        BY <2>9, <2>10, <2>11, <2>12, <2>13 DEF OneDriver, ParkedIsIdle
<1> QED
    BY <1>2, <1>3 DEF Invoke

-----------------------------------------------------------------------------
(* The other steps of a call.                                              *)
LEMMA JudgeDrives == ASSUME TypeOK, OneDriver, NEW c \in Calls, Judge(c) PROVE OneDriver'
<1> DEFINE h == history[frame[c].req.session]
           dec == [req |-> frame[c].req, version |-> version[frame[c].proc], context |-> h]
<1>1. pc[c] = "judge" /\ UNCHANGED <<claimed, pending, runs>> /\ CallsOK
    BY DEF Judge, store, world, TypeOK
<1>2. PICK outcome \in Outcomes, label \in {"record", "park", "execute"} :
          /\ With(c, [frame[c] EXCEPT !.view = h, !.dec = dec, !.outcome = outcome])
          /\ Goto(c, label)
    BY JudgeMoves
<1> DEFINE f == [frame[c] EXCEPT !.view = h, !.dec = dec, !.outcome = outcome]
<1>3. frame[c] \in CallType
    BY <1>1, CallTyped
<1>4. f.req = frame[c].req /\ f.dec.req = frame[c].req
    BY <1>3 DEF CallType
<1>5. Goto(c, label) /\ label \in Labels /\ frame' = [frame EXCEPT ![c] = f]
    BY <1>2 DEF Labels, With
<1> HIDE DEF f
<1>6. /\ pc'[c] = label /\ frame'[c] = f
      /\ \A d \in Calls \ {c} : pc'[d] = pc[d] /\ frame'[d] = frame[d]
    BY <1>1, <1>5, GotoType DEF CallsOK
<1> QED
    BY <1>1, <1>4, <1>6, QuietCall DEF Driving

LEMMA CheckContextDrives == ASSUME TypeOK, OneDriver, NEW c \in Calls, CheckContext(c) PROVE OneDriver'
<1> DEFINE h == history[frame[c].req.session]
<1>1. pc[c] = "check" /\ UNCHANGED <<claimed, pending, runs>> /\ CallsOK
    BY DEF CheckContext, store, memory, world, TypeOK
<1>2. CASE Report(c, "denied")
    BY <1>1, <1>2, QuietReport DEF Outcomes
<1>3. CASE Goto(c, "execute") /\ With(c, [frame[c] EXCEPT !.view = h])
    <2> DEFINE f == [frame[c] EXCEPT !.view = h]
    <2>1. f.req = frame[c].req
        BY <1>1, CallTyped DEF CallType
    <2>2. Goto(c, "execute") /\ "execute" \in Labels /\ frame' = [frame EXCEPT ![c] = f]
        BY <1>3 DEF Labels, With
    <2> HIDE DEF f
    <2>3. /\ pc'[c] = "execute" /\ frame'[c] = f
          /\ \A d \in Calls \ {c} : pc'[d] = pc[d] /\ frame'[d] = frame[d]
        BY <1>1, <2>2, GotoType DEF CallsOK
    <2> QED
        BY <1>1, <2>1, <2>3, QuietCall DEF Driving
<1> QED
    BY <1>2, <1>3 DEF CheckContext

LEMMA SettleDrives == ASSUME TypeOK, OneDriver, NEW c \in Calls, Settle(c) PROVE OneDriver'
<1>1. pc[c] = "settle" /\ UNCHANGED <<claimed, pending, runs>> /\ CallsOK
    BY DEF Settle, memory, world, TypeOK
<1>2. /\ pc'[c] = "exit"
      /\ \A d \in Calls \ {c} : pc'[d] = pc[d] /\ frame'[d] = frame[d]
    BY <1>1, GotoType DEF Settle, CallsOK, Labels, With
<1> QED
    BY <1>1, <1>2, QuietCall DEF Driving

LEMMA ArrivalDrives ==
    ASSUME TypeOK, OneDriver, NEW c \in Calls, Submit(c) \/ Resume(c) PROVE OneDriver'
<1>1. UNCHANGED <<claimed, pending, runs>> /\ CallsOK
    BY DEF Submit, Resume, memory, store, world, TypeOK
<1>2. PICK label \in {"authenticate", "redeem"} : Goto(c, label)
    BY DEF Submit, Resume
<1>3. /\ pc'[c] = label
      /\ \A d \in Calls \ {c} : pc'[d] = pc[d] /\ frame'[d] = frame[d]
    BY <1>1, <1>2, GotoType DEF Submit, Resume, CallsOK, Labels, With
<1> QED
    BY <1>1, <1>3, QuietCall DEF Driving

LEMMA AuthenticateDrives == ASSUME TypeOK, OneDriver, NEW c \in Calls, Authenticate(c) PROVE OneDriver'
<1>1. UNCHANGED <<claimed, pending, runs>>
    BY DEF Authenticate, store, world
<1>2. Report(c, "denied") \/ (Goto(c, "claim") /\ UNCHANGED frame)
    BY DEF Authenticate
<1> QED
    BY <1>1, <1>2, QuietReport, QuietGoto DEF Outcomes, Labels

LEMMA EnterDrives == ASSUME TypeOK, OneDriver, NEW c \in Calls, Enter(c) PROVE OneDriver'
<1>1. UNCHANGED <<claimed, pending, runs, frame>> /\ Driving(c)
    BY DEF Enter, memory, world, Driving
<1>2. Goto(c, "judge") \/ Goto(c, "check")
    BY DEF Enter
<1> QED
    BY <1>1, <1>2, QuietGoto DEF Labels

LEMMA ExecuteDrives == ASSUME TypeOK, OneDriver, NEW c \in Calls, Execute(c) PROVE OneDriver'
<1>1. UNCHANGED <<claimed, pending, runs>> /\ Driving(c)
    BY DEF Execute, memory, store, world, Driving
<1>2. Report(c, "denied") \/ (Goto(c, "announce") /\ UNCHANGED frame)
    BY DEF Execute
<1> QED
    BY <1>1, <1>2, QuietReport, QuietGoto DEF Outcomes, Labels

LEMMA AnnounceDrives == ASSUME TypeOK, OneDriver, NEW c \in Calls, Announce(c) PROVE OneDriver'
<1>1. /\ UNCHANGED <<claimed, pending, runs, frame>> /\ Driving(c)
      /\ Goto(c, "invoke")
    BY DEF Announce, memory, store, Driving
<1> QED
    BY <1>1, QuietGoto DEF Labels

LEMMA AdapterReturnsDrives ==
    ASSUME TypeOK, OneDriver, NEW c \in Calls, AdapterReturns(c) PROVE OneDriver'
<1>1. /\ UNCHANGED <<claimed, pending, runs, frame>> /\ pc[c] = "adapter"
      /\ Goto(c, "settle")
    BY DEF AdapterReturns, memory, store, world
<1> QED
    BY <1>1, QuietGoto DEF Labels

LEMMA RedeemUnknownDrives ==
    ASSUME TypeOK, OneDriver, NEW c \in Calls, RedeemUnknown(c) PROVE OneDriver'
BY QuietReturn DEF RedeemUnknown, memory, store, world, Outcomes

LEMMA LeavingDrives ==
    ASSUME TypeOK, OneDriver, NEW c \in Calls, Exit(c) \/ ExitFails(c) \/ Record(c)
    PROVE  OneDriver'
<1>1. UNCHANGED <<claimed, pending, runs>> /\ pc[c] # "ready" /\ CallsOK
    BY DEF Exit, ExitFails, Record, memory, store, world, TypeOK
<1>2. frame[c].outcome \in Outcomes
    BY <1>1, CallTyped
<1>3. AfterLostCommit(frame[c].outcome) \in Outcomes
    BY <1>2 DEF AfterLostCommit, Outcomes
<1>4. \/ \E status \in Outcomes : Report(c, status) \/ Return(c, status)
      \/ Goto(c, "exit") /\ UNCHANGED frame
    BY <1>2, <1>3 DEF Exit, ExitFails, Record, Outcomes
<1> QED
    BY <1>1, <1>4, QuietReport, QuietReturn, QuietGoto DEF Labels

LEMMA FailureDrives == ASSUME TypeOK, OneDriver, NEW c \in Calls, Failure(c) PROVE OneDriver'
<1>1. UNCHANGED <<claimed, pending, runs>>
    BY DEF Failure, StoreUnavailable, SnapshotFails, AdapterRaises, SettleFails, ExitFails,
           RecordFails, EvaluationRaises, memory, store, world
<1>2. CASE ExitFails(c)
    BY <1>2, LeavingDrives
<1>3. CASE RecordFails(c) \/ EvaluationRaises(c)
    BY <1>1, <1>3, QuietReturn DEF RecordFails, EvaluationRaises, Outcomes
<1>4. CASE StoreUnavailable(c) \/ SnapshotFails(c) \/ AdapterRaises(c) \/ SettleFails(c)
    <2>1. \E status \in Outcomes : Report(c, status)
        BY <1>4 DEF StoreUnavailable, SnapshotFails, AdapterRaises, SettleFails, Outcomes
    <2> QED
        BY <1>1, <2>1, QuietReport
<1> QED
    BY <1>2, <1>3, <1>4 DEF Failure

(* A restart forgets parked calls, never claims.                           *)
LEMMA CrashDrives ==
    ASSUME TypeOK, OneDriver, Durable, NEW p \in Procs, Crash(p) PROVE OneDriver'
<1>1. Sqlite
    <2>1. crashes \in 0..MaxCrashes /\ crashes < MaxCrashes
        BY DEF TypeOK, WorldOK, Crash
    <2> QED
        BY <2>1 DEF Durable
<1>2. UNCHANGED <<claimed, runs>>
    BY <1>1 DEF Crash, world
<1>3. \A q \in Procs : pending'[q] \subseteq pending[q]
    BY DEF Crash, TypeOK, MemoryOK
<1>4. \A d \in Calls : pc'[d] = "lost" \/ (pc'[d] = pc[d] /\ frame'[d] = frame[d])
    BY DEF Crash
<1>5. \A d \in Calls : Driving(d)' =>
         /\ Driving(d) /\ frame'[d].req = frame[d].req
         /\ pc'[d] = "park" => frame'[d].dec.req = frame'[d].req
    BY <1>4 DEF Driving, OneDriver, Claimant
<1>6. \A d \in Calls : pc'[d] \in {"adapter", "settle"} =>
         pc[d] \in {"adapter", "settle"} /\ frame'[d].req = frame[d].req
    BY <1>4
<1> QED
    BY <1>2, <1>3, <1>5, <1>6, NoNewDriver

LEMMA UntouchedDrives ==
    ASSUME OneDriver, UNCHANGED <<claimed, pending, runs, pc, frame>> PROVE OneDriver'
BY DEF OneDriver, ParkedIsIdle, Idle, Carries, Claimant, Driving

LEMMA EnvironmentDrives ==
    ASSUME TypeOK, OneDriver, Durable, Environment PROVE OneDriver'
<1>1. CASE Issue \/ Tick \/ (\E p \in Procs : ChangePolicy(p)) \/ (\E tool \in Volatile : Retarget(tool))
    <2>1. UNCHANGED <<claimed, pending, runs, pc, frame>>
        BY <1>1 DEF Issue, Tick, ChangePolicy, Retarget, memory, store, world
    <2> QED
        BY <2>1, UntouchedDrives
<1>2. CASE \E p \in Procs : Crash(p)
    BY <1>2, CrashDrives
<1> QED
    BY <1>1, <1>2 DEF Environment

LEMMA InitDrives == Init => OneDriver
BY DEF Init, OneDriver, ParkedIsIdle, Driving

LEMMA StepDrives == ASSUME TypeOK, OneDriver, Durable, [Next]_vars PROVE OneDriver'
<1>1. ASSUME NEW c \in Calls, Submit(c) \/ Resume(c) PROVE OneDriver'
    BY <1>1, ArrivalDrives
<1>2. ASSUME NEW c \in Calls, Step(c) PROVE OneDriver'
    BY <1>2, AuthenticateDrives, ClaimDrives, EnterDrives, JudgeDrives, ParkDrives,
       RedeemUnknownDrives, RedeemDrives, CheckContextDrives, ExecuteDrives, AnnounceDrives,
       InvokeDrives, AdapterReturnsDrives, SettleDrives, LeavingDrives DEF Step
<1>3. ASSUME NEW c \in Calls, Failure(c) PROVE OneDriver'
    BY <1>3, FailureDrives
<1>4. CASE UNCHANGED vars
    BY <1>4, UntouchedDrives DEF vars, memory, store, world
<1> QED
    BY <1>1, <1>2, <1>3, <1>4, EnvironmentDrives DEF Next, Finished

(* Each request identifier has one driver at a time, whatever the threads, *)
(* processes, failures and restarts, as long as claims are not forgotten.  *)
THEOREM DriverIsUnique == ASSUME Durable PROVE Spec => []OneDriver
<1>1. Init => OneDriver
    BY InitDrives
<1>2. TypeOK /\ OneDriver /\ [Next]_vars => OneDriver'
    BY StepDrives
<1> QED
    BY <1>1, <1>2, TypeCorrect, PTL DEF Spec

(* Consequently no request identifier ever runs its adapter twice.         *)
THEOREM RunsAtMostOnce == ASSUME Durable PROVE Spec => []AtMostOnce
<1>1. OneDriver => AtMostOnce
    <2> SUFFICES ASSUME OneDriver, NEW i \in Ids PROVE Len(runs[i]) <= 1
        BY DEF AtMostOnce
    <2>1. runs[i] = << >> \/ Len(runs[i]) = 1
        BY DEF OneDriver
    <2>2. Len(<< >>) <= 1
        OBVIOUS
    <2>3. CASE runs[i] = << >>
        BY <2>2, <2>3, Zenon
    <2>4. CASE Len(runs[i]) = 1
        BY <2>4
    <2> QED
        BY <2>1, <2>3, <2>4
<1> QED
    BY <1>1, DriverIsUnique, PTL

(* ... and a parked request has not run and is in nobody's hands.          *)
THEOREM ParkedStayIdle == ASSUME Durable PROVE Spec => []ParkedIsIdle
<1>1. OneDriver => ParkedIsIdle
    BY DEF OneDriver
<1> QED
    BY <1>1, DriverIsUnique, PTL
=============================================================================
