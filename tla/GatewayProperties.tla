-------------------------- MODULE GatewayProperties --------------------------
(***************************************************************************)
(* What makes the gateway correct: the properties of Gateway that the runs *)
(* check and the Gateway proof modules prove.                              *)
(***************************************************************************)
EXTENDS Gateway

Labels == {"ready", "authenticate", "claim", "enter", "judge", "park", "redeem", "check",
           "execute", "announce", "invoke", "adapter", "settle", "exit", "record",
           "returned", "lost"}
Outcomes == {"none", "denied", "pending_approval", "succeeded", "execution_failed",
             "execution_uncertain", "raised"}
CallType == [proc : Procs \cup {Null}, req : Requests \cup {Null},
             via : Receipt \cup {Null}, at : Nat, dec : Decision \cup {Null},
             view : Seq(Requests), outcome : Outcomes, ran : BOOLEAN]

MemoryOK ==
    /\ version \in [Procs -> 1..MaxVersion]
    /\ nonces \in [Procs -> SUBSET [mark : Principals \X Nonces, expiry : Nat]]
    /\ rate \in [Procs -> [Principals \X Tools -> Seq(Nat)]]
    /\ pending \in [Procs -> SUBSET [dec : Decision, created : Nat]]
    /\ consumed \in [Procs -> SUBSET ReceiptIds]

StoreOK ==
    /\ claimed \subseteq Ids
    /\ history \in [Sessions -> Seq(Requests)]
    /\ holder \in [IF Sqlite THEN {Db} ELSE Sessions -> Calls \cup {Null}]

WorldOK ==
    /\ clock \in 0..MaxClock /\ blocked \subseteq Volatile
    /\ offered \subseteq Decision /\ receipts \subseteq Receipt
    /\ trail \in [Ids -> Seq(Outcomes \cup {"execution_started"})]
    /\ runs \in [Ids -> Seq([via : Receipt \cup {Null}, dec : Decision])]
    /\ faults \in 0..MaxFaults /\ crashes \in 0..MaxCrashes

(* What a call has in its locals by the time it is at a label.             *)
Deciding(c) ==
    \/ pc[c] \in {"park", "check", "execute", "announce", "invoke", "adapter", "settle"}
    \/ pc[c] = "enter" /\ frame[c].via # Null
    \/ pc[c] \in {"record", "exit"} /\ frame[c].outcome = "pending_approval"

CallsOK ==
    /\ pc \in [Calls -> Labels]
    /\ frame \in [Calls -> CallType]
    /\ \A c \in Calls :
          /\ pc[c] # "ready" => frame[c].req \in Requests /\ frame[c].proc \in Procs
          /\ pc[c] \in {"authenticate", "claim"} => frame[c].via = Null
          /\ pc[c] = "redeem" => frame[c].via \in Receipt
          /\ Deciding(c) => frame[c].dec \in Decision

(* Types of the process memories, the store, the world and the calls.      *)
TypeOK == MemoryOK /\ StoreOK /\ WorldOK /\ CallsOK

(* A request identifier drives its adapter at most once, whichever process *)
(* answers its submissions and resumptions and whatever restarts between.  *)
AtMostOnce == \A i \in Ids : Len(runs[i]) <= 1

(* Evaluation and effect recording are one step of the session: an event   *)
(* is committed right after the very history its decision was made on.     *)
DecidedOnPrefix ==
    \A s \in Sessions : \A k \in DOMAIN history[s] :
       \E n \in DOMAIN runs[history[s][k].id] :
          LET run == runs[history[s][k].id][n] IN
          run.dec.req = history[s][k] /\ run.dec.context = SubSeq(history[s], 1, k - 1)

(* No adapter runs without the approval its own history calls for: a call  *)
(* whose decision was to ask is run under a receipt issued for exactly     *)
(* that request, policy version and session context.                       *)
NeedsApproval(dec) ==
    Verdict(dec.req.tool, dec.context,
            IF dec.req.tool \in Gated THEN "require_approval" ELSE "allow") = "require_approval"

ApprovedRuns ==
    \A i \in Ids : \A n \in DOMAIN runs[i] :
       NeedsApproval(runs[i][n].dec) =>
          runs[i][n].via \in receipts /\ runs[i][n].via.dec = runs[i][n].dec

(* Whoever resumes a request does so within the pending lifetime of its    *)
(* submission and the validity of its receipt, so that the whole chain     *)
(* from the agent's signature to the approved call is bounded in time.     *)
Executing(c) ==
    pc[c] \in {"check", "execute", "announce", "invoke", "adapter", "settle"}

TimelyResumes ==
    \A c \in Calls : Executing(c) /\ frame[c].via # Null =>
       /\ frame[c].at - frame[c].req.issued <= Skew + PendingTtl
       /\ frame[c].via.issued <= frame[c].at /\ frame[c].at <= frame[c].via.expires

(* An approval identifier buys at most one adapter call, even when a host  *)
(* issues it for several decisions and competing resumptions present it.   *)
ReceiptOneUse ==
    \A a \in ReceiptIds : \A i, j \in Ids : \A m \in DOMAIN runs[i], n \in DOMAIN runs[j] :
       (/\ runs[i][m].via # Null /\ runs[i][m].via.aid = a
        /\ runs[j][n].via # Null /\ runs[j][n].via.aid = a) => i = j /\ m = n

(* The audit trail agrees with the world: adapters run only once announced,*)
(* a reported success is in the history, a reported failure or uncertainty *)
(* is not, and nothing is in the history that no adapter did.              *)
Reported(i, status) == \E n \in DOMAIN trail[i] : trail[i][n] = status
Committed(i) == \E s \in Sessions : \E k \in DOMAIN history[s] : history[s][k].id = i

TrailIsTrue ==
    \A i \in Ids :
       /\ runs[i] # << >> => Reported(i, "execution_started")
       /\ Reported(i, "succeeded") => Committed(i)
       /\ Reported(i, "execution_failed") \/ Reported(i, "execution_uncertain") => ~Committed(i)
       /\ Committed(i) => runs[i] # << >>

(* A caller may believe its answer: denied or pending, the adapter has not *)
(* run; succeeded, it has and the effects are recorded; uncertain, it has  *)
(* and they are not.                                                       *)
AnswerIsTrue ==
    \A c \in Calls : pc[c] = "returned" =>
       /\ frame[c].outcome \in {"denied", "pending_approval"} => ~frame[c].ran
       /\ frame[c].outcome \in {"succeeded", "execution_uncertain"} => frame[c].ran
       /\ frame[c].outcome = "succeeded" => Committed(frame[c].req.id)
       /\ frame[c].outcome \in {"execution_failed", "execution_uncertain"} =>
             ~Committed(frame[c].req.id)

(* A parked request is claimed, has never run, is parked in one process    *)
(* only, and no call is carrying it towards its adapter or back.           *)
Driving(c) ==
    pc[c] \in {"enter", "judge", "park", "check", "execute", "announce", "invoke"}

Carries(c, i) ==
    (Driving(c) \/ pc[c] \in {"adapter", "settle"}) /\ frame[c].req.id = i

Idle(p, e) ==
    /\ e.dec.req.id \in claimed
    /\ runs[e.dec.req.id] = << >>
    /\ \A q \in Procs : \A o \in pending[q] : o.dec.req.id = e.dec.req.id => q = p /\ o = e

ParkedIsIdle ==
    \A p \in Procs : \A e \in pending[p] :
       Idle(p, e) /\ \A c \in Calls : ~Carries(c, e.dec.req.id)

(* A request identifier has one driver at a time: the call that claimed    *)
(* it, then its parked entry, then the call that redeemed that entry, and  *)
(* none once its adapter has been called.  This is inductive.              *)
Claimant(c) ==
    /\ frame[c].req.id \in claimed
    /\ runs[frame[c].req.id] = << >>
    /\ \A d \in Calls : Driving(d) /\ frame[d].req.id = frame[c].req.id => d = c
    /\ pc[c] = "park" => frame[c].dec.req = frame[c].req

OneDriver ==
    /\ \A c \in Calls : Driving(c) => Claimant(c)
    /\ \A c \in Calls : pc[c] \in {"adapter", "settle"} => runs[frame[c].req.id] # << >>
    /\ ParkedIsIdle
    /\ \A i \in Ids : runs[i] = << >> \/ (Len(runs[i]) = 1 /\ i \in claimed)

Promise == INSTANCE PolicyHistory WITH log <- history
(* The session histories, whatever calls interleave, fail and are resumed, *)
(* are histories of PolicyHistory: one event at a time, each an event of a *)
(* new identifier that the sequence policy does not deny after the others. *)
KeepsPromise == Promise!Spec

(* Every call that was made is answered, unless its process stops.         *)
CallsReturn ==
    \A c \in Calls : pc[c] # "ready" ~> pc[c] \in {"returned", "lost"}

SettledInTrail(i) ==
    \E status \in {"succeeded", "execution_failed", "execution_uncertain"} : Reported(i, status)

(* An announced execution is settled in the audit trail when its call      *)
(* returns, unless the call raises because a record of its own fails, or   *)
(* its process stops.                                                      *)
AnnouncedIsSettled ==
    \A c \in Calls : pc[c] = "invoke" ~>
       \/ pc[c] = "returned" /\ (frame[c].outcome = "raised" \/ SettledInTrail(frame[c].req.id))
       \/ pc[c] = "lost"
=============================================================================
