---------------------------- MODULE PolicyHistory ----------------------------
(***************************************************************************)
(* What the gateway promises about session histories, whatever it does     *)
(* inside: each session has a log that only grows, one event at a time, by *)
(* requests with new identifiers that the sequence policy does not deny on *)
(* exactly the events already in the log.  No call, lock, receipt, failure *)
(* or restart is mentioned.                                                *)
(***************************************************************************)
EXTENDS SequencePolicy

CONSTANTS Sessions, Requests, EffectsOf, Rules

VARIABLE log

LogTrace(s) == [i \in DOMAIN log[s] |-> EffectsOf[log[s][i].tool]]

Logged(id) == \E s \in Sessions : \E i \in DOMAIN log[s] : log[s][i].id = id

Lawful(r) ==
    EvaluateSequence(Rules, r.tool, LogTrace(r.session), "allow") # "deny"

Admit(r) ==
    /\ ~Logged(r.id)
    /\ Lawful(r)
    /\ log' = [log EXCEPT ![r.session] = Append(@, r)]

Init == log = [s \in Sessions |-> << >>]
Next == \E r \in Requests : Admit(r)
Spec == Init /\ [][Next]_log
=============================================================================
