--------------------------- MODULE SequencePolicy ---------------------------
(***************************************************************************)
(* The sequence policy of session.py: what SequenceRule.match and          *)
(* SequencePolicy.evaluate compute from a session's history.               *)
(*                                                                         *)
(* A history is seen here as its trace: the sequence of the sets of        *)
(* effects its events carry.  A rule is a record                           *)
(*   [targets, requires : sets, control : an intervention, window : Nat]   *)
(* whose window is NoWindow when SequenceRule.window_events is None.       *)
(***************************************************************************)
EXTENDS Integers, Sequences

Controls == {"allow", "require_approval", "deny"}
Interventions == {"require_approval", "deny"}
NoWindow == 0

RuleType(Tool, Effect) ==
    [targets : SUBSET Tool, requires : SUBSET Effect,
     control : Interventions, window : Nat]

-----------------------------------------------------------------------------
(* The positions of the trace a rule looks at: events[-window_events:].    *)
VisibleFrom(trace, window, i) == window = NoWindow \/ i > Len(trace) - window

Visible(trace, window) == {i \in DOMAIN trace : VisibleFrom(trace, window, i)}

(* Every required effect has a source among the visible events.            *)
Sourced(effects, trace, window) ==
    \A e \in effects : \E i \in Visible(trace, window) : e \in trace[i]

Matches(rule, tool, trace) ==
    tool \in rule.targets /\ Sourced(rule.requires, trace, rule.window)

(* A base denial stands; otherwise the strongest matching rule decides.    *)
EvaluateSequence(rules, tool, trace, base) ==
    LET hits == {rule \in rules : Matches(rule, tool, trace)} IN
    IF base = "deny" \/ hits = {} THEN base
    ELSE IF \E rule \in hits : rule.control = "deny" THEN "deny"
    ELSE "require_approval"

(* How far a control intervenes: evaluation may raise it, never lower it.  *)
Strength(control) ==
    IF control = "deny" THEN 2 ELSE IF control = "require_approval" THEN 1 ELSE 0
=============================================================================
