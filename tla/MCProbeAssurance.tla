--------------------------- MODULE MCProbeAssurance ---------------------------
(***************************************************************************)
(* ProbeAssurance on five tools.                                           *)
(***************************************************************************)
EXTENDS ProbeAssuranceProperties, TLC

(* One tool reads, one fetches, one imports what is both personal and not  *)
(* trusted, one takes notes, one publishes: covering all three effects     *)
(* takes two events.  Another tool has no template.                        *)
MCEffectsOf == [tool \in Tools |->
    IF tool = "read" THEN {"confidential"}
    ELSE IF tool = "fetch" THEN {"untrusted"}
    ELSE IF tool = "import" THEN {"personal", "untrusted"}
    ELSE IF tool = "archive" THEN {"secret"} ELSE {}]
MCToolOf == <<"fetch", "import", "note", "publish", "read">>

Requirement(sinks, sources_, control, window) ==
    [sinks |-> sinks, sources |-> sources_, control |-> control, window |-> window]
Pool ==
    {Requirement(sinks, sources_, control, window) :
        sinks \in {{"publish"}, {"publish", "read"}, {"fetch"}},
        sources_ \in {{"confidential"}, {"confidential", "untrusted"},
                      {"confidential", "personal", "untrusted"}},
        control \in Interventions, window \in 0..3}
Others ==
    {Requirement(sinks, sources_, "deny", window) :
        sinks \in {{"publish"}, {"fetch"}},
        sources_ \in {{"confidential"}, {"confidential", "untrusted"}}, window \in 0..2}

(* No template emits the effect, or uses the sink; every neutral event is  *)
(* itself a sink.                                                          *)
DeadEnds ==
    {Requirement({"publish"}, {"confidential", "secret"}, "deny", 2),
     Requirement({"archive"}, {"confidential"}, "deny", NoWindow),
     Requirement({"fetch", "import", "note", "publish"}, {"confidential"}, "deny", NoWindow)}
MCSuites == {{q, r} : q \in Pool, r \in Others} \cup {{q} : q \in DeadEnds}

(* A requirement of a window as long as its source trace, and one of a     *)
(* window of one event, at the same sink.                                  *)
TiedSuites ==
    {{Requirement({"read"}, {"confidential", "untrusted"}, "deny", 2),
      Requirement({"read"}, {"confidential"}, "deny", 1)}}

(* Policies that do less, or more, than most of the suites say.            *)
MCPolicies ==
    {{},
     {[targets |-> {"publish", "fetch", "read"}, requires |-> {"confidential"},
       control |-> "deny", window |-> NoWindow]}}

(* Full thresholds; thresholds that only ask for some prevention.          *)
Lax == [metric \in DOMAIN Full |-> IF metric = "prevention" THEN 50
                                   ELSE IF metric = "unnecessary" THEN 100 ELSE 0]
MCThresholds == {Full, Lax}

(* Room for every probe; too few sources, events or candidates for some.   *)
MCLimits ==
    {[sources |-> 3, trace |-> 4, candidates |-> 1000],
     [sources |-> 1, trace |-> 3, candidates |-> 60]}
=============================================================================
