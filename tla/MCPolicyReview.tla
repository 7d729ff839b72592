---------------------------- MODULE MCPolicyReview ----------------------------
(***************************************************************************)
(* PolicyReview on three tools.                                            *)
(***************************************************************************)
EXTENDS PolicyReviewProperties, TLC

(* Reading confidential data, fetching untrusted data, publishing.         *)
MCEffectsOf == [tool \in Tools |->
    IF tool = "read" THEN {"confidential"} ELSE IF tool = "fetch" THEN {"untrusted"} ELSE {}]
MCToolOf == <<"fetch", "publish", "read">>

Rule(targets, effects, control, window) ==
    [targets |-> targets, requires |-> effects, control |-> control, window |-> window]
Publishing(effects, control, window) == Rule({"publish"}, effects, control, window)
NoReading == Rule({"read"}, {"untrusted"}, "deny", NoWindow)

(* Policies of at most two rules: a leak is stopped with more or less      *)
(* strength and memory, and reading may be stopped after untrusted data.   *)
Pool ==
    {Publishing({"confidential"}, "deny", window) : window \in 0..2}
    \cup {Publishing({"confidential"}, "require_approval", window) : window \in 0..1}
    \cup {Publishing({"confidential", "untrusted"}, "deny", NoWindow), NoReading}
    \cup {Publishing({"confidential", "untrusted"}, "require_approval", window) :
            window \in {NoWindow, 2}}
SmallPolicies == {{a, b} : a \in Pool, b \in Pool} \cup {{}}

(* In use: nothing, a rule that asks too often, a rule that only stops     *)
(* another event.                                                          *)
MCBaselines ==
    {{}, {Publishing({"confidential"}, "require_approval", NoWindow)},
     {NoReading}}

(* A leak is denied, however old or when recent, and needs an approval     *)
(* once untrusted data is read too; the last suite's approval can never be *)
(* expected, since a denial always is.                                     *)
Requirement(sources, control, window) ==
    [sinks |-> {"publish"}, sources |-> sources, control |-> control, window |-> window]
MCSuites ==
    {{Requirement({"confidential"}, "deny", NoWindow)},
     {Requirement({"confidential"}, "deny", 1),
      Requirement({"confidential", "untrusted"}, "require_approval", 2)},
     {Requirement({"confidential", "untrusted"}, "deny", NoWindow),
      Requirement({"confidential"}, "require_approval", 2)},
     {Requirement({"confidential"}, "deny", NoWindow),
      Requirement({"confidential", "untrusted"}, "require_approval", NoWindow)}}
MCThresholds == {Full, None}
=============================================================================
