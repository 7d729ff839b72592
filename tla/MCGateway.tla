------------------------------ MODULE MCGateway ------------------------------
(***************************************************************************)
(* Small instances of Gateway for TLC.  The names of tools and effects are *)
(* those of the repository's examples: reading a document that holds       *)
(* confidential data, publishing to an outside host, deleting a file.      *)
(***************************************************************************)
EXTENDS GatewayProperties, TLC

CONSTANTS c1, c2, c3, c4, p1, p2, s1, s2, i1, i2, i3, a1, a2

MCPrincipalOf == [s \in Sessions |-> "agent"]
MCEffectsOf == [t \in Tools |-> IF t = "read" THEN {"confidential"} ELSE {"external"}]

Ask(id, nonce, session, tool) ==
    [id |-> id, nonce |-> nonce, session |-> session, tool |-> tool, issued |-> 0]

(* confidential-then-external: denied from the first read on.              *)
DenyLeak == {[targets |-> {"publish"}, requires |-> {"confidential"},
              control |-> "deny", window |-> NoWindow]}
(* ... or an approval is asked for.                                        *)
AskBeforeLeak == {[targets |-> {"publish"}, requires |-> {"confidential"},
                   control |-> "require_approval", window |-> NoWindow]}

(* Two sessions of one agent; an identifier is used twice, and an envelope *)
(* may be delivered twice.                                                 *)
LeakRequests == {Ask(i1, "n1", s1, "read"), Ask(i2, "n2", s1, "publish"),
                 Ask(i2, "n3", s1, "publish"), Ask(i3, "n4", s2, "publish")}

(* One session: a read, and a publication that needs approval after it.    *)
ReadThenPublish == {Ask(i1, "n1", s1, "read"), Ask(i2, "n2", s1, "publish")}

(* Two deletions to approve and a read that may come between.              *)
DeleteTwice == {Ask(i1, "n1", s1, "delete"), Ask(i2, "n2", s1, "delete"),
                Ask(i3, "n3", s1, "read")}

(* One deletion to approve and a read.                                     *)
DeleteAndRead == {Ask(i1, "n1", s1, "delete"), Ask(i3, "n3", s1, "read")}

CallSymmetry == Permutations(Calls)
CallAndProcSymmetry == Permutations(Calls) \cup Permutations(Procs)
=============================================================================
