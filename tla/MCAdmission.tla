----------------------------- MODULE MCAdmission -----------------------------
(* Small instances of Admission for TLC: envelopes of one tool, of which   *)
(* two have the same nonce.                                                *)
EXTENDS Admission, TLC

CONSTANTS k1, k2, e1, e2, e3, e4

MCNonceOf == [e \in Envelopes |-> IF e = e1 THEN "n1" ELSE IF e = e4 THEN "n3" ELSE "n2"]
MCIssuedAt == [e \in Envelopes |-> IF e = e1 THEN 1 ELSE IF e = e2 THEN 0 ELSE 3]

CallerSymmetry == Permutations(Callers)
=============================================================================
