---------------------------- MODULE MCRateLimiter ----------------------------
(* Small instances of RateLimiter for TLC.                                 *)
EXTENDS RateLimiter, TLC

CONSTANTS k1, k2, k3

CallerSymmetry == Permutations(Callers)
=============================================================================
