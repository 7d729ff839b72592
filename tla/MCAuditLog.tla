------------------------------ MODULE MCAuditLog ------------------------------
(* Small instances of AuditLog for TLC: two writers, two different events. *)
EXTENDS AuditLog, TLC

CONSTANTS w1, w2, x, y

WriterSymmetry == Permutations(Writers)
EventSymmetry == Permutations(Events)
Interchangeable == WriterSymmetry \cup EventSymmetry
=============================================================================
