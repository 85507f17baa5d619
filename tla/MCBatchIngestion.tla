--------------------------- MODULE MCBatchIngestion ---------------------------
(* BatchIngestion: a file of two rows, two names, two calls after it. *)
EXTENDS BatchIngestion, TLC

CONSTANTS r1, r2, n1, n2

Symmetry == Permutations(Calls) \cup Permutations(Names)
=============================================================================
