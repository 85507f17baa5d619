--------------------------- MODULE MCStaffElevation ---------------------------
(* StaffElevation: two requests, one rotation of the session, three time steps. *)
EXTENDS StaffElevation, TLC

CONSTANTS r1, r2

Symmetry == Permutations(Requests)
=============================================================================
