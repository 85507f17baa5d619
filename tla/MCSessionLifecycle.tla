------------------------- MODULE MCSessionLifecycle -------------------------
(* SessionLifecycle: two devices, two bumps of the version, two seconds. *)
EXTENDS SessionLifecycle, TLC

CONSTANTS d1, d2, p1, p2

Symmetry == Permutations(Devices) \cup Permutations(Passwords)
=============================================================================
