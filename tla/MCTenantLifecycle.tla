-------------------------- MODULE MCTenantLifecycle --------------------------
(* TenantLifecycle for TLC: requests are interchangeable. *)
EXTENDS TenantLifecycle, TLC

RequestSymmetry == Permutations(Requests)
=============================================================================
