-------------------------- MODULE MCIntegrationSync --------------------------
(* IntegrationSync for TLC: one adapter of each way of paging; calls are   *)
(* interchangeable.                                                        *)
EXTENDS IntegrationSync, TLC

MCServed == {"ASANA", "MONDAY", "OPENAIR"}

CallSymmetry == Permutations(Calls)
=============================================================================
