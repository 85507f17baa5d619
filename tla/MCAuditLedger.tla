---------------------------- MODULE MCAuditLedger ----------------------------
(* AuditLedger on up to four requests of tenants whose names all hash to one lock
   key; the appends of the last tenant do not honour the lock. *)
EXTENDS AuditLedger, TLC

CONSTANTS r1, r2, r3, r4, o1, o2, o3, k1

SharedKey == [o \in Orgs |-> k1]

\* One server's clock far ahead of another's.
SkewedClock == {0, 5}

Symmetry == Permutations(Requests)
=============================================================================
