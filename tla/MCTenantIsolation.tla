-------------------------- MODULE MCTenantIsolation ---------------------------
(* TenantIsolation for TLC: two tenants, a row of the second, a key nobody    *)
(* has used, a grant of the first, and a pool of two connections.             *)
EXTENDS TenantIsolation, TLC

CONSTANTS r1, r2, t1, t2, b, c, g

From(kind, tenant) == [via |-> kind, home |-> tenant]

MCArrivals == {(r1 :> From("session", t1)) @@ (r2 :> From("ops", None)),
               (r1 :> From("key", t2)) @@ (r2 :> From("none", None))}

MCSeeded == (b :> t2) @@ (c :> None) @@ (g :> t1)

Op(kind, id, named, given) ==
  [kind |-> kind, model |-> IF id = g THEN "grant" ELSE "tenant", id |-> id, org |-> named, data |-> given]

MCOps == {Op("findMany", None, t2, None), Op("findUnique", b, t2, None),
          Op("create", c, None, t2), Op("delete", b, None, None),
          Op("upsert", c, None, None), Op("updateMany", g, None, None)}
=============================================================================
