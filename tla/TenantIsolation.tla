--------------------------- MODULE TenantIsolation ---------------------------
(* The data-access layer: which tenant a database operation runs for, how it  *)
(* is rewritten, as which database role it runs, and the connections it needs. *)
(* A request asks the client for operations in its own words; two extensions  *)
(* sit between them and the database.  The one added first is the outer one:  *)
(* it rewrites an operation to the tenant, and sends a read by unique key to  *)
(* the client under both.  The inner one (with RLS_ENFORCE=1) wraps a bare    *)
(* operation in a transaction of the tenant's role, through a client that has *)
(* the rewriting again.  Row-level policies are the database's own check.     *)
(* Identity tables, which no extension scopes, are not modelled.              *)
EXTENDS Naturals, FiniteSets

CONSTANTS Requests, Tenants,
          TenantRows,      \* rows of the models with an organizationId and a tenant policy
          Grants,          \* impersonation grants: an organizationId, and closed to the tenant role
          Ops,             \* what requests ask for
          Arrivals,        \* who the requests come from: request -> [via, home]
          Seeded,          \* row -> tenant, or None while nobody has that key
          Connections,     \* connection_limit of the pool
          MaxCalls,        \* operations in a behaviour (bound)
          Admin, Owner, None

Rows == TenantRows \cup Grants

\* id: the key asked for, or None; org: the tenant named in the where clause;
\* data: the tenant named in the data.
Kinds == {"findMany", "findUnique", "create", "update", "delete", "updateMany", "upsert"}
OpType == [kind : Kinds, model : {"tenant", "grant"}, id : Rows \cup {None},
           org : Tenants \cup {None}, data : Tenants \cup {None}]

ASSUME Distinct == Admin # Owner /\ {Admin, Owner, None} \cap Tenants = {} /\ None \notin {Admin, Owner}
ASSUME RowsAssumption == TenantRows \cap Grants = {} /\ None \notin Rows /\ Seeded \in [Rows -> Tenants \cup {None}]
\* No caller names a tenant in the data of an updateMany, and a row is created
\* or written by a key.
ASSUME OpsAssumption ==
  /\ Ops \subseteq OpType
  /\ \A o \in Ops : /\ o.id = None => o.kind \in {"findMany", "updateMany"}
                    /\ o.kind \in {"findMany", "findUnique", "delete", "updateMany"} => o.data = None
                    /\ o.id # None => o.id \in IF o.model = "grant" THEN Grants ELSE TenantRows
ASSUME ArrivalsAssumption ==
  Arrivals \subseteq [Requests -> [via : {"session", "key"}, home : Tenants]
                                  \cup [via : {"ops", "none"}, home : {None}]]
ASSUME PoolAssumption == Connections \in Nat \ {0} /\ MaxCalls \in Nat

VARIABLES rls,      \* whether RLS_ENFORCE is 1
          via,      \* "session", "key" (an API key), "ops" (the console) or "none"
          home,     \* the tenant a session or a key resolves to, None for the others
          cell,     \* the scope stored in the request's async context
          saved,    \* in runUnscoped: the scope it goes back to
          unscoped, \* in runUnscoped
          opening,  \* None or the transaction waiting for a connection
          tx,       \* None or the open transaction: [as, for, known]
          call,     \* None or the operation under way: [op, scope, known, looks]
          held,     \* connections the request holds
          org,      \* row -> tenant or None
          ended,    \* grants that were ended
          done,     \* None or the operation just answered: [by, call, as, known, homes, unscoped, ok]
          calls

vars == <<rls, via, home, cell, saved, unscoped, opening, tx, call, held, org, ended, done, calls>>

\* known: whether the scope was found when the role was chosen (history).
Transactions == [as : Tenants \cup {Owner}, for : Tenants \cup {None}, known : BOOLEAN]

\* known: whether the second extension found the scope; looks: the scope is still
\* to be read from the database by a request that is inside a transaction.
Calls == [op : Ops, scope : Tenants \cup {Admin}, known : BOOLEAN, looks : BOOLEAN]

ASSUME NoneIsNoCall == None \notin Calls

(* ------------------------------ the request's scope ---------------------- *)

\* What the lazy resolver answers: session, membership and staff grant are read
\* from the database, and a read that fails answers nothing.
Resolved(r) ==
  CASE via[r] = "session" -> {home[r], None}
    [] via[r] = "ops" -> {Admin, None}
    [] OTHER -> {None}

\* The cell first, the resolver when it is empty.
ScopesOf(r) == IF cell[r] # None THEN {cell[r]} ELSE Resolved(r)

\* Whether the inner extension, where it asks again, is answered.
Known(r) == IF rls /\ tx[r] = None /\ cell[r] = None THEN BOOLEAN ELSE {TRUE}

Idle(r) == call[r] = None /\ opening[r] = None

\* A guard pins the scope; what it stores may never reach its caller.
EnterScope(r) ==
  /\ Idle(r) /\ tx[r] = None /\ ~unscoped[r] /\ cell[r] = None
  /\ via[r] \in {"session", "ops"}
  /\ cell' = [cell EXCEPT ![r] = IF via[r] = "ops" THEN Admin ELSE home[r]]
  /\ UNCHANGED <<rls, via, home, saved, unscoped, opening, tx, call, held, org, ended, done, calls>>

RunUnscoped(r) ==
  /\ Idle(r) /\ tx[r] = None /\ ~unscoped[r]
  /\ unscoped' = [unscoped EXCEPT ![r] = TRUE]
  /\ saved' = [saved EXCEPT ![r] = cell[r]]
  /\ cell' = [cell EXCEPT ![r] = Admin]
  /\ UNCHANGED <<rls, via, home, opening, tx, call, held, org, ended, done, calls>>

\* Mutant: the cell is left as the callback had it.
KeepScope(r) ==
  /\ Idle(r) /\ tx[r] = None /\ unscoped[r]
  /\ unscoped' = [unscoped EXCEPT ![r] = FALSE]
  /\ saved' = [saved EXCEPT ![r] = None]
  /\ UNCHANGED <<rls, via, home, cell, opening, tx, call, held, org, ended, done, calls>>

LeaveUnscoped(r) ==
  /\ Idle(r) /\ tx[r] = None /\ unscoped[r]
  /\ unscoped' = [unscoped EXCEPT ![r] = FALSE]
  /\ saved' = [saved EXCEPT ![r] = None]
  /\ cell' = [cell EXCEPT ![r] = saved[r]]
  /\ UNCHANGED <<rls, via, home, opening, tx, call, held, org, ended, done, calls>>

(* -------------------------------- transactions --------------------------- *)

\* withTenantTx takes the request's scope; where none is found it takes the
\* request for a cross-tenant one.
WithTenantTx(r) ==
  /\ Idle(r) /\ tx[r] = None
  /\ \E scope \in ScopesOf(r) :
       opening' = [opening EXCEPT ![r] =
         [as |-> IF rls /\ scope \in Tenants THEN scope ELSE Owner, for |-> None, known |-> scope # None]]
  /\ UNCHANGED <<rls, via, home, cell, saved, unscoped, tx, call, held, org, ended, done, calls>>

\* Mutant: nobody checks whose tenant it is.
WithTenantTxForAny(r, t) ==
  /\ Idle(r) /\ tx[r] = None
  /\ opening' = [opening EXCEPT ![r] = [as |-> IF rls THEN t ELSE Owner, for |-> t, known |-> TRUE]]
  /\ UNCHANGED <<rls, via, home, cell, saved, unscoped, tx, call, held, org, ended, done, calls>>

\* withTenantTxFor is given the tenant: the request's own, or any when the
\* request is cross-tenant.
WithTenantTxFor(r, t) ==
  /\ Idle(r) /\ tx[r] = None
  /\ \E scope \in ScopesOf(r) : scope \in {t, Admin}
  /\ opening' = [opening EXCEPT ![r] = [as |-> IF rls THEN t ELSE Owner, for |-> t, known |-> TRUE]]
  /\ UNCHANGED <<rls, via, home, cell, saved, unscoped, tx, call, held, org, ended, done, calls>>

\* Committed or rolled back, the connection goes back to the pool as the owner's.
EndTx(r) ==
  /\ Idle(r) /\ tx[r] # None
  /\ tx' = [tx EXCEPT ![r] = None] /\ held' = [held EXCEPT ![r] = 0]
  /\ UNCHANGED <<rls, via, home, cell, saved, unscoped, opening, call, org, ended, done, calls>>

(* -------------------------------- operations ----------------------------- *)

InTx(r) == tx[r] # None

\* A read by unique key is sent again through the client under both extensions.
Rerouted(c) == c.op.kind = "findUnique" /\ c.scope \in Tenants

\* Mutant: only a pinned scope wraps.
WrappedPinned(r, c) ==
  rls /\ ~InTx(r) /\ ~Rerouted(c) /\ c.known /\ c.scope \in Tenants /\ cell[r] \in Tenants

\* The inner extension: what reaches it of a tenant, outside a transaction, gets
\* a transaction of its own; without a scope it passes as cross-tenant work.
Wrapped(r, c) == rls /\ ~InTx(r) /\ ~Rerouted(c) /\ c.known /\ c.scope \in Tenants

\* The role the statement runs as: a tenant, or the owner who sees every row.
RunsAs(r, c) ==
  IF Rerouted(c) THEN Owner
  ELSE IF InTx(r) THEN tx[r].as
  ELSE IF Wrapped(r, c) THEN c.scope ELSE Owner

\* Mutant: the resolver is asked before the cell.
LooksFirst(r, c) == InTx(r) \/ Wrapped(r, c)

\* The outer extension meets the operation inside a transaction, the request's
\* or the wrapper's, and has to look up its scope there: the reads are the base
\* client's.  (Outside one they hold nothing while they wait.)
Looks(r, c) == cell[r] = None /\ (InTx(r) \/ Wrapped(r, c))

\* Connections the request must hold to go on: one, and a second for what does
\* not run on its transaction.
Needed(r, c) == IF c.looks \/ (InTx(r) /\ Rerouted(c)) THEN 2 ELSE 1

\* What a request asks for: nothing by unique key inside a transaction, and in
\* one opened for a tenant by a cross-tenant request (the ledger's append) only
\* reads and new rows of that tenant.
Asks(r, o, scope) ==
  /\ InTx(r) => o.kind # "findUnique"
  /\ (InTx(r) /\ scope = Admin /\ tx[r].for # None) =>
       o.kind \in {"findMany", "create"} /\ tx[r].for = IF o.kind = "findMany" THEN o.org ELSE o.data

Refused(o, scope) ==
  \/ scope = None
  \/ scope \in Tenants /\ o.kind \in {"create", "update", "upsert"} /\ o.data \notin {None, scope}

\* The operation enters the client: its scope is settled, or it is thrown out.
\* React's cache() may remember the scope for a render, so that nobody looks again.
Issue(r, o) ==
  /\ Idle(r) /\ calls < MaxCalls /\ calls' = calls + 1
  /\ \E scope \in ScopesOf(r), known \in Known(r), looks \in BOOLEAN :
       LET asked == [op |-> o, scope |-> scope, known |-> known, looks |-> looks]
       IN /\ Asks(r, o, scope)
          /\ looks => Looks(r, asked)
          /\ call' = [call EXCEPT ![r] = IF scope = None THEN None ELSE asked]
  /\ done' = None
  /\ UNCHANGED <<rls, via, home, cell, saved, unscoped, opening, tx, held, org, ended>>

\* The lookup inside the transaction gives its connection back; what it did not
\* find is an OrgScopeError.
LookUp(r) ==
  /\ call[r] # None /\ call[r].looks /\ held[r] = 2
  /\ \/ call' = [call EXCEPT ![r].looks = FALSE] /\ held' = [held EXCEPT ![r] = 1]
     \/ call' = [call EXCEPT ![r] = None] /\ held' = [held EXCEPT ![r] = IF InTx(r) THEN 1 ELSE 0]
  /\ UNCHANGED <<rls, via, home, cell, saved, unscoped, opening, tx, org, ended, done, calls>>

\* The row-level policies.
Policy(o, t, as) == as = Owner \/ (o.model = "tenant" /\ t = as)

\* The rewritten where clause.  Beside a unique key the scope replaces the
\* tenant named there, in a filter it is added to it.
UniqueWrites == {"update", "delete", "upsert"}

Where(o, scope, t) ==
  IF scope = Admin THEN o.org \in {None, t}
  ELSE t = scope /\ (o.kind \in UniqueWrites \/ o.org \in {None, t})

Found(o, scope, as) ==
  {i \in IF o.model = "grant" THEN Grants ELSE TenantRows :
     org[i] # None /\ o.id \in {None, i} /\ Where(o, scope, org[i]) /\ Policy(o, org[i], as)}

\* The tenant a created row gets; none is an error.
CreatedFor(o, scope) == IF o.data = None /\ scope \in Tenants THEN scope ELSE o.data

\* A row may be created: nobody has its key, and the policy lets it in.
MayCreate(o, scope, as) ==
  /\ ~Refused(o, scope) /\ o.id # None /\ org[o.id] = None
  /\ CreatedFor(o, scope) # None /\ Policy(o, CreatedFor(o, scope), as)

\* A row is found and may be written as asked.
MayWrite(o, scope, as) ==
  /\ ~Refused(o, scope) /\ Found(o, scope, as) # {}
  /\ o.data # None => Policy(o, o.data, as)

Ready(r) == call[r] # None /\ ~call[r].looks /\ held[r] = Needed(r, call[r])

\* The statement answers, and what was opened for it alone is closed.
Answer(r, homes, ok) ==
  /\ done' = [by |-> r, call |-> call[r], as |-> RunsAs(r, call[r]),
               known |-> IF InTx(r) THEN tx[r].known ELSE call[r].known,
               homes |-> homes, unscoped |-> unscoped[r], ok |-> ok]
  /\ call' = [call EXCEPT ![r] = None]
  /\ held' = [held EXCEPT ![r] = IF InTx(r) THEN 1 ELSE 0]
  /\ UNCHANGED <<rls, via, home, cell, saved, unscoped, opening, tx, calls>>

HomesOf(S) == {org[i] : i \in S}

Read(r) ==
  LET o == call[r].op
  IN /\ Ready(r) /\ o.kind \in {"findMany", "findUnique"}
     /\ Answer(r, HomesOf(Found(o, call[r].scope, RunsAs(r, call[r]))), TRUE)
     /\ UNCHANGED <<org, ended>>

\* create, and an upsert that finds nothing.
Create(r) ==
  LET o == call[r].op
      scope == call[r].scope
      as == RunsAs(r, call[r])
  IN /\ Ready(r) /\ o.kind \in {"create", "upsert"}
     /\ o.kind = "upsert" => Found(o, scope, as) = {}
     /\ MayCreate(o, scope, as)
     /\ org' = [org EXCEPT ![o.id] = CreatedFor(o, scope)]
     /\ Answer(r, {CreatedFor(o, scope)}, TRUE)
     /\ UNCHANGED ended

\* update, and an upsert that finds its row.
Update(r) ==
  LET o == call[r].op
      scope == call[r].scope
      rows == Found(o, scope, RunsAs(r, call[r]))
  IN /\ Ready(r) /\ o.kind \in {"update", "upsert"}
     /\ MayWrite(o, scope, RunsAs(r, call[r]))
     /\ org' = [i \in Rows |-> IF i \in rows /\ o.data # None THEN o.data ELSE org[i]]
     /\ Answer(r, HomesOf(rows) \cup ({o.data} \ {None}), TRUE)
     /\ UNCHANGED ended

Delete(r) ==
  LET o == call[r].op
      rows == Found(o, call[r].scope, RunsAs(r, call[r]))
  IN /\ Ready(r) /\ o.kind = "delete" /\ rows # {}
     /\ org' = [i \in Rows |-> IF i \in rows THEN None ELSE org[i]]
     /\ Answer(r, HomesOf(rows), TRUE)
     /\ UNCHANGED ended

\* Any number of rows, none is no error.  On grants it is endImpersonation.
UpdateMany(r) ==
  LET o == call[r].op
      rows == Found(o, call[r].scope, RunsAs(r, call[r]))
  IN /\ Ready(r) /\ o.kind = "updateMany"
     /\ ended' = ended \cup (rows \cap Grants)
     /\ Answer(r, HomesOf(rows), TRUE)
     /\ UNCHANGED org

\* OrgScopeError, P2025, P2002 or a policy violation.
Fail(r) ==
  LET o == call[r].op
      scope == call[r].scope
      as == RunsAs(r, call[r])
  IN /\ Ready(r)
     /\ \/ o.kind = "create" /\ ~MayCreate(o, scope, as)
        \/ o.kind = "update" /\ ~MayWrite(o, scope, as)
        \/ o.kind = "delete" /\ Found(o, scope, as) = {}
        \/ o.kind = "upsert" /\ ~MayWrite(o, scope, as)
                             /\ (Found(o, scope, as) # {} \/ ~MayCreate(o, scope, as))
     /\ Answer(r, {}, FALSE)
     /\ UNCHANGED <<org, ended>>

(* ----------------------------- the connection pool ----------------------- *)

\* Held counts at most two, so the pool is counted by who holds one and who two.
InUse == Cardinality({r \in Requests : held[r] > 0}) + Cardinality({r \in Requests : held[r] > 1})

Free == InUse < Connections

\* A connection more than the request holds is needed to go on.
Waiting(r) == opening[r] # None \/ (call[r] # None /\ held[r] < Needed(r, call[r]))

\* The transaction opens; its first two statements switch the role.
Open(r) ==
  /\ opening[r] # None /\ Free
  /\ tx' = [tx EXCEPT ![r] = opening[r]] /\ opening' = [opening EXCEPT ![r] = None]
  /\ held' = [held EXCEPT ![r] = 1]
  /\ UNCHANGED <<rls, via, home, cell, saved, unscoped, call, org, ended, done, calls>>

Take(r) ==
  /\ call[r] # None /\ Waiting(r) /\ Free
  /\ held' = [held EXCEPT ![r] = @ + 1]
  /\ UNCHANGED <<rls, via, home, cell, saved, unscoped, opening, tx, call, org, ended, done, calls>>

\* Mutant: only a first connection is waited for with a limit.
TimeOutFirst(r) ==
  /\ Waiting(r) /\ ~Free /\ held[r] = 0
  /\ opening' = [opening EXCEPT ![r] = None] /\ call' = [call EXCEPT ![r] = None]
  /\ UNCHANGED <<rls, via, home, cell, saved, unscoped, tx, held, org, ended, done, calls>>

\* The pool, or the transaction around the statement, gives up; a transaction of
\* the request's own is lost with its connection, or goes on without the lookup.
TimeOut(r) ==
  /\ Waiting(r) /\ ~Free
  /\ opening' = [opening EXCEPT ![r] = None] /\ call' = [call EXCEPT ![r] = None]
  /\ \E left \in {tx[r], None} :
       /\ tx' = [tx EXCEPT ![r] = left]
       /\ held' = [held EXCEPT ![r] = IF left = None THEN 0 ELSE 1]
  /\ UNCHANGED <<rls, via, home, cell, saved, unscoped, org, ended, done, calls>>

(* ------------------------------ the behaviour ---------------------------- *)

\* Requests as their handlers find them: the API wrapper has pinned the key's
\* tenant, and what it stores reaches the handler it calls.
Init ==
  /\ rls \in BOOLEAN
  /\ \E who \in Arrivals : /\ via = [r \in Requests |-> who[r].via]
                          /\ home = [r \in Requests |-> who[r].home]
  /\ cell = [r \in Requests |-> IF via[r] = "key" THEN home[r] ELSE None]
  /\ saved = [r \in Requests |-> None] /\ unscoped = [r \in Requests |-> FALSE]
  /\ opening = [r \in Requests |-> None] /\ tx = opening /\ call = opening /\ done = None
  /\ held = [r \in Requests |-> 0]
  /\ org = Seeded /\ ended = {} /\ calls = 0

\* What the engine and the pool do with what was asked.
Proceed(r) ==
  \/ Open(r) \/ Take(r) \/ LookUp(r) \/ TimeOut(r)
  \/ Read(r) \/ Create(r) \/ Update(r) \/ Delete(r) \/ UpdateMany(r) \/ Fail(r)

Next ==
  \E r \in Requests :
    \/ EnterScope(r) \/ RunUnscoped(r) \/ LeaveUnscoped(r)
    \/ WithTenantTx(r) \/ (\E t \in Tenants : WithTenantTxFor(r, t)) \/ EndTx(r)
    \/ (\E o \in Ops : Issue(r, o))
    \/ Proceed(r)

Spec == Init /\ [][Next]_vars

FairSpec == Spec /\ \A r \in Requests : WF_vars(Proceed(r))

(***************************************************************************)
(* Properties                                                              *)
(***************************************************************************)

\* Scopes, transactions and operations have the shape their declarations give.
TypeOK ==
  /\ rls \in BOOLEAN /\ calls \in Nat
  /\ via \in [Requests -> {"session", "key", "ops", "none"}] /\ home \in [Requests -> Tenants \cup {None}]
  /\ cell \in [Requests -> Tenants \cup {Admin, None}] /\ saved \in [Requests -> Tenants \cup {Admin, None}]
  /\ unscoped \in [Requests -> BOOLEAN] /\ held \in [Requests -> Nat]
  /\ opening \in [Requests -> Transactions \cup {None}] /\ tx \in [Requests -> Transactions \cup {None}]
  /\ call \in [Requests -> Calls \cup {None}]
  /\ org \in [Rows -> Tenants \cup {None}] /\ ended \subseteq Grants

\* Outside runUnscoped a request reads and writes rows of the tenant its
\* session or key stands for and of no other, whatever tenant or key it names,
\* in a transaction or not; without either it touches no row at all.
OperationsStayHome ==
  (done # None /\ ~done.unscoped) =>
    /\ via[done.by] \in {"session", "key"} => done.homes \subseteq {home[done.by]}
    /\ via[done.by] = "none" => done.homes = {}

\* With row-level security on, an operation of a tenant that the database did
\* not check as well is a read by unique key, or one whose tenant was not found
\* when its role was chosen, although it was found for the rewriting.
OwnerRunsAreExplained ==
  (rls /\ done # None /\ done.call.scope \in Tenants /\ done.as = Owner) =>
    done.call.op.kind = "findUnique" \/ ~done.known

\* As the bridge is documented, "every tenant-scoped database operation is run
\* inside a transaction" of the tenant's role.
PoliciesSeeEverything ==
  (rls /\ done # None /\ done.call.scope \in Tenants) => done.as # Owner

\* The two belts agree: on tenant rows the policies never hide or refuse what
\* the rewritten operation may touch, in a transaction opened for a tenant too.
PoliciesChangeNothing ==
  \A r \in Requests :
    (call[r] # None /\ call[r].op.model = "tenant") =>
      LET o == call[r].op
          scope == call[r].scope
          as == RunsAs(r, call[r])
      IN /\ o.kind # "create" => /\ Found(o, scope, as) = Found(o, scope, Owner)
                                 /\ MayWrite(o, scope, as) = MayWrite(o, scope, Owner)
         /\ o.kind \in {"create", "upsert"} => MayCreate(o, scope, as) = MayCreate(o, scope, Owner)

\* As the action is documented, "Ends an impersonation grant": who ends one from the
\* workspace it is in has ended it.
EndingEnds ==
  (done # None /\ done.ok /\ done.call.op.kind = "updateMany" /\ done.call.op.id \in Grants) =>
    LET grant == done.call.op.id
    IN (org[grant] = done.call.scope /\ done.call.op.org = None) => grant \in ended

\* Requests that hold every connection and all wait for one more come from a
\* session or the console, have no scope pinned, and are inside a transaction, of
\* their own or of the wrapper: an API call, or work in runUnscoped, is never one.
PoolStallsOnLookups ==
  (~Free /\ \A r \in Requests : held[r] > 0 => Waiting(r)) =>
    \A r \in Requests : held[r] > 0 =>
      /\ via[r] \in {"session", "ops"} /\ cell[r] = None
      /\ InTx(r) \/ (rls /\ call[r].scope = home[r])

\* Every operation and every transaction that was asked for is answered or
\* given up, stalled pool or not.
EveryCallSettles == \A r \in Requests : []<>Idle(r)
=============================================================================
