----------------------------- MODULE AuditLedger -----------------------------
(***************************************************************************)
(* The hash-chained compliance ledger: recordLedgerEvent of                *)
(* src/lib/audit-ledger.ts, run by concurrent governance actions against   *)
(* one Postgres database (read committed, one transaction per append).     *)
(*                                                                         *)
(* A request performs one governance action for one tenant and records one *)
(* event.  It hands recordLedgerEvent either the `db` singleton (the       *)
(* mutation has committed on its own, the append opens a transaction of    *)
(* its own) or the client of a transaction it has open around the mutation *)
(* (all callers append last, then commit).                                 *)
(*                                                                         *)
(* A row's currentHash is SHA-256 over its whole content: no two events    *)
(* share one, so the event itself stands for the hash of its row.          *)
(***************************************************************************)
EXTENDS Naturals, FiniteSets

CONSTANTS
  Requests,      \* governance actions; each records at most one event
  Orgs,          \* tenants
  Keys,          \* values of hashtext(organizationId)
  LockKey,       \* LockKey[o]: the advisory-lock key of tenant o
  Locked,        \* the tenants whose appends honour the lock; for any other
                 \* tenant only the unique index is left
  Clock,         \* the values Date.now() may return, on any server, in any order
  MaxAttempts,   \* the loop bound of recordLedgerEvent
  None           \* null

ASSUME LedgerAssumption ==
  /\ LockKey \in [Orgs -> Keys]
  /\ Locked \subseteq Orgs
  /\ Clock \subseteq Nat
  /\ MaxAttempts \in Nat \ {0}
  /\ None \notin Requests
  /\ None \notin Orgs

VARIABLES
  ledger,    \* ledger[o]: the committed rows of tenant o
  holder,    \* holder[k]: the request whose transaction holds advisory lock k
  pc,        \* where a request is inside recordLedgerEvent
  org,       \* the tenant a request acts for
  via,       \* the client it passed: "db" or "tx"
  attempt,   \* failed attempts so far
  head,      \* the event of the head row it read (None: empty chain)
  headAt,    \* the createdAt of that row, 0 when there is none
  row,       \* the row it inserted and has not committed
  sequence,  \* the sequence number it was told
  result,    \* what recordLedgerEvent returned: "none" yet, "recorded", "null"
  mutation   \* the governed mutation: "none", "open", "committed", "lost"

vars == <<ledger, holder, pc, org, via, attempt, head, headAt, row, sequence,
          result, mutation>>

input == <<org, via>>

Row == [event : Requests, prev : Requests \cup {None}, at : Nat]

Init ==
  /\ ledger = [o \in Orgs |-> {}]
  /\ holder = [k \in Keys |-> None]
  /\ pc = [r \in Requests |-> "idle"]
  /\ org = [r \in Requests |-> None]
  /\ via = [r \in Requests |-> "db"]
  /\ attempt = [r \in Requests |-> 0]
  /\ head = [r \in Requests |-> None]
  /\ headAt = [r \in Requests |-> 0]
  /\ row = [r \in Requests |-> None]
  /\ sequence = [r \in Requests |-> 0]
  /\ result = [r \in Requests |-> "none"]
  /\ mutation = [r \in Requests |-> "none"]

(***************************************************************************)
(* Helpers                                                                 *)
(***************************************************************************)
\* The statements a request can be at inside an append transaction.
Statements == {"lock", "head", "insert", "count"}

\* Inserted, not yet committed.
Uncommitted == {"count", "commit"}

\* Mutant: pg_advisory_lock, kept by the connection past its transaction.
ReleaseNothing(r) == UNCHANGED holder

\* Locks are released when the transaction ends, however it ends.
Release(r) == holder' = [k \in Keys |-> IF holder[k] = r THEN None ELSE holder[k]]

\* The row findFirst returns ordered by createdAt descending.
IsHead(h, o) == h \in ledger[o] /\ \A s \in ledger[o] : s.at <= h.at

Larger(a, b) == IF a >= b THEN a ELSE b

\* A row that claims the predecessor p; the index exempts NULL.
Claims(s, p) == p # None /\ s.prev = p

\* Postgres makes an insert wait while another transaction holds the same key.
KeyContended(r) == \E q \in Requests \ {r} :
                     pc[q] \in Uncommitted /\ org[q] = org[r] /\ Claims(row[q], head[r])

\* Mutant: the migration that creates the unique index is missing.
KeyNeverTaken(r) == FALSE

KeyTaken(r) == \E s \in ledger[org[r]] : Claims(s, head[r])

(***************************************************************************)
(* One request                                                             *)
(***************************************************************************)
\* The governed mutation, then the call.  With `db` it is committed by now.
Begin(r, o, v) ==
  /\ pc[r] = "idle"
  /\ pc' = [pc EXCEPT ![r] = "lock"]
  /\ org' = [org EXCEPT ![r] = o]
  /\ via' = [via EXCEPT ![r] = v]
  /\ mutation' = [mutation EXCEPT ![r] = IF v = "db" THEN "committed" ELSE "open"]
  /\ UNCHANGED <<ledger, holder, attempt, head, headAt, row, sequence, result>>

\* Mutant: the advisory lock is not taken.
SkipLock(r) ==
  /\ pc[r] = "lock"
  /\ pc' = [pc EXCEPT ![r] = "head"]
  /\ UNCHANGED <<ledger, holder, input, attempt, head, headAt, row, sequence, result, mutation>>

\* SELECT pg_advisory_xact_lock(hashtext(organizationId))
AcquireLock(r) ==
  /\ pc[r] = "lock"
  /\ IF org[r] \in Locked
     THEN /\ holder[LockKey[org[r]]] = None
          /\ holder' = [holder EXCEPT ![LockKey[org[r]]] = r]
     ELSE UNCHANGED holder
  /\ pc' = [pc EXCEPT ![r] = "head"]
  /\ UNCHANGED <<ledger, input, attempt, head, headAt, row, sequence, result, mutation>>

ReadHead(r) ==
  /\ pc[r] = "head"
  /\ \/ /\ ledger[org[r]] = {}
        /\ head' = [head EXCEPT ![r] = None]
        /\ headAt' = [headAt EXCEPT ![r] = 0]
     \/ \E h \in ledger[org[r]] :
          /\ IsHead(h, org[r])
          /\ head' = [head EXCEPT ![r] = h.event]
          /\ headAt' = [headAt EXCEPT ![r] = h.at]
  /\ pc' = [pc EXCEPT ![r] = "insert"]
  /\ UNCHANGED <<ledger, holder, input, attempt, row, sequence, result, mutation>>

\* Mutants: the server's clock alone; a row that may share its head's time.
ClockAlone(r, now) == now
NotPastTheHead(r, now) == Larger(now, headAt[r])

\* createdAt is pushed past the head's, whatever this server's clock says.
CreatedAt(r, now) == Larger(now, headAt[r] + 1)

\* Mutant: ON CONFLICT DO NOTHING.
InsertOrIgnore(r, now) ==
  /\ pc[r] = "insert"
  /\ ~KeyContended(r)
  /\ row' = IF KeyTaken(r) THEN row
            ELSE [row EXCEPT ![r] = [event |-> r, prev |-> head[r], at |-> CreatedAt(r, now)]]
  /\ pc' = [pc EXCEPT ![r] = "count"]
  /\ UNCHANGED <<ledger, holder, input, attempt, head, headAt, sequence, result, mutation>>

Insert(r, now) ==
  /\ pc[r] = "insert"
  /\ ~KeyContended(r)
  /\ ~KeyTaken(r)
  /\ row' = [row EXCEPT ![r] =
               [event |-> r, prev |-> head[r], at |-> CreatedAt(r, now)]]
  /\ pc' = [pc EXCEPT ![r] = "count"]
  /\ UNCHANGED <<ledger, holder, input, attempt, head, headAt, sequence, result, mutation>>

\* Mutants: the new row is left out of the count; it commits before the caller does.
CountWithoutOwn(r) ==
  /\ pc[r] = "count"
  /\ sequence' = [sequence EXCEPT ![r] = Cardinality(ledger[org[r]])]
  /\ pc' = [pc EXCEPT ![r] = "commit"]
  /\ result' = [result EXCEPT ![r] = IF via[r] = "tx" THEN "recorded" ELSE @]
  /\ UNCHANGED <<ledger, holder, input, attempt, head, headAt, row, mutation>>

CountAfterCommit(r) ==
  /\ pc[r] = "count"
  /\ ledger' = [ledger EXCEPT ![org[r]] = @ \cup {row[r]}]
  /\ sequence' = [sequence EXCEPT ![r] = Cardinality(ledger'[org[r]])]
  /\ pc' = [pc EXCEPT ![r] = "commit"]
  /\ result' = [result EXCEPT ![r] = IF via[r] = "tx" THEN "recorded" ELSE @]
  /\ UNCHANGED <<holder, input, attempt, head, headAt, row, mutation>>

\* The row's place is counted inside the transaction: its own row and the committed ones.
Count(r) ==
  /\ pc[r] = "count"
  /\ sequence' = [sequence EXCEPT ![r] = Cardinality(ledger[org[r]]) + 1]
  /\ pc' = [pc EXCEPT ![r] = "commit"]
  /\ result' = [result EXCEPT ![r] = IF via[r] = "tx" THEN "recorded" ELSE @]
  /\ UNCHANGED <<ledger, holder, input, attempt, head, headAt, row, mutation>>

\* COMMIT of the append's own transaction, or of the caller's.
Commit(r) ==
  /\ pc[r] = "commit"
  /\ ledger' = [ledger EXCEPT ![org[r]] = @ \cup {row[r]}]
  /\ row' = [row EXCEPT ![r] = None]
  /\ Release(r)
  /\ pc' = [pc EXCEPT ![r] = "done"]
  /\ result' = [result EXCEPT ![r] = "recorded"]
  /\ mutation' = [mutation EXCEPT ![r] = "committed"]
  /\ UNCHANGED <<input, attempt, head, headAt, sequence>>

\* The own transaction rolls back on any error and the error is swallowed ...
Swallow(r) ==
  /\ result' = [result EXCEPT ![r] = "null"]
  /\ row' = [row EXCEPT ![r] = None]
  /\ IF via[r] = "db"
     THEN pc' = [pc EXCEPT ![r] = "done"] /\ Release(r)
     \* ... in the caller's, the failed statement leaves the transaction aborted.
     ELSE pc' = [pc EXCEPT ![r] = "aborted"] /\ UNCHANGED holder

\* P2002 on (organizationId, previousHash): an own transaction is retried.
Collide(r) ==
  /\ pc[r] = "insert"
  /\ ~KeyContended(r)
  /\ KeyTaken(r)
  /\ IF via[r] = "db" /\ attempt[r] + 1 < MaxAttempts
     THEN /\ attempt' = [attempt EXCEPT ![r] = @ + 1]
          /\ pc' = [pc EXCEPT ![r] = "lock"]
          /\ Release(r)
          /\ UNCHANGED <<row, result>>
     ELSE Swallow(r) /\ UNCHANGED attempt
  /\ UNCHANGED <<ledger, input, head, headAt, sequence, mutation>>

\* Any other error of a statement: a timeout, a lost connection.
StatementFails(r) ==
  /\ pc[r] \in Statements
  /\ Swallow(r)
  /\ UNCHANGED <<ledger, input, attempt, head, headAt, sequence, mutation>>

\* The COMMIT of an own transaction fails; it is caught like any other error.
CommitFails(r) ==
  /\ pc[r] = "commit" /\ via[r] = "db"
  /\ Swallow(r)
  /\ UNCHANGED <<ledger, input, attempt, head, headAt, sequence, mutation>>

\* The caller, told nothing, commits: Postgres answers COMMIT with ROLLBACK.
CommitAborted(r) ==
  /\ pc[r] = "aborted"
  /\ pc' = [pc EXCEPT ![r] = "done"]
  /\ mutation' = [mutation EXCEPT ![r] = "lost"]
  /\ Release(r)
  /\ UNCHANGED <<ledger, input, attempt, head, headAt, row, sequence, result>>

\* The server dies, or the caller's transaction times out: everything open rolls back.
Crash(r) ==
  /\ pc[r] \in Statements \cup {"commit"}
  /\ pc' = [pc EXCEPT ![r] = "done"]
  /\ row' = [row EXCEPT ![r] = None]
  /\ mutation' = [mutation EXCEPT ![r] = IF @ = "open" THEN "lost" ELSE @]
  /\ Release(r)
  /\ UNCHANGED <<ledger, input, attempt, head, headAt, sequence, result>>

Step(r) ==
  \/ AcquireLock(r) \/ ReadHead(r) \/ (\E now \in Clock : Insert(r, now))
  \/ Count(r) \/ Commit(r) \/ Collide(r) \/ CommitAborted(r)

Fault(r) == StatementFails(r) \/ CommitFails(r) \/ Crash(r)

\* Nothing is left to do.
Finished == (\A r \in Requests : pc[r] = "done") /\ UNCHANGED vars

Next ==
  \/ \E r \in Requests :
       \/ \E o \in Orgs, v \in {"db", "tx"} : Begin(r, o, v)
       \/ Step(r)
       \/ Fault(r)
  \/ Finished

Spec == Init /\ [][Next]_vars

\* A transaction's next statement runs; the lock manager's queue is fair.
Fairness ==
  \A r \in Requests : WF_vars(Step(r)) /\ SF_vars(AcquireLock(r))

FairSpec == Spec /\ Fairness

(***************************************************************************)
(* Properties                                                              *)
(***************************************************************************)
TypeOK ==
  /\ ledger \in [Orgs -> SUBSET Row]
  /\ \A o \in Orgs : IsFiniteSet(ledger[o])
  /\ holder \in [Keys -> Requests \cup {None}]
  /\ pc \in [Requests -> Statements \cup {"idle", "commit", "aborted", "done"}]
  /\ org \in [Requests -> Orgs \cup {None}]
  /\ \A r \in Requests : pc[r] # "idle" => org[r] \in Orgs
  /\ \A r \in Requests : pc[r] \in Uncommitted => row[r] \in Row
  /\ via \in [Requests -> {"db", "tx"}]
  /\ attempt \in [Requests -> 0 .. MaxAttempts - 1]
  /\ head \in [Requests -> Requests \cup {None}]
  /\ headAt \in [Requests -> Nat]
  /\ row \in [Requests -> Row \cup {None}]
  /\ sequence \in [Requests -> Nat]
  /\ result \in [Requests -> {"none", "recorded", "null"}]
  /\ mutation \in [Requests -> {"none", "open", "committed", "lost"}]

\* verifyLedgerIntegrity walks the rows by createdAt and expects each to name
\* the hash of the one just before it: the first row none, every other row the
\* latest of the rows before it.
Latest(p, s, rows) == p.at < s.at /\ \A t \in rows : t.at <= p.at \/ t.at >= s.at

LinkHolds(s, rows) ==
  IF s.prev = None
  THEN \A t \in rows : t.at >= s.at
  ELSE \E p \in rows : p.event = s.prev /\ Latest(p, s, rows)

VerifyLedgerIntegrity(o) == \A s \in ledger[o] : LinkHolds(s, ledger[o])

\* The verifier accepts every committed state of a locked tenant's chain, however
\* appends interleave, whichever transactions they run in, whatever is rolled
\* back between them and however far the servers' clocks disagree.
ChainVerifies == \A o \in Locked : VerifyLedgerIntegrity(o)

\* No two rows of a tenant, locked or not, name the same predecessor (the genesis
\* row, which the index exempts, aside): the chain never forks after its first row.
NoForkAfterGenesis ==
  \A o \in Orgs : \A s, t \in ledger[o] : Claims(s, t.prev) => s = t

\* The ledger's order is never ambiguous: no two rows of a tenant share a createdAt.
NoAmbiguousOrder ==
  \A o \in Locked : \A s, t \in ledger[o] : s.at = t.at => s = t

\* The sequence number handed back for an event is its row's place in the chain,
\* though it is counted before the row commits.
SequenceIsPosition ==
  \A o \in Locked : \A s \in ledger[o] :
    sequence[s.event] = Cardinality({t \in ledger[o] : t.at <= s.at})

\* An entry recorded in its action's own transaction is there if and only if the
\* action took effect: never an entry for an action that rolled back, never an
\* action that committed past an entry it was told was recorded.
EntryMatchesMutation ==
  \A r \in Requests :
    pc[r] = "done" /\ via[r] = "tx" =>
      ((mutation[r] = "committed") <=> \E s \in ledger[org[r]] : s.event = r)

\* A committed row is never changed or removed, and a new one never lands before it.
AppendOnly ==
  [][\A o \in Locked :
       /\ ledger[o] \subseteq ledger'[o]
       /\ \A s \in ledger'[o] \ ledger[o] : \A t \in ledger[o] : t.at < s.at]_vars

\* Every action that has begun its append is answered: no lock is kept past the
\* transaction that took it, and no one waits for one forever.
Settles == \A r \in Requests : pc[r] # "idle" ~> pc[r] = "done"

\* As documented: "a ledger write must never block the governance action it
\* records, so failures are logged and swallowed".
NeverBlocksTheAction ==
  \A r \in Requests : pc[r] = "done" /\ result[r] = "null" => mutation[r] = "committed"

(***************************************************************************)
(* Refinement, for the locked tenants: a committed row is a journal entry  *)
(* under the number its caller was told; an open mutation has not taken    *)
(* effect.                                                                 *)
(***************************************************************************)
Journal == INSTANCE GovernanceJournal WITH
  Actions <- Requests,
  Tenants <- Locked,
  journal <- [o \in Locked |-> {[no |-> sequence[s.event], event |-> s.event] : s \in ledger[o]}],
  effect <- [r \in Requests |-> IF mutation[r] = "open" THEN "none" ELSE mutation[r]]

\* The ledger, seen through committed rows and finished mutations, behaves as an
\* append-only numbered journal of actions that took effect.
ImplementsJournal == Journal!JSpec
=============================================================================
