--------------------------- MODULE IntegrationSync ---------------------------
(***************************************************************************)
(* The connections of tenants to external systems: configured, tested,     *)
(* synced by hand and deleted by operators (server/actions/integrations),  *)
(* and synced by the sweep (api/internal/integrations-sync), through the   *)
(* one runSync (lib/integrations/sync-runner).                             *)
(*                                                                         *)
(* Nothing locks a connection: calls and sweeps run side by side, and a    *)
(* sync holds nothing while it waits for the external system.  The limiter *)
(* and the authorization are left out, and so are the ledger events of an  *)
(* operator's call: they come last and go to another table.  A connection  *)
(* keeps its provider.                                                     *)
(***************************************************************************)
EXTENDS IntegrationAdapters, FiniteSets

CONSTANTS
  Connections,  \* ids of connections
  Calls,        \* calls of an operator at a time
  Sweeps,       \* sweeps at a time
  MaxPages,     \* MAX_PAGES_PER_RUN
  Served        \* the providers the connections may have

ASSUME IntegrationAssumption ==
  /\ Calls \cap Sweeps = {}
  /\ MaxPages \in Nat \ {0}
  /\ Served \subseteq Providers

VARIABLES
  provider,  \* provider[c]
  conn,      \* conn[c]: the IntegrationConnection
  runs,      \* runs[c]: the statuses of its IntegrationSyncRun rows
  errlog,    \* errlog[c]: whether it has an IntegrationError row
  lost,      \* lost[c]: history, how a sync ended that left it SYNCING
  run        \* the calls and the sweeps

vars == <<provider, conn, runs, errlog, lost, run>>

Runners == Calls \cup Sweeps

Outcome == {"SUCCESS", "PARTIAL", "FAILED"}

\* "none" is an id not yet given, "deleted" one never given again.  A secret is foreign
\* when it was sealed under another NEXTAUTH_SECRET.  due says that the interval is over.
Connection ==
  [status : {"none", "NOT_CONFIGURED", "CONNECTED", "SYNCING", "ERROR", "deleted"},
   secret : {"none", "sealed", "foreign"}, due : BOOLEAN, last : Outcome \cup {"none"}]

\* A call or a sweep: on which connection, the secret it has read, the pages it has
\* pulled, whether a record was ingested and an error met, and what a sweep still has
\* to do.
Runner ==
  [pc : {"idle", "begun", "read", "marked", "pulling", "pulled", "passed", "refused",
         "noted", "next", "dead"},
   kind : {"none", "update", "test", "delete", "sync"},
   on : Connections \cup {"none"}, secret : {"none", "sealed", "foreign"},
   pages : 0 .. MaxPages, got : BOOLEAN, bad : BOOLEAN, queue : SUBSET Connections]

Idle == [pc |-> "idle", kind |-> "none", on |-> "none", secret |-> "none",
         pages |-> 0, got |-> FALSE, bad |-> FALSE, queue |-> {}]

Init ==
  /\ provider \in [Connections -> Served]
  /\ conn = [c \in Connections |->
               [status |-> "none", secret |-> "none", due |-> TRUE, last |-> "none"]]
  /\ runs = [c \in Connections |-> {}]
  /\ errlog = [c \in Connections |-> FALSE]
  /\ lost = [c \in Connections |-> "none"]
  /\ run = [x \in Runners |-> Idle]

(***************************************************************************)
(* Helpers                                                                 *)
(***************************************************************************)
Exists(c) == conn[c].status \notin {"none", "deleted"}

At(x, kind, pc) == run[x].kind = kind /\ run[x].pc = pc

Continue(x, r) == run' = [run EXCEPT ![x] = r]

Goto(x, pc) == Continue(x, [run[x] EXCEPT !.pc = pc])

\* The call is over; a sweep goes on, whether or not runSync has thrown.
End(x) ==
  Continue(x, IF x \in Sweeps THEN [Idle EXCEPT !.pc = "next", !.queue = run[x].queue] ELSE Idle)

\* The sync x leaves its connection as it is.
Strand(x, how) ==
  lost' = IF conn[run[x].on].status = "SYNCING" THEN [lost EXCEPT ![run[x].on] = how] ELSE lost

SetStatus(c, status) ==
  /\ conn' = [conn EXCEPT ![c].status = status]
  /\ lost' = [lost EXCEPT ![c] = "none"]

(***************************************************************************)
(* An operator's calls                                                     *)
(***************************************************************************)
\* upsertIntegrationConnection without an id.
Create(c, secret) ==
  /\ conn[c].status = "none"
  /\ conn' = [conn EXCEPT ![c].status = IF secret THEN "CONNECTED" ELSE "NOT_CONFIGURED",
                          ![c].secret = IF secret THEN "sealed" ELSE "none"]
  /\ UNCHANGED <<provider, runs, errlog, lost, run>>

Begin(x, kind, c) ==
  /\ x \in Calls /\ run[x].pc = "idle" /\ conn[c].status # "none"
  /\ Continue(x, [Idle EXCEPT !.pc = "begun", !.kind = kind, !.on = c])
  /\ UNCHANGED <<provider, conn, runs, errlog, lost>>

\* Every one of them, and runSync, first reads the connection; what it has read of the
\* secret is what it uses.  If it is gone there is nothing to do.
ReadConnection(x) ==
  /\ run[x].pc = "begun"
  /\ IF Exists(run[x].on)
     THEN Continue(x, [run[x] EXCEPT !.pc = "read", !.secret = conn[run[x].on].secret])
     ELSE End(x)
  /\ UNCHANGED <<provider, conn, runs, errlog, lost>>

\* The rest of the update: a new credential makes it CONNECTED, a blank one leaves
\* secret and status alone.  On a row deleted meanwhile the statement throws.
Update(x, secret) ==
  /\ At(x, "update", "read")
  /\ IF Exists(run[x].on) /\ secret
     THEN /\ conn' = [conn EXCEPT ![run[x].on].status = "CONNECTED", ![run[x].on].secret = "sealed"]
          /\ lost' = [lost EXCEPT ![run[x].on] = "none"]
     ELSE UNCHANGED <<conn, lost>>
  /\ End(x)
  /\ UNCHANGED <<provider, runs, errlog>>

\* deleteIntegrationConnection: runs and errors go with it.
Delete(x) ==
  /\ At(x, "delete", "read")
  /\ IF Exists(run[x].on)
     THEN /\ conn' = [conn EXCEPT ![run[x].on] =
                        [status |-> "deleted", secret |-> "none", due |-> FALSE, last |-> "none"]]
          /\ runs' = [runs EXCEPT ![run[x].on] = {}]
          /\ errlog' = [errlog EXCEPT ![run[x].on] = FALSE]
          /\ lost' = [lost EXCEPT ![run[x].on] = "none"]
     ELSE UNCHANGED <<conn, runs, errlog, lost>>
  /\ End(x)
  /\ UNCHANGED provider

\* testIntegrationConnection: a secret that does not open throws, and nothing is
\* written; without a secret the adapter refuses; the connection is not held while the
\* external system takes its time.
Probe(x, how) ==
  /\ At(x, "test", "read")
  /\ CASE run[x].secret = "foreign" -> how = "thrown"
       [] run[x].secret = "none" -> how = "refused"
       [] OTHER -> TRUE
  /\ IF how = "thrown" THEN End(x) ELSE Goto(x, how)
  /\ UNCHANGED <<provider, conn, runs, errlog, lost>>

\* Mutant: the status is written first, the error after it.
DegradeThenNote(x) ==
  /\ At(x, "test", "refused")
  /\ IF Exists(run[x].on)
     THEN SetStatus(run[x].on, "ERROR") /\ Goto(x, "noted")
     ELSE End(x) /\ UNCHANGED <<conn, lost>>
  /\ UNCHANGED <<provider, runs, errlog>>

\* Mutant: the error row does not refer to the connection.
NoteUnchecked(x) ==
  /\ At(x, "test", "refused")
  /\ errlog' = [errlog EXCEPT ![run[x].on] = TRUE]
  /\ Goto(x, "noted")
  /\ UNCHANGED <<provider, conn, runs, lost>>

\* The error row, which needs its connection.
NoteFailure(x) ==
  /\ At(x, "test", "refused")
  /\ IF Exists(run[x].on)
     THEN errlog' = [errlog EXCEPT ![run[x].on] = TRUE] /\ Goto(x, "noted")
     ELSE End(x) /\ UNCHANGED errlog
  /\ UNCHANGED <<provider, conn, runs, lost>>

\* Then the status, of whatever is there by now.
SettleTest(x) ==
  /\ run[x].kind = "test" /\ run[x].pc \in {"noted", "passed"}
  /\ IF Exists(run[x].on)
     THEN SetStatus(run[x].on, IF run[x].pc = "noted" THEN "ERROR" ELSE "CONNECTED")
     ELSE UNCHANGED <<conn, lost>>
  /\ End(x)
  /\ UNCHANGED <<provider, runs, errlog>>

(***************************************************************************)
(* A sync                                                                  *)
(***************************************************************************)
MarkSyncing(x) ==
  /\ At(x, "sync", "read")
  /\ IF Exists(run[x].on)
     THEN conn' = [conn EXCEPT ![run[x].on].status = "SYNCING"] /\ Goto(x, "marked")
     ELSE End(x) /\ UNCHANGED conn
  /\ UNCHANGED <<provider, runs, errlog, lost>>

\* Mutant: a sweep stops at the first connection whose sync throws.
StopAtForeign(x) ==
  /\ At(x, "sync", "marked")
  /\ IF run[x].secret = "foreign"
     THEN Strand(x, "threw") /\ Continue(x, Idle)
     ELSE Goto(x, "pulling") /\ UNCHANGED lost
  /\ UNCHANGED <<provider, conn, runs, errlog>>

\* decryptSecret throws when the secret does not open: out of runSync, past the mark.
OpenSecret(x) ==
  /\ At(x, "sync", "marked")
  /\ IF run[x].secret = "foreign"
     THEN Strand(x, "threw") /\ End(x)
     ELSE Goto(x, "pulling") /\ UNCHANGED lost
  /\ UNCHANGED <<provider, conn, runs, errlog>>

\* Mutant: as long as the external system says that there is more.
PullToTheEnd(x, reply) ==
  /\ At(x, "sync", "pulling")
  /\ LET page == Pull(provider[run[x].on], run[x].secret = "sealed", run[x].pages = 0, reply)
     IN  CASE page.is = "thrown" -> Strand(x, "drifted") /\ End(x)
           [] page.is = "failed" ->
                UNCHANGED lost /\ Continue(x, [run[x] EXCEPT !.pc = "pulled", !.bad = TRUE])
           [] OTHER -> UNCHANGED lost /\ Continue(x, [run[x] EXCEPT
                         !.pages = IF @ < MaxPages THEN @ + 1 ELSE 1,
                         !.pc = IF page.next /\ Normalize(page) THEN "pulling" ELSE "pulled"])
  /\ UNCHANGED <<provider, conn, runs, errlog>>

\* Mutant: the limit is looked at after the next page.
PullOnePageMore(x, reply) ==
  /\ At(x, "sync", "pulling")
  /\ LET page == Pull(provider[run[x].on], run[x].secret = "sealed", run[x].pages = 0, reply)
     IN  CASE page.is = "thrown" -> Strand(x, "drifted") /\ End(x)
           [] page.is = "failed" ->
                UNCHANGED lost /\ Continue(x, [run[x] EXCEPT !.pc = "pulled", !.bad = TRUE])
           [] OTHER -> UNCHANGED lost /\ Continue(x, [run[x] EXCEPT !.pages = @ + 1,
                         !.pc = IF page.next /\ run[x].pages < MaxPages THEN @ ELSE "pulled"])
  /\ UNCHANGED <<provider, conn, runs, errlog>>

\* One turn of the loop.  An adapter that throws takes runSync with it, past the mark;
\* a refusal or a bad record ends the loop with an error, and so do, without one, the
\* last page and the limit.
PullPage(x, reply) ==
  /\ At(x, "sync", "pulling")
  /\ LET page == Pull(provider[run[x].on], run[x].secret = "sealed", run[x].pages = 0, reply)
         ends == [run[x] EXCEPT !.pc = "pulled", !.bad = TRUE]
     IN  CASE page.is = "thrown" -> Strand(x, "drifted") /\ End(x)
           [] page.is = "failed" -> Continue(x, ends) /\ UNCHANGED lost
           [] OTHER ->
                /\ IF Normalize(page)
                   THEN Continue(x, [run[x] EXCEPT
                          !.got = @ \/ page.records > 0, !.pages = @ + 1,
                          !.pc = IF page.next /\ run[x].pages + 1 < MaxPages THEN @ ELSE "pulled"])
                   ELSE Continue(x, ends)
                /\ UNCHANGED lost
  /\ UNCHANGED <<provider, conn, runs, errlog>>

OutcomeOf(x) == IF ~run[x].bad THEN "SUCCESS" ELSE IF run[x].got THEN "PARTIAL" ELSE "FAILED"

\* Mutant: the health fields only, the status is left to the next test.
FinishQuietly(x) ==
  /\ At(x, "sync", "pulled")
  /\ IF Exists(run[x].on)
     THEN /\ conn' = [conn EXCEPT ![run[x].on].due = FALSE, ![run[x].on].last = OutcomeOf(x)]
          /\ runs' = [runs EXCEPT ![run[x].on] = @ \cup {OutcomeOf(x)}]
          /\ errlog' = [errlog EXCEPT ![run[x].on] = @ \/ run[x].bad]
     ELSE UNCHANGED <<conn, runs, errlog>>
  /\ End(x)
  /\ UNCHANGED <<provider, lost>>

\* The transaction at the end: health fields, run row and error rows, or, for a
\* connection deleted meanwhile, an exception and nothing.
Finish(x) ==
  /\ At(x, "sync", "pulled")
  /\ IF Exists(run[x].on)
     THEN /\ conn' = [conn EXCEPT ![run[x].on] =
                        [@ EXCEPT !.status = IF OutcomeOf(x) = "FAILED" THEN "ERROR" ELSE "CONNECTED",
                                  !.due = FALSE, !.last = OutcomeOf(x)]]
          /\ runs' = [runs EXCEPT ![run[x].on] = @ \cup {OutcomeOf(x)}]
          /\ errlog' = [errlog EXCEPT ![run[x].on] = @ \/ run[x].bad]
          /\ lost' = [lost EXCEPT ![run[x].on] = "none"]
     ELSE UNCHANGED <<conn, runs, errlog, lost>>
  /\ End(x)
  /\ UNCHANGED provider

(***************************************************************************)
(* The sweep                                                               *)
(***************************************************************************)
\* findDueConnections, once.
FindDue(x) ==
  /\ x \in Sweeps /\ run[x].pc \in {"idle", "dead"}
  /\ Continue(x, [Idle EXCEPT !.pc = "next",
                              !.queue = {c \in Connections : conn[c].status = "CONNECTED" /\ conn[c].due}])
  /\ UNCHANGED <<provider, conn, runs, errlog, lost>>

\* The loop: one due connection after the other, whatever has become of it.
SweepNext(x) ==
  /\ x \in Sweeps /\ run[x].pc = "next"
  /\ IF run[x].queue = {}
     THEN Continue(x, Idle)
     ELSE \E c \in run[x].queue :
            Continue(x, [Idle EXCEPT !.pc = "begun", !.kind = "sync", !.on = c,
                                     !.queue = run[x].queue \ {c}])
  /\ UNCHANGED <<provider, conn, runs, errlog, lost>>

(***************************************************************************)
(* The surroundings                                                        *)
(***************************************************************************)
\* The function is stopped: what it has written stays.
Crash(x) ==
  /\ run[x].pc \notin {"idle", "dead"}
  /\ Continue(x, [Idle EXCEPT !.pc = IF x \in Sweeps THEN "dead" ELSE "idle"])
  /\ IF At(x, "sync", run[x].pc) /\ run[x].pc \in {"marked", "pulling", "pulled"}
     THEN Strand(x, "crashed")
     ELSE UNCHANGED lost
  /\ UNCHANGED <<provider, conn, runs, errlog>>

\* The interval of a connection is over.
Elapse(c) ==
  /\ Exists(c) /\ ~conn[c].due
  /\ conn' = [conn EXCEPT ![c].due = TRUE]
  /\ UNCHANGED <<provider, runs, errlog, lost, run>>

\* A deployment with another NEXTAUTH_SECRET: no secret sealed before opens any more.
ChangeKey ==
  /\ \E c \in Connections : conn[c].secret = "sealed"
  /\ \A x \in Runners : run[x].pc \in {"idle", "dead"}
  /\ conn' = [c \in Connections |->
                [conn[c] EXCEPT !.secret = IF @ = "sealed" THEN "foreign" ELSE @]]
  /\ UNCHANGED <<provider, runs, errlog, lost, run>>

\* What a call or a sweep does once it is on its way.
Proceed(x) ==
  \/ ReadConnection(x) \/ Delete(x) \/ NoteFailure(x) \/ SettleTest(x)
  \/ \E secret \in BOOLEAN : Update(x, secret)
  \/ \E how \in {"passed", "refused", "thrown"} : Probe(x, how)
  \/ MarkSyncing(x) \/ OpenSecret(x) \/ Finish(x)
  \/ \E reply \in Reply : PullPage(x, reply)
  \/ SweepNext(x)

Next ==
  \/ \E c \in Connections : Elapse(c) \/ \E secret \in BOOLEAN : Create(c, secret)
  \/ \E x \in Calls, kind \in {"update", "test", "delete", "sync"}, c \in Connections : Begin(x, kind, c)
  \/ \E x \in Runners : Proceed(x) \/ Crash(x)
  \/ \E x \in Sweeps : FindDue(x)
  \/ ChangeKey

Spec == Init /\ [][Next]_vars

\* A function that has begun goes on: every wait for the external system is bounded
\* (http.ts gives up after fifteen seconds).
FairSpec == Spec /\ \A x \in Runners : WF_vars(Proceed(x))

\* And whoever triggers the sweep does it again and again, though the repository has
\* not put it on a schedule.
SweptSpec == FairSpec /\ \A x \in Sweeps : WF_vars(FindDue(x))

(***************************************************************************)
(* Properties                                                              *)
(***************************************************************************)
TypeOK ==
  /\ provider \in [Connections -> Served]
  /\ conn \in [Connections -> Connection]
  /\ runs \in [Connections -> SUBSET Outcome]
  /\ errlog \in [Connections -> BOOLEAN]
  /\ lost \in [Connections -> {"none", "threw", "drifted", "crashed"}]
  /\ run \in [Runners -> Runner]

\* A connection that says SYNCING is being synced, or a sync of it was stopped or has
\* thrown: no sync that ends leaves the mark, in whatever order syncs, tests and
\* updates of one connection overlap.
SyncingIsTrue ==
  \A c \in Connections : conn[c].status = "SYNCING" =>
    \/ lost[c] # "none"
    \/ \E x \in Runners : run[x].on = c /\ run[x].kind = "sync" /\ run[x].pc \in {"marked", "pulling", "pulled"}

\* What the health matrix shows can be explained, at every moment, though a test writes
\* its two rows one after the other and syncs and updates come in between: a connection
\* in ERROR has a row in the error log, an outcome shown is that of a run on record, and
\* a connection is CONNECTED only if a credential is stored for it.
HealthIsExplained ==
  \A c \in Connections :
    /\ conn[c].status = "ERROR" => errlog[c]
    /\ conn[c].last # "none" => conn[c].last \in runs[c]
    /\ conn[c].status = "CONNECTED" => conn[c].secret # "none"

\* Nothing comes back to a connection deleted while a test, a sync or an update of it
\* was on its way.
NothingOutlivesDeletion ==
  \A c \in Connections : conn[c].status = "deleted" => runs[c] = {} /\ ~errlog[c] /\ lost[c] = "none"

\* As the sweep's route says, one failure never blocks the rest: a sweep that is not
\* itself stopped gets to every connection it has found.
EveryDueOneIsTried ==
  \A x \in Sweeps, c \in Connections :
    c \in run[x].queue ~> (run[x].on = c /\ run[x].pc = "begun") \/ run[x].pc = "dead"

\* A sync comes to an end, whatever the external system says: it settles the
\* connection, unless it is stopped or throws.
SyncsSettle ==
  \A c \in Connections : conn[c].status = "SYNCING" ~> conn[c].status # "SYNCING" \/ lost[c] # "none"

\* As the error log says of a transient failure, "the next scheduled sync will retry
\* automatically".
FailuresAreRetried ==
  \A c \in Connections : conn[c].status = "ERROR" ~> conn[c].status # "ERROR"

\* As documented, a response that does not parse into the expected shape is translated
\* into an error: it never leaves a connection in the middle of a sync.
DriftIsRecorded == \A c \in Connections : lost[c] # "drifted"
=============================================================================
