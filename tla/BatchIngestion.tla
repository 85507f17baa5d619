---------------------------- MODULE BatchIngestion ----------------------------
(***************************************************************************)
(* A data import batch, from the file that stages it to the transaction    *)
(* that lands its rows: the actions of src/server/actions/data-import.ts   *)
(* by several administrators of one tenant, at the same time.              *)
(*                                                                         *)
(* Batches share nothing, so there is one.  Of a row's cells only the name *)
(* it refers to is kept (of a project or a person): the row is valid if    *)
(* the name resolves, and patching a cell may change the name.  Landed     *)
(* rows are kept per call: an upsert repeated lands the same slot       *)
(* again, a narrative or a RAID item lands once more.                      *)
(***************************************************************************)
EXTENDS Naturals, FiniteSets

CONSTANTS
  Calls,      \* calls of the actions
  NRows,      \* rows of the file
  Names,      \* what a row may refer to
  Nil         \* no name, no number

ASSUME BatchAssumption ==
  /\ NRows \in Nat \ {0}
  /\ Nil \notin Names
  /\ Nil \notin Nat

VARIABLES
  live,     \* the names that resolve to a project or resource
  batch,    \* the DataImportBatch: status and denormalized counts
  row,      \* row[i]: the DataImportRow i
  landed,   \* landed[r][i]: what call r has landed in the delivery tables for row i
  call      \* call[r]: the call r, how far it is

batchVars == <<live, batch, row, landed, call>>

Rows == 1 .. NRows

Batch == [status : {"none", "STAGED", "COMMITTED", "DISCARDED"},
          valid : 0 .. NRows, errors : 0 .. NRows]

RowRecord == [name : Names \cup {Nil}, status : {"VALID", "ERROR", "CORRECTED"}]

\* A call: which action, how far it is, and what it has read, until it ends.  late and
\* known are history: whether the batch was closed when it began, the names that
\* resolved at some time while it ran.
CallRecord ==
  [pc : {"idle", "begun", "checked", "read", "validated", "counting", "quarantined",
         "writing", "done", "rejected", "failed"},
   kind : {"none", "edit", "commit", "discard"},
   i : 0 .. NRows, seen : [Rows -> Names \cup {Nil}], lookups : SUBSET Names,
   valid : 0 .. NRows \cup {Nil}, errors : 0 .. NRows \cup {Nil},
   late : BOOLEAN, known : SUBSET Names]

Nothing == [i \in Rows |-> Nil]

NoCall == [pc |-> "idle", kind |-> "none", i |-> 0, seen |-> Nothing, lookups |-> {},
           valid |-> Nil, errors |-> Nil, late |-> FALSE, known |-> {}]

BatchInit ==
  /\ live \in SUBSET Names
  /\ batch = [status |-> "none", valid |-> 0, errors |-> 0]
  /\ row = [i \in Rows |-> [name |-> Nil, status |-> "ERROR"]]
  /\ landed = [r \in Calls |-> Nothing]
  /\ call = [r \in Calls |-> NoCall]

(***************************************************************************)
(* Helpers                                                                 *)
(***************************************************************************)
CallAt(r, kind, pc) == call[r].kind = kind /\ call[r].pc = pc

Proceed(r, x) == call' = [call EXCEPT ![r] = x]

Goto(r, pc) == Proceed(r, [call[r] EXCEPT !.pc = pc])

End(r, pc) ==
  Proceed(r, [NoCall EXCEPT !.pc = pc, !.late = call[r].late, !.known = call[r].known])

Settled(r) == call[r].pc \in {"idle", "done", "rejected", "failed"}

\* validateBatchRow, for the names a call has looked up.
Errored(r) == {i \in Rows : call[r].seen[i] \notin call[r].lookups}

WithStatus(S) == {i \in Rows : row[i].status \in S}

(***************************************************************************)
(* Staging, and the start of an action on a staged batch                   *)
(***************************************************************************)
\* stageImportBatch: batch and rows in one create.  Nobody knows the batch before, so
\* a name changed between the lookups and the create is one changed after it.
StageBatch(names) ==
  /\ batch.status = "none"
  /\ LET errored == {i \in Rows : names[i] \notin live}
     IN  /\ batch' = [status |-> "STAGED", valid |-> NRows - Cardinality(errored),
                      errors |-> Cardinality(errored)]
         /\ row' = [i \in Rows |-> [name |-> names[i],
                                    status |-> IF i \in errored THEN "ERROR" ELSE "VALID"]]
  /\ UNCHANGED <<live, landed, call>>

BeginCall(r, kind) ==
  /\ call[r].pc = "idle" /\ batch.status # "none"
  /\ Proceed(r, [NoCall EXCEPT !.pc = "begun", !.kind = kind, !.known = live,
                              !.late = batch.status \in {"COMMITTED", "DISCARDED"}])
  /\ UNCHANGED <<live, batch, row, landed>>

\* findFirst of the batch: anything but STAGED is refused.
CheckStaged(r) ==
  /\ call[r].pc = "begun"
  /\ IF batch.status = "STAGED" THEN Goto(r, "checked") ELSE End(r, "rejected")
  /\ UNCHANGED <<live, batch, row, landed>>

\* The row to patch is read, and the patch merged over it: a patch that leaves the
\* name alone keeps the one that was read.
MergePatch(r, i, name) ==
  /\ CallAt(r, "edit", "checked")
  /\ Proceed(r, [call[r] EXCEPT !.pc = "read", !.i = i,
                                !.seen[i] = IF name = Nil THEN row[i].name ELSE name])
  /\ UNCHANGED <<live, batch, row, landed>>

\* A commit takes the rows that come with the batch.
ReadRows(r) ==
  /\ CallAt(r, "commit", "checked")
  /\ Proceed(r, [call[r] EXCEPT !.pc = "read", !.seen = [i \in Rows |-> row[i].name]])
  /\ UNCHANGED <<live, batch, row, landed>>

\* Mutant: a commit goes by the stored status of the rows.
TrustStatus(r) ==
  /\ call[r].pc = "read"
  /\ Proceed(r, [call[r] EXCEPT !.pc = "validated", !.lookups =
       IF call[r].kind # "commit" THEN live
       ELSE {call[r].seen[i] : i \in WithStatus({"VALID", "CORRECTED"})} \ {Nil}])
  /\ UNCHANGED <<live, batch, row, landed>>

LoadLookups(r) ==
  /\ call[r].pc = "read"
  /\ Proceed(r, [call[r] EXCEPT !.pc = "validated", !.lookups = live])
  /\ UNCHANGED <<live, batch, row, landed>>

(***************************************************************************)
(* updateImportRow and discardImportBatch                                  *)
(***************************************************************************)
\* The merged row is written whole, whatever the batch or the row has become.
WriteRow(r) ==
  /\ CallAt(r, "edit", "validated")
  /\ row' = [row EXCEPT ![call[r].i] =
       [name |-> call[r].seen[call[r].i],
        status |-> IF call[r].i \in Errored(r) THEN "ERROR" ELSE "CORRECTED"]]
  /\ Goto(r, "counting")
  /\ UNCHANGED <<live, batch, landed>>

\* Promise.all: the counts are queries of their own, in any order.
CountValid(r) ==
  /\ call[r].pc = "counting" /\ call[r].valid = Nil
  /\ Proceed(r, [call[r] EXCEPT !.valid = Cardinality(WithStatus({"VALID", "CORRECTED"}))])
  /\ UNCHANGED <<live, batch, row, landed>>

CountErrors(r) ==
  /\ call[r].pc = "counting" /\ call[r].errors = Nil
  /\ Proceed(r, [call[r] EXCEPT !.errors = Cardinality(WithStatus({"ERROR"}))])
  /\ UNCHANGED <<live, batch, row, landed>>

\* Mutant: the update does not wait for both counts.
StoreEarly(r) ==
  /\ call[r].pc \in {"counting", "quarantined"}
  /\ call[r].valid # Nil
  /\ batch' = [batch EXCEPT !.valid = call[r].valid, !.errors = call[r].errors]
  /\ End(r, IF call[r].kind = "edit" THEN "done" ELSE "rejected")
  /\ UNCHANGED <<live, row, landed>>

\* Mutant: the edit writes the status it has checked along with the counts.
StoreBatch(r) ==
  /\ call[r].pc \in {"counting", "quarantined"}
  /\ call[r].valid # Nil /\ call[r].errors # Nil
  /\ batch' = [status |-> "STAGED", valid |-> call[r].valid, errors |-> call[r].errors]
  /\ End(r, IF call[r].kind = "edit" THEN "done" ELSE "rejected")
  /\ UNCHANGED <<live, row, landed>>

\* The counts of an edit, and those of a refused commit.
StoreCounts(r) ==
  /\ call[r].pc \in {"counting", "quarantined"}
  /\ call[r].valid # Nil /\ call[r].errors # Nil
  /\ batch' = [batch EXCEPT !.valid = call[r].valid, !.errors = call[r].errors]
  /\ End(r, IF call[r].kind = "edit" THEN "done" ELSE "rejected")
  /\ UNCHANGED <<live, row, landed>>

Discard(r) ==
  /\ CallAt(r, "discard", "checked")
  /\ batch' = [batch EXCEPT !.status = "DISCARDED"]
  /\ End(r, "done")
  /\ UNCHANGED <<live, row, landed>>

(***************************************************************************)
(* commitImportBatch                                                       *)
(***************************************************************************)
\* A row still in error: those rows are marked, in a transaction, and nothing lands.
Quarantine(r) ==
  /\ CallAt(r, "commit", "validated") /\ Errored(r) # {}
  /\ row' = [i \in Rows |-> IF i \in Errored(r) THEN [row[i] EXCEPT !.status = "ERROR"] ELSE row[i]]
  /\ Proceed(r, [call[r] EXCEPT !.pc = "quarantined", !.errors = Cardinality(Errored(r)),
                                !.valid = NRows - Cardinality(Errored(r))])
  /\ UNCHANGED <<live, batch, landed>>

OpenTransaction(r) ==
  /\ CallAt(r, "commit", "validated") /\ Errored(r) = {}
  /\ Goto(r, "writing")
  /\ UNCHANGED <<live, batch, row, landed>>

\* Mutant: the rows are written outside the transaction.
WriteThrough(r) ==
  /\ call[r].pc = "writing" /\ call[r].i < NRows
  /\ Proceed(r, [call[r] EXCEPT !.i = @ + 1])
  /\ landed' = [landed EXCEPT ![r][call[r].i + 1] = call[r].seen[call[r].i + 1]]
  /\ UNCHANGED <<live, batch, row>>

\* One row after the other, in the transaction: nobody sees it yet.
WriteDelivery(r) ==
  /\ call[r].pc = "writing" /\ call[r].i < NRows
  /\ Proceed(r, [call[r] EXCEPT !.i = @ + 1])
  /\ UNCHANGED <<live, batch, row, landed>>

\* The batch is marked and the transaction commits.  A ledger append that failed has
\* aborted it, and no one is told: the commit is a rollback, the answer the same.
Commit(r, aborted) ==
  /\ call[r].pc = "writing" /\ call[r].i = NRows
  /\ IF aborted
     THEN UNCHANGED <<batch, landed>>
     ELSE /\ landed' = [landed EXCEPT ![r] = call[r].seen]
          /\ batch' = [status |-> "COMMITTED", valid |-> NRows, errors |-> 0]
  /\ End(r, "done")
  /\ UNCHANGED <<live, row>>

(***************************************************************************)
(* The surroundings                                                        *)
(***************************************************************************)
\* A statement fails (a row that is gone, a deadlock), or the server dies.
CallFails(r) ==
  /\ ~Settled(r)
  /\ End(r, "failed")
  /\ UNCHANGED <<live, batch, row, landed>>

\* A project or resource is added or renamed: what it was called resolves no more.
ChangeName(n) ==
  /\ live' = IF n \in live THEN live \ {n} ELSE live \cup {n}
  /\ call' = [r \in Calls |-> IF Settled(r) THEN call[r]
                               ELSE [call[r] EXCEPT !.known = @ \cup live']]
  /\ UNCHANGED <<batch, row, landed>>

Edit(r) ==
  \/ \E i \in Rows, name \in Names \cup {Nil} : MergePatch(r, i, name)
  \/ WriteRow(r) \/ CountValid(r) \/ CountErrors(r) \/ StoreCounts(r)

Land(r) ==
  \/ ReadRows(r) \/ Quarantine(r) \/ OpenTransaction(r) \/ WriteDelivery(r)
  \/ \E aborted \in BOOLEAN : Commit(r, aborted)

BatchNext ==
  \/ \E names \in [Rows -> Names] : StageBatch(names)
  \/ \E r \in Calls :
       \/ \E kind \in {"edit", "commit", "discard"} : BeginCall(r, kind)
       \/ CheckStaged(r) \/ LoadLookups(r)
       \/ Edit(r) \/ Land(r) \/ Discard(r) \/ CallFails(r)
  \/ \E n \in Names : ChangeName(n)

BatchSpec == BatchInit /\ [][BatchNext]_batchVars

(***************************************************************************)
(* Properties                                                              *)
(***************************************************************************)
BatchTypeOK ==
  /\ live \in SUBSET Names
  /\ batch \in Batch
  /\ row \in [Rows -> RowRecord]
  /\ landed \in [Calls -> [Rows -> Names \cup {Nil}]]
  /\ call \in [Calls -> CallRecord]

HasLanded(r) == \E i \in Rows : landed[r][i] # Nil

\* A batch never lands in part: of each commit all rows are in the delivery tables
\* or none, whatever failed and whoever else was committing, editing or discarding.
AllOrNothing ==
  \A r \in Calls : HasLanded(r) => \A i \in Rows : landed[r][i] # Nil

\* No row lands whose name had stopped resolving before its commit began, however
\* it was judged when it was staged or corrected.
NothingBrokenLands ==
  \A r \in Calls : \A i \in Rows : landed[r][i] # Nil => landed[r][i] \in call[r].known

\* A batch whose rows have landed is never up for commit again, whatever late answer of an
\* edit or of a refused commit is stored, and one that is committed or discarded lands
\* nothing more for a commit begun after that: two landings were asked for side by side.
ClosedBatchesStayClosed ==
  /\ (\E r \in Calls : HasLanded(r)) => batch.status \in {"COMMITTED", "DISCARDED"}
  /\ \A r \in Calls : call[r].late => ~HasLanded(r)

\* As the code answers: "This batch is already committed - nothing to commit": the
\* rows of a batch land once.
LandsOnce == Cardinality({r \in Calls : HasLanded(r)}) <= 1

\* As documented: "Denormalized counts, kept in sync by data-import.ts on every row
\* mutation": of a staged batch all of whose calls were answered.
CountsInSync ==
  batch.status = "STAGED" /\ (\A r \in Calls : Settled(r) /\ call[r].pc # "failed")
    => /\ batch.valid = Cardinality(WithStatus({"VALID", "CORRECTED"}))
       /\ batch.errors = Cardinality(WithStatus({"ERROR"}))
=============================================================================
