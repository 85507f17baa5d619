-------------------------- MODULE ProjectDataProofs --------------------------
(***************************************************************************)
(* Theorems about what is written into a project.  BatchIngestion, for any *)
(* file, any names and any number of calls: a batch lands whole or not at  *)
(* all, lands nothing that has stopped resolving, and is never open again  *)
(* once it has landed.  ProjectBaseline, for any requests, roles, hours,   *)
(* rates and files: what is changed unrecorded was raced, and a baseline   *)
(* is what the project was worth, unless its lock was raced.               *)
(***************************************************************************)
EXTENDS BatchIngestion, ProjectBaseline, SumTheorems

(***************************************************************************)
(* Import batches                                                          *)
(***************************************************************************)
Closed == batch.status \in {"COMMITTED", "DISCARDED"}

\* Of a call: what it goes by was looked up while it ran; a commit writes only what
\* it has found to resolve; one that began on a closed batch gets no further than the
\* check; and what it has landed, it landed at its end, whole.
CallOK(r) ==
  LET x == call[r]
  IN /\ ~Settled(r) => live \subseteq x.known
     /\ x.pc \in {"validated", "writing"} => x.lookups \subseteq x.known
     /\ x.pc = "writing" => \A i \in Rows : x.seen[i] \in x.lookups
     /\ x.late => Closed /\ x.pc \in {"begun", "rejected", "failed"}
     /\ HasLanded(r) => /\ x.pc = "done" /\ Closed
                        /\ \A i \in Rows : landed[r][i] \in x.known

BatchIInv == BatchTypeOK /\ \A r \in Calls : CallOK(r)

\* A number of rows is a number of at most NRows.
LEMMA CountOK ==
  ASSUME NEW S \in SUBSET Rows
  PROVE  Cardinality(S) \in 0 .. NRows /\ NRows - Cardinality(S) \in 0 .. NRows
<1>1. IsFiniteSet(Rows) /\ Cardinality(Rows) = NRows
  BY FS_Interval, BatchAssumption DEF Rows
<1>2. Cardinality(S) \in Nat /\ Cardinality(S) <= NRows
  BY <1>1, FS_Subset, FS_CardinalityType
<1> QED BY <1>2, BatchAssumption

\* The inductive invariant implies the invariants the runs check.
LEMMA Implied == BatchIInv => AllOrNothing /\ NothingBrokenLands /\ ClosedBatchesStayClosed
<1> SUFFICES ASSUME BatchIInv PROVE AllOrNothing /\ NothingBrokenLands /\ ClosedBatchesStayClosed
  OBVIOUS
<1>1. AllOrNothing
  <2> SUFFICES ASSUME NEW r \in Calls, HasLanded(r), NEW i \in Rows PROVE landed[r][i] # Nil
    BY DEF AllOrNothing
  <2>1. call[r].known \in SUBSET Names
    BY DEF BatchIInv, BatchTypeOK, CallRecord
  <2> QED BY <2>1, BatchAssumption DEF BatchIInv, CallOK
<1>2. NothingBrokenLands
  BY DEF BatchIInv, CallOK, HasLanded, NothingBrokenLands
<1>3. ClosedBatchesStayClosed
  BY DEF BatchIInv, CallOK, Closed, ClosedBatchesStayClosed
<1> QED BY <1>1, <1>2, <1>3

\* A step of one call that lands nothing keeps the invariant if a closed batch stays
\* closed and the call's new record is as it should be.
LEMMA OneCall ==
  ASSUME BatchIInv, NEW r \in Calls, NEW x \in CallRecord, Proceed(r, x), UNCHANGED <<live, landed>>,
         batch' \in Batch, row' \in [Rows -> RowRecord], Closed => Closed', CallOK(r)'
  PROVE  BatchIInv'
<1>1. BatchTypeOK'
  BY DEF BatchIInv, BatchTypeOK, Proceed
<1>2. ASSUME NEW q \in Calls, q # r PROVE CallOK(q)'
  <2>1. call'[q] = call[q]
    BY <1>2 DEF BatchIInv, BatchTypeOK, Proceed
  <2> QED BY <2>1 DEF BatchIInv, CallOK, Settled, HasLanded
<1> QED BY <1>1, <1>2 DEF BatchIInv

\* A call that has ended, or has just begun, is well typed.
LEMMA FreshOK ==
  ASSUME NEW pc \in {"begun", "done", "rejected", "failed"},
         NEW kind \in {"none", "edit", "commit", "discard"},
         NEW late \in BOOLEAN, NEW known \in SUBSET Names
  PROVE  /\ [NoCall EXCEPT !.pc = pc, !.kind = kind, !.known = known, !.late = late] \in CallRecord
         /\ [NoCall EXCEPT !.pc = pc, !.late = late, !.known = known] \in CallRecord
<1>1. Nothing \in [Rows -> Names \cup {Nil}]
  BY DEF Nothing
<1> HIDE DEF Nothing
<1>2. 0 \in 0 .. NRows
  BY BatchAssumption
<1>3. NoCall \in CallRecord
  BY <1>1, <1>2 DEF NoCall, CallRecord
<1> HIDE DEF NoCall
<1> QED BY <1>3 DEF CallRecord

\* A call that ends keeps the invariant: it has landed nothing unless it has just
\* committed.
LEMMA Ends ==
  ASSUME BatchIInv, NEW r \in Calls, NEW pc \in {"done", "rejected", "failed"}, ~Settled(r), End(r, pc),
         UNCHANGED <<live, landed>>, batch' \in Batch, row' \in [Rows -> RowRecord], Closed => Closed',
         pc = "done" => ~call[r].late
  PROVE  BatchIInv'
<1> DEFINE x == [NoCall EXCEPT !.pc = pc, !.late = call[r].late, !.known = call[r].known]
<1>1. call[r] \in CallRecord /\ CallOK(r)
  BY DEF BatchIInv, BatchTypeOK
<1>2. x \in CallRecord /\ x.pc = pc /\ x.late = call[r].late /\ x.known = call[r].known
  <2>1. call[r].late \in BOOLEAN /\ call[r].known \in SUBSET Names
    BY <1>1 DEF CallRecord
  <2>2. x \in CallRecord
    BY <2>1, FreshOK
  <2> QED BY <2>2 DEF NoCall
<1>3. Proceed(r, x)
  BY DEF End
<1>4. call'[r] = x
  BY <1>3 DEF BatchIInv, BatchTypeOK, Proceed
<1> HIDE DEF x
<1>5. ~HasLanded(r)
  BY <1>1 DEF CallOK, Settled
<1>6. CallOK(r)'
  BY <1>1, <1>2, <1>4, <1>5 DEF CallOK, Settled, HasLanded
<1> QED BY <1>2, <1>3, <1>6, OneCall

\* A call that goes on, and lands nothing, keeps the invariant.
LEMMA GoesOn ==
  ASSUME BatchIInv, NEW r \in Calls, NEW x \in CallRecord, ~Settled(r), Proceed(r, x),
         UNCHANGED <<live, landed>>, batch' \in Batch, row' \in [Rows -> RowRecord], Closed => Closed',
         x.late = call[r].late, x.known = call[r].known, ~call[r].late,
         x.pc \in {"validated", "writing"} => x.lookups \subseteq x.known,
         x.pc = "writing" => \A i \in Rows : x.seen[i] \in x.lookups
  PROVE  BatchIInv'
<1>1. CallOK(r) /\ call'[r] = x
  BY DEF BatchIInv, BatchTypeOK, Proceed
<1>2. ~HasLanded(r)
  BY <1>1 DEF CallOK, Settled
<1>3. CallOK(r)'
  BY <1>1, <1>2 DEF CallOK, Settled, HasLanded
<1> QED BY <1>3, OneCall

\* A call past its check did not begin late, and is not at rest.
LEMMA PastTheCheck ==
  ASSUME BatchIInv, NEW r \in Calls, call[r].pc \notin {"idle", "begun", "done", "rejected", "failed"}
  PROVE  ~Settled(r) /\ ~call[r].late /\ call[r] \in CallRecord /\ CallOK(r) /\ batch \in Batch
         /\ row \in [Rows -> RowRecord]
BY DEF BatchIInv, CallOK, Settled, BatchTypeOK

\* The start of an action and its check of the batch keep the invariant.
LEMMA StartKeepsInv ==
  ASSUME BatchIInv, NEW r \in Calls,
         (\E kind \in {"edit", "commit", "discard"} : BeginCall(r, kind)) \/ CheckStaged(r)
  PROVE  BatchIInv'
<1>1. call[r] \in CallRecord /\ CallOK(r) /\ batch \in Batch /\ row \in [Rows -> RowRecord] /\ live \subseteq Names
  BY DEF BatchIInv, BatchTypeOK
<1>2. ASSUME NEW kind \in {"edit", "commit", "discard"}, BeginCall(r, kind) PROVE BatchIInv'
  <2> DEFINE x == [NoCall EXCEPT !.pc = "begun", !.kind = kind, !.known = live,
                               !.late = batch.status \in {"COMMITTED", "DISCARDED"}]
  <2>1. x \in CallRecord /\ x.pc = "begun" /\ x.known = live
    <3>1. (batch.status \in {"COMMITTED", "DISCARDED"}) \in BOOLEAN
      OBVIOUS
    <3>2. x \in CallRecord
      BY <1>1, <3>1, FreshOK, Zenon
    <3> QED BY <3>2 DEF NoCall
  <2>2. x.late = (batch.status \in {"COMMITTED", "DISCARDED"})
    BY DEF NoCall
  <2>3. Proceed(r, x) /\ UNCHANGED <<live, batch, row, landed>> /\ call[r].pc = "idle"
    BY <1>2 DEF BeginCall
  <2>4. call'[r] = x
    BY <2>3 DEF BatchIInv, BatchTypeOK, Proceed
  <2> HIDE DEF x
  <2>5. ~HasLanded(r)
    BY <1>1, <2>3 DEF CallOK
  <2>6. CallOK(r)'
    BY <2>1, <2>2, <2>3, <2>4, <2>5 DEF CallOK, Settled, HasLanded, Closed
  <2> QED BY <1>1, <2>1, <2>3, <2>6, OneCall DEF Closed
<1>3. CASE CheckStaged(r)
  <2>1. CASE batch.status = "STAGED"
    <3> DEFINE x == [call[r] EXCEPT !.pc = "checked"]
    <3>1. x \in CallRecord /\ x.pc = "checked" /\ x.late = call[r].late /\ x.known = call[r].known
      BY <1>1 DEF CallRecord
    <3>2. Proceed(r, x) /\ UNCHANGED <<live, batch, row, landed>>
      BY <1>3, <2>1 DEF CheckStaged, Goto
    <3>3. ~Settled(r) /\ ~call[r].late
      BY <1>1, <1>3, <2>1 DEF CheckStaged, Settled, CallOK, Closed, CallRecord
    <3> HIDE DEF x
    <3> QED BY <1>1, <3>1, <3>2, <3>3, GoesOn DEF Closed
  <2>2. CASE batch.status # "STAGED"
    <3>1. End(r, "rejected") /\ UNCHANGED <<live, batch, row, landed>> /\ ~Settled(r)
      BY <1>3, <2>2 DEF CheckStaged, Settled
    <3> QED BY <1>1, <3>1, Ends DEF Closed
  <2> QED BY <2>1, <2>2
<1> QED BY <1>2, <1>3

\* Reading the row or the rows of the batch, and looking up the names, keep the
\* invariant.
LEMMA ReadKeepsInv ==
  ASSUME BatchIInv, NEW r \in Calls,
         \/ \E i \in Rows, name \in Names \cup {Nil} : MergePatch(r, i, name)
         \/ ReadRows(r) \/ LoadLookups(r)
  PROVE  BatchIInv'
<1>1. call[r].pc \in {"checked", "read"} /\ UNCHANGED <<live, batch, row, landed>>
  BY DEF MergePatch, ReadRows, LoadLookups, CallAt
<1>2. ~Settled(r) /\ ~call[r].late /\ call[r] \in CallRecord /\ CallOK(r) /\ batch \in Batch
      /\ row \in [Rows -> RowRecord] /\ live \subseteq Names
  BY <1>1, PastTheCheck DEF BatchIInv, BatchTypeOK
<1>3. ASSUME NEW i \in Rows, NEW name \in Names \cup {Nil}, MergePatch(r, i, name) PROVE BatchIInv'
  <2> DEFINE n == IF name = Nil THEN row[i].name ELSE name
             x == [call[r] EXCEPT !.pc = "read", !.i = i, !.seen[i] = n]
  <2>1. n \in Names \cup {Nil} /\ i \in 0 .. NRows
    BY <1>2, BatchAssumption DEF RowRecord, Rows
  <2> HIDE DEF n
  <2>2. x \in CallRecord /\ x.pc = "read" /\ x.late = call[r].late /\ x.known = call[r].known
    BY <1>2, <2>1 DEF CallRecord
  <2>3. Proceed(r, x)
    BY <1>3 DEF MergePatch, n
  <2> HIDE DEF x
  <2> QED BY <1>1, <1>2, <2>2, <2>3, GoesOn DEF Closed
<1>4. CASE ReadRows(r)
  <2> DEFINE x == [call[r] EXCEPT !.pc = "read", !.seen = [i \in Rows |-> row[i].name]]
  <2>1. [i \in Rows |-> row[i].name] \in [Rows -> Names \cup {Nil}]
    BY <1>2 DEF RowRecord
  <2>2. x \in CallRecord /\ x.pc = "read" /\ x.late = call[r].late /\ x.known = call[r].known
    BY <1>2, <2>1 DEF CallRecord
  <2>3. Proceed(r, x)
    BY <1>4 DEF ReadRows
  <2> HIDE DEF x
  <2> QED BY <1>1, <1>2, <2>2, <2>3, GoesOn DEF Closed
<1>5. CASE LoadLookups(r)
  <2> DEFINE x == [call[r] EXCEPT !.pc = "validated", !.lookups = live]
  <2>1. x \in CallRecord /\ x.pc = "validated" /\ x.late = call[r].late /\ x.known = call[r].known /\ x.lookups = live
    BY <1>2 DEF CallRecord
  <2>2. Proceed(r, x)
    BY <1>5 DEF LoadLookups
  <2>3. live \subseteq call[r].known
    BY <1>2 DEF CallOK
  <2> HIDE DEF x
  <2> QED BY <1>1, <1>2, <2>1, <2>2, <2>3, GoesOn DEF Closed
<1> QED BY <1>3, <1>4, <1>5

\* Writing an edited row, counting, storing the counts, discarding and quarantining
\* keep the invariant: none of them opens a batch that is closed.
LEMMA CountKeepsInv ==
  ASSUME BatchIInv, NEW r \in Calls,
         \/ WriteRow(r) \/ CountValid(r) \/ CountErrors(r) \/ StoreCounts(r) \/ Discard(r) \/ Quarantine(r)
  PROVE  BatchIInv'
<1>1. call[r].pc \in {"validated", "counting", "quarantined", "checked"} /\ UNCHANGED <<live, landed>>
  BY DEF WriteRow, CountValid, CountErrors, StoreCounts, Discard, Quarantine, CallAt
<1>2. ~Settled(r) /\ ~call[r].late /\ call[r] \in CallRecord /\ CallOK(r) /\ batch \in Batch
      /\ row \in [Rows -> RowRecord]
  BY <1>1, PastTheCheck
<1>3. \A S \in SUBSET {"VALID", "CORRECTED", "ERROR"} : Cardinality(WithStatus(S)) \in 0 .. NRows
  BY CountOK DEF WithStatus
<1>4. CASE WriteRow(r)
  <2> DEFINE x == [call[r] EXCEPT !.pc = "counting"]
             status == IF call[r].i \in Errored(r) THEN "ERROR" ELSE "CORRECTED"
             new == [name |-> call[r].seen[call[r].i], status |-> status]
  <2>1. x \in CallRecord /\ x.pc = "counting" /\ x.late = call[r].late /\ x.known = call[r].known
    BY <1>2 DEF CallRecord
  <2>2. Proceed(r, x) /\ batch' = batch /\ row' = [row EXCEPT ![call[r].i] = new]
    BY <1>4 DEF WriteRow, Goto
  <2>3. row' \in [Rows -> RowRecord]
    <3>1. call[r].i \in Rows => new \in RowRecord
      BY <1>2 DEF CallRecord, RowRecord
    <3> HIDE DEF new
    <3> QED BY <1>2, <2>2, <3>1
  <2> HIDE DEF x
  <2> QED BY <1>1, <1>2, <2>1, <2>2, <2>3, GoesOn DEF Closed
<1>5. CASE CountValid(r)
  <2> DEFINE n == Cardinality(WithStatus({"VALID", "CORRECTED"}))
             x == [call[r] EXCEPT !.valid = n]
  <2>1. n \in 0 .. NRows
    BY <1>3
  <2> HIDE DEF n
  <2>2. x \in CallRecord /\ x.pc = "counting" /\ x.late = call[r].late /\ x.known = call[r].known
    BY <1>2, <1>5, <2>1 DEF CallRecord, CountValid
  <2>3. Proceed(r, x) /\ UNCHANGED <<batch, row>>
    BY <1>5 DEF CountValid, n
  <2> HIDE DEF x
  <2> QED BY <1>1, <1>2, <2>2, <2>3, GoesOn DEF Closed
<1>6. CASE CountErrors(r)
  <2> DEFINE n == Cardinality(WithStatus({"ERROR"}))
             x == [call[r] EXCEPT !.errors = n]
  <2>1. n \in 0 .. NRows
    BY <1>3
  <2> HIDE DEF n
  <2>2. x \in CallRecord /\ x.pc = "counting" /\ x.late = call[r].late /\ x.known = call[r].known
    BY <1>2, <1>6, <2>1 DEF CallRecord, CountErrors
  <2>3. Proceed(r, x) /\ UNCHANGED <<batch, row>>
    BY <1>6 DEF CountErrors, n
  <2> HIDE DEF x
  <2> QED BY <1>1, <1>2, <2>2, <2>3, GoesOn DEF Closed
<1>7. CASE StoreCounts(r)
  <2>1. batch' = [batch EXCEPT !.valid = call[r].valid, !.errors = call[r].errors]
        /\ call[r].valid # Nil /\ call[r].errors # Nil /\ row' = row
    BY <1>7 DEF StoreCounts
  <2>2. batch' \in Batch /\ batch'.status = batch.status
    BY <1>2, <2>1 DEF Batch, CallRecord
  <2>3. End(r, "done") \/ End(r, "rejected")
    BY <1>7 DEF StoreCounts
  <2> QED BY <1>1, <1>2, <2>1, <2>2, <2>3, Ends DEF Closed
<1>8. CASE Discard(r)
  <2>1. batch' = [batch EXCEPT !.status = "DISCARDED"] /\ row' = row /\ End(r, "done")
    BY <1>8 DEF Discard
  <2>2. batch' \in Batch /\ batch'.status = "DISCARDED"
    BY <1>2, <2>1 DEF Batch
  <2> QED BY <1>1, <1>2, <2>1, <2>2, Ends DEF Closed
<1>9. CASE Quarantine(r)
  <2> DEFINE n == Cardinality(Errored(r))
             x == [call[r] EXCEPT !.pc = "quarantined", !.errors = n, !.valid = NRows - n]
  <2>1. n \in 0 .. NRows /\ NRows - n \in 0 .. NRows
    BY CountOK DEF Errored
  <2>2. Proceed(r, x) /\ batch' = batch
        /\ row' = [i \in Rows |-> IF i \in Errored(r) THEN [row[i] EXCEPT !.status = "ERROR"] ELSE row[i]]
    BY <1>9 DEF Quarantine
  <2> HIDE DEF n
  <2>3. x \in CallRecord /\ x.pc = "quarantined" /\ x.late = call[r].late /\ x.known = call[r].known
    BY <1>2, <2>1 DEF CallRecord
  <2>4. row' \in [Rows -> RowRecord]
    BY <1>2, <2>2 DEF RowRecord
  <2> HIDE DEF x
  <2> QED BY <1>1, <1>2, <2>2, <2>3, <2>4, GoesOn DEF Closed
<1> QED BY <1>4, <1>5, <1>6, <1>7, <1>8, <1>9

\* The landing of a commit keeps the invariant: it lands all that it has read, and has
\* found all of that to resolve.
LEMMA LandKeepsInv ==
  ASSUME BatchIInv, NEW r \in Calls,
         OpenTransaction(r) \/ WriteDelivery(r) \/ (\E aborted \in BOOLEAN : Commit(r, aborted))
  PROVE  BatchIInv'
<1>1. call[r].pc \in {"validated", "writing"} /\ UNCHANGED <<live, row>>
  BY DEF OpenTransaction, WriteDelivery, Commit, CallAt
<1>2. ~Settled(r) /\ ~call[r].late /\ call[r] \in CallRecord /\ CallOK(r) /\ batch \in Batch
      /\ row \in [Rows -> RowRecord]
  BY <1>1, PastTheCheck
<1>3. CASE OpenTransaction(r)
  <2> DEFINE x == [call[r] EXCEPT !.pc = "writing"]
  <2>1. x \in CallRecord /\ x.pc = "writing" /\ x.late = call[r].late /\ x.known = call[r].known
        /\ x.lookups = call[r].lookups /\ x.seen = call[r].seen
    BY <1>2 DEF CallRecord
  <2>2. Proceed(r, x) /\ UNCHANGED <<batch, landed>> /\ call[r].pc = "validated"
        /\ \A i \in Rows : call[r].seen[i] \in call[r].lookups
    BY <1>3 DEF OpenTransaction, Goto, Errored, CallAt
  <2> HIDE DEF x
  <2>3. x.lookups \subseteq x.known
    BY <1>2, <2>1, <2>2 DEF CallOK
  <2> QED BY <1>1, <1>2, <2>1, <2>2, <2>3, GoesOn DEF Closed
<1>4. CASE WriteDelivery(r)
  <2> DEFINE x == [call[r] EXCEPT !.i = call[r].i + 1]
  <2>1. Proceed(r, x) /\ UNCHANGED <<batch, landed>> /\ call[r].pc = "writing" /\ call[r].i < NRows
    BY <1>4 DEF WriteDelivery
  <2>2. call[r].i + 1 \in 0 .. NRows
    BY <1>2, <2>1, BatchAssumption DEF CallRecord
  <2>3. x \in CallRecord /\ x.pc = "writing" /\ x.late = call[r].late /\ x.known = call[r].known
        /\ x.lookups = call[r].lookups /\ x.seen = call[r].seen
    BY <1>2, <2>1, <2>2 DEF CallRecord
  <2> HIDE DEF x
  <2>4. x.lookups \subseteq x.known /\ \A i \in Rows : x.seen[i] \in x.lookups
    BY <1>2, <2>1, <2>3 DEF CallOK
  <2> QED BY <1>1, <1>2, <2>1, <2>3, <2>4, GoesOn DEF Closed
<1>5. ASSUME NEW aborted \in BOOLEAN, Commit(r, aborted) PROVE BatchIInv'
  <2>1. End(r, "done") /\ call[r].pc = "writing"
    BY <1>5 DEF Commit
  <2>2. CASE aborted
    BY <1>1, <1>2, <1>5, <2>1, <2>2, Ends DEF Commit, Closed
  <2>3. CASE ~aborted
    <3> DEFINE x == [NoCall EXCEPT !.pc = "done", !.late = call[r].late, !.known = call[r].known]
    <3>1. landed' = [landed EXCEPT ![r] = call[r].seen]
          /\ batch' = [status |-> "COMMITTED", valid |-> NRows, errors |-> 0]
      BY <1>5, <2>3 DEF Commit
    <3>2. x \in CallRecord /\ x.pc = "done" /\ x.late = call[r].late /\ x.known = call[r].known
      <4>1. call[r].late \in BOOLEAN /\ call[r].known \in SUBSET Names
        BY <1>2 DEF CallRecord
      <4>2. x \in CallRecord
        BY <4>1, FreshOK
      <4> QED BY <4>2 DEF NoCall
    <3>3. call' = [call EXCEPT ![r] = x]
      BY <2>1 DEF End, Proceed
    <3> HIDE DEF x
    <3>4. batch' \in Batch /\ Closed'
      BY <3>1, BatchAssumption DEF Batch, Closed
    <3>5. call[r].seen \in [Rows -> Names \cup {Nil}]
      BY <1>2 DEF CallRecord
    <3>6. BatchTypeOK'
      BY <1>1, <3>1, <3>2, <3>3, <3>4, <3>5 DEF BatchIInv, BatchTypeOK
    <3>7. CallOK(r)'
      <4>1. call'[r] = x /\ landed'[r] = call[r].seen
        BY <3>1, <3>3 DEF BatchIInv, BatchTypeOK
      <4>2. \A i \in Rows : call[r].seen[i] \in call[r].known
        BY <1>2, <2>1 DEF CallOK
      <4> QED BY <1>2, <3>2, <3>4, <4>1, <4>2 DEF CallOK, Settled
    <3>8. ASSUME NEW q \in Calls, q # r PROVE CallOK(q)'
      <4>1. call'[q] = call[q] /\ landed'[q] = landed[q] /\ live' = live
        BY <1>1, <3>1, <3>3, <3>8 DEF BatchIInv, BatchTypeOK
      <4> QED BY <3>4, <4>1 DEF BatchIInv, CallOK, Settled, HasLanded
    <3> QED BY <3>6, <3>7, <3>8 DEF BatchIInv
  <2> QED BY <2>2, <2>3
<1> QED BY <1>3, <1>4, <1>5

\* A failure keeps the invariant, and so do a new batch and a change of names: what
\* resolved while a call ran is remembered.
LEMMA SurroundingsKeepInv ==
  ASSUME BatchIInv,
         \/ \E r \in Calls : CallFails(r)
         \/ \E names \in [Rows -> Names] : StageBatch(names)
         \/ \E n \in Names : ChangeName(n)
  PROVE  BatchIInv'
<1>1. batch \in Batch /\ row \in [Rows -> RowRecord] /\ live \subseteq Names
  BY DEF BatchIInv, BatchTypeOK
<1>2. ASSUME NEW r \in Calls, CallFails(r) PROVE BatchIInv'
  BY <1>1, <1>2, Ends DEF CallFails, Closed
<1>3. ASSUME NEW names \in [Rows -> Names], StageBatch(names) PROVE BatchIInv'
  <2> DEFINE errored == {i \in Rows : names[i] \notin live}
  <2>1. batch.status = "none" /\ UNCHANGED <<live, landed, call>>
        /\ batch' = [status |-> "STAGED", valid |-> NRows - Cardinality(errored), errors |-> Cardinality(errored)]
        /\ row' = [i \in Rows |-> [name |-> names[i], status |-> IF i \in errored THEN "ERROR" ELSE "VALID"]]
    BY <1>3 DEF StageBatch
  <2>2. batch' \in Batch
    BY <2>1, CountOK DEF Batch
  <2>3. row' \in [Rows -> RowRecord]
    BY <2>1 DEF RowRecord
  <2>4. BatchTypeOK'
    BY <2>1, <2>2, <2>3 DEF BatchIInv, BatchTypeOK
  <2>5. ~Closed
    BY <2>1 DEF Closed
  <2> QED BY <2>1, <2>4, <2>5 DEF BatchIInv, CallOK, Settled, HasLanded
<1>4. ASSUME NEW n \in Names, ChangeName(n) PROVE BatchIInv'
  <2>1. live' \subseteq Names /\ UNCHANGED <<batch, row, landed>>
    BY <1>1, <1>4 DEF ChangeName
  <2>2. call' = [r \in Calls |-> IF Settled(r) THEN call[r] ELSE [call[r] EXCEPT !.known = call[r].known \cup live']]
    BY <1>4 DEF ChangeName
  <2>3. ASSUME NEW r \in Calls
        PROVE  call'[r] \in CallRecord /\ CallOK(r)'
    <3>1. call[r] \in CallRecord /\ CallOK(r)
      BY DEF BatchIInv, BatchTypeOK
    <3>2. CASE Settled(r)
      BY <2>1, <2>2, <3>1, <3>2 DEF CallOK, Settled, HasLanded, Closed
    <3>3. CASE ~Settled(r)
      <4> DEFINE x == [call[r] EXCEPT !.known = call[r].known \cup live']
      <4>1. call'[r] = x
        BY <2>2, <3>3
      <4>2. x \in CallRecord /\ x.known = call[r].known \cup live' /\ x.pc = call[r].pc /\ x.late = call[r].late
            /\ x.lookups = call[r].lookups /\ x.seen = call[r].seen
        BY <2>1, <3>1 DEF CallRecord
      <4> HIDE DEF x
      <4> QED BY <2>1, <3>1, <3>3, <4>1, <4>2 DEF CallOK, Settled, HasLanded, Closed
    <3> QED BY <3>2, <3>3
  <2>4. BatchTypeOK'
    BY <2>1, <2>2, <2>3 DEF BatchIInv, BatchTypeOK
  <2> QED BY <2>3, <2>4 DEF BatchIInv
<1> QED BY <1>2, <1>3, <1>4

\* The invariant holds initially: there is no batch, and nobody has asked for anything.
LEMMA BatchStartsTrue == BatchInit => BatchIInv
<1> SUFFICES ASSUME BatchInit PROVE BatchIInv
  OBVIOUS
<1>1. NoCall \in CallRecord /\ NoCall.pc = "idle" /\ ~NoCall.late
  BY BatchAssumption DEF NoCall, CallRecord, Nothing
<1>2. Nothing \in [Rows -> Names \cup {Nil}]
  BY DEF Nothing
<1>3. BatchTypeOK
  BY <1>1, <1>2, BatchAssumption DEF BatchInit, BatchTypeOK, Batch, RowRecord
<1>4. ASSUME NEW r \in Calls PROVE CallOK(r)
  <2>1. ~HasLanded(r)
    BY DEF BatchInit, HasLanded, Nothing
  <2>2. call[r] = NoCall
    BY DEF BatchInit
  <2> QED BY <1>1, <2>1, <2>2 DEF CallOK, Settled
<1> QED BY <1>3, <1>4 DEF BatchIInv

\* Every step keeps the invariant.
LEMMA BatchStepsTrue == BatchIInv /\ [BatchNext]_batchVars => BatchIInv'
<1> SUFFICES ASSUME BatchIInv, [BatchNext]_batchVars PROVE BatchIInv'
  OBVIOUS
<1>1. CASE UNCHANGED batchVars
  BY <1>1 DEF batchVars, BatchIInv, BatchTypeOK, CallOK, Settled, HasLanded, Closed
<1>2. ASSUME NEW r \in Calls,
             (\E kind \in {"edit", "commit", "discard"} : BeginCall(r, kind)) \/ CheckStaged(r)
      PROVE  BatchIInv'
  BY <1>2, StartKeepsInv
<1>3. ASSUME NEW r \in Calls,
             \/ \E i \in Rows, name \in Names \cup {Nil} : MergePatch(r, i, name)
             \/ ReadRows(r) \/ LoadLookups(r)
      PROVE  BatchIInv'
  BY <1>3, ReadKeepsInv
<1>4. ASSUME NEW r \in Calls,
             \/ WriteRow(r) \/ CountValid(r) \/ CountErrors(r) \/ StoreCounts(r) \/ Discard(r) \/ Quarantine(r)
      PROVE  BatchIInv'
  BY <1>4, CountKeepsInv
<1>5. ASSUME NEW r \in Calls,
             OpenTransaction(r) \/ WriteDelivery(r) \/ (\E aborted \in BOOLEAN : Commit(r, aborted))
      PROVE  BatchIInv'
  BY <1>5, LandKeepsInv
<1>6. CASE \/ \E r \in Calls : CallFails(r)
           \/ \E names \in [Rows -> Names] : StageBatch(names)
           \/ \E n \in Names : ChangeName(n)
  BY <1>6, SurroundingsKeepInv
<1> QED BY <1>1, <1>2, <1>3, <1>4, <1>5, <1>6 DEF BatchNext, Edit, Land

\* The inductive invariant holds in every reachable state.
THEOREM BatchInvariant == BatchSpec => []BatchIInv
<1> QED BY BatchStartsTrue, BatchStepsTrue, PTL DEF BatchSpec

\* Batches, rows and calls have their types: the counts stay between none and all.
THEOREM BatchTypeCorrect == BatchSpec => []BatchTypeOK
<1>1. BatchIInv => BatchTypeOK
  BY DEF BatchIInv
<1> QED BY <1>1, BatchInvariant, PTL

\* commitImportBatch never lands a batch in part.
THEOREM LandsWhole == BatchSpec => []AllOrNothing
<1> QED BY Implied, BatchInvariant, PTL

\* commitImportBatch never lands a row whose name resolved at no time while it ran.
THEOREM LandsNothingBroken == BatchSpec => []NothingBrokenLands
<1> QED BY Implied, BatchInvariant, PTL

\* A batch that has landed is never up for commit again, and closed ones land nothing
\* for commits begun later.
THEOREM StaysClosed == BatchSpec => []ClosedBatchesStayClosed
<1> QED BY Implied, BatchInvariant, PTL

(***************************************************************************)
(* The baseline of a project                                               *)
(***************************************************************************)
Typed ==
  /\ sizing \in Sizing
  /\ card \in Card
  /\ base.locked \in BOOLEAN
  /\ item \in [Items -> BOOLEAN]
  /\ req \in [Requests -> Request]

\* What a request has read is what is there, unless it was told of a change.
Informed(r) ==
  LET x == req[r]
  IN ~AtRest(r) =>
       /\ x.kind = "record" => x.on \in Items
       /\ ~x.raced =>
            /\ x.kind = "unlock" /\ x.pc = "read" => x.saw = base.locked
            /\ x.kind = "record" /\ x.pc = "read" => x.saw = item[x.on]
            /\ x.kind = "lock" /\ x.pc \in {"sized", "read"} => x.sized = sizing
            /\ x.kind = "lock" /\ x.pc = "read" => x.roles = card

\* A baseline whose lock nothing raced is exact.
QuietIsExact == base.locked /\ base.quiet => base.exact

\* What is silent is of the two known kinds.
Explained == silent \subseteq {"raced", "form"}

IInv == Typed /\ Explained /\ QuietIsExact /\ \A r \in Requests : Informed(r)

\* What a request starts from, and ends as.
LEMMA IdleTyped == Idle \in Request /\ \A pc \in {"done", "refused"} : [Idle EXCEPT !.pc = pc] \in Request
<1>1. Unsized \in Sizing /\ NoCard \in Card
  BY ProjectAssumption DEF Unsized, Sizing, NoCard, Card
<1>2. Idle \in Request
  BY <1>1 DEF Idle, Request
<1> QED BY <1>2 DEF Request

\* The invariant holds of an unlocked project without requests.
LEMMA InitHolds == Init => IInv
<1> SUFFICES ASSUME Init PROVE IInv
  OBVIOUS
<1>1. Typed
  BY IdleTyped, ProjectAssumption DEF Init, Typed, Unsized, Sizing, Card
<1>2. Explained /\ QuietIsExact /\ \A r \in Requests : Informed(r)
  BY DEF Init, Explained, QuietIsExact, Informed, AtRest, Idle
<1> QED BY <1>1, <1>2 DEF IInv

\* A request moves on with what it has just read, or ends; nothing else changes.
LEMMA MoveKeepsInv ==
  ASSUME IInv, NEW r \in Requests, NEW x \in Request, Continue(r, x),
         UNCHANGED <<sizing, card, base, item, silent>>,
         Informed(r)'
  PROVE  IInv'
<1>1. \A q \in Requests \ {r} : req'[q] = req[q]
  BY DEF IInv, Typed, Continue
<1>2. Typed'
  BY DEF IInv, Typed, Continue
<1>3. \A q \in Requests : Informed(q)'
  BY <1>1 DEF IInv, Informed, AtRest
<1>4. Explained' /\ QuietIsExact'
  BY DEF IInv, Explained, QuietIsExact
<1> QED BY <1>2, <1>3, <1>4 DEF IInv

\* The requests after r became x and those of T were told of a change.
Told(r, x, T) ==
  req' = [q \in Requests |->
            IF q = r THEN x
            ELSE IF AtRest(q) THEN req[q]
            ELSE [req[q] EXCEPT !.raced = @ \/ q \in T]]

\* The lock, and a record, are not changed.
SameLock == base'.locked = base.locked

Same(i) == item'[i] = item[i]

\* A write keeps the invariant if it tells all those that have read what it writes.
LEMMA WriteKeepsInv ==
  ASSUME IInv, NEW r, NEW x \in Request, x.pc \in {"idle", "done", "refused"},
         NEW T, Told(r, x, T),
         sizing' \in Sizing, card' \in Card, base'.locked \in BOOLEAN,
         item' \in [Items -> BOOLEAN], Explained', QuietIsExact',
         \A q \in Requests : ~AtRest(q) /\ q # r /\ q \notin T =>
           /\ req[q].kind = "unlock" => SameLock
           /\ req[q].kind = "record" => Same(req[q].on)
           /\ req[q].kind = "lock" => sizing' = sizing /\ card' = card
  PROVE  IInv'
<1>1. \A q \in Requests :
        /\ req'[q] \in Request
        /\ q = r => req'[q] = x
        /\ q # r => /\ req'[q].kind = req[q].kind /\ req'[q].pc = req[q].pc
                    /\ req'[q].on = req[q].on /\ req'[q].saw = req[q].saw
                    /\ req'[q].sized = req[q].sized /\ req'[q].roles = req[q].roles
                    /\ ~AtRest(q) => (req'[q].raced <=> req[q].raced \/ q \in T)
  <2> SUFFICES ASSUME NEW q \in Requests, q # r, ~AtRest(q)
               PROVE  LET y == [req[q] EXCEPT !.raced = @ \/ q \in T]
                      IN /\ y \in Request /\ y.kind = req[q].kind /\ y.pc = req[q].pc
                         /\ y.on = req[q].on /\ y.saw = req[q].saw
                         /\ y.sized = req[q].sized /\ y.roles = req[q].roles
                         /\ y.raced <=> req[q].raced \/ q \in T
    BY DEF Told, IInv, Typed
  <2>1. req[q] \in Request
    BY DEF IInv, Typed
  <2>2. (req[q].raced \/ q \in T) \in BOOLEAN
    OBVIOUS
  <2> QED BY <2>1, <2>2 DEF Request
<1>2. Typed'
  <2>1. req' \in [Requests -> Request]
    BY <1>1 DEF Told
  <2> QED BY <2>1 DEF Typed
<1>3. ASSUME NEW q \in Requests PROVE Informed(q)'
  <2>1. CASE q = r
    BY <1>1, <2>1 DEF Informed, AtRest
  <2>2. CASE q # r
    <3>1. Informed(q) /\ (AtRest(q)' <=> AtRest(q))
      BY <1>1, <2>2 DEF IInv, AtRest
    <3> QED BY <1>1, <2>2, <3>1 DEF Informed, Same, SameLock
  <2> QED BY <2>1, <2>2
<1> QED BY <1>2, <1>3 DEF IInv

\* A request begins, reads, is refused, fails or goes on to another module's records.
LEMMA MovesKeepInv ==
  ASSUME IInv, NEW r \in Requests,
         \/ \E kind \in Kinds, who \in DeliveryRole, on \in Items \cup {"none"},
               order, approve \in BOOLEAN : Begin(r, kind, who, on, order, approve)
         \/ \E to \in BOOLEAN : ReadProject(r, to)
         \/ ReadCard(r) \/ Intervene(r) \/ Fail(r)
  PROVE  IInv'
<1>1. req \in [Requests -> Request] /\ req[r] \in Request /\ Informed(r)
  BY DEF IInv, Typed
<1>2. ASSUME NEW pc \in {"done", "refused"}, Continue(r, [Idle EXCEPT !.pc = pc]),
             UNCHANGED <<sizing, card, base, item, silent>>
      PROVE  IInv'
  <2> DEFINE x == [Idle EXCEPT !.pc = pc]
  <2>1. x \in Request /\ x.pc = pc
    BY IdleTyped DEF Idle
  <2> HIDE DEF x
  <2>2. Informed(r)'
    BY <1>1, <1>2, <2>1 DEF Informed, AtRest, Continue, x
  <2> QED BY <1>2, <2>1, <2>2, MoveKeepsInv DEF x
<1>3. ASSUME NEW kind \in Kinds, NEW who \in DeliveryRole, NEW on \in Items \cup {"none"},
             NEW order \in BOOLEAN, NEW approve \in BOOLEAN,
             Begin(r, kind, who, on, order, approve)
      PROVE  IInv'
  <2> DEFINE may == approve /\ who \in Approvers
  <2> DEFINE x == [Idle EXCEPT !.pc = "begun", !.kind = kind, !.on = on,
                     !.order = order, !.approve = approve, !.may = may]
  <2>1. CASE who \in Editors
    <3>1. Continue(r, x) /\ UNCHANGED <<sizing, card, base, item, silent>>
      BY <1>3, <2>1 DEF Begin
    <3>2. may \in BOOLEAN
      OBVIOUS
    <3> HIDE DEF may
    <3>3. x \in Request /\ x.pc = "begun" /\ x.kind = kind /\ x.on = on
      <4>1. \A q \in Request, m \in BOOLEAN :
              [q EXCEPT !.order = order, !.approve = approve, !.may = m] \in Request
        BY DEF Request
      <4>2. [Idle EXCEPT !.pc = "begun", !.kind = kind, !.on = on] \in Request
        BY IdleTyped DEF Request
      <4>3. x = [[Idle EXCEPT !.pc = "begun", !.kind = kind, !.on = on]
                   EXCEPT !.order = order, !.approve = approve, !.may = may]
        BY IdleTyped DEF Request
      <4>4. x \in Request
        BY <3>2, <4>1, <4>2, <4>3
      <4> QED BY <4>3, <4>4 DEF Idle
    <3>4. kind = "record" => on \in Items
      BY <1>3 DEF Begin
    <3> HIDE DEF x
    <3>5. Informed(r)'
      BY <1>1, <3>1, <3>3, <3>4 DEF Informed, AtRest, Continue
    <3> QED BY <3>1, <3>3, <3>5, MoveKeepsInv
  <2>2. CASE who \notin Editors
    BY <1>2, <1>3, <2>2 DEF Begin
  <2> QED BY <2>1, <2>2
<1>4. ASSUME NEW to \in BOOLEAN, ReadProject(r, to) PROVE IInv'
  <2> DEFINE saw == IF req[r].kind = "record" THEN item[req[r].on] ELSE base.locked
  <2> DEFINE pc == IF req[r].kind = "lock" THEN "sized" ELSE "read"
  <2> DEFINE sized == IF req[r].kind = "lock" THEN sizing ELSE Unsized
  <2> DEFINE x == [req[r] EXCEPT !.pc = pc, !.saw = saw, !.sized = sized]
  <2>1. req[r].pc = "begun" /\ UNCHANGED <<sizing, card, base, item, silent>>
    BY <1>4 DEF ReadProject, At
  <2>2. CASE req[r].on = "escalation" /\ saw = to
    BY <1>2, <1>4, <2>2 DEF ReadProject, Ended
  <2>3. CASE ~(req[r].on = "escalation" /\ saw = to)
    <3>1. Continue(r, x)
      BY <1>4, <2>3 DEF ReadProject
    <3>2. saw \in BOOLEAN /\ pc \in {"sized", "read"} /\ sized \in Sizing
      BY <1>1, <2>1, ProjectAssumption DEF Informed, AtRest, IInv, Typed, Unsized, Sizing
    <3>3. /\ req[r].kind = "record" => saw = item[req[r].on]
          /\ req[r].kind = "unlock" => saw = base.locked
          /\ req[r].kind = "lock" => sized = sizing /\ pc = "sized"
      OBVIOUS
    <3> HIDE DEF saw, pc, sized
    <3>4. /\ x \in Request /\ x.pc = pc /\ x.kind = req[r].kind /\ x.on = req[r].on
          /\ x.saw = saw /\ x.sized = sized /\ x.raced = req[r].raced
      BY <1>1, <3>2 DEF Request
    <3> HIDE DEF x
    <3>5. Informed(r)'
      <4>1. req'[r] = x
        BY <1>1, <3>1 DEF Continue
      <4>2. req[r].kind = "record" => req[r].on \in Items
        BY <1>1, <2>1 DEF Informed, AtRest
      <4> QED BY <2>1, <3>2, <3>3, <3>4, <4>1, <4>2 DEF Informed
    <3> QED BY <2>1, <3>1, <3>4, <3>5, MoveKeepsInv
  <2> QED BY <2>2, <2>3
<1>5. CASE ReadCard(r)
  <2> DEFINE x == [req[r] EXCEPT !.pc = "read", !.roles = card]
  <2>1. /\ Continue(r, x) /\ UNCHANGED <<sizing, card, base, item, silent>>
        /\ req[r].kind \in {"lock", "cell", "import"}
        /\ req[r].kind = "lock" => req[r].pc = "sized"
    BY <1>5 DEF ReadCard, At
  <2>2. /\ x \in Request /\ x.pc = "read" /\ x.kind = req[r].kind
        /\ x.sized = req[r].sized /\ x.roles = card /\ x.raced = req[r].raced
    BY <1>1 DEF Request, IInv, Typed
  <2> HIDE DEF x
  <2>3. req'[r] = x
    BY <1>1, <2>1 DEF Continue
  <2>4. Informed(r)'
    BY <1>1, <2>1, <2>2, <2>3 DEF Informed, AtRest
  <2> QED BY <2>1, <2>2, <2>4, MoveKeepsInv
<1>6. CASE Intervene(r)
  <2> DEFINE pc == IF (req[r].order => req[r].saw) /\ (req[r].approve => req[r].may)
                   THEN "done" ELSE "refused"
  <2>1. Continue(r, [Idle EXCEPT !.pc = pc]) /\ UNCHANGED <<sizing, card, base, item, silent>>
    BY <1>6 DEF Intervene, Ended
  <2>2. pc \in {"done", "refused"}
    OBVIOUS
  <2> HIDE DEF pc
  <2> QED BY <1>2, <2>1, <2>2
<1>7. CASE Fail(r)
  BY <1>2, <1>7 DEF Fail, Ended
<1> QED BY <1>3, <1>4, <1>5, <1>6, <1>7

\* The requests of a kind.
Kind(k) == {q \in Requests : req[q].kind = k}

\* Who is told, as sets.
LEMMA TellIsTold ==
  ASSUME NEW r, NEW x
  PROVE  /\ Tell(r, x, ConcernsSizing) => Told(r, x, Kind("lock"))
         /\ Tell(r, x, LAMBDA q : q.kind = "unlock") => Told(r, x, Kind("unlock"))
         /\ Tell(r, x, LAMBDA q : TRUE) => Told(r, x, Requests)
BY DEF Tell, Told, Kind, ConcernsSizing

\* What a request is when it has ended.
LEMMA DoneTyped == Ended(None, "done") \in Request /\ Ended(None, "done").pc = "done"
                   /\ \A r : Ended(r, "done") = Ended(None, "done")
BY IdleTyped DEF Ended, Idle

\* The lock and the unlocking of the baseline.
LEMMA LocksKeepInv ==
  ASSUME IInv, NEW r \in Requests, Lock(r) \/ Unlock(r)
  PROVE  IInv'
<1>1. /\ req[r] \in Request /\ Informed(r) /\ UNCHANGED <<sizing, card, item>>
      /\ Tell(r, Ended(r, "done"), LAMBDA q : q.kind = "unlock")
      /\ req[r].pc = "read" /\ ~AtRest(r)
  BY DEF IInv, Typed, Lock, Unlock, At, AtRest
<1>2. Told(r, Ended(r, "done"), Kind("unlock"))
  BY <1>1, TellIsTold
<1>3. base'.locked \in BOOLEAN /\ QuietIsExact' /\ Explained'
  <2>1. CASE Lock(r)
    <3> DEFINE totals == SizedNow(req[r].sized, req[r].roles)
    <3> DEFINE exact == totals = SizedNow(sizing, card)
    <3>1. /\ base' = [locked |-> TRUE, totals |-> totals, exact |-> exact, quiet |-> ~req[r].raced]
          /\ silent' = silent /\ req[r].kind = "lock"
      BY <2>1 DEF Lock, At
    <3>2. ~req[r].raced => exact
      BY <1>1, <3>1 DEF Informed
    <3> HIDE DEF exact, totals
    <3> QED BY <1>1, <3>1, <3>2 DEF IInv, QuietIsExact, Explained
  <2>2. CASE Unlock(r)
    <3>1. /\ base' = [locked |-> FALSE, totals |-> None, exact |-> TRUE, quiet |-> TRUE]
          /\ silent' = IF base.locked /\ ~req[r].saw THEN silent \cup {Silence(r)} ELSE silent
          /\ req[r].kind = "unlock"
      BY <2>2 DEF Unlock, At
    <3>2. base.locked /\ ~req[r].saw => Silence(r) = "raced"
      BY <1>1, <3>1 DEF Informed, Silence
    <3> QED BY <3>1, <3>2 DEF IInv, QuietIsExact, Explained
  <2> QED BY <1>1, <2>1, <2>2 DEF Lock, Unlock
<1> QED BY <1>1, <1>2, <1>3, DoneTyped, WriteKeepsInv DEF Kind, IInv, Typed, Same, SameLock

\* A record changes, and whoever is about it is told.
LEMMA ItemKeepsInv ==
  ASSUME IInv, NEW r, NEW x \in Request, x.pc \in {"idle", "done"}, NEW T,
         Told(r, x, T), UNCHANGED <<sizing, card, base>>,
         item' \in [Items -> BOOLEAN], Explained',
         \A q \in Requests : ~AtRest(q) /\ q # r /\ q \notin T =>
           (req[q].kind = "record" => Same(req[q].on))
  PROVE  IInv'
<1>1. QuietIsExact'
  BY DEF IInv, QuietIsExact
<1>2. sizing' \in Sizing /\ card' \in Card /\ base'.locked \in BOOLEAN
  BY DEF IInv, Typed
<1>3. \A q \in Requests : ~AtRest(q) /\ q # r /\ q \notin T =>
        /\ req[q].kind = "unlock" => SameLock
        /\ req[q].kind = "record" => Same(req[q].on)
        /\ req[q].kind = "lock" => sizing' = sizing /\ card' = card
  BY DEF SameLock
<1>4. x.pc \in {"idle", "done", "refused"}
  OBVIOUS
<1> QED BY <1>1, <1>2, <1>3, <1>4, WriteKeepsInv

\* A record and its entry on the trail.
LEMMA RecordKeepsInv ==
  ASSUME IInv, NEW r \in Requests, NEW to \in BOOLEAN, Record(r, to)
  PROVE  IInv'
<1> DEFINE i == req[r].on
<1>1. PICK T \in SUBSET Requests : T = {q \in Requests : req[q].on = i}
  OBVIOUS
<1>2. /\ req[r] \in Request /\ Informed(r) /\ UNCHANGED <<sizing, card, base>>
      /\ req[r].pc = "read" /\ req[r].kind = "record" /\ ~AtRest(r)
      /\ Told(r, Ended(r, "done"), T)
      /\ item' = [item EXCEPT ![i] = to]
      /\ silent' = silent \/ /\ item[i] # to /\ req[r].saw = to
                             /\ silent' = silent \cup {Silence(r)}
  BY <1>1 DEF IInv, Typed, Record, At, AtRest, Tell, Told
<1>3. i \in Items
  BY <1>2 DEF Informed
<1>4. item[i] # to /\ req[r].saw = to => Silence(r) = "raced"
  BY <1>2 DEF Informed, Silence
<1>5. Explained'
  BY <1>2, <1>4 DEF IInv, Explained
<1>6. /\ item' \in [Items -> BOOLEAN]
      /\ \A q \in Requests : ~AtRest(q) /\ q # r /\ q \notin T =>
           (req[q].kind = "record" => Same(req[q].on))
  BY <1>1, <1>2, <1>3 DEF IInv, Typed, Informed, Same
<1>7. Ended(r, "done") \in Request /\ Ended(r, "done").pc = "done"
  BY DoneTyped
<1>8. Told(r, Ended(r, "done"), T) /\ UNCHANGED <<sizing, card, base>>
  BY <1>2
<1> HIDE DEF i
<1> QED BY <1>5, <1>6, <1>7, <1>8, ItemKeepsInv

\* The form of a RAID item and a file of figures write without having read.
LEMMA OverwritesKeepInv ==
  ASSUME IInv, NEW i \in Items, NEW to \in BOOLEAN, Overwrite(i, to)
  PROVE  IInv'
<1>1. /\ item' = [item EXCEPT ![i] = to] /\ UNCHANGED <<sizing, card, base>>
      /\ silent' \in {silent, silent \cup {"form"}}
      /\ Tell(None, Idle, LAMBDA q : q.on = i)
  BY DEF Overwrite
<1>2. PICK T \in SUBSET Requests : T = {q \in Requests : req[q].on = i}
  OBVIOUS
<1>3. Told(None, Idle, T)
  BY <1>1, <1>2 DEF Tell, Told
<1>4. Explained'
  BY <1>1 DEF IInv, Explained
<1>5. /\ item' \in [Items -> BOOLEAN]
      /\ \A q \in Requests : ~AtRest(q) /\ q # None /\ q \notin T =>
           (req[q].kind = "record" => Same(req[q].on))
  BY <1>1, <1>2 DEF IInv, Typed, Informed, Same
<1>6. Idle \in Request /\ Idle.pc = "idle"
  BY IdleTyped DEF Idle
<1>7. UNCHANGED <<sizing, card, base>>
  BY <1>1
<1> QED BY <1>3, <1>4, <1>5, <1>6, <1>7, ItemKeepsInv

\* What locks are made of changes, and whoever locks is told.
LEMMA SizingKeepsInv ==
  ASSUME IInv, NEW r, NEW x \in Request, x.pc \in {"idle", "done"},
         Tell(r, x, ConcernsSizing), UNCHANGED <<base, item, silent>>,
         sizing' \in Sizing, card' \in Card
  PROVE  IInv'
<1>1. Told(r, x, Kind("lock"))
  BY TellIsTold
<1>2. QuietIsExact' /\ Explained'
  BY DEF IInv, QuietIsExact, Explained
<1>3. base'.locked \in BOOLEAN /\ item' \in [Items -> BOOLEAN]
  BY DEF IInv, Typed
<1>4. /\ Kind("lock") \in SUBSET Requests
      /\ \A q \in Requests : q \notin Kind("lock") => req[q].kind # "lock"
  BY DEF Kind
<1> QED BY <1>1, <1>2, <1>3, <1>4, WriteKeepsInv DEF Same, SameLock

\* A request that ends without a write.
LEMMA RefusedKeepsInv ==
  ASSUME IInv, NEW r \in Requests, Continue(r, Ended(r, "refused")),
         UNCHANGED <<sizing, card, base, item, silent>>
  PROVE  IInv'
<1> DEFINE x == [Idle EXCEPT !.pc = "refused"]
<1>1. x \in Request /\ x.pc = "refused" /\ Continue(r, x)
  BY IdleTyped DEF Idle, Ended
<1> HIDE DEF x
<1>2. Informed(r)'
  BY <1>1 DEF Informed, AtRest, Continue, IInv, Typed
<1> QED BY <1>1, <1>2, MoveKeepsInv

\* Cells of the matrix, one or a file of them.
LEMMA CellsKeepInv ==
  ASSUME IInv, NEW r \in Requests, NEW h \in Hours,
         ImportCells(r, h) \/ \E a \in Roles : SetCell(r, a, h)
  PROVE  IInv'
<1>1. sizing \in Sizing /\ card \in Card /\ UNCHANGED <<card, base, item, silent>>
  BY DEF IInv, Typed, ImportCells, SetCell
<1> DEFINE Written == /\ Tell(r, Ended(r, "done"), ConcernsSizing)
                      /\ \E cells \in [Roles -> Hours] : sizing' = [sizing EXCEPT !.cells = cells]
<1> DEFINE Refused == Continue(r, Ended(r, "refused")) /\ sizing' = sizing
<1>2. Refused \/ Written
  <2>1. CASE ImportCells(r, h)
    <3> DEFINE found == {a \in Roles : req[r].roles[a] # None}
    <3> DEFINE gone == \E a \in found : card[a] = None
    <3> DEFINE cells == [a \in Roles |-> IF a \in found THEN h ELSE sizing.cells[a]]
    <3>1. CASE found = {}
      BY <2>1, <3>1 DEF ImportCells
    <3>2. CASE found # {} /\ gone
      BY <2>1, <3>2 DEF ImportCells
    <3>3. CASE found # {} /\ ~gone
      <4>1. /\ Tell(r, Ended(r, "done"), ConcernsSizing)
            /\ sizing' = [sizing EXCEPT !.cells = cells]
        BY <1>1, <2>1, <3>3 DEF ImportCells, Sizing
      <4>2. cells \in [Roles -> Hours]
        BY <1>1 DEF Sizing
      <4> HIDE DEF cells, found
      <4> QED BY <4>1, <4>2
    <3> QED BY <3>1, <3>2, <3>3
  <2>2. ASSUME NEW a \in Roles, SetCell(r, a, h) PROVE Refused \/ Written
    <3> DEFINE cells == [sizing.cells EXCEPT ![a] = h]
    <3>1. CASE req[r].roles[a] = None \/ card[a] = None
      BY <2>2, <3>1 DEF SetCell
    <3>2. CASE ~(req[r].roles[a] = None \/ card[a] = None)
      <4>1. /\ Tell(r, Ended(r, "done"), ConcernsSizing)
            /\ sizing' = [sizing EXCEPT !.cells = cells]
        BY <1>1, <2>2, <3>2 DEF SetCell, Sizing
      <4>2. cells \in [Roles -> Hours]
        BY <1>1 DEF Sizing
      <4> HIDE DEF cells
      <4> QED BY <4>1, <4>2
    <3> QED BY <3>1, <3>2
  <2> QED BY <2>1, <2>2
<1>3. CASE Refused
  BY <1>1, <1>3, RefusedKeepsInv
<1>4. CASE Written
  <2>1. sizing' \in Sizing
    BY <1>1, <1>4 DEF Sizing
  <2>2. Ended(r, "done") \in Request /\ Ended(r, "done").pc = "done"
    BY DoneTyped
  <2> QED BY <1>1, <1>4, <2>1, <2>2, SizingKeepsInv
<1> QED BY <1>2, <1>3, <1>4

\* Intake and rate card.
LEMMA CardKeepsInv ==
  ASSUME IInv,
         \/ \E mode \in {"MATRIX", "DIRECT"}, direct \in Revenue : SetIntake(mode, direct)
         \/ \E a \in Roles : DropRole(a) \/ \E rate \in Rates : AddRole(a, rate)
  PROVE  IInv'
<1>1. sizing \in Sizing /\ card \in Card
  BY DEF IInv, Typed
<1>2. UNCHANGED <<base, item, silent>> /\ Tell(None, Idle, ConcernsSizing)
  BY DEF SetIntake, DropRole, AddRole
<1>3. card' \in Card
  BY <1>1 DEF SetIntake, DropRole, AddRole, Card
<1>4. sizing' \in Sizing
  <2>1. ASSUME NEW mode \in {"MATRIX", "DIRECT"}, NEW direct \in Revenue, SetIntake(mode, direct)
        PROVE  sizing' \in Sizing
    BY <1>1, <2>1 DEF SetIntake, Sizing
  <2>2. ASSUME NEW a \in Roles, DropRole(a) PROVE sizing' \in Sizing
    <3>1. sizing' = [sizing EXCEPT !.cells = [sizing.cells EXCEPT ![a] = 0]]
      BY <1>1, <2>2 DEF DropRole, Sizing
    <3>2. [sizing.cells EXCEPT ![a] = 0] \in [Roles -> Hours]
      BY <1>1, ProjectAssumption DEF Sizing
    <3> QED BY <1>1, <3>1, <3>2 DEF Sizing
  <2>3. ASSUME NEW a \in Roles, NEW rate \in Rates, AddRole(a, rate) PROVE sizing' \in Sizing
    BY <1>1, <2>3 DEF AddRole
  <2> QED BY <2>1, <2>2, <2>3
<1>5. Idle \in Request /\ Idle.pc = "idle"
  BY IdleTyped DEF Idle
<1> QED BY <1>2, <1>3, <1>4, <1>5, SizingKeepsInv

\* A restore, of which everybody is told.
LEMMA RestoreKeepsInv == ASSUME IInv, NEW file \in Files, Restore(file) PROVE IInv'
<1>1. file \in File
  BY ProjectAssumption
<1>2. /\ sizing' \in Sizing /\ item' \in [Items -> BOOLEAN]
      /\ base'.locked \in BOOLEAN /\ base'.exact = TRUE
      /\ card' \in Card /\ Explained'
  <2>1. sizing' = file.sizing /\ item' = file.item
    BY DEF Restore
  <2>2. base'.locked \in BOOLEAN /\ base'.exact = TRUE
    BY DEF Restore
  <2>3. card' \in Card
    BY <1>1 DEF Restore, File, Card, IInv, Typed
  <2>4. Explained'
    BY DEF Restore, IInv, Explained
  <2> QED BY <1>1, <2>1, <2>2, <2>3, <2>4 DEF File
<1>3. Told(None, Idle, Requests)
  BY TellIsTold DEF Restore
<1>4. Idle \in Request /\ Idle.pc = "idle"
  BY IdleTyped DEF Idle
<1>5. QuietIsExact'
  BY <1>2 DEF QuietIsExact
<1> QED BY <1>2, <1>3, <1>4, <1>5, WriteKeepsInv

\* Every request, every change of the card and every restore keeps the invariant.
LEMMA NextKeepsInv == IInv /\ [Next]_vars => IInv'
<1> SUFFICES ASSUME IInv, [Next]_vars PROVE IInv'
  OBVIOUS
<1>1. ASSUME NEW r \in Requests, Step(r) PROVE IInv'
  <2>1. CASE (\E to \in BOOLEAN : ReadProject(r, to)) \/ ReadCard(r) \/ Intervene(r) \/ Fail(r)
    BY <2>1, MovesKeepInv
  <2>2. CASE Lock(r) \/ Unlock(r)
    BY <2>2, LocksKeepInv
  <2>3. CASE \E to \in BOOLEAN : Record(r, to)
    BY <2>3, RecordKeepsInv
  <2>4. CASE \E h \in Hours : ImportCells(r, h) \/ \E a \in Roles : SetCell(r, a, h)
    BY <2>4, CellsKeepInv
  <2> QED BY <1>1, <2>1, <2>2, <2>3, <2>4 DEF Step
<1>2. ASSUME NEW r \in Requests, NEW kind \in Kinds, NEW who \in DeliveryRole,
             NEW on \in Items \cup {"none"}, NEW order \in BOOLEAN, NEW approve \in BOOLEAN,
             Begin(r, kind, who, on, order, approve)
      PROVE  IInv'
  BY <1>2, MovesKeepInv
<1>3. CASE \E mode \in {"MATRIX", "DIRECT"}, direct \in Revenue : SetIntake(mode, direct)
  BY <1>3, CardKeepsInv
<1>4. CASE Administer
  BY <1>4, CardKeepsInv, RestoreKeepsInv DEF Administer
<1>5. ASSUME NEW i \in Items, NEW to \in BOOLEAN, Overwrite(i, to)
      PROVE  IInv'
  BY <1>5, OverwritesKeepInv
<1>6. CASE UNCHANGED vars
  BY <1>6 DEF vars, IInv, Typed, Explained, QuietIsExact, Informed, AtRest
<1> QED BY <1>1, <1>2, <1>3, <1>4, <1>5, <1>6 DEF Next

\* The invariant, for any requests, roles and files.
THEOREM Invariant == Spec => []IInv
<1>1. Init => IInv
  BY InitHolds
<1>2. IInv /\ [Next]_vars => IInv'
  BY NextKeepsInv
<1> QED BY <1>1, <1>2, PTL DEF Spec

\* toggleProjectLock, updateAuditEntry, toggleRaidEscalation, updateFinancialActual: what
\* they discard or change without a word on ledger or trail was changed by another request
\* after it was read; the one writer that leaves no entry otherwise is updateRaidEntry.
THEOREM SilenceIsExplained == Spec => []SilentChangesExplained
<1>1. IInv => SilentChangesExplained
  BY DEF IInv, Explained, SilentChangesExplained
<1> QED BY <1>1, Invariant, PTL

\* toggleProjectLock: a baseline whose lock was not raced is what the project was worth at
\* that moment, by the sizing and the card of that moment.
THEOREM QuietLocksAreExact == Spec => []QuietIsExact
<1>1. IInv => QuietIsExact
  BY DEF IInv
<1> QED BY <1>1, Invariant, PTL

(***************************************************************************)
(* What a baseline is worth                                                *)
(***************************************************************************)
\* What a lock works out is a number, for any matrix and any card.
LEMMA SizingIsNat ==
  ASSUME NEW s \in Sizing, NEW c \in Card
  PROVE  SizedNow(s, c) \in Nat
<1> DEFINE onCard == {b \in Roles : c[b] # None}
           billed == [a \in onCard |-> s.cells[a] * c[a]]
<1>1. s.direct \in Nat /\ IsFiniteSet(onCard)
  BY ProjectAssumption, FS_Subset DEF Sizing
<1>2. billed \in [onCard -> Nat]
  <2> SUFFICES ASSUME NEW a \in onCard PROVE s.cells[a] * c[a] \in Nat
    OBVIOUS
  <2>1. s.cells[a] \in Nat /\ c[a] \in Nat
    BY ProjectAssumption DEF Sizing, Card
  <2>2. \A m, n \in Nat : m * n \in Nat
    OBVIOUS
  <2> QED BY <2>1, <2>2
<1> HIDE DEF billed, onCard
<1>3. SumFunction(billed) \in Nat
  BY <1>1, <1>2, SumIsNat DEF SumFunction
<1> QED
  BY <1>1, <1>3 DEF SizedNow, RevenueOf, billed, onCard

BaseTyped ==
  /\ base.totals \in Nat \cup {None}
  /\ base.exact \in BOOLEAN /\ base.quiet \in BOOLEAN
  /\ base.locked => base.totals # None

\* A locked project keeps a baseline, and a baseline stays a number.
LEMMA BaseStaysTyped ==
  ASSUME IInv, BaseTyped, [Next]_vars
  PROVE  BaseTyped'
<1>1. ASSUME NEW r \in Requests, Lock(r) PROVE BaseTyped'
  <2> DEFINE totals == SizedNow(req[r].sized, req[r].roles)
             exact == totals = SizedNow(sizing, card)
  <2>1. req[r] \in Request
    BY DEF IInv, Typed
  <2>2. totals \in Nat
    BY <2>1, SizingIsNat DEF Request
  <2>3. exact \in BOOLEAN /\ (~req[r].raced) \in BOOLEAN
    OBVIOUS
  <2>4. base' = [locked |-> TRUE, totals |-> totals, exact |-> exact, quiet |-> ~req[r].raced]
    BY <1>1 DEF Lock
  <2> HIDE DEF totals, exact
  <2> QED BY <2>2, <2>3, <2>4, ProjectAssumption DEF BaseTyped
<1>2. ASSUME NEW r \in Requests, Unlock(r) PROVE BaseTyped'
  BY <1>2 DEF Unlock, BaseTyped
<1>3. ASSUME NEW file \in Files, Restore(file) PROVE BaseTyped'
  <2>1. file.totals \in Nat \cup {None}
    BY ProjectAssumption DEF File
  <2> QED BY <1>3, <2>1 DEF Restore, BaseTyped
<1>4. CASE UNCHANGED base
  BY <1>4 DEF BaseTyped
<1>5. ASSUME NEW r \in Requests, Step(r) PROVE BaseTyped'
  BY <1>1, <1>2, <1>4, <1>5
  DEF Step, ReadProject, ReadCard, SetCell, ImportCells, Record, Intervene, Fail
<1>6. CASE Administer
  BY <1>3, <1>4, <1>6 DEF Administer, AddRole, DropRole
<1> QED
  BY <1>4, <1>5, <1>6 DEF Next, vars, Begin, SetIntake, Overwrite

\* A locked project always has a baseline (toggleProjectLock, restoreWorkspaceSnapshot).
THEOREM BaseInvariant == Spec => []BaseTyped
<1>1. Init => BaseTyped
  BY DEF Init, BaseTyped
<1>2. IInv /\ BaseTyped /\ [Next]_vars => BaseTyped'
  BY BaseStaysTyped
<1> QED BY <1>1, <1>2, Invariant, PTL DEF Spec

\* Every variable has its type, the totals of the baseline included.
THEOREM TypeCorrect == Spec => []TypeOK
<1>1. IInv /\ BaseTyped => TypeOK
  BY DEF IInv, Typed, Explained, BaseTyped, TypeOK
<1> QED BY <1>1, Invariant, BaseInvariant, PTL

\* A locked project has a baseline, and one whose lock was not raced is what the
\* project was worth at that moment.
THEOREM LocksStayExact == Spec => []LocksAreExact
<1>1. IInv /\ BaseTyped => LocksAreExact
  BY DEF IInv, QuietIsExact, BaseTyped, LocksAreExact
<1> QED BY <1>1, Invariant, BaseInvariant, PTL
=============================================================================
