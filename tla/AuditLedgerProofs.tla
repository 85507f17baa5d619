-------------------------- MODULE AuditLedgerProofs --------------------------
(***************************************************************************)
(* AuditLedger for any number of requests, tenants and clock values: the   *)
(* per-tenant lock, held from before the head is read until the row it     *)
(* leads to commits or rolls back, keeps the head that a request read the  *)
(* head of the chain until its row is in it.                               *)
(***************************************************************************)
EXTENDS AuditLedger, FiniteSetTheorems, TLAPS

\* What a request that is past the lock may rely on.
PastTheLock(r) ==
  org[r] \in Locked /\ pc[r] \in {"head", "insert", "count", "commit"}

LockHeld ==
  \A r \in Requests : PastTheLock(r) => holder[LockKey[org[r]]] = r

HeadIsFresh(r) ==
  \/ ledger[org[r]] = {} /\ head[r] = None /\ headAt[r] = 0
  \/ \E h \in ledger[org[r]] :
       IsHead(h, org[r]) /\ head[r] = h.event /\ headAt[r] = h.at

HeadFresh ==
  \A r \in Requests : PastTheLock(r) /\ pc[r] # "head" => HeadIsFresh(r)

RowExtendsHead ==
  \A r \in Requests :
    pc[r] \in Uncommitted =>
      row[r].event = r /\ row[r].prev = head[r] /\ row[r].at > headAt[r]

\* A row belongs to a request that is finished, and is its only one.
RowsFinished ==
  \A o \in Orgs : \A s \in ledger[o] : pc[s.event] = "done" /\ org[s.event] = o

OneRowPerEvent ==
  \A o \in Orgs : \A s, t \in ledger[o] : s.event = t.event => s = t

IInv ==
  /\ TypeOK
  /\ LockHeld
  /\ HeadFresh
  /\ RowExtendsHead
  /\ RowsFinished
  /\ OneRowPerEvent
  /\ NoAmbiguousOrder
  /\ ChainVerifies

\* Every variable has its type in every reachable state, for any constants.
THEOREM TypeCorrect == Spec => []TypeOK
<1>. USE LedgerAssumption
<1>1. Init => TypeOK
  BY FS_EmptySet DEF Init, TypeOK, Statements, Row, Uncommitted
<1>2. TypeOK /\ [Next]_vars => TypeOK'
  <2> SUFFICES ASSUME TypeOK, [Next]_vars PROVE TypeOK'
    OBVIOUS
  <2> USE DEF TypeOK, Statements, Row, Uncommitted, input, Release
  <2>1. ASSUME NEW r \in Requests, NEW o \in Orgs, NEW v \in {"db", "tx"}, Begin(r, o, v)
        PROVE TypeOK'
    BY <2>1 DEF Begin
  <2>2. ASSUME NEW r \in Requests, AcquireLock(r) PROVE TypeOK'
    BY <2>2 DEF AcquireLock
  <2>3. ASSUME NEW r \in Requests, ReadHead(r) PROVE TypeOK'
    BY <2>3 DEF ReadHead
  <2>4. ASSUME NEW r \in Requests, NEW now \in Clock, Insert(r, now) PROVE TypeOK'
    BY <2>4 DEF Insert, CreatedAt, Larger
  <2>5. ASSUME NEW r \in Requests, Count(r) PROVE TypeOK'
    <3>1. Cardinality(ledger[org[r]]) \in Nat
      BY <2>5, FS_CardinalityType DEF Count
    <3> QED
      BY <2>5, <3>1 DEF Count
  <2>6. ASSUME NEW r \in Requests, Commit(r) PROVE TypeOK'
    <3>1. org[r] \in Orgs /\ row[r] \in Row /\ IsFiniteSet(ledger[org[r]])
      BY <2>6 DEF Commit
    <3>2. IsFiniteSet(ledger[org[r]] \cup {row[r]})
      BY <3>1, FS_AddElement
    <3>3. /\ ledger' \in [Orgs -> SUBSET Row]
          /\ \A o \in Orgs : IsFiniteSet(ledger'[o])
      BY <2>6, <3>1, <3>2 DEF Commit
    <3>4. row' \in [Requests -> Row \cup {None}]
      BY <2>6 DEF Commit
    <3>5. /\ pc' = [pc EXCEPT ![r] = "done"]
          /\ \A q \in Requests : pc'[q] \in Uncommitted => row'[q] \in Row
      BY <2>6 DEF Commit
    <3>6. /\ pc' \in [Requests -> Statements \cup {"idle", "commit", "aborted", "done"}]
          /\ org' = org /\ \A q \in Requests : pc'[q] # "idle" => org[q] \in Orgs
      BY <2>6, <3>1 DEF Commit
    <3>7. /\ holder' \in [Keys -> Requests \cup {None}]
          /\ result' \in [Requests -> {"none", "recorded", "null"}]
          /\ mutation' \in [Requests -> {"none", "open", "committed", "lost"}]
          /\ UNCHANGED <<via, attempt, head, headAt, sequence>>
      BY <2>6 DEF Commit
    <3> QED
      BY <3>3, <3>4, <3>5, <3>6, <3>7
  <2>7. ASSUME NEW r \in Requests, Collide(r) PROVE TypeOK'
    BY <2>7 DEF Collide, Swallow
  <2>8. ASSUME NEW r \in Requests, CommitAborted(r) PROVE TypeOK'
    BY <2>8 DEF CommitAborted
  <2>9. ASSUME NEW r \in Requests, StatementFails(r) PROVE TypeOK'
    BY <2>9 DEF StatementFails, Swallow
  <2>10. ASSUME NEW r \in Requests, CommitFails(r) PROVE TypeOK'
    BY <2>10 DEF CommitFails, Swallow
  <2>11. ASSUME NEW r \in Requests, Crash(r) PROVE TypeOK'
    BY <2>11 DEF Crash
  <2>12. CASE UNCHANGED vars
    BY <2>12 DEF vars
  <2> QED
    BY <2>1, <2>2, <2>3, <2>4, <2>5, <2>6, <2>7, <2>8, <2>9, <2>10, <2>11, <2>12
    DEF Next, Step, Fault, Finished
<1> QED
  BY <1>1, <1>2, PTL DEF Spec

(***************************************************************************)
(* A chain extended at its head is a chain, and its order stays strict.    *)
(***************************************************************************)
\* n follows the head of rows: the genesis of an empty set, or later than h.
Follows(n, rows) ==
  \/ rows = {} /\ n.prev = None
  \/ \E h \in rows : /\ \A s \in rows : s.at <= h.at
                     /\ n.prev = h.event
                     /\ h.at < n.at

\* A row that follows the head is later than all of them.
LEMMA FollowsIsLater ==
  ASSUME NEW rows \in SUBSET Row, NEW n \in Row, Follows(n, rows), NEW s \in rows
  PROVE  s.at < n.at
BY DEF Follows, Row

\* A chain that verifies still does with one more row that follows its head.
LEMMA ExtendedChainVerifies ==
  ASSUME NEW rows \in SUBSET Row, NEW n \in Row, Follows(n, rows),
         \A s \in rows : LinkHolds(s, rows)
  PROVE  \A s \in rows \cup {n} : LinkHolds(s, rows \cup {n})
<1> USE LedgerAssumption DEF Row
<1>1. \A s \in rows : s.at < n.at
  BY FollowsIsLater
<1>2. ASSUME NEW s \in rows PROVE LinkHolds(s, rows \cup {n})
  <2>1. CASE s.prev = None
    BY <1>1, <1>2, <2>1 DEF LinkHolds
  <2>2. CASE s.prev # None
    <3>1. PICK p \in rows : p.event = s.prev /\ Latest(p, s, rows)
      BY <1>2, <2>2 DEF LinkHolds
    <3>2. Latest(p, s, rows \cup {n})
      BY <1>1, <1>2, <3>1 DEF Latest
    <3> QED
      BY <2>2, <3>1, <3>2 DEF LinkHolds
  <2> QED
    BY <2>1, <2>2
<1>3. LinkHolds(n, rows \cup {n})
  <2>1. CASE rows = {} /\ n.prev = None
    BY <2>1 DEF LinkHolds
  <2>2. ASSUME NEW h \in rows, \A s \in rows : s.at <= h.at,
               n.prev = h.event, h.at < n.at
        PROVE  LinkHolds(n, rows \cup {n})
    <3>1. Latest(h, n, rows \cup {n})
      BY <2>2 DEF Latest
    <3>2. n.prev # None
      BY <2>2
    <3> QED
      BY <2>2, <3>1, <3>2 DEF LinkHolds
  <2> QED
    BY <2>1, <2>2 DEF Follows
<1> QED
  BY <1>2, <1>3

(***************************************************************************)
(* The lock keeps one request per tenant between its head and its commit.  *)
(***************************************************************************)
LEMMA OnePastTheLock ==
  ASSUME IInv, NEW q \in Requests, NEW r \in Requests, org[q] = org[r],
         PastTheLock(q), PastTheLock(r)
  PROVE  q = r
BY DEF IInv, LockHeld, PastTheLock

\* What Commit adds to its tenant's rows.
LEMMA CommitFollows ==
  ASSUME IInv, NEW r \in Requests, pc[r] = "commit", org[r] \in Locked
  PROVE  Follows(row[r], ledger[org[r]])
<1>1. org[r] \in Orgs /\ row[r] \in Row /\ HeadIsFresh(r)
  BY DEF IInv, TypeOK, HeadFresh, PastTheLock, Uncommitted
<1>2. row[r].event = r /\ row[r].prev = head[r] /\ row[r].at > headAt[r]
  BY DEF IInv, RowExtendsHead, Uncommitted
<1>3. CASE ledger[org[r]] = {} /\ head[r] = None
  BY <1>1, <1>2, <1>3 DEF Follows
<1>4. ASSUME NEW h \in ledger[org[r]], IsHead(h, org[r]), head[r] = h.event, headAt[r] = h.at
      PROVE  Follows(row[r], ledger[org[r]])
  BY <1>1, <1>2, <1>4 DEF Follows, IsHead, Row, IInv, TypeOK
<1> QED
  BY <1>1, <1>2, <1>3, <1>4 DEF HeadIsFresh

(***************************************************************************)
(* The steps.  Only Commit changes the ledger; only ReadHead changes what  *)
(* a request took the head to be.                                          *)
(***************************************************************************)
\* A step of r that leaves rows and heads alone and moves r outside the lock,
\* releasing at most what r holds.
LEMMA LeavingKeepsInv ==
  ASSUME IInv, TypeOK', NEW r \in Requests, pc[r] \notin {"idle", "done"},
         pc' = [pc EXCEPT ![r] = pc'[r]],
         pc'[r] \in {"lock", "aborted", "done"},
         \A q \in Requests \ {r} : row'[q] = row[q],
         UNCHANGED <<ledger, org, head, headAt>>,
         Release(r) \/ UNCHANGED holder
  PROVE  IInv'
<1> USE LedgerAssumption
<1>1. pc \in [Requests -> Statements \cup {"idle", "commit", "aborted", "done"}]
  BY DEF IInv, TypeOK
<1>2. \A q \in Requests \ {r} : pc'[q] = pc[q]
  BY <1>1
<1>3. \A q \in Requests \ {r} : pc[q] # "idle" => LockKey[org[q]] \in Keys
  BY DEF IInv, TypeOK
<1>4. LockHeld'
  <2> SUFFICES ASSUME NEW q \in Requests, PastTheLock(q)'
               PROVE  holder'[LockKey[org[q]]] = q
    BY DEF LockHeld, PastTheLock
  <2>1. q # r /\ holder[LockKey[org[q]]] = q /\ LockKey[org[q]] \in Keys
    BY <1>2, <1>3 DEF IInv, LockHeld, PastTheLock
  <2> QED
    BY <2>1 DEF Release
<1>5. HeadFresh'
  BY <1>2 DEF IInv, HeadFresh, PastTheLock, HeadIsFresh, IsHead
<1>6. RowExtendsHead'
  BY <1>2 DEF IInv, RowExtendsHead, Uncommitted
<1>7. RowsFinished'
  BY <1>1, <1>2 DEF IInv, RowsFinished, TypeOK, Row
<1>8. OneRowPerEvent' /\ NoAmbiguousOrder' /\ ChainVerifies'
  BY DEF IInv, OneRowPerEvent, NoAmbiguousOrder, ChainVerifies, VerifyLedgerIntegrity
<1> QED
  BY <1>4, <1>5, <1>6, <1>7, <1>8 DEF IInv

\* Commit appends at the head of its own chain, which no other request has read.
LEMMA CommitKeepsInv ==
  ASSUME IInv, TypeOK', NEW r \in Requests, Commit(r)
  PROVE  IInv'
<1> USE LedgerAssumption
<1> DEFINE o == org[r]
           n == row[r]
<1>1. /\ o \in Orgs /\ n \in Row /\ n.event = r
      /\ o \in Locked => Follows(n, ledger[o])
  BY CommitFollows DEF Commit, IInv, TypeOK, RowExtendsHead, Uncommitted
<1>2. /\ ledger \in [Orgs -> SUBSET Row]
      /\ pc[r] = "commit" /\ org' = org
      /\ ledger'[o] = ledger[o] \cup {n}
      /\ \A u \in Orgs \ {o} : ledger'[u] = ledger[u]
  BY <1>1 DEF Commit, IInv, TypeOK, input
<1>3. pc'[r] = "done" /\ \A q \in Requests \ {r} : pc'[q] = pc[q] /\ row'[q] = row[q]
  BY DEF Commit, IInv, TypeOK
<1>4. LockHeld'
  <2> SUFFICES ASSUME NEW q \in Requests, PastTheLock(q)'
               PROVE  holder'[LockKey[org[q]]] = q
    BY <1>2 DEF LockHeld, PastTheLock
  <2>1. q # r /\ PastTheLock(q)
    BY <1>2, <1>3 DEF PastTheLock
  <2>2. holder[LockKey[org[q]]] = q /\ LockKey[org[q]] \in Keys
    BY <2>1 DEF IInv, LockHeld, PastTheLock, TypeOK
  <2> QED
    BY <2>1, <2>2 DEF Commit, Release
<1>5. HeadFresh'
  <2> SUFFICES ASSUME NEW q \in Requests, PastTheLock(q)', pc'[q] # "head"
               PROVE  HeadIsFresh(q)'
    BY DEF HeadFresh
  <2>1. q # r /\ PastTheLock(q) /\ HeadIsFresh(q) /\ org[q] \in Orgs
    BY <1>2, <1>3 DEF IInv, HeadFresh, PastTheLock, TypeOK
  <2>2. org[q] # o
    BY <1>2, <2>1, OnePastTheLock DEF PastTheLock
  <2>3. ledger'[org[q]] = ledger[org[q]]
    BY <1>2, <2>1, <2>2
  <2>4. head' = head /\ headAt' = headAt /\ org' = org
    BY <1>2 DEF Commit
  <2> QED
    BY <2>1, <2>3, <2>4 DEF HeadIsFresh, IsHead
<1>6. RowExtendsHead'
  BY <1>3 DEF IInv, RowExtendsHead, Uncommitted, Commit
<1>7. RowsFinished'
  <2> SUFFICES ASSUME NEW u \in Orgs, NEW s \in ledger'[u]
               PROVE  pc'[s.event] = "done" /\ org'[s.event] = u
    BY DEF RowsFinished
  <2>1. CASE u = o /\ s = n
    BY <1>1, <1>2, <1>3, <2>1
  <2>2. CASE s \in ledger[u]
    <3>1. pc[s.event] = "done" /\ org[s.event] = u /\ s.event \in Requests
      BY <1>2, <2>2 DEF IInv, RowsFinished, Row
    <3> QED
      BY <1>2, <1>3, <3>1
  <2> QED
    BY <1>1, <1>2, <2>1, <2>2
<1>8. \A s \in ledger[o] : (o \in Locked => s.at < n.at) /\ s.event # n.event
  <2>1. o \in Locked => \A s \in ledger[o] : s.at < n.at
    BY <1>1, <1>2, FollowsIsLater
  <2>2. \A s \in ledger[o] : s.event # n.event
    BY <1>1, <1>2 DEF IInv, RowsFinished
  <2> QED
    BY <2>1, <2>2
<1>9. OneRowPerEvent'
  BY <1>1, <1>2, <1>8 DEF IInv, OneRowPerEvent
<1>10. NoAmbiguousOrder'
  <2>1. o \in Locked => \A s \in ledger[o] : s.at # n.at
    BY <1>1, <1>2, <1>8 DEF Row
  <2> QED
    BY <1>1, <1>2, <2>1 DEF IInv, NoAmbiguousOrder
<1>11. ChainVerifies'
  <2>1. o \in Locked => \A s \in ledger'[o] : LinkHolds(s, ledger'[o])
    BY <1>1, <1>2, ExtendedChainVerifies
    DEF IInv, ChainVerifies, VerifyLedgerIntegrity
  <2> QED
    BY <1>1, <1>2, <2>1 DEF IInv, ChainVerifies, VerifyLedgerIntegrity
<1> QED
  BY <1>4, <1>5, <1>6, <1>7, <1>9, <1>10, <1>11 DEF IInv

\* The invariant holds of empty ledgers,
LEMMA InitEstablishesInv == Init => IInv
<1> SUFFICES ASSUME Init PROVE IInv
  OBVIOUS
<1>1. TypeOK
  BY LedgerAssumption, FS_EmptySet DEF Init, TypeOK, Statements, Row, Uncommitted
<1>2. LockHeld /\ HeadFresh /\ RowExtendsHead
  BY DEF Init, LockHeld, PastTheLock, HeadFresh, RowExtendsHead, Uncommitted
<1>3. \A o \in Orgs : ledger[o] = {}
  BY DEF Init
<1> QED
  BY <1>1, <1>2, <1>3, LedgerAssumption
  DEF IInv, RowsFinished, OneRowPerEvent, NoAmbiguousOrder, ChainVerifies,
      VerifyLedgerIntegrity

\* ... and every step of a request, a fault included, keeps it,
LEMMA StepKeepsInv ==
  ASSUME IInv, TypeOK', [Next]_vars
  PROVE  IInv'
<1> USE LedgerAssumption
<1> USE DEF Statements
<1>1. ASSUME NEW r \in Requests, NEW o \in Orgs, NEW v \in {"db", "tx"}, Begin(r, o, v)
      PROVE  IInv'
  <2>1. /\ \A q \in Requests \ {r} : pc'[q] = pc[q] /\ org'[q] = org[q]
        /\ pc[r] = "idle" /\ pc'[r] = "lock"
        /\ UNCHANGED <<ledger, holder, head, headAt, row>>
    BY <1>1 DEF Begin, IInv, TypeOK
  <2>2. LockHeld' /\ HeadFresh' /\ RowExtendsHead'
    BY <2>1 DEF IInv, LockHeld, PastTheLock, HeadFresh, HeadIsFresh, IsHead, RowExtendsHead, Uncommitted
  <2>3. RowsFinished'
    BY <2>1 DEF IInv, RowsFinished, TypeOK, Row
  <2> QED
    BY <2>1, <2>2, <2>3
    DEF IInv, OneRowPerEvent, NoAmbiguousOrder, ChainVerifies, VerifyLedgerIntegrity
<1>2. ASSUME NEW r \in Requests, AcquireLock(r) PROVE IInv'
  <2>1. /\ \A q \in Requests \ {r} : pc'[q] = pc[q]
        /\ pc[r] = "lock" /\ pc'[r] = "head"
        /\ org[r] \in Orgs /\ LockKey[org[r]] \in Keys
        /\ UNCHANGED <<ledger, org, head, headAt, row>>
    BY <1>2 DEF AcquireLock, IInv, TypeOK, input
  <2>2. LockHeld'
    <3>1. CASE org[r] \in Locked
      <4>1. /\ holder[LockKey[org[r]]] = None
            /\ holder' = [holder EXCEPT ![LockKey[org[r]]] = r]
        BY <1>2, <3>1 DEF AcquireLock
      <4> QED
        BY <2>1, <4>1 DEF IInv, LockHeld, PastTheLock, TypeOK
    <3>2. CASE org[r] \notin Locked
      BY <1>2, <2>1, <3>2 DEF AcquireLock, IInv, LockHeld, PastTheLock
    <3> QED
      BY <3>1, <3>2
  <2>3. HeadFresh' /\ RowExtendsHead' /\ RowsFinished'
    BY <2>1 DEF IInv, HeadFresh, PastTheLock, HeadIsFresh, IsHead, RowExtendsHead, Uncommitted,
                RowsFinished, TypeOK, Row
  <2> QED
    BY <2>1, <2>2, <2>3
    DEF IInv, OneRowPerEvent, NoAmbiguousOrder, ChainVerifies, VerifyLedgerIntegrity
<1>3. ASSUME NEW r \in Requests, ReadHead(r) PROVE IInv'
  <2>1. /\ \A q \in Requests \ {r} :
             pc'[q] = pc[q] /\ head'[q] = head[q] /\ headAt'[q] = headAt[q]
        /\ pc[r] = "head" /\ pc'[r] = "insert"
        /\ UNCHANGED <<ledger, holder, org, row>>
    BY <1>3 DEF ReadHead, IInv, TypeOK, input
  <2>2. HeadIsFresh(r)'
    BY <1>3 DEF ReadHead, HeadIsFresh, IsHead, IInv, TypeOK, input
  <2>3. LockHeld' /\ RowExtendsHead' /\ RowsFinished'
    BY <2>1 DEF IInv, LockHeld, PastTheLock, RowExtendsHead, Uncommitted, RowsFinished, TypeOK, Row
  <2>4. HeadFresh'
    BY <2>1, <2>2 DEF IInv, HeadFresh, PastTheLock, HeadIsFresh, IsHead
  <2> QED
    BY <2>1, <2>3, <2>4
    DEF IInv, OneRowPerEvent, NoAmbiguousOrder, ChainVerifies, VerifyLedgerIntegrity
<1>4. ASSUME NEW r \in Requests, NEW now \in Clock, Insert(r, now) PROVE IInv'
  <2>1. /\ \A q \in Requests \ {r} : pc'[q] = pc[q] /\ row'[q] = row[q]
        /\ pc[r] = "insert" /\ pc'[r] = "count"
        /\ row'[r] = [event |-> r, prev |-> head[r], at |-> CreatedAt(r, now)]
        /\ UNCHANGED <<ledger, holder, org, head, headAt>>
    BY <1>4 DEF Insert, IInv, TypeOK, input
  <2>2. CreatedAt(r, now) > headAt[r]
    BY DEF CreatedAt, Larger, IInv, TypeOK
  <2>3. RowExtendsHead'
    BY <2>1, <2>2 DEF IInv, RowExtendsHead, Uncommitted
  <2>4. LockHeld' /\ HeadFresh'
    BY <2>1 DEF IInv, LockHeld, PastTheLock, HeadFresh, HeadIsFresh, IsHead
  <2>5. RowsFinished'
    BY <2>1 DEF IInv, RowsFinished, TypeOK, Row
  <2> QED
    BY <2>1, <2>3, <2>4, <2>5
    DEF IInv, OneRowPerEvent, NoAmbiguousOrder, ChainVerifies, VerifyLedgerIntegrity
<1>5. ASSUME NEW r \in Requests, Count(r) PROVE IInv'
  <2>1. /\ \A q \in Requests \ {r} : pc'[q] = pc[q]
        /\ pc[r] = "count" /\ pc'[r] = "commit"
        /\ UNCHANGED <<ledger, holder, org, head, headAt, row>>
    BY <1>5 DEF Count, IInv, TypeOK, input
  <2>2. LockHeld' /\ HeadFresh' /\ RowExtendsHead' /\ RowsFinished'
    BY <2>1 DEF IInv, LockHeld, PastTheLock, HeadFresh, HeadIsFresh, IsHead, RowExtendsHead,
                Uncommitted, RowsFinished, TypeOK, Row
  <2> QED
    BY <2>1, <2>2
    DEF IInv, OneRowPerEvent, NoAmbiguousOrder, ChainVerifies, VerifyLedgerIntegrity
<1>6. ASSUME NEW r \in Requests, Commit(r) PROVE IInv'
  BY <1>6, CommitKeepsInv
<1>7. ASSUME NEW r \in Requests,
             Collide(r) \/ StatementFails(r) \/ CommitFails(r)
             \/ CommitAborted(r) \/ Crash(r)
      PROVE  IInv'
  <2>1. /\ pc[r] \notin {"idle", "done"}
        /\ pc' = [pc EXCEPT ![r] = pc'[r]]
        /\ pc'[r] \in {"lock", "aborted", "done"}
    BY <1>7 DEF Collide, StatementFails, CommitFails, CommitAborted, Crash, Swallow,
                IInv, TypeOK
  <2>2. \A q \in Requests \ {r} : row'[q] = row[q]
    BY <1>7 DEF Collide, StatementFails, CommitFails, CommitAborted, Crash, Swallow,
                IInv, TypeOK
  <2>3. UNCHANGED <<ledger, org, head, headAt>> /\ (Release(r) \/ UNCHANGED holder)
    BY <1>7 DEF Collide, StatementFails, CommitFails, CommitAborted, Crash, Swallow, input
  <2> QED
    BY <2>1, <2>2, <2>3, LeavingKeepsInv
<1>8. CASE UNCHANGED vars
  BY <1>8 DEF vars, IInv, LockHeld, PastTheLock, HeadFresh, HeadIsFresh, IsHead, RowExtendsHead,
              Uncommitted, RowsFinished, OneRowPerEvent, NoAmbiguousOrder,
              ChainVerifies, VerifyLedgerIntegrity
<1> QED
  BY <1>1, <1>2, <1>3, <1>4, <1>5, <1>6, <1>7, <1>8 DEF Next, Step, Fault, Finished

\* ... so it holds throughout, for any requests, tenants and clocks.
THEOREM Invariance == Spec => []IInv
<1>1. TypeOK' /\ IInv /\ [Next]_vars => IInv'
  BY StepKeepsInv
<1> QED
  BY <1>1, InitEstablishesInv, TypeCorrect, PTL DEF Spec

\* With the lock honoured, verifyLedgerIntegrity accepts every committed state
\* of every tenant's chain.
THEOREM ChainAlwaysVerifies == Spec => []ChainVerifies
<1>1. IInv => ChainVerifies
  BY DEF IInv
<1> QED
  BY <1>1, Invariance, PTL

\* With the lock honoured, no two rows of a tenant share a createdAt.
THEOREM OrderNeverAmbiguous == Spec => []NoAmbiguousOrder
<1>1. IInv => NoAmbiguousOrder
  BY DEF IInv
<1> QED
  BY <1>1, Invariance, PTL

\* Committed rows are never changed or removed and a new one is always the latest.
THEOREM LedgerIsAppendOnly == Spec => AppendOnly
<1> DEFINE Appends ==
      \A o \in Locked :
        /\ ledger[o] \subseteq ledger'[o]
        /\ \A s \in ledger'[o] \ ledger[o] : \A t \in ledger[o] : t.at < s.at
<1>1. IInv /\ [Next]_vars => [Appends]_vars
  <2> SUFFICES ASSUME IInv, Next PROVE Appends
    BY DEF vars
  <2>1. ASSUME NEW r \in Requests, Commit(r) PROVE Appends
    <3>1. /\ org[r] \in Orgs /\ row[r] \in Row
          /\ org[r] \in Locked => Follows(row[r], ledger[org[r]])
      BY <2>1, CommitFollows DEF Commit, IInv, TypeOK, Uncommitted
    <3>2. /\ ledger \in [Orgs -> SUBSET Row]
          /\ ledger' = [ledger EXCEPT ![org[r]] = ledger[org[r]] \cup {row[r]}]
      BY <2>1 DEF Commit, IInv, TypeOK
    <3>3. org[r] \in Locked => \A t \in ledger[org[r]] : t.at < row[r].at
      BY <3>1, <3>2, FollowsIsLater
    <3> QED
      BY <3>1, <3>2, <3>3
  <2>2. CASE UNCHANGED ledger
    BY <2>2
  <2> QED
    BY <2>1, <2>2
    DEF Next, Step, Fault, Finished, vars, Begin, AcquireLock, ReadHead, Insert, Count,
        Collide, StatementFails, CommitFails, CommitAborted, Crash
<1> QED
  BY <1>1, Invariance, PTL DEF Spec, AppendOnly

(***************************************************************************)
(* Sequence numbers and entries.  Between its count and its commit a       *)
(* request holds the lock, so what it counted is still what is there; a    *)
(* mutation is open exactly while its transaction is.                      *)
(***************************************************************************)
CountIsFresh ==
  \A r \in Requests :
    PastTheLock(r) /\ pc[r] = "commit" => sequence[r] = Cardinality(ledger[org[r]]) + 1

MutationFollows ==
  \A r \in Requests :
    /\ pc[r] = "idle" => mutation[r] = "none"
    /\ pc[r] # "idle" /\ via[r] = "db" => mutation[r] = "committed"
    /\ pc[r] \notin {"idle", "done"} /\ via[r] = "tx" => mutation[r] = "open"
    /\ pc[r] = "aborted" => via[r] = "tx"

NumberInv ==
  /\ CountIsFresh
  /\ SequenceIsPosition
  /\ MutationFollows
  /\ EntryMatchesMutation

\* The rows up to and including s, in the order of the chain.
UpTo(s, rows) == {t \in rows : t.at <= s.at}

\* A row later than all the others is the last, and moves none of them.
LEMMA NewRowIsLast ==
  ASSUME NEW rows \in SUBSET Row, IsFiniteSet(rows), NEW n \in Row,
         \A s \in rows : s.at < n.at
  PROVE  /\ Cardinality(UpTo(n, rows \cup {n})) = Cardinality(rows) + 1
         /\ \A s \in rows : UpTo(s, rows \cup {n}) = UpTo(s, rows)
<1>1. n \notin rows
  BY DEF Row
<1>2. UpTo(n, rows \cup {n}) = rows \cup {n}
  BY LedgerAssumption DEF UpTo, Row
<1>3. Cardinality(rows \cup {n}) = Cardinality(rows) + 1
  BY <1>1, FS_AddElement
<1>4. \A s \in rows : UpTo(s, rows \cup {n}) = UpTo(s, rows)
  BY DEF UpTo, Row
<1> QED
  BY <1>2, <1>3, <1>4

\* The facts about one commit that the numbering and the journal rest on.
LEMMA CommitAppends ==
  ASSUME IInv, NEW r \in Requests, Commit(r)
  PROVE  /\ org[r] \in Orgs /\ row[r] \in Row /\ row[r].event = r
         /\ \A s \in ledger[org[r]] : s.event # r
         /\ ledger'[org[r]] = ledger[org[r]] \cup {row[r]}
         /\ \A u \in Orgs \ {org[r]} : ledger'[u] = ledger[u]
         /\ org[r] \in Locked => \A s \in ledger[org[r]] : s.at < row[r].at
         /\ pc[r] = "commit" /\ pc'[r] = "done"
         /\ \A q \in Requests \ {r} : pc'[q] = pc[q]
         /\ UNCHANGED <<org, via, sequence>>
<1>1. /\ org[r] \in Orgs /\ row[r] \in Row /\ row[r].event = r
      /\ org[r] \in Locked => Follows(row[r], ledger[org[r]])
  BY CommitFollows DEF Commit, IInv, TypeOK, RowExtendsHead, Uncommitted
<1>2. /\ ledger \in [Orgs -> SUBSET Row]
      /\ pc[r] = "commit" /\ pc'[r] = "done"
      /\ \A q \in Requests \ {r} : pc'[q] = pc[q]
      /\ ledger' = [ledger EXCEPT ![org[r]] = ledger[org[r]] \cup {row[r]}]
      /\ UNCHANGED <<org, via, sequence>>
  BY DEF Commit, IInv, TypeOK, input
<1>3. org[r] \in Locked => \A s \in ledger[org[r]] : s.at < row[r].at
  BY <1>1, <1>2, FollowsIsLater
<1>4. \A s \in ledger[org[r]] : s.event # r
  BY <1>1, <1>2 DEF IInv, RowsFinished
<1> QED
  BY <1>1, <1>2, <1>3, <1>4

\* The commit that makes a row visible finds the count the append took still right.
LEMMA CommitKeepsNumberInv ==
  ASSUME IInv, NumberInv, NEW r \in Requests, Commit(r)
  PROVE  NumberInv'
<1> USE LedgerAssumption
<1> DEFINE o == org[r]
<1>1. /\ o \in Orgs /\ row[r] \in Row /\ row[r].event = r
      /\ \A s \in ledger[o] : s.event # r
      /\ ledger'[o] = ledger[o] \cup {row[r]}
      /\ \A u \in Orgs \ {o} : ledger'[u] = ledger[u]
      /\ o \in Locked => \A s \in ledger[o] : s.at < row[r].at
      /\ pc[r] = "commit" /\ pc'[r] = "done"
      /\ \A q \in Requests \ {r} : pc'[q] = pc[q]
      /\ org' = org /\ via' = via /\ sequence' = sequence
  BY CommitAppends
<1>2. /\ \A u \in Orgs : ledger[u] \in SUBSET Row /\ IsFiniteSet(ledger[u])
      /\ mutation'[r] = "committed" /\ \A q \in Requests \ {r} : mutation'[q] = mutation[q]
  BY DEF IInv, TypeOK, Commit
<1>3. CountIsFresh'
  <2> SUFFICES ASSUME NEW q \in Requests, PastTheLock(q)', pc'[q] = "commit"
               PROVE  sequence'[q] = Cardinality(ledger'[org'[q]]) + 1
    BY DEF CountIsFresh
  <2>1. q # r /\ PastTheLock(q) /\ pc[q] = "commit" /\ org[q] \in Orgs
    BY <1>1 DEF PastTheLock
  <2>2. org[q] # o
    BY <1>1, <2>1, OnePastTheLock DEF PastTheLock
  <2> QED
    BY <1>1, <2>1, <2>2 DEF NumberInv, CountIsFresh
<1>4. SequenceIsPosition'
  <2> SUFFICES ASSUME NEW u \in Locked, NEW s \in ledger'[u]
               PROVE  sequence'[s.event] = Cardinality(UpTo(s, ledger'[u]))
    BY DEF SequenceIsPosition, UpTo
  <2>1. CASE u # o
    BY <1>1, <2>1 DEF NumberInv, SequenceIsPosition, UpTo
  <2>2. CASE u = o /\ s = row[r]
    <3>1. sequence[r] = Cardinality(ledger[o]) + 1
      BY <1>1, <2>2 DEF NumberInv, CountIsFresh, PastTheLock
    <3>2. Cardinality(UpTo(row[r], ledger[o] \cup {row[r]})) = Cardinality(ledger[o]) + 1
      BY <1>1, <1>2, <2>2, NewRowIsLast
    <3> QED
      BY <1>1, <2>2, <3>1, <3>2
  <2>3. CASE u = o /\ s \in ledger[o]
    <3>1. UpTo(s, ledger[o] \cup {row[r]}) = UpTo(s, ledger[o])
      BY <1>1, <1>2, <2>3, NewRowIsLast
    <3> QED
      BY <1>1, <2>3, <3>1 DEF NumberInv, SequenceIsPosition, UpTo
  <2> QED
    BY <1>1, <2>1, <2>2, <2>3
<1>5. MutationFollows'
  BY <1>1, <1>2 DEF NumberInv, MutationFollows
<1>6. EntryMatchesMutation'
  <2> SUFFICES ASSUME NEW q \in Requests, pc'[q] = "done", via'[q] = "tx"
               PROVE  (mutation'[q] = "committed") <=> \E s \in ledger'[org'[q]] : s.event = q
    BY DEF EntryMatchesMutation
  <2>1. CASE q = r
    BY <1>1, <1>2, <2>1
  <2>2. CASE q # r
    <3>1. pc[q] = "done" /\ via[q] = "tx" /\ mutation'[q] = mutation[q] /\ org[q] \in Orgs
      BY <1>1, <1>2, <2>2 DEF IInv, TypeOK
    <3>2. (\E s \in ledger'[org[q]] : s.event = q) <=> \E s \in ledger[org[q]] : s.event = q
      BY <1>1, <2>2, <3>1
    <3> QED
      BY <1>1, <3>1, <3>2 DEF NumberInv, EntryMatchesMutation
  <2> QED
    BY <2>1, <2>2
<1> QED
  BY <1>3, <1>4, <1>5, <1>6 DEF NumberInv

\* A step of r that leaves every row, tenant and client of the others alone and
\* writes no sequence number but its own.
LEMMA QuietKeepsNumbers ==
  ASSUME IInv, NumberInv, NEW r \in Requests, pc[r] # "done",
         \A q \in Requests \ {r} :
           pc'[q] = pc[q] /\ sequence'[q] = sequence[q] /\ org'[q] = org[q],
         UNCHANGED ledger,
         PastTheLock(r)' /\ pc'[r] = "commit" =>
           sequence'[r] = Cardinality(ledger'[org'[r]]) + 1
  PROVE  CountIsFresh' /\ SequenceIsPosition'
<1>1. CountIsFresh'
  BY DEF NumberInv, CountIsFresh, PastTheLock
<1>2. SequenceIsPosition'
  <2>1. \A o \in Locked : \A s \in ledger[o] : s.event \in Requests \ {r}
    BY LedgerAssumption DEF IInv, RowsFinished, TypeOK, Row
  <2> QED
    BY <2>1 DEF NumberInv, SequenceIsPosition
<1> QED
  BY <1>1, <1>2

\* ... and the entries match if r's own, should it be done, is neither there nor effective.
LEMMA QuietKeepsEntries ==
  ASSUME IInv, NumberInv, NEW r \in Requests, pc[r] # "done",
         \A q \in Requests \ {r} :
           pc'[q] = pc[q] /\ org'[q] = org[q] /\ via'[q] = via[q] /\ mutation'[q] = mutation[q],
         UNCHANGED ledger,
         pc'[r] = "done" /\ via'[r] = "tx" =>
           pc[r] # "idle" /\ org'[r] = org[r] /\ mutation'[r] = "lost"
  PROVE  EntryMatchesMutation'
<1> SUFFICES ASSUME NEW q \in Requests, pc'[q] = "done", via'[q] = "tx"
             PROVE  (mutation'[q] = "committed") <=> \E s \in ledger'[org'[q]] : s.event = q
  BY DEF EntryMatchesMutation
<1>1. CASE q = r
  <2>1. org[r] \in Orgs
    BY <1>1 DEF IInv, TypeOK
  <2>2. \A s \in ledger[org[r]] : s.event # r
    BY <2>1 DEF IInv, RowsFinished
  <2> QED
    BY <1>1, <2>1, <2>2
<1>2. CASE q # r
  BY <1>2 DEF NumberInv, EntryMatchesMutation
<1> QED
  BY <1>1, <1>2

\* Every step keeps the numbers and what happened to the mutations.
LEMMA NumberInvInductive ==
  ASSUME IInv, TypeOK', NumberInv, [Next]_vars
  PROVE  NumberInv'
<1> USE LedgerAssumption DEF Statements
<1>1. ASSUME NEW r \in Requests, NEW o \in Orgs, NEW v \in {"db", "tx"}, Begin(r, o, v)
      PROVE  NumberInv'
  <2>1. /\ pc[r] = "idle" /\ pc'[r] = "lock" /\ via'[r] = v
        /\ mutation'[r] = IF v = "db" THEN "committed" ELSE "open"
        /\ \A q \in Requests \ {r} : pc'[q] = pc[q] /\ org'[q] = org[q] /\ via'[q] = via[q]
                                   /\ mutation'[q] = mutation[q]
        /\ UNCHANGED <<ledger, sequence>>
    BY <1>1 DEF Begin, IInv, TypeOK
  <2>2. MutationFollows'
    BY <2>1 DEF NumberInv, MutationFollows
  <2>3. CountIsFresh' /\ SequenceIsPosition'
    BY <2>1, QuietKeepsNumbers
  <2>4. EntryMatchesMutation'
    BY <2>1, QuietKeepsEntries
  <2> QED
    BY <2>2, <2>3, <2>4 DEF NumberInv
<1>2. ASSUME NEW r \in Requests,
             AcquireLock(r) \/ ReadHead(r) \/ (\E now \in Clock : Insert(r, now)) \/ Count(r)
      PROVE  NumberInv'
  <2>1. /\ pc[r] \notin {"idle", "done", "aborted"} /\ pc'[r] \notin {"idle", "done", "aborted"}
        /\ pc'[r] = "commit" => Count(r)
        /\ \A q \in Requests \ {r} : pc'[q] = pc[q] /\ sequence'[q] = sequence[q]
        /\ UNCHANGED <<ledger, org, via, mutation>>
    BY <1>2 DEF AcquireLock, ReadHead, Insert, Count, IInv, TypeOK, input
  <2>2. Count(r) => sequence'[r] = Cardinality(ledger'[org'[r]]) + 1
    BY <2>1 DEF Count, IInv, TypeOK
  <2>3. MutationFollows'
    BY <2>1 DEF NumberInv, MutationFollows
  <2>4. CountIsFresh' /\ SequenceIsPosition'
    BY <2>1, <2>2, QuietKeepsNumbers
  <2>5. EntryMatchesMutation'
    BY <2>1, QuietKeepsEntries
  <2> QED
    BY <2>3, <2>4, <2>5 DEF NumberInv
<1>3. ASSUME NEW r \in Requests, Commit(r) PROVE NumberInv'
  BY <1>3, CommitKeepsNumberInv
<1>4. ASSUME NEW r \in Requests,
             Collide(r) \/ StatementFails(r) \/ CommitFails(r) \/ CommitAborted(r) \/ Crash(r)
      PROVE  NumberInv'
  <2>1. /\ pc[r] \notin {"idle", "done"} /\ pc'[r] \in {"lock", "aborted", "done"}
        /\ \A q \in Requests \ {r} : pc'[q] = pc[q] /\ mutation'[q] = mutation[q]
        /\ UNCHANGED <<ledger, org, via, sequence>>
    BY <1>4 DEF Collide, StatementFails, CommitFails, CommitAborted, Crash, Swallow, IInv, TypeOK, input
  <2>2. /\ via[r] = "db" => mutation'[r] = "committed" /\ pc'[r] # "aborted"
        /\ via[r] = "tx" => mutation'[r] = IF pc'[r] = "done" THEN "lost" ELSE "open"
    BY <1>4 DEF Collide, StatementFails, CommitFails, CommitAborted, Crash, Swallow,
                NumberInv, MutationFollows, IInv, TypeOK
  <2>3. MutationFollows'
    BY <2>1, <2>2 DEF NumberInv, MutationFollows, IInv, TypeOK
  <2>4. CountIsFresh' /\ SequenceIsPosition'
    BY <2>1, QuietKeepsNumbers
  <2>5. EntryMatchesMutation'
    BY <2>1, <2>2, QuietKeepsEntries
  <2> QED
    BY <2>3, <2>4, <2>5 DEF NumberInv
<1>5. CASE UNCHANGED vars
  BY <1>5 DEF vars, NumberInv, CountIsFresh, PastTheLock, SequenceIsPosition, MutationFollows,
              EntryMatchesMutation
<1> QED
  BY <1>1, <1>2, <1>3, <1>4, <1>5 DEF Next, Step, Fault, Finished

\* Counts taken under the lock stay right until the commit, and entries follow mutations
\* (appendLedgerEntry and its callers).
THEOREM NumbersInvariant == Spec => []NumberInv
<1>1. Init => NumberInv
  BY LedgerAssumption DEF Init, NumberInv, CountIsFresh, PastTheLock, SequenceIsPosition,
     MutationFollows, EntryMatchesMutation
<1>2. IInv /\ TypeOK' /\ NumberInv /\ [Next]_vars => NumberInv'
  BY NumberInvInductive
<1> QED
  BY <1>1, <1>2, Invariance, TypeCorrect, PTL DEF Spec

\* The sequence number a caller was told, counted before the commit, is the place of
\* the row in the chain, now and after every later append.
THEOREM NumbersArePositions == Spec => []SequenceIsPosition
<1>1. NumberInv => SequenceIsPosition
  BY DEF NumberInv
<1> QED
  BY <1>1, NumbersInvariant, PTL

\* Whatever fails or crashes, an entry recorded in its action's own transaction is
\* there if and only if the action took effect.
THEOREM EntriesMatchMutations == Spec => []EntryMatchesMutation
<1>1. NumberInv => EntryMatchesMutation
  BY DEF NumberInv
<1> QED
  BY <1>1, NumbersInvariant, PTL

(***************************************************************************)
(* The refinement.  The journal's view of a locked tenant's rows:          *)
(***************************************************************************)
Entries(o) == {[no |-> sequence[s.event], event |-> s.event] : s \in ledger[o]}

Effect(m) == IF m = "open" THEN "none" ELSE m

\* One entry per row: the numbering of the journal is the numbering of the chain.
LEMMA EntriesCount ==
  ASSUME IInv, NEW o \in Locked
  PROVE  Cardinality(Entries(o)) = Cardinality(ledger[o])
<1> USE LedgerAssumption
<1> DEFINE f == [s \in ledger[o] |-> [no |-> sequence[s.event], event |-> s.event]]
<1>1. IsFiniteSet(ledger[o])
  BY DEF IInv, TypeOK
<1>2. f \in Bijection(ledger[o], Entries(o))
  <2>1. \A s, t \in ledger[o] : f[s] = f[t] => s = t
    BY DEF IInv, OneRowPerEvent
  <2>2. \A e \in Entries(o) : \E s \in ledger[o] : f[s] = e
    BY DEF Entries
  <2>3. f \in [ledger[o] -> Entries(o)]
    BY DEF Entries
  <2> QED
    BY <2>1, <2>2, <2>3 DEF Bijection, Injection, Surjection, IsInjective
<1> QED
  BY <1>1, <1>2, FS_Bijection DEF ExistsBijection

\* A step that changes no row, no sequence number in use and no finished mutation
\* is invisible.
LEMMA Invisible ==
  ASSUME IInv, UNCHANGED ledger,
         \A q \in Requests : pc[q] = "done" => sequence'[q] = sequence[q],
         \A q \in Requests : Effect(mutation'[q]) = Effect(mutation[q])
  PROVE  UNCHANGED Journal!jvars
<1> USE LedgerAssumption
<1>1. \A o \in Locked : \A s \in ledger[o] : sequence'[s.event] = sequence[s.event]
  BY DEF IInv, RowsFinished, TypeOK, Row
<1>2. \A o \in Locked : Entries(o)' = Entries(o)
  BY <1>1 DEF Entries
<1> QED
  BY <1>2 DEF Journal!jvars, Entries, Effect

\* The journal counts with the ledger's cardinality.
LEMMA SameCount ==
  ASSUME NEW S
  PROVE  Journal!Cardinality(S) = Cardinality(S)
BY DEF Journal!Cardinality, Cardinality

\* A commit is the journal's entry, and its action's effect when that was open.
LEMMA CommitMaps ==
  ASSUME IInv, NumberInv, NEW r \in Requests, Commit(r), NEW o \in Orgs, org[r] = o
  PROVE  [Journal!JNext]_(Journal!jvars)
<1> USE LedgerAssumption
<1> DEFINE journal == [u \in Locked |-> Entries(u)]
           effect == [q \in Requests |-> Effect(mutation[q])]
<1>1. /\ o \in Orgs /\ row[r] \in Row /\ row[r].event = r
      /\ \A s \in ledger[o] : s.event # r
      /\ ledger'[o] = ledger[o] \cup {row[r]}
      /\ \A u \in Orgs \ {o} : ledger'[u] = ledger[u]
      /\ pc[r] = "commit"
      /\ UNCHANGED <<org, via, sequence>>
  BY CommitAppends
<1>2. /\ effect' = [effect EXCEPT ![r] = "committed"]
      /\ via[r] = "db" => effect[r] = "committed"
      /\ via[r] = "tx" => effect[r] = "none"
      /\ via[r] \in {"db", "tx"}
  <2>1. mutation' = [mutation EXCEPT ![r] = "committed"]
    BY DEF Commit
  <2>2. mutation[r] = (IF via[r] = "db" THEN "committed" ELSE "open") /\ via[r] \in {"db", "tx"}
    BY <1>1 DEF NumberInv, MutationFollows, IInv, TypeOK
  <2> QED
    BY <2>1, <2>2 DEF IInv, TypeOK, Effect
<1>3. via[r] = "db" => effect' = effect
  BY <1>2
<1>4. CASE o \in Locked
  <2>1. Cardinality(Entries(o)) = Cardinality(ledger[o])
    BY <1>4, EntriesCount
  <2>2. sequence[r] = Cardinality(ledger[o]) + 1
    BY <1>1, <1>4 DEF NumberInv, CountIsFresh, PastTheLock
  <2>3. /\ Entries(o)' = Entries(o) \cup {[no |-> Cardinality(Entries(o)) + 1, event |-> r]}
        /\ \A u \in Locked \ {o} : Entries(u)' = Entries(u)
    <3> DEFINE entry(s) == [no |-> sequence[s.event], event |-> s.event]
    <3>1. Entries(o)' = {entry(s) : s \in ledger[o] \cup {row[r]}}
      BY <1>1 DEF Entries
    <3>2. Entries(o)' = Entries(o) \cup {entry(row[r])}
      BY <3>1 DEF Entries
    <3>3. entry(row[r]) = [no |-> Cardinality(Entries(o)) + 1, event |-> r]
      BY <1>1, <2>1, <2>2
    <3>4. \A u \in Locked \ {o} : Entries(u)' = Entries(u)
      BY <1>1 DEF Entries
    <3> QED
      BY <3>2, <3>3, <3>4
  <2>4. journal' = [journal EXCEPT ![o] = journal[o] \cup {[no |-> Cardinality(journal[o]) + 1, event |-> r]}]
    BY <1>4, <2>3
  <2>5. ~ \E u \in Locked : \E e \in journal[u] : e.event = r
    BY <1>1 DEF Entries, IInv, RowsFinished
  <2>6. CASE via[r] = "db"
    <3>1. Journal!Enter(r, o)
      BY <1>2, <1>3, <1>4, <2>4, <2>5, <2>6, SameCount
      DEF Journal!Enter, Journal!AddEntry, Journal!Entered, Entries, Effect
    <3> QED
      BY <1>4, <3>1 DEF Journal!JNext
  <2>7. CASE via[r] = "tx"
    <3>1. Journal!TakeEffectWithEntry(r, o)
      BY <1>2, <1>4, <2>4, <2>5, <2>7, SameCount
      DEF Journal!TakeEffectWithEntry, Journal!AddEntry, Journal!Entered, Entries, Effect
    <3> QED
      BY <1>4, <3>1 DEF Journal!JNext
  <2> QED
    BY <1>2, <2>6, <2>7
<1>5. CASE o \notin Locked
  <2>1. journal' = journal
    BY <1>1, <1>5 DEF Entries
  <2>2. CASE via[r] = "db"
    BY <1>3, <2>1, <2>2 DEF Journal!jvars, Entries, Effect
  <2>3. CASE via[r] = "tx"
    <3>1. Journal!TakeEffect(r)
      BY <1>2, <2>1, <2>3 DEF Journal!TakeEffect, Entries, Effect
    <3> QED
      BY <3>1 DEF Journal!JNext
  <2> QED
    BY <1>2, <2>2, <2>3
<1> QED
  BY <1>4, <1>5

\* A finished mutation changes on its own only when it commits before its append
\* begins, or is rolled back.
LEMMA MutationMaps ==
  ASSUME IInv, NumberInv, NEW r \in Requests,
         UNCHANGED <<ledger, sequence>>,
         \/ mutation[r] = "none" /\ mutation' = [mutation EXCEPT ![r] = "committed"]
         \/ mutation[r] = "open" /\ mutation' = [mutation EXCEPT ![r] = "lost"]
  PROVE  Journal!JNext
<1> USE LedgerAssumption
<1>1. [u \in Locked |-> Entries(u)]' = [u \in Locked |-> Entries(u)]
  BY DEF Entries
<1>2. CASE mutation[r] = "none" /\ mutation' = [mutation EXCEPT ![r] = "committed"]
  <2>1. Journal!TakeEffect(r)
    BY <1>1, <1>2 DEF Journal!TakeEffect, Entries, IInv, TypeOK
  <2> QED
    BY <2>1 DEF Journal!JNext
<1>3. CASE mutation[r] = "open" /\ mutation' = [mutation EXCEPT ![r] = "lost"]
  <2>1. Journal!Lose(r)
    BY <1>1, <1>3 DEF Journal!Lose, Entries, IInv, TypeOK
  <2> QED
    BY <2>1 DEF Journal!JNext
<1> QED
  BY <1>2, <1>3

\* Every step is a step of the journal or leaves it as it was.
LEMMA StepMaps ==
  ASSUME IInv, NumberInv, [Next]_vars
  PROVE  [Journal!JNext]_(Journal!jvars)
<1> USE LedgerAssumption DEF Statements
<1>1. ASSUME NEW r \in Requests, NEW o \in Orgs, NEW v \in {"db", "tx"}, Begin(r, o, v)
      PROVE  [Journal!JNext]_(Journal!jvars)
  <2>1. mutation[r] = "none" /\ UNCHANGED <<ledger, sequence>>
    BY <1>1 DEF Begin, NumberInv, MutationFollows
  <2>2. CASE v = "db"
    BY <1>1, <2>1, <2>2, MutationMaps DEF Begin
  <2>3. CASE v = "tx"
    BY <1>1, <2>1, <2>3, Invisible DEF Begin, Effect, IInv, TypeOK
  <2> QED
    BY <2>2, <2>3
<1>2. ASSUME NEW r \in Requests,
             AcquireLock(r) \/ ReadHead(r) \/ (\E now \in Clock : Insert(r, now)) \/ Count(r)
      PROVE  [Journal!JNext]_(Journal!jvars)
  <2>1. UNCHANGED <<ledger, mutation>>
    BY <1>2 DEF AcquireLock, ReadHead, Insert, Count
  <2>2. \A q \in Requests : pc[q] = "done" => sequence'[q] = sequence[q]
    BY <1>2 DEF AcquireLock, ReadHead, Insert, Count, IInv, TypeOK
  <2> QED
    BY <2>1, <2>2, Invisible
<1>3. ASSUME NEW r \in Requests, Commit(r) PROVE [Journal!JNext]_(Journal!jvars)
  BY <1>3, CommitMaps DEF Commit, IInv, TypeOK
<1>4. ASSUME NEW r \in Requests,
             Collide(r) \/ StatementFails(r) \/ CommitFails(r) \/ CommitAborted(r) \/ Crash(r)
      PROVE  [Journal!JNext]_(Journal!jvars)
  <2>1. UNCHANGED <<ledger, sequence>>
    BY <1>4 DEF Collide, StatementFails, CommitFails, CommitAborted, Crash
  <2>2. \/ UNCHANGED mutation
        \/ mutation[r] = "open" /\ mutation' = [mutation EXCEPT ![r] = "lost"]
    BY <1>4 DEF Collide, StatementFails, CommitFails, CommitAborted, Crash, IInv, TypeOK,
                NumberInv, MutationFollows
  <2> QED
    BY <2>1, <2>2, Invisible, MutationMaps
<1>5. CASE UNCHANGED vars
  BY <1>5, Invisible DEF vars
<1> QED
  BY <1>1, <1>2, <1>3, <1>4, <1>5 DEF Next, Step, Fault, Finished

\* The ledger of the locked tenants, seen through committed rows and finished
\* mutations, implements the append-only numbered journal of actions that took effect.
THEOREM LedgerImplementsJournal == Spec => ImplementsJournal
<1>1. Init => Journal!JInit
  BY LedgerAssumption DEF Init, Journal!JInit
<1>2. IInv /\ NumberInv /\ [Next]_vars => [Journal!JNext]_(Journal!jvars)
  BY StepMaps
<1> QED
  BY <1>1, <1>2, Invariance, NumbersInvariant, PTL DEF Spec, ImplementsJournal, Journal!JSpec
=============================================================================
