------------------------ MODULE TenantIsolationProofs ------------------------
(***************************************************************************)
(* Theorems about TenantIsolation, for any tenants, rows, requests,        *)
(* operations and pool: operations stay in the tenant of their request,    *)
(* the policies agree with the rewriting, and what neither covers is known.*)
(***************************************************************************)
EXTENDS TenantIsolation, TLAPS

\* A request works for its own tenant unless it went into runUnscoped.
Serving(r) == via[r] \in {"session", "key"} /\ ~unscoped[r]

\* What a request's async context may hold outside runUnscoped.
Own(r) ==
  {x \in Tenants \cup {Admin, None} :
     \/ via[r] = "session" /\ x \in {None, home[r]}
     \/ via[r] = "key" /\ x = home[r]
     \/ via[r] = "ops" /\ x \in {None, Admin}
     \/ via[r] = "none" /\ x = None}

ScopeOK(r) ==
  /\ via[r] \in {"session", "key"} => home[r] \in Tenants
  /\ ~unscoped[r] => cell[r] \in Own(r)
  /\ unscoped[r] => cell[r] = Admin /\ saved[r] \in Own(r)

\* A transaction, open or not yet, runs as the request's tenant when the request
\* has one and it was found, and never as a tenant it was not opened for.
RunsFor(r, x) ==
  x # None => IF Serving(r) THEN x.as = IF rls /\ x.known THEN home[r] ELSE Owner
              ELSE x.as \in {Owner, x.for}

TxOK(r) ==
  /\ RunsFor(r, opening[r]) /\ RunsFor(r, tx[r])
  /\ opening[r] # None => call[r] = None /\ tx[r] = None

\* An operation under way has the scope its request has, until it answers.
CallOK(r) ==
  call[r] # None =>
    /\ call[r].scope = IF Serving(r) THEN home[r] ELSE Admin
    /\ via[r] = "none" => unscoped[r]
    /\ Asks(r, call[r].op, call[r].scope)

\* A request without a pinned scope, and only such a one, looks its scope up
\* inside a transaction.
LooksOK(r) == (call[r] # None /\ call[r].looks) => Looks(r, call[r])

\* Connections are held for a transaction or an operation only.
HeldOK(r) == (call[r] = None /\ tx[r] = None) => held[r] = 0

Requestwise(r) == ScopeOK(r) /\ TxOK(r) /\ CallOK(r) /\ LooksOK(r) /\ HeldOK(r)

IInv ==
  /\ TypeOK
  /\ \A r \in Requests : Requestwise(r)
  /\ OperationsStayHome /\ OwnerRunsAreExplained

\* The scope a request resolves is its tenant, or Admin when it has none to serve,
\* or nothing; a request with no identity has one only inside runUnscoped.
LEMMA ScopesKnown ==
  ASSUME IInv, NEW r \in Requests, NEW s \in ScopesOf(r)
  PROVE  /\ s \in Tenants \cup {Admin, None}
         /\ s # None => /\ s = IF Serving(r) THEN home[r] ELSE Admin
                        /\ via[r] = "none" => unscoped[r]
<1>1. ScopeOK(r) /\ TypeOK
  BY DEF IInv, Requestwise
<1>2. via[r] \in {"session", "key", "ops", "none"} /\ unscoped[r] \in BOOLEAN
  BY <1>1 DEF TypeOK
<1>3. CASE unscoped[r]
  BY <1>1, <1>2, <1>3, Distinct DEF ScopeOK, ScopesOf, Resolved, Serving
<1>4. CASE ~unscoped[r]
  BY <1>1, <1>2, <1>4, Distinct DEF ScopeOK, Own, ScopesOf, Resolved, Serving
<1> QED BY <1>3, <1>4

\* The rewritten where clause of a tenant matches rows of that tenant only.
LEMMA FoundHome ==
  ASSUME NEW o, NEW scope \in Tenants, NEW as
  PROVE  HomesOf(Found(o, scope, as)) \subseteq {scope}
BY Distinct DEF HomesOf, Found, Where

\* A step of one request, that leaves the others as they are, keeps the invariant
\* if it keeps what is said of that request and of the last answer.
LEMMA OneRequest ==
  ASSUME IInv, NEW r \in Requests, TypeOK', Requestwise(r)',
         UNCHANGED <<rls, via, home>>,
         \A q \in Requests \ {r} :
           UNCHANGED <<cell[q], saved[q], unscoped[q], opening[q], tx[q], call[q], held[q]>>,
         OperationsStayHome', OwnerRunsAreExplained'
  PROVE  IInv'
<1>1. ASSUME NEW q \in Requests PROVE Requestwise(q)'
  <2>1. CASE q = r
    BY <2>1
  <2>2. CASE q # r
    <3>1. Requestwise(q)
      BY DEF IInv, Requestwise
    <3>2. UNCHANGED <<cell[q], saved[q], unscoped[q], opening[q], tx[q], call[q], held[q]>>
      BY <2>2
    <3>3. ScopeOK(q)' /\ HeldOK(q)'
      BY <3>1, <3>2 DEF Requestwise, ScopeOK, Own, HeldOK
    <3>4. TxOK(q)'
      BY <3>1, <3>2 DEF Requestwise, TxOK, RunsFor, Serving
    <3>5. CallOK(q)'
      BY <3>1, <3>2 DEF Requestwise, CallOK, Serving, Asks, InTx
    <3>6. LooksOK(q)'
      BY <3>1, <3>2 DEF Requestwise, LooksOK, Looks, Wrapped, Rerouted, InTx
    <3> QED BY <3>3, <3>4, <3>5, <3>6 DEF Requestwise
  <2> QED BY <2>1, <2>2
<1> QED BY <1>1 DEF IInv, Requestwise

\* A step that answers nothing keeps what is said of the last answer.
LEMMA SameAnswer ==
  ASSUME IInv, UNCHANGED <<rls, via, home>>, done' \in {done, None}
  PROVE  OperationsStayHome' /\ OwnerRunsAreExplained'
BY DEF IInv, OperationsStayHome, OwnerRunsAreExplained

\* Entering a scope and runUnscoped keep the invariant: nothing is under way, and
\* the scope put back is the one that was taken.
LEMMA ScopeKeepsInv ==
  ASSUME IInv, NEW r \in Requests, EnterScope(r) \/ RunUnscoped(r) \/ LeaveUnscoped(r)
  PROVE  IInv'
<1>1. TypeOK /\ Requestwise(r)
  BY DEF IInv, Requestwise
<1>2. call[r] = None /\ opening[r] = None /\ tx[r] = None
  BY DEF EnterScope, RunUnscoped, LeaveUnscoped, Idle
<1>3. UNCHANGED <<rls, via, home, opening, tx, call, held, org, ended, done, calls>>
  BY DEF EnterScope, RunUnscoped, LeaveUnscoped
<1>4. TypeOK'
  <2>1. cell' \in [Requests -> Tenants \cup {Admin, None}]
    BY <1>1 DEF TypeOK, Requestwise, ScopeOK, EnterScope, RunUnscoped, LeaveUnscoped
  <2>2. saved' \in [Requests -> Tenants \cup {Admin, None}] /\ unscoped' \in [Requests -> BOOLEAN]
    BY <1>1 DEF TypeOK, EnterScope, RunUnscoped, LeaveUnscoped
  <2> QED BY <1>1, <1>3, <2>1, <2>2 DEF TypeOK
<1>5. ScopeOK(r)'
  BY <1>1, <1>3 DEF Requestwise, ScopeOK, Own, TypeOK, EnterScope, RunUnscoped, LeaveUnscoped
<1>6. TxOK(r)' /\ CallOK(r)' /\ LooksOK(r)' /\ HeldOK(r)'
  BY <1>1, <1>2, <1>3 DEF Requestwise, TxOK, RunsFor, CallOK, LooksOK, HeldOK
<1>7. \A q \in Requests \ {r} :
        UNCHANGED <<cell[q], saved[q], unscoped[q], opening[q], tx[q], call[q], held[q]>>
  BY <1>1, <1>3 DEF TypeOK, EnterScope, RunUnscoped, LeaveUnscoped
<1> QED BY <1>3, <1>4, <1>5, <1>6, <1>7, SameAnswer, OneRequest DEF Requestwise

\* Asking for a transaction, opening it, looking a scope up in it, ending it and
\* giving it up keep the invariant: its role follows from the scope, which stays until it has ended.
LEMMA TransactionKeepsInv ==
  ASSUME IInv, NEW r \in Requests,
         \/ WithTenantTx(r) \/ (\E t \in Tenants : WithTenantTxFor(r, t))
         \/ EndTx(r) \/ Open(r) \/ Take(r) \/ LookUp(r) \/ TimeOut(r)
  PROVE  IInv'
<1>1. TypeOK /\ Requestwise(r)
  BY DEF IInv, Requestwise
<1>2. UNCHANGED <<rls, via, home, cell, saved, unscoped, org, ended, done, calls>>
  BY DEF WithTenantTx, WithTenantTxFor, EndTx, Open, Take, LookUp, TimeOut
<1>3. ASSUME WithTenantTx(r) \/ (\E t \in Tenants : WithTenantTxFor(r, t))
      PROVE  /\ UNCHANGED <<tx, call, held>> /\ call[r] = None /\ tx[r] = None
             /\ \E x \in Transactions : opening' = [opening EXCEPT ![r] = x] /\ RunsFor(r, x)
  <2>1. CASE WithTenantTx(r)
    <3>1. PICK s \in ScopesOf(r) : opening' = [opening EXCEPT ![r] =
             [as |-> IF rls /\ s \in Tenants THEN s ELSE Owner, for |-> None, known |-> s # None]]
      BY <2>1 DEF WithTenantTx
    <3> DEFINE x == [as |-> IF rls /\ s \in Tenants THEN s ELSE Owner, for |-> None, known |-> s # None]
    <3>2. x \in Transactions
      BY DEF Transactions
    <3>3. RunsFor(r, x)
      <4>1. s # None => s = IF Serving(r) THEN home[r] ELSE Admin
        BY ScopesKnown
      <4>2. Serving(r) => s \in {home[r], None} /\ home[r] \in Tenants
        BY <1>1, Distinct DEF Requestwise, ScopeOK, Own, Serving, ScopesOf, Resolved
      <4> QED BY <4>1, <4>2, Distinct DEF RunsFor
    <3> QED BY <2>1, <3>1, <3>2, <3>3 DEF WithTenantTx, Idle
  <2>2. ASSUME NEW t \in Tenants, WithTenantTxFor(r, t)
        PROVE  /\ UNCHANGED <<tx, call, held>> /\ call[r] = None /\ tx[r] = None
               /\ \E x \in Transactions : opening' = [opening EXCEPT ![r] = x] /\ RunsFor(r, x)
    <3> DEFINE x == [as |-> IF rls THEN t ELSE Owner, for |-> t, known |-> TRUE]
    <3>1. x \in Transactions
      BY DEF Transactions
    <3>2. RunsFor(r, x)
      <4>1. PICK s \in ScopesOf(r) : s \in {t, Admin}
        BY <2>2 DEF WithTenantTxFor
      <4>2. s = IF Serving(r) THEN home[r] ELSE Admin
        BY <4>1, ScopesKnown, Distinct
      <4>3. Serving(r) => home[r] \in Tenants
        BY <1>1 DEF Requestwise, ScopeOK, Serving
      <4> QED BY <4>1, <4>2, <4>3, Distinct DEF RunsFor
    <3> QED BY <2>2, <3>1, <3>2 DEF WithTenantTxFor, Idle
  <2> QED BY <1>3, <2>1, <2>2
<1>4. TypeOK' /\ Requestwise(r)'
       /\ \A q \in Requests \ {r} : UNCHANGED <<opening[q], tx[q], call[q], held[q]>>
  <2>1. CASE WithTenantTx(r) \/ (\E t \in Tenants : WithTenantTxFor(r, t))
    <3>1. PICK x \in Transactions : opening' = [opening EXCEPT ![r] = x] /\ RunsFor(r, x)
      BY <1>3, <2>1
    <3>2. UNCHANGED <<tx, call, held>> /\ call[r] = None /\ tx[r] = None
      BY <1>3, <2>1
    <3>3. TypeOK'
      BY <1>1, <1>2, <3>1, <3>2 DEF TypeOK
    <3>4. Requestwise(r)'
      BY <1>1, <1>2, <3>1, <3>2
         DEF Requestwise, ScopeOK, Own, TxOK, RunsFor, Serving, CallOK, LooksOK, HeldOK, TypeOK
    <3> QED BY <1>1, <3>1, <3>2, <3>3, <3>4 DEF TypeOK
  <2>2. CASE EndTx(r)
    <3>1. TypeOK'
      BY <1>1, <1>2, <2>2 DEF EndTx, TypeOK
    <3>2. Requestwise(r)'
      BY <1>1, <1>2, <2>2
         DEF EndTx, Idle, Requestwise, ScopeOK, Own, TxOK, RunsFor, CallOK, LooksOK, HeldOK, TypeOK
    <3> QED BY <1>1, <2>2, <3>1, <3>2 DEF EndTx, TypeOK
  <2>3. CASE Open(r)
    <3>1. TypeOK'
      BY <1>1, <1>2, <2>3 DEF Open, TypeOK
    <3>2. Requestwise(r)'
      BY <1>1, <1>2, <2>3
         DEF Open, Requestwise, ScopeOK, Own, TxOK, RunsFor, Serving, CallOK, LooksOK, HeldOK, TypeOK
    <3> QED BY <1>1, <2>3, <3>1, <3>2 DEF Open, TypeOK
  <2>4. CASE Take(r)
    <3>1. TypeOK'
      BY <1>1, <1>2, <2>4 DEF Take, TypeOK
    <3>2. ScopeOK(r)' /\ TxOK(r)' /\ CallOK(r)' /\ HeldOK(r)'
      BY <1>1, <1>2, <2>4
         DEF Take, Requestwise, ScopeOK, Own, TxOK, RunsFor, Serving, CallOK, Asks, InTx, HeldOK, TypeOK
    <3>3. LooksOK(r)'
      BY <1>1, <1>2, <2>4 DEF Take, Requestwise, LooksOK, Looks, Wrapped, Rerouted, InTx
    <3> QED BY <1>1, <2>4, <3>1, <3>2, <3>3 DEF Take, TypeOK, Requestwise
  <2>5. CASE TimeOut(r)
    <3>1. PICK left \in {tx[r], None} :
            tx' = [tx EXCEPT ![r] = left] /\ held' = [held EXCEPT ![r] = IF left = None THEN 0 ELSE 1]
      BY <2>5 DEF TimeOut
    <3>2. opening' = [opening EXCEPT ![r] = None] /\ call' = [call EXCEPT ![r] = None]
      BY <2>5 DEF TimeOut
    <3>3. TypeOK'
      BY <1>1, <1>2, <3>1, <3>2 DEF TypeOK
    <3>4. Requestwise(r)'
      BY <1>1, <1>2, <3>1, <3>2
         DEF Requestwise, ScopeOK, Own, TxOK, RunsFor, Serving, CallOK, LooksOK, HeldOK, TypeOK
    <3> QED BY <1>1, <3>1, <3>2, <3>3, <3>4 DEF TypeOK
  <2>6. CASE LookUp(r)
    <3>1. /\ UNCHANGED <<opening, tx>> /\ call[r] # None /\ call[r] \in Calls
          /\ \/ call' = [call EXCEPT ![r].looks = FALSE] /\ held' = [held EXCEPT ![r] = 1]
             \/ call' = [call EXCEPT ![r] = None] /\ held' = [held EXCEPT ![r] = IF InTx(r) THEN 1 ELSE 0]
      BY <1>1, <2>6 DEF LookUp, TypeOK
    <3>2. CASE call' = [call EXCEPT ![r].looks = FALSE] /\ held' = [held EXCEPT ![r] = 1]
      <4>1. /\ call'[r] \in Calls /\ call'[r].op = call[r].op /\ call'[r].scope = call[r].scope
            /\ ~call'[r].looks /\ call' \in [Requests -> Calls \cup {None}]
        BY <1>1, <3>1, <3>2 DEF TypeOK, Calls
      <4>2. TypeOK'
        BY <1>1, <1>2, <3>1, <3>2, <4>1 DEF TypeOK
      <4>3. ScopeOK(r)' /\ TxOK(r)'
        BY <1>1, <1>2, <3>1, <4>1 DEF Requestwise, ScopeOK, Own, TxOK, RunsFor, Serving
      <4>4. CallOK(r)' /\ LooksOK(r)'
        BY <1>1, <1>2, <3>1, <4>1 DEF Requestwise, CallOK, Serving, Asks, InTx, LooksOK
      <4>5. HeldOK(r)'
        BY <4>1, NoneIsNoCall DEF HeldOK
      <4> QED BY <1>1, <3>1, <3>2, <4>2, <4>3, <4>4, <4>5 DEF TypeOK, Requestwise
    <3>3. CASE call' = [call EXCEPT ![r] = None] /\ held' = [held EXCEPT ![r] = IF InTx(r) THEN 1 ELSE 0]
      <4>1. TypeOK'
        BY <1>1, <1>2, <3>1, <3>3 DEF TypeOK
      <4>2. Requestwise(r)'
        BY <1>1, <1>2, <3>1, <3>3
           DEF Requestwise, ScopeOK, Own, TxOK, RunsFor, Serving, CallOK, LooksOK, HeldOK, InTx, TypeOK
      <4> QED BY <1>1, <3>1, <3>3, <4>1, <4>2 DEF TypeOK
    <3> QED BY <3>1, <3>2, <3>3
  <2> QED BY <2>1, <2>2, <2>3, <2>4, <2>5, <2>6
<1> QED BY <1>2, <1>4, SameAnswer, OneRequest

\* An operation that enters the client has the scope its request has; it keeps
\* the invariant.
LEMMA IssueKeepsInv ==
  ASSUME IInv, NEW r \in Requests, NEW o \in Ops, Issue(r, o)
  PROVE  IInv'
<1>1. TypeOK /\ Requestwise(r) /\ call[r] = None /\ opening[r] = None
  BY DEF IInv, Requestwise, Issue, Idle
<1>2. UNCHANGED <<rls, via, home, cell, saved, unscoped, opening, tx, held, org, ended>>
      /\ done' = None /\ calls' = calls + 1
  BY DEF Issue
<1>3. PICK s \in ScopesOf(r), known \in Known(r), looks \in BOOLEAN :
        LET c == [op |-> o, scope |-> s, known |-> known, looks |-> looks]
        IN /\ Asks(r, o, s)
           /\ looks => Looks(r, c)
           /\ call' = [call EXCEPT ![r] = IF s = None THEN None ELSE c]
  BY DEF Issue
<1> DEFINE c == [op |-> o, scope |-> s, known |-> known, looks |-> looks]
<1>4. s \in Tenants \cup {Admin, None}
      /\ (s # None => s = (IF Serving(r) THEN home[r] ELSE Admin) /\ (via[r] = "none" => unscoped[r]))
  BY ScopesKnown
<1>5. s # None => c \in Calls
  BY <1>4 DEF Calls, Known
<1>6. TypeOK'
  BY <1>1, <1>2, <1>3, <1>5 DEF TypeOK
<1>7. ScopeOK(r)' /\ TxOK(r)'
  BY <1>1, <1>2 DEF Requestwise, ScopeOK, Own, TxOK, RunsFor, Serving
<1>8. CallOK(r)' /\ LooksOK(r)'
  <2>1. s = None => call'[r] = None
    BY <1>1, <1>3 DEF TypeOK
  <2>2. s # None => call'[r] = c
    BY <1>1, <1>3 DEF TypeOK
  <2>3. c.op = o /\ c.scope = s /\ c.known = known /\ c.looks = looks
    OBVIOUS
  <2>4. CallOK(r)'
    BY <1>2, <1>3, <1>4, <2>1, <2>2, <2>3 DEF CallOK, Asks, InTx, Serving
  <2>5. LooksOK(r)'
    BY <1>2, <1>3, <2>1, <2>2, <2>3 DEF LooksOK, Looks, Wrapped, Rerouted, InTx
  <2> QED BY <2>4, <2>5
<1>9. HeldOK(r)'
  BY <1>1, <1>2 DEF Requestwise, HeldOK
<1>10. \A q \in Requests \ {r} : UNCHANGED call[q]
  BY <1>1, <1>3 DEF TypeOK
<1> QED BY <1>2, <1>6, <1>7, <1>8, <1>9, <1>10, SameAnswer, OneRequest DEF Requestwise

\* Under row-level security an operation of a tenant runs as that tenant, in a
\* transaction or wrapped, unless it is a read by unique key or the tenant was not
\* found when the role was chosen.
LEMMA RoleOfACall ==
  ASSUME IInv, NEW r \in Requests, call[r] # None, call[r].scope \in Tenants
  PROVE  LET as == RunsAs(r, call[r])
             known == IF InTx(r) THEN tx[r].known ELSE call[r].known
         IN /\ as \in {call[r].scope, Owner}
            /\ rls /\ as = Owner => call[r].op.kind = "findUnique" \/ ~known
<1>1. TypeOK /\ TxOK(r) /\ CallOK(r)
  BY DEF IInv, Requestwise
<1>2. Serving(r) /\ call[r].scope = home[r] /\ Asks(r, call[r].op, call[r].scope)
  BY <1>1, Distinct DEF CallOK
<1>3. tx[r] # None => tx[r].as = IF rls /\ tx[r].known THEN home[r] ELSE Owner
  BY <1>1, <1>2 DEF TxOK, RunsFor
<1> QED BY <1>1, <1>2, <1>3, Distinct DEF RunsAs, Rerouted, Wrapped, InTx, Asks, TypeOK

\* An answer keeps the invariant if what it changed is well typed and what an
\* operation of a tenant touched is of that tenant.
LEMMA AnswerKeepsInv ==
  ASSUME IInv, NEW r \in Requests, NEW homes, NEW ok, Ready(r), Answer(r, homes, ok),
         org' \in [Rows -> Tenants \cup {None}], ended' \subseteq Grants,
         call[r].scope \in Tenants => homes \subseteq {call[r].scope}
  PROVE  IInv'
<1>1. TypeOK /\ Requestwise(r) /\ call[r] # None
  BY DEF IInv, Requestwise, Ready
<1>2. UNCHANGED <<rls, via, home, cell, saved, unscoped, opening, tx, calls>>
      /\ call' = [call EXCEPT ![r] = None]
      /\ held' = [held EXCEPT ![r] = IF InTx(r) THEN 1 ELSE 0]
  BY DEF Answer
<1>3. TypeOK'
  BY <1>1, <1>2 DEF TypeOK
<1>4. Requestwise(r)'
  BY <1>1, <1>2 DEF Requestwise, ScopeOK, Own, TxOK, RunsFor, Serving, CallOK, LooksOK, HeldOK, InTx, TypeOK
<1>5. \A q \in Requests \ {r} : UNCHANGED <<call[q], held[q]>>
  BY <1>1, <1>2 DEF TypeOK
<1>6. done' = [by |-> r, call |-> call[r], as |-> RunsAs(r, call[r]),
               known |-> IF InTx(r) THEN tx[r].known ELSE call[r].known,
               homes |-> homes, unscoped |-> unscoped[r], ok |-> ok]
  BY DEF Answer
<1>7. OperationsStayHome'
  <2>1. CallOK(r) /\ ScopeOK(r)
    BY <1>1 DEF Requestwise
  <2>2. ~unscoped[r] => /\ via[r] # "none"
                        /\ via[r] \in {"session", "key"} => homes \subseteq {home[r]}
    BY <1>1, <2>1 DEF CallOK, ScopeOK, Serving
  <2> QED BY <1>2, <1>6, <2>2 DEF OperationsStayHome
<1>8. OwnerRunsAreExplained'
  BY <1>1, <1>2, <1>6, RoleOfACall DEF OwnerRunsAreExplained
<1> QED BY <1>2, <1>3, <1>4, <1>5, <1>7, <1>8, OneRequest

\* The statements keep the invariant: what they find is of their tenant, and what
\* they write is refused unless it is.
LEMMA StatementKeepsInv ==
  ASSUME IInv, NEW r \in Requests,
         Read(r) \/ Create(r) \/ Update(r) \/ Delete(r) \/ UpdateMany(r) \/ Fail(r)
  PROVE  IInv'
<1> DEFINE o == call[r].op
           scope == call[r].scope
           as == RunsAs(r, call[r])
           rows == Found(o, scope, as)
<1>1. TypeOK /\ call[r] \in Calls /\ o \in OpType /\ Ready(r)
  BY OpsAssumption DEF IInv, TypeOK, Ready, Calls, Read, Create, Update, Delete, UpdateMany, Fail
<1>2. o.data \in Tenants \cup {None} /\ o.id \in Rows \cup {None} /\ rows \subseteq Rows
  BY <1>1 DEF OpType, Found, Rows
<1>3. scope \in Tenants => HomesOf(rows) \subseteq {scope}
  BY FoundHome
<1> HIDE DEF o, scope, as, rows
<1>4. CASE Read(r)
  BY <1>1, <1>3, <1>4, AnswerKeepsInv DEF Read, TypeOK, o, scope, as, rows
<1>5. CASE Create(r)
  <2>1. MayCreate(o, scope, as) /\ o.kind \in {"create", "upsert"}
        /\ org' = [org EXCEPT ![o.id] = CreatedFor(o, scope)] /\ ended' = ended
        /\ Answer(r, {CreatedFor(o, scope)}, TRUE)
    BY <1>5 DEF Create, o, scope, as, rows
  <2>2. CreatedFor(o, scope) \in Tenants
    BY <1>2, <2>1 DEF MayCreate, CreatedFor
  <2>3. scope \in Tenants => CreatedFor(o, scope) = scope
    BY <2>1, <2>2 DEF MayCreate, Refused, CreatedFor
  <2>4. org' \in [Rows -> Tenants \cup {None}] /\ ended' \subseteq Grants
    BY <1>1, <2>1, <2>2 DEF TypeOK
  <2>5. scope \in Tenants => {CreatedFor(o, scope)} \subseteq {scope}
    BY <2>3
  <2> QED BY <1>1, <2>1, <2>4, <2>5, AnswerKeepsInv DEF scope
<1>6. CASE Update(r)
  <2>1. MayWrite(o, scope, as) /\ o.kind \in {"update", "upsert"} /\ ended' = ended
        /\ org' = [i \in Rows |-> IF i \in rows /\ o.data # None THEN o.data ELSE org[i]]
        /\ Answer(r, HomesOf(rows) \cup ({o.data} \ {None}), TRUE)
    BY <1>6 DEF Update, o, scope, as, rows
  <2>2. scope \in Tenants => o.data \in {None, scope}
    BY <2>1 DEF MayWrite, Refused
  <2>3. org' \in [Rows -> Tenants \cup {None}] /\ ended' \subseteq Grants
    BY <1>1, <1>2, <2>1 DEF TypeOK
  <2>4. scope \in Tenants => HomesOf(rows) \cup ({o.data} \ {None}) \subseteq {scope}
    BY <1>3, <2>2
  <2> QED BY <1>1, <2>1, <2>3, <2>4, AnswerKeepsInv DEF scope
<1>7. CASE Delete(r)
  <2>1. org' = [i \in Rows |-> IF i \in rows THEN None ELSE org[i]] /\ ended' = ended
        /\ Answer(r, HomesOf(rows), TRUE)
    BY <1>7 DEF Delete, o, scope, as, rows
  <2>2. org' \in [Rows -> Tenants \cup {None}] /\ ended' \subseteq Grants
    BY <1>1, <2>1 DEF TypeOK
  <2> QED BY <1>1, <1>3, <2>1, <2>2, AnswerKeepsInv DEF scope
<1>8. CASE UpdateMany(r)
  <2>1. ended' = ended \cup (rows \cap Grants) /\ org' = org /\ Answer(r, HomesOf(rows), TRUE)
    BY <1>8 DEF UpdateMany, o, scope, as, rows
  <2>2. org' \in [Rows -> Tenants \cup {None}] /\ ended' \subseteq Grants
    BY <1>1, <2>1 DEF TypeOK
  <2> QED BY <1>1, <1>3, <2>1, <2>2, AnswerKeepsInv DEF scope
<1>9. CASE Fail(r)
  BY <1>1, <1>9, AnswerKeepsInv DEF Fail, TypeOK
<1> QED BY <1>4, <1>5, <1>6, <1>7, <1>8, <1>9

\* The invariant holds initially: no request has done anything.
LEMMA InitIInv == Init => IInv
<1> SUFFICES ASSUME Init PROVE IInv
  OBVIOUS
<1>1. PICK who \in Arrivals : via = [r \in Requests |-> who[r].via] /\ home = [r \in Requests |-> who[r].home]
  BY DEF Init
<1>2. \A r \in Requests : who[r] \in [via : {"session", "key"}, home : Tenants]
                                     \cup [via : {"ops", "none"}, home : {None}]
  BY <1>1, ArrivalsAssumption
<1>3. \A r \in Requests : /\ via[r] \in {"session", "key", "ops", "none"} /\ home[r] \in Tenants \cup {None}
                          /\ via[r] \in {"session", "key"} => home[r] \in Tenants
  BY <1>1, <1>2
<1>4. TypeOK
  BY <1>1, <1>3, RowsAssumption, PoolAssumption DEF Init, TypeOK
<1>5. \A r \in Requests : ScopeOK(r)
  BY <1>1, <1>3 DEF Init, ScopeOK, Own
<1>6. \A r \in Requests : TxOK(r) /\ CallOK(r) /\ LooksOK(r) /\ HeldOK(r)
  BY DEF Init, TxOK, RunsFor, CallOK, LooksOK, HeldOK
<1>7. OperationsStayHome /\ OwnerRunsAreExplained
  BY DEF Init, OperationsStayHome, OwnerRunsAreExplained
<1> QED BY <1>4, <1>5, <1>6, <1>7 DEF IInv, Requestwise

\* Every step keeps the invariant.
LEMMA NextIInv == IInv /\ [Next]_vars => IInv'
<1> SUFFICES ASSUME IInv, [Next]_vars PROVE IInv'
  OBVIOUS
<1>1. CASE UNCHANGED vars
  BY <1>1 DEF vars, IInv, TypeOK, Requestwise, ScopeOK, Own, TxOK, RunsFor, Serving, CallOK, Asks,
              InTx, LooksOK, Looks, Wrapped, Rerouted, HeldOK, OperationsStayHome, OwnerRunsAreExplained
<1>2. ASSUME NEW r \in Requests, EnterScope(r) \/ RunUnscoped(r) \/ LeaveUnscoped(r) PROVE IInv'
  BY <1>2, ScopeKeepsInv
<1>3. ASSUME NEW r \in Requests,
             \/ WithTenantTx(r) \/ (\E t \in Tenants : WithTenantTxFor(r, t))
             \/ EndTx(r) \/ Open(r) \/ Take(r) \/ LookUp(r) \/ TimeOut(r)
      PROVE  IInv'
  BY <1>3, TransactionKeepsInv
<1>4. ASSUME NEW r \in Requests, NEW o \in Ops, Issue(r, o) PROVE IInv'
  BY <1>4, IssueKeepsInv
<1>5. ASSUME NEW r \in Requests,
             Read(r) \/ Create(r) \/ Update(r) \/ Delete(r) \/ UpdateMany(r) \/ Fail(r)
      PROVE  IInv'
  BY <1>5, StatementKeepsInv
<1> QED BY <1>1, <1>2, <1>3, <1>4, <1>5 DEF Next, Proceed

\* The inductive invariant holds in every reachable state.
THEOREM Invariant == Spec => []IInv
<1> QED BY InitIInv, NextIInv, PTL DEF Spec

\* Scopes, transactions and operations have their types in every reachable state.
THEOREM TypeCorrect == Spec => []TypeOK
<1>1. IInv => TypeOK
  BY DEF IInv
<1> QED BY <1>1, Invariant, PTL

\* Outside runUnscoped no operation of org-scope.ts reaches another tenant's rows,
\* whatever it names and however requests and transactions interleave.
THEOREM StayHome == Spec => []OperationsStayHome
<1>1. IInv => OperationsStayHome
  BY DEF IInv
<1> QED BY <1>1, Invariant, PTL

\* With RLS_ENFORCE=1 the only operations of a tenant that the policies do not see
\* are the reads db.ts sends to its unwrapped client, and those whose tenant the
\* bridge, or withTenantTx, asked for in vain.
THEOREM OwnerReads == Spec => []OwnerRunsAreExplained
<1>1. IInv => OwnerRunsAreExplained
  BY DEF IInv
<1> QED BY <1>1, Invariant, PTL

\* An operation under way on tenant rows is one on which the role it runs as
\* changes nothing: the role is its scope, or the tenant it names itself.
LEMMA RoleAgrees ==
  ASSUME IInv, NEW r \in Requests, call[r] # None
  PROVE  LET o == call[r].op
             as == RunsAs(r, call[r])
         IN \/ as = Owner
            \/ as \in Tenants /\ as = call[r].scope
            \/ as \in Tenants /\ call[r].scope = Admin /\ o.kind = "findMany" /\ o.org = as
            \/ as \in Tenants /\ call[r].scope = Admin /\ o.kind = "create" /\ o.data = as
<1>1. TypeOK /\ TxOK(r) /\ CallOK(r) /\ call[r] \in Calls
  BY DEF IInv, Requestwise, TypeOK
<1>2. call[r].scope \in Tenants \cup {Admin}
  BY <1>1 DEF Calls
<1>3. CASE call[r].scope \in Tenants
  BY <1>3, RoleOfACall
<1>4. CASE call[r].scope = Admin /\ tx[r] # None
  <2>1. ~Serving(r)
    BY <1>1, <1>4, Distinct DEF CallOK, Requestwise, ScopeOK, Serving, IInv
  <2>2. tx[r].as \in {Owner, tx[r].for} /\ tx[r] \in Transactions
    BY <1>1, <1>4, <2>1 DEF TxOK, RunsFor, TypeOK
  <2>3. RunsAs(r, call[r]) = tx[r].as
    BY <1>4, Distinct DEF RunsAs, Rerouted, InTx
  <2>4. tx[r].as = Owner \/ (tx[r].as = tx[r].for /\ tx[r].for \in Tenants)
    BY <2>2, Distinct DEF Transactions
  <2> QED BY <1>1, <1>4, <2>3, <2>4, Distinct DEF CallOK, Asks, InTx
<1>5. CASE call[r].scope = Admin /\ tx[r] = None
  BY <1>5, Distinct DEF RunsAs, Rerouted, InTx, Wrapped
<1> QED BY <1>2, <1>3, <1>4, <1>5

\* The inductive invariant makes the two belts agree.
LEMMA BeltsAgree == IInv => PoliciesChangeNothing
<1> SUFFICES ASSUME IInv, NEW r \in Requests, call[r] # None, call[r].op.model = "tenant"
             PROVE  LET o == call[r].op
                        scope == call[r].scope
                        as == RunsAs(r, call[r])
                    IN /\ o.kind # "create" => /\ Found(o, scope, as) = Found(o, scope, Owner)
                                               /\ MayWrite(o, scope, as) = MayWrite(o, scope, Owner)
                       /\ o.kind \in {"create", "upsert"} =>
                            MayCreate(o, scope, as) = MayCreate(o, scope, Owner)
  BY DEF PoliciesChangeNothing
<1> DEFINE o == call[r].op
           scope == call[r].scope
           as == RunsAs(r, call[r])
<1>1. o \in Ops /\ o \in OpType /\ scope \in Tenants \cup {Admin}
  BY OpsAssumption DEF IInv, TypeOK, Calls
<1>2. /\ o.kind \in {"findMany", "findUnique", "delete", "updateMany"} => o.data = None
      /\ o.kind \in Kinds
  BY <1>1, OpsAssumption DEF OpType
<1>3. \/ as = Owner
      \/ as \in Tenants /\ as = scope
      \/ as \in Tenants /\ scope = Admin /\ o.kind = "findMany" /\ o.org = as
      \/ as \in Tenants /\ scope = Admin /\ o.kind = "create" /\ o.data = as
  BY RoleAgrees
<1>4. o.model = "tenant"
  OBVIOUS
<1> HIDE DEF o, scope, as
<1>5. o.kind # "create" => Found(o, scope, as) = Found(o, scope, Owner)
  BY <1>1, <1>3, <1>4, Distinct DEF Found, Where, Policy
<1>6. o.kind # "create" => MayWrite(o, scope, as) = MayWrite(o, scope, Owner)
  <2>1. ~Refused(o, scope) /\ o.data # None /\ o.kind # "create" => Policy(o, o.data, as)
    BY <1>2, <1>3, <1>4, Distinct DEF Refused, Policy, Kinds
  <2>2. Policy(o, o.data, Owner)
    BY DEF Policy
  <2> QED BY <1>5, <2>1, <2>2 DEF MayWrite
<1>7. o.kind \in {"create", "upsert"} => MayCreate(o, scope, as) = MayCreate(o, scope, Owner)
  <2>1. ~Refused(o, scope) /\ o.kind \in {"create", "upsert"} => Policy(o, CreatedFor(o, scope), as)
    BY <1>1, <1>3, <1>4, Distinct DEF Refused, Policy, CreatedFor
  <2>2. Policy(o, CreatedFor(o, scope), Owner)
    BY DEF Policy
  <2> QED BY <2>1, <2>2 DEF MayCreate
<1> QED BY <1>5, <1>6, <1>7 DEF o, scope, as

\* With RLS_ENFORCE=1 the policies hide and refuse nothing that the rewritten
\* operation on tenant rows would have been given by the owner.
THEOREM PoliciesAgree == Spec => []PoliciesChangeNothing
<1> QED BY BeltsAgree, Invariant, PTL

\* A request that holds a connection and waits for another has no scope pinned and
\* looks it up inside a transaction.
LEMMA WhoHoldsAndWaits ==
  ASSUME IInv, NEW r \in Requests, held[r] > 0, Waiting(r)
  PROVE  /\ via[r] \in {"session", "ops"} /\ cell[r] = None
         /\ InTx(r) \/ (rls /\ call[r].scope = home[r])
<1>1. TypeOK /\ ScopeOK(r) /\ TxOK(r) /\ CallOK(r) /\ LooksOK(r) /\ HeldOK(r)
  BY DEF IInv, Requestwise
<1>2. held[r] \in Nat /\ via[r] \in {"session", "key", "ops", "none"} /\ unscoped[r] \in BOOLEAN
  BY <1>1 DEF TypeOK
<1>3. opening[r] = None
  BY <1>1, <1>2 DEF TxOK, HeldOK
<1>4. call[r] # None /\ held[r] < Needed(r, call[r])
  BY <1>3 DEF Waiting
<1>5. Asks(r, call[r].op, call[r].scope)
  BY <1>1, <1>4 DEF CallOK
<1>6. Needed(r, call[r]) = 2
  BY <1>2, <1>4 DEF Needed
<1>7. call[r].looks
  BY <1>5, <1>6 DEF Needed, Asks, Rerouted
<1>8. cell[r] = None /\ (InTx(r) \/ Wrapped(r, call[r]))
  BY <1>1, <1>4, <1>7 DEF LooksOK, Looks
<1>9. ~unscoped[r] /\ via[r] \in {"session", "ops"}
  BY <1>1, <1>2, <1>4, <1>8, Distinct DEF ScopeOK, Own, CallOK
<1>10. Wrapped(r, call[r]) => rls /\ call[r].scope = home[r]
  BY <1>1, <1>4, Distinct DEF Wrapped, CallOK
<1> QED BY <1>8, <1>9, <1>10

\* The inductive invariant names who can stall the pool.
LEMMA WhoStalls == IInv => PoolStallsOnLookups
BY WhoHoldsAndWaits DEF PoolStallsOnLookups

\* For a pool of any size: when every holder of a connection waits for another one
\* and none is free, the holders are requests without a pinned scope that look it
\* up, past the transaction they are in.
THEOREM StallsAreLookups == Spec => []PoolStallsOnLookups
<1> QED BY WhoStalls, Invariant, PTL
=============================================================================
