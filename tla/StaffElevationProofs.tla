------------------------- MODULE StaffElevationProofs -------------------------
(***************************************************************************)
(* Theorems about StaffElevation: its types, that an operation let through *)
(* the gate rests on a fresh proof of the password, that a second factor   *)
(* authorises one elevation, and that live elevations overlapped.          *)
(***************************************************************************)
EXTENDS StaffElevation, TLAPS

rows == <<granted, epoch, clock, mfa, rowLock, elevation>>

\* Where a request that asks for an elevation is once it has proved the password.
Proved == {"proved", "matched", "recovering", "locked", "factored", "superseded"}

\* What holds of a request between its steps: the values a later step relies on have
\* been set; it mints one row, at the end; the password was proved no earlier than
\* the session was read; the row an operation rests on is there, of its own epoch.
Coherent(r, x) ==
  /\ x \in Request
  /\ rowLock = r => x.pc = "locked"
  /\ x.epoch <= epoch
  /\ x.pc = "matched" => x.secret \in Names /\ x.step + x.late <= MaxClock + 1
  /\ x.pc = "confirmed" => x.secret \in Names
  /\ x.pc \in {"recovering", "locked"} => x.by \in Names
  /\ x.pc \in {"factored", "superseded"} => x.by \in Factor
  /\ x.pc = "locked" /\ x.seen # {} => rowLock = r /\ mfa.row # None
  /\ x.pc # "done" => elevation[r] = None
  /\ x.pc \in Proved => x.proved >= x.epoch
  /\ x.token # None => x.token \in Minted /\ elevation[x.token].epoch = x.epoch

\* The types of everything but the requests.
RowsOK ==
  /\ granted \in BOOLEAN
  /\ epoch \in 0 .. MaxEpoch
  /\ clock \in 1 .. MaxClock
  /\ mfa \in Mfa
  /\ mfa.row = None => mfa = NoMfa
  /\ rowLock \in Requests \cup {None}
  /\ elevation \in [Names -> Elevation \cup {None}]
  /\ \A n \in Minted : elevation[n].proved >= elevation[n].epoch

IInv ==
  /\ RowsOK
  /\ req \in [Requests -> Request]
  /\ \A r \in Requests : Coherent(r, req[r])

\* The inductive invariant implies the two invariants the runs check.
LEMMA Implied == IInv => TypeOK /\ OperationsFollowAFreshProof
<1> SUFFICES ASSUME IInv PROVE TypeOK /\ OperationsFollowAFreshProof
  OBVIOUS
<1>1. TypeOK
  BY DEF IInv, RowsOK, Coherent, TypeOK
<1>2. OperationsFollowAFreshProof
  <2> SUFFICES ASSUME NEW r \in Requests, req[r].token # None
               PROVE  elevation[req[r].token].proved >= req[r].epoch
    BY DEF OperationsFollowAFreshProof
  <2> QED BY DEF IInv, RowsOK, Coherent
<1> QED BY <1>1, <1>2

\* A request that goes on, while no row changes, keeps the invariant if its record
\* is coherent.
LEMMA OneRequest ==
  ASSUME IInv, NEW r \in Requests, NEW x, Continue(r, x), Coherent(r, x), UNCHANGED rows
  PROVE  IInv'
<1>1. RowsOK'
  BY DEF IInv, RowsOK, rows, Minted
<1>2. ASSUME NEW q \in Requests PROVE Coherent(q, req[q])'
  <2>1. Coherent(q, req'[q])
    BY DEF IInv, Continue
  <2> QED BY <2>1 DEF Coherent, rows, Minted
<1>3. req' \in [Requests -> Request]
  BY DEF IInv, Continue, Coherent
<1> QED BY <1>1, <1>2, <1>3 DEF IInv

\* An idle record of an epoch that has been is coherent for a request that has not
\* minted and holds no lock, wherever it waits or has stopped.
LEMMA FreshRecord ==
  ASSUME IInv, NEW r \in Requests, elevation[r] = None, rowLock # r
  PROVE  /\ Coherent(r, [Idle EXCEPT !.pc = "rejected"])
         /\ \A flow \in {"elevate", "operate", "end", "enroll", "activate"} :
              Coherent(r, [Idle EXCEPT !.pc = "session", !.flow = flow,
                                       !.epoch = epoch, !.after = Minted])
<1>1. Minted \in SUBSET Names /\ epoch \in 0 .. MaxEpoch /\ 0 \in 0 .. MaxEpoch
  BY ElevationAssumption DEF Minted, IInv, RowsOK
<1>2. [Idle EXCEPT !.pc = "rejected"] \in Request
  BY <1>1 DEF Idle, Request
<1>3. \A flow \in {"elevate", "operate", "end", "enroll", "activate"} :
        [Idle EXCEPT !.pc = "session", !.flow = flow, !.epoch = epoch, !.after = Minted] \in Request
  BY <1>1 DEF Idle, Request
<1>4. Coherent(r, [Idle EXCEPT !.pc = "rejected"])
  BY <1>1, <1>2 DEF Coherent, Idle, Proved
<1>5. ASSUME NEW flow \in {"elevate", "operate", "end", "enroll", "activate"}
      PROVE  Coherent(r, [Idle EXCEPT !.pc = "session", !.flow = flow,
                                      !.epoch = epoch, !.after = Minted])
  <2> DEFINE x == [Idle EXCEPT !.pc = "session", !.flow = flow,
                               !.epoch = epoch, !.after = Minted]
  <2>1. x.pc = "session" /\ x.epoch = epoch /\ x.token = None
    BY DEF Idle
  <2>2. x \in Request
    BY <1>3
  <2>3. epoch <= epoch
    BY <1>1, ElevationAssumption
  <2> QED BY <2>1, <2>2, <2>3 DEF Coherent, Proved
<1> QED BY <1>4, <1>5

\* A request that is refused before its end, holding no lock, keeps the invariant.
LEMMA Rejected ==
  ASSUME IInv, NEW r \in Requests, req[r].pc \notin {"done", "locked"}, Reject(r), UNCHANGED rows
  PROVE  IInv'
<1>1. elevation[r] = None /\ rowLock # r
  BY DEF IInv, Coherent
<1> QED BY <1>1, FreshRecord, OneRequest DEF Reject

\* The steps of the guard and the gate keep the invariant: what a gate lets through
\* rests on a row that is there and of its own epoch.
LEMMA GateKeepsInv ==
  ASSUME IInv, NEW r \in Requests
  PROVE  /\ \A flow \in {"elevate", "operate", "end", "enroll", "activate"} : Start(r, flow) => IInv'
         /\ CheckGrant(r) => IInv'
         /\ \A n \in Names : PassGate(r, n) => IInv'
<1>0. Coherent(r, req[r]) /\ req[r] \in Request
  BY DEF IInv, Coherent
<1>1. ASSUME NEW flow \in {"elevate", "operate", "end", "enroll", "activate"}, Start(r, flow)
      PROVE  IInv'
  <2>1. elevation[r] = None /\ rowLock # r
    BY <1>0, <1>1 DEF Start, Coherent
  <2> QED BY <1>1, <2>1, FreshRecord, OneRequest DEF Start, rows
<1>2. ASSUME CheckGrant(r) PROVE IInv'
  <2>1. CASE granted
    <3>1. [req[r] EXCEPT !.pc = "granted"] \in Request
      BY <1>0 DEF Request
    <3>2. Coherent(r, [req[r] EXCEPT !.pc = "granted"])
      BY <1>0, <1>2, <3>1 DEF CheckGrant, Coherent, Request, Proved
    <3> QED BY <1>2, <2>1, <3>2, OneRequest DEF CheckGrant, Goto, rows
  <2>2. CASE ~granted
    BY <1>2, <2>2, Rejected DEF CheckGrant, rows
  <2> QED BY <2>1, <2>2
<1>3. ASSUME NEW n \in Names, PassGate(r, n) PROVE IInv'
  <2> DEFINE x == [req[r] EXCEPT !.pc = "allowed", !.token = n]
  <2>1. CASE n \in Minted /\ Resolves(elevation[n], req[r].epoch)
    <3>1. x \in Request
      BY <1>0 DEF Request
    <3>2. Coherent(r, x)
      BY <1>0, <1>3, <2>1, <3>1 DEF PassGate, Resolves, Coherent, Request, Proved
    <3> QED BY <1>3, <2>1, <3>2, OneRequest DEF PassGate, rows
  <2>2. CASE ~(n \in Minted /\ Resolves(elevation[n], req[r].epoch))
    BY <1>3, <2>2, Rejected DEF PassGate, rows
  <2> QED BY <2>1, <2>2
<1> QED BY <1>1, <1>2, <1>3

\* The password and the first look at the factor keep the invariant: the session was
\* read before, and versions only grow.
LEMMA StepUpKeepsInv ==
  ASSUME IInv, NEW r \in Requests
  PROVE  /\ ProvePassword(r) => IInv'
         /\ \A step \in 1 .. MaxClock, late \in {0, 1} : ReadTotp(r, step, late) => IInv'
         /\ \A code \in Names : ReadForRecovery(r, code) => IInv'
<1>0. Coherent(r, req[r]) /\ req[r] \in Request
  BY DEF IInv, Coherent
<1>1. ASSUME ProvePassword(r) PROVE IInv'
  <2> DEFINE x == [req[r] EXCEPT !.pc = "proved", !.proved = epoch]
  <2>1. x \in Request
    BY <1>0 DEF Request, IInv, RowsOK
  <2>2. Coherent(r, x)
    BY <1>0, <1>1, <2>1 DEF ProvePassword, At, Coherent, Request, Proved
  <2> QED BY <1>1, <2>2, OneRequest DEF ProvePassword, rows
<1>2. ASSUME NEW step \in 1 .. MaxClock, NEW late \in {0, 1}, ReadTotp(r, step, late)
      PROVE  IInv'
  <2> DEFINE x == [req[r] EXCEPT !.pc = "matched", !.secret = mfa.active,
                                 !.key = mfa.key, !.step = step, !.late = late]
             y == [Idle EXCEPT !.pc = "rejected"]
  <2>1. clock' \in 1 .. MaxClock /\ step + late \in Nat /\ step + late <= MaxClock + 1
    BY <1>2, ElevationAssumption DEF ReadTotp, IInv, RowsOK
  <2>2. elevation[r] = None /\ rowLock # r
    BY <1>0, <1>2 DEF ReadTotp, At, Coherent
  <2>3. PICK z \in {x, y} : Continue(r, z) /\ Coherent(r, z)
    <3>1. CASE HasActivatedMfa
      <4>1. mfa.active \in Names /\ mfa.key \in {"old", "new"}
        BY <3>1 DEF HasActivatedMfa, Mfa, IInv, RowsOK
      <4>2. x \in Request
        <5>1. step \in Nat /\ req[r] \in Request
          BY <1>0, ElevationAssumption
        <5> QED BY <4>1, <5>1 DEF Request
      <4>3. Coherent(r, x)
        BY <1>0, <1>2, <2>1, <4>1, <4>2 DEF ReadTotp, At, Coherent, Request, Proved
      <4> QED BY <1>2, <3>1, <4>3 DEF ReadTotp
    <3>2. CASE ~HasActivatedMfa
      BY <1>2, <2>2, <3>2, FreshRecord DEF ReadTotp, Reject
    <3> QED BY <3>1, <3>2
  <2>4. UNCHANGED <<granted, epoch, mfa, rowLock, elevation>>
    BY <1>2 DEF ReadTotp
  <2>5. RowsOK'
    BY <2>1, <2>4 DEF IInv, RowsOK, Minted
  <2>6. ASSUME NEW q \in Requests PROVE Coherent(q, req[q])'
    <3>1. Coherent(q, req'[q])
      BY <2>3 DEF IInv, Continue
    <3> QED BY <2>4, <3>1 DEF Coherent, Minted
  <2>7. req' \in [Requests -> Request]
    BY <2>3 DEF IInv, Continue, Coherent
  <2> QED BY <2>5, <2>6, <2>7 DEF IInv
<1>3. ASSUME NEW code \in Names, ReadForRecovery(r, code) PROVE IInv'
  <2> DEFINE x == [req[r] EXCEPT !.pc = "recovering", !.by = code]
  <2>1. CASE HasActivatedMfa
    <3>1. x \in Request
      BY <1>0 DEF Request, Factor
    <3>2. Coherent(r, x)
      BY <1>0, <1>3, <3>1 DEF ReadForRecovery, At, Coherent, Request, Proved
    <3> QED BY <1>3, <2>1, <3>2, OneRequest DEF ReadForRecovery, rows
  <2>2. CASE ~HasActivatedMfa
    BY <1>3, <2>2, Rejected DEF ReadForRecovery, At, rows
  <2> QED BY <2>1, <2>2
<1> QED BY <1>1, <1>2, <1>3

\* Consuming a factor keeps the invariant: the row lock is held while a recovery code
\* is looked for, and what was consumed is known from then on.
LEMMA FactorKeepsInv ==
  ASSUME IInv, NEW r \in Requests
  PROVE  /\ \A sealed \in BOOLEAN : AdvanceCounter(r, sealed) => IInv'
         /\ LockCodes(r) => IInv'
         /\ SpendCode(r) => IInv'
<1>0. /\ Coherent(r, req[r]) /\ req[r] \in Request
      /\ RowsOK /\ None \notin Names /\ Requests \subseteq Names
  BY ElevationAssumption DEF IInv, Coherent, Names
<1>1. ASSUME NEW sealed \in BOOLEAN, AdvanceCounter(r, sealed) PROVE IInv'
  <2> DEFINE x == [req[r] EXCEPT !.pc = "factored",
                                 !.by = <<mfa.row, req[r].secret, req[r].step, req[r].late>>]
  <2>1. CASE mfa.row # None /\ mfa.lastStep < Counter(r)
    <3>1. /\ mfa.row \in Names /\ req[r].secret \in Names
          /\ req[r].step \in Nat /\ req[r].late \in {0, 1}
          /\ Counter(r) \in 0 .. MaxClock + 1
      BY <1>0, <1>1, <2>1, ElevationAssumption
      DEF AdvanceCounter, At, Coherent, Request, RowsOK, Mfa, Counter
    <3>2. mfa' \in Mfa /\ mfa'.row = mfa.row /\ mfa'.row # None
      BY <1>0, <1>1, <2>1, <3>1 DEF AdvanceCounter, RowsOK, Mfa
    <3>3. x \in Request
      BY <1>0, <3>1 DEF Request, Factor, Totp
    <3>4. UNCHANGED <<granted, epoch, clock, rowLock, elevation>> /\ Continue(r, x)
      BY <1>1, <2>1 DEF AdvanceCounter
    <3>5. RowsOK'
      BY <1>0, <3>2, <3>4 DEF RowsOK, Minted
    <3>6. Coherent(r, x)
      BY <1>0, <1>1, <3>1, <3>3 DEF AdvanceCounter, At, Coherent, Request, Proved, Factor, Totp
    <3>7. ASSUME NEW q \in Requests PROVE Coherent(q, req[q])'
      <4>1. Coherent(q, req'[q])
        BY <3>4, <3>6 DEF IInv, Continue
      <4> QED BY <3>2, <3>4, <4>1 DEF Coherent, Minted
    <3>8. req' \in [Requests -> Request]
      BY <3>3, <3>4 DEF IInv, Continue
    <3> QED BY <3>5, <3>7, <3>8 DEF IInv
  <2>2. CASE ~(mfa.row # None /\ mfa.lastStep < Counter(r))
    BY <1>1, <2>2, Rejected DEF AdvanceCounter, At, rows
  <2> QED BY <2>1, <2>2
<1>2. ASSUME LockCodes(r) PROVE IInv'
  <2> DEFINE x == [req[r] EXCEPT !.pc = "locked", !.seen = mfa.codes]
  <2>1. x \in Request
    BY <1>0 DEF Request, RowsOK, Mfa
  <2>2. UNCHANGED <<granted, epoch, clock, mfa, elevation>> /\ Continue(r, x)
    BY <1>2 DEF LockCodes
  <2>3. rowLock = None /\ rowLock' \in {r, None} /\ (mfa.codes # {} => rowLock' = r /\ mfa.row # None)
    BY <1>0, <1>2 DEF LockCodes, RowsOK, NoMfa
  <2>4. RowsOK'
    BY <1>0, <2>2, <2>3 DEF RowsOK, Minted
  <2>5. Coherent(r, req[r])'
    <3>1. At(r, "elevate", "recovering")
      BY <1>2 DEF LockCodes
    <3>2. req'[r] = x
      BY <2>2 DEF IInv, Continue
    <3> QED BY <1>0, <2>1, <2>2, <2>3, <3>1, <3>2 DEF At, Coherent, Request, Proved, Minted
  <2>6. ASSUME NEW q \in Requests PROVE Coherent(q, req[q])'
    <3>1. CASE q = r
      BY <2>5, <3>1
    <3>2. CASE q # r
      <4>1. Coherent(q, req[q]) /\ req'[q] = req[q]
        BY <2>2, <3>2 DEF IInv, Continue
      <4> QED BY <1>0, <2>2, <2>3, <3>2, <4>1 DEF Coherent, Minted
    <3> QED BY <3>1, <3>2
  <2>7. req' \in [Requests -> Request]
    BY <2>1, <2>2 DEF IInv, Continue
  <2> QED BY <2>4, <2>6, <2>7 DEF IInv
<1>3. ASSUME SpendCode(r) PROVE IInv'
  <2> DEFINE x == [req[r] EXCEPT !.pc = "factored"]
             y == [Idle EXCEPT !.pc = "rejected"]
  <2>1. /\ UNCHANGED <<granted, epoch, clock, elevation>>
        /\ rowLock' \in Requests \cup {None} /\ rowLock' # r
        /\ rowLock' = IF rowLock = r THEN None ELSE rowLock
    BY <1>0, <1>3 DEF SpendCode, RowsOK, Names
  <2>2. /\ mfa' \in Mfa /\ mfa'.row = mfa.row
        /\ mfa'.row = None => mfa' = NoMfa
    BY <1>0, <1>3 DEF SpendCode, At, Coherent, Request, RowsOK, Mfa
  <2>3. Coherent(r, req[r])' /\ (Continue(r, x) \/ Continue(r, y))
    <3>1. CASE req[r].by \in req[r].seen
      <4>1. x \in Request
        BY <1>0 DEF Request
      <4>2. Continue(r, x) /\ req'[r] = x
        BY <1>3, <3>1 DEF SpendCode, Goto, Continue, IInv
      <4>3. Coherent(r, req[r])'
        BY <1>0, <1>3, <2>1, <4>1, <4>2
        DEF SpendCode, At, Coherent, Request, Proved, Factor, Minted
      <4> QED BY <4>2, <4>3
    <3>2. CASE req[r].by \notin req[r].seen
      <4>1. y \in Request
        BY ElevationAssumption DEF Idle, Request
      <4>2. Continue(r, y) /\ req'[r] = y
        BY <1>3, <3>2 DEF SpendCode, Reject, Continue, IInv
      <4>3. elevation[r] = None /\ 0 <= epoch
        BY <1>0, <1>3, ElevationAssumption DEF SpendCode, At, Coherent, RowsOK
      <4>4. y.pc = "rejected" /\ y.epoch = 0 /\ y.token = None
        BY DEF Idle
      <4>5. Coherent(r, req[r])'
        BY <1>0, <2>1, <4>1, <4>2, <4>3, <4>4 DEF Coherent, Proved
      <4> QED BY <4>2, <4>5
    <3> QED BY <3>1, <3>2
  <2>4. RowsOK'
    BY <1>0, <2>1, <2>2 DEF RowsOK, Minted
  <2>5. ASSUME NEW q \in Requests PROVE Coherent(q, req[q])'
    <3>1. CASE q = r
      BY <2>3, <3>1
    <3>2. CASE q # r
      <4>1. Coherent(q, req[q]) /\ req'[q] = req[q]
        BY <2>3, <3>2 DEF IInv, Continue
      <4> QED BY <1>0, <2>1, <2>2, <3>2, <4>1 DEF Coherent, Minted
    <3> QED BY <3>1, <3>2
  <2>6. req' \in [Requests -> Request]
    BY <2>3 DEF IInv, Continue, Coherent
  <2> QED BY <2>4, <2>5, <2>6 DEF IInv
<1> QED BY <1>1, <1>2, <1>3

\* Superseding, minting and ending keep the invariant: a row changes only in whether
\* it has ended, and a new one carries what its request has proved.
LEMMA RowsKeepInv ==
  ASSUME IInv, NEW r \in Requests
  PROVE  /\ Supersede(r) => IInv'
         /\ Mint(r) => IInv'
         /\ \A n \in Names : EndElevation(r, n) => IInv'
<1>0. /\ Coherent(r, req[r]) /\ req[r] \in Request
      /\ RowsOK /\ Requests \subseteq Names /\ None \notin Elevation
      /\ \A n \in Names : n \in Minted <=> elevation[n] \in Elevation
  BY ElevationAssumption DEF IInv, Coherent, Names, RowsOK, Minted
<1>1. ASSUME Supersede(r) PROVE IInv'
  <2> DEFINE x == [req[r] EXCEPT !.pc = "superseded", !.step = clock + TTL]
  <2>1. x \in Request
    <3>1. clock + TTL \in Nat
      BY <1>0, ElevationAssumption DEF RowsOK
    <3> QED BY <1>0, <3>1 DEF Request
  <2>2. UNCHANGED <<granted, epoch, clock, mfa, rowLock>> /\ Continue(r, x)
    BY <1>1 DEF Supersede
  <2>3. /\ elevation' \in [Names -> Elevation \cup {None}] /\ Minted' = Minted
        /\ \A n \in Names : elevation[n] = None => elevation'[n] = None
        /\ \A n \in Minted : /\ elevation'[n].epoch = elevation[n].epoch
                             /\ elevation'[n].proved = elevation[n].proved
    <3>1. elevation' = [n \in Names |-> IF n \in Minted THEN [elevation[n] EXCEPT !.ended = TRUE]
                                                        ELSE None]
      BY <1>1 DEF Supersede
    <3>2. \A n \in Minted : elevation'[n] \in Elevation
      BY <1>0, <3>1 DEF Elevation, Minted
    <3>3. \A n \in Minted : /\ elevation'[n].epoch = elevation[n].epoch
                            /\ elevation'[n].proved = elevation[n].proved
      BY <1>0, <3>1 DEF Elevation, Minted
    <3> QED BY <1>0, <3>1, <3>2, <3>3 DEF Minted
  <2>4. RowsOK'
    BY <1>0, <2>2, <2>3 DEF RowsOK
  <2>5. Coherent(r, x)
    BY <1>0, <1>1, <2>1 DEF Supersede, At, Coherent, Request, Proved
  <2>6. ASSUME NEW q \in Requests PROVE Coherent(q, req[q])'
    <3>1. Coherent(q, req'[q])
      BY <2>2, <2>5 DEF IInv, Continue
    <3> QED BY <1>0, <2>2, <2>3, <3>1 DEF Coherent
  <2>7. req' \in [Requests -> Request]
    BY <2>1, <2>2 DEF IInv, Continue
  <2> QED BY <2>4, <2>6, <2>7 DEF IInv
<1>2. ASSUME Mint(r) PROVE IInv'
  <2> DEFINE x == [req[r] EXCEPT !.pc = "done"]
             e == [epoch |-> req[r].epoch, expires |-> req[r].step, ended |-> FALSE,
                   proved |-> req[r].proved, by |-> req[r].by, after |-> req[r].after]
  <2>1. /\ req[r].pc = "superseded" /\ elevation[r] = None /\ req[r].proved >= req[r].epoch
        /\ req[r].by \in Factor
    BY <1>0, <1>2 DEF Mint, At, Coherent, Proved
  <2>2. /\ UNCHANGED <<granted, epoch, clock, mfa, rowLock>> /\ Continue(r, x)
        /\ elevation' = [elevation EXCEPT ![r] = e]
    BY <1>2 DEF Mint, Goto
  <2>3. x \in Request /\ e \in Elevation
    BY <1>0, <2>1 DEF Request, Elevation
  <2>4. /\ elevation' \in [Names -> Elevation \cup {None}] /\ elevation'[r] = e
        /\ \A n \in Names \ {r} : elevation'[n] = elevation[n]
        /\ Minted' = Minted \cup {r}
        /\ \A n \in Minted : elevation'[n] = elevation[n]
    BY <1>0, <2>1, <2>2, <2>3 DEF RowsOK, Minted
  <2>5. RowsOK'
    BY <1>0, <2>1, <2>2, <2>4 DEF RowsOK
  <2>6. ASSUME NEW q \in Requests PROVE Coherent(q, req[q])'
    <3>1. /\ Coherent(q, req[q]) /\ req'[q].token = req[q].token /\ req'[q].epoch = req[q].epoch
          /\ q # r => req'[q] = req[q]
          /\ req'[r] = x /\ x.pc = "done"
      BY <1>0, <2>2 DEF IInv, Continue, Request
    <3>2. CASE q = r
      <4>1. rowLock # r
        BY <1>0, <2>1 DEF Coherent
      <4> QED BY <2>2, <2>3, <2>4, <3>1, <3>2, <4>1 DEF Coherent, Proved
    <3>3. CASE q # r
      BY <1>0, <2>2, <2>4, <3>1, <3>3 DEF Coherent
    <3> QED BY <3>2, <3>3
  <2>7. req' \in [Requests -> Request]
    BY <2>2, <2>3 DEF IInv, Continue
  <2> QED BY <2>5, <2>6, <2>7 DEF IInv
<1>3. ASSUME NEW n \in Names, EndElevation(r, n) PROVE IInv'
  <2> DEFINE x == [req[r] EXCEPT !.pc = "done"]
  <2>1. x \in Request
    BY <1>0 DEF Request
  <2>2. UNCHANGED <<granted, epoch, clock, mfa, rowLock>> /\ Continue(r, x)
    BY <1>3 DEF EndElevation, Goto
  <2>3. /\ elevation' \in [Names -> Elevation \cup {None}] /\ Minted' = Minted
        /\ \A m \in Names : elevation[m] = None => elevation'[m] = None
        /\ \A m \in Minted : /\ elevation'[m].epoch = elevation[m].epoch
                             /\ elevation'[m].proved = elevation[m].proved
    <3>1. CASE n \in Minted
      <4>1. elevation' = [elevation EXCEPT ![n] = [elevation[n] EXCEPT !.ended = TRUE]]
        BY <1>3, <3>1 DEF EndElevation
      <4>2. elevation[n] \in Elevation /\ [elevation[n] EXCEPT !.ended = TRUE] \in Elevation
        BY <1>0, <3>1 DEF Elevation
      <4>3. /\ [elevation[n] EXCEPT !.ended = TRUE].epoch = elevation[n].epoch
            /\ [elevation[n] EXCEPT !.ended = TRUE].proved = elevation[n].proved
        BY <4>2 DEF Elevation
      <4> QED BY <1>0, <3>1, <4>1, <4>2, <4>3 DEF RowsOK, Minted
    <3>2. CASE n \notin Minted
      BY <1>0, <1>3, <3>2 DEF EndElevation, RowsOK, Minted
    <3> QED BY <3>1, <3>2
  <2>4. RowsOK'
    BY <1>0, <2>2, <2>3 DEF RowsOK
  <2>5. Coherent(r, x)
    BY <1>0, <1>3, <2>1 DEF EndElevation, At, Coherent, Request, Proved
  <2>6. ASSUME NEW q \in Requests PROVE Coherent(q, req[q])'
    <3>1. Coherent(q, req'[q])
      BY <2>2, <2>5 DEF IInv, Continue
    <3> QED BY <1>0, <2>2, <2>3, <3>1 DEF Coherent
  <2>7. req' \in [Requests -> Request]
    BY <2>1, <2>2 DEF IInv, Continue
  <2> QED BY <2>4, <2>6, <2>7 DEF IInv
<1> QED BY <1>1, <1>2, <1>3

\* A change of the mfa row alone, made while no request locks it, keeps the invariant
\* together with a coherent step of the request that makes it.
LEMMA MfaWritten ==
  ASSUME IInv, NEW r \in Requests, NEW x, Continue(r, x), Coherent(r, x), rowLock = None,
         mfa' \in Mfa, mfa'.row # None, UNCHANGED <<granted, epoch, clock, rowLock, elevation>>
  PROVE  IInv'
<1>1. RowsOK'
  BY DEF IInv, RowsOK, Minted
<1>2. ASSUME NEW q \in Requests PROVE Coherent(q, req[q])'
  <2>1. Coherent(q, req'[q])
    BY DEF IInv, Continue
  <2> QED BY <2>1 DEF Coherent, Minted
<1>3. req' \in [Requests -> Request]
  BY DEF IInv, Continue, Coherent
<1> QED BY <1>1, <1>2, <1>3 DEF IInv

\* Enrolling and confirming a factor keep the invariant.
LEMMA EnrollKeepsInv ==
  ASSUME IInv, NEW r \in Requests, Enroll(r)
  PROVE  IInv'
<1>0. Coherent(r, req[r]) /\ req[r] \in Request /\ RowsOK /\ r \in Names
  BY DEF IInv, Coherent, Names
<1>1. CASE CheckRotation(r)
  <2> DEFINE x == [req[r] EXCEPT !.pc = "allowed"]
             y == [req[r] EXCEPT !.flow = "rotate", !.pc = "session"]
  <2>1. x \in Request /\ y \in Request
    BY <1>0 DEF Request
  <2>2. Coherent(r, x) /\ Coherent(r, y)
    BY <1>0, <1>1, <2>1 DEF CheckRotation, At, Coherent, Request, Proved
  <2>3. Continue(r, x) \/ Continue(r, y) \/ Reject(r)
    BY <1>1 DEF CheckRotation, Goto
  <2> QED BY <1>1, <2>2, <2>3, OneRequest, Rejected DEF CheckRotation, At, rows
<1>2. CASE BeginEnrollment(r)
  <2> DEFINE x == [req[r] EXCEPT !.pc = "done"]
  <2>1. x \in Request
    BY <1>0 DEF Request
  <2>2. Coherent(r, x)
    BY <1>0, <1>2, <2>1 DEF BeginEnrollment, Coherent, Request, Proved
  <2>3. mfa' \in Mfa /\ mfa'.row # None
    BY <1>0, <1>2, ElevationAssumption DEF BeginEnrollment, RowsOK, Mfa
  <2> QED BY <1>2, <2>2, <2>3, MfaWritten DEF BeginEnrollment, Goto
<1>3. CASE ReadPending(r)
  <2> DEFINE x == [req[r] EXCEPT !.pc = "confirmed", !.secret = mfa.pending]
  <2>1. CASE mfa.pending # None
    <3>1. mfa.pending \in Names
      BY <1>0, <2>1 DEF RowsOK, Mfa
    <3>2. x \in Request
      BY <1>0, <3>1 DEF Request
    <3>3. Coherent(r, x)
      BY <1>0, <1>3, <3>1, <3>2 DEF ReadPending, At, Coherent, Request, Proved
    <3> QED BY <1>3, <2>1, <3>3, OneRequest DEF ReadPending, rows
  <2>2. CASE mfa.pending = None
    BY <1>3, <2>2, Rejected DEF ReadPending, At, rows
  <2> QED BY <2>1, <2>2
<1>4. CASE Promote(r)
  <2> DEFINE x == [req[r] EXCEPT !.pc = "done"]
  <2>1. CASE mfa.row # None
    <3>1. x \in Request
      BY <1>0 DEF Request
    <3>2. Coherent(r, x)
      BY <1>0, <1>4, <3>1 DEF Promote, At, Coherent, Request, Proved
    <3>3. req[r].secret \in Names
      BY <1>0, <1>4 DEF Promote, At, Coherent
    <3>4. mfa' \in Mfa /\ mfa'.row # None
      <4>1. {r} \in SUBSET Names
        BY DEF Names
      <4>2. mfa' = [mfa EXCEPT !.active = req[r].secret, !.key = "new", !.pending = None, !.codes = {r}]
        BY <1>4, <2>1 DEF Promote
      <4> QED BY <1>0, <2>1, <3>3, <4>1, <4>2 DEF RowsOK, Mfa
    <3> QED BY <1>4, <2>1, <3>2, <3>4, MfaWritten DEF Promote, Goto
  <2>2. CASE mfa.row = None
    BY <1>4, <2>2, Rejected DEF Promote, At, rows
  <2> QED BY <2>1, <2>2
<1> QED BY <1>1, <1>2, <1>3, <1>4 DEF Enroll

\* A request that dies gives up its row lock and keeps the invariant.
LEMMA AbandonKeepsInv ==
  ASSUME IInv, NEW r \in Requests, Abandon(r)
  PROVE  IInv'
<1> DEFINE y == [Idle EXCEPT !.pc = "rejected"]
<1>1. /\ rowLock' = IF rowLock = r THEN None ELSE rowLock
      /\ UNCHANGED <<granted, epoch, clock, mfa, elevation>> /\ Continue(r, y)
      /\ Coherent(r, req[r]) /\ req[r].pc # "done" /\ RowsOK /\ None \notin Requests
  <2>1. /\ rowLock' = IF rowLock = r THEN None ELSE rowLock
        /\ UNCHANGED <<granted, epoch, clock, mfa, elevation>> /\ req[r].pc # "done"
    BY DEF Abandon
  <2>2. Continue(r, y)
    BY DEF Abandon, Reject
  <2>3. Coherent(r, req[r]) /\ RowsOK
    BY DEF IInv
  <2>4. None \notin Requests
    BY ElevationAssumption DEF Names
  <2> QED BY <2>1, <2>2, <2>3, <2>4
<1>2. y \in Request /\ y.pc = "rejected" /\ y.epoch = 0 /\ y.token = None
  BY ElevationAssumption DEF Idle, Request
<1>3. elevation[r] = None /\ 0 <= epoch
  BY <1>1, ElevationAssumption DEF Coherent, RowsOK
<1>4. RowsOK'
  BY <1>1 DEF RowsOK, Minted
<1>5. ASSUME NEW q \in Requests PROVE Coherent(q, req[q])'
  <2>1. CASE q = r
    <3>1. req'[q] = y
      BY <1>1, <2>1 DEF IInv, Continue
    <3> QED BY <1>1, <1>2, <1>3, <2>1, <3>1 DEF Coherent, Proved
  <2>2. CASE q # r
    <3>1. Coherent(q, req[q]) /\ req'[q] = req[q]
      BY <1>1, <2>2 DEF IInv, Continue
    <3> QED BY <1>1, <2>2, <3>1 DEF Coherent, Minted
  <2> QED BY <2>1, <2>2
<1>6. req' \in [Requests -> Request]
  BY <1>1, <1>2 DEF IInv, Continue
<1> QED BY <1>4, <1>5, <1>6 DEF IInv

\* What happens around the requests keeps the invariant: versions only grow, and the
\* mfa row is not deleted under a lock.
LEMMA SurroundingsKeepInv ==
  ASSUME IInv, RotateSession \/ ChangeGrant \/ DisableMfa \/ Tick
  PROVE  IInv'
<1>0. RowsOK /\ req' = req /\ elevation' = elevation /\ rowLock' = rowLock
  BY DEF IInv, RotateSession, ChangeGrant, DisableMfa, Tick
<1>1. RowsOK'
  <2>1. NoMfa \in Mfa
    BY ElevationAssumption DEF NoMfa, Mfa
  <2>2. CASE RotateSession
    BY <1>0, <2>2, ElevationAssumption DEF RotateSession, RowsOK, Minted
  <2>3. CASE ChangeGrant
    BY <1>0, <2>3 DEF ChangeGrant, RowsOK, Minted
  <2>4. CASE DisableMfa
    BY <1>0, <2>1, <2>4 DEF DisableMfa, RowsOK, Minted
  <2>5. CASE Tick
    BY <1>0, <2>5, ElevationAssumption DEF Tick, RowsOK, Minted
  <2> QED BY <2>2, <2>3, <2>4, <2>5
<1>2. ASSUME NEW q \in Requests PROVE Coherent(q, req[q])'
  <2>1. Coherent(q, req[q]) /\ req[q].epoch \in 0 .. MaxEpoch
    BY DEF IInv, Request
  <2>2. epoch \in Nat /\ epoch' \in Nat /\ epoch <= epoch'
    BY <1>0, ElevationAssumption DEF RowsOK, RotateSession, ChangeGrant, DisableMfa, Tick
  <2>3. req[q].epoch <= epoch'
    BY <2>1, <2>2, ElevationAssumption DEF Coherent
  <2>4. mfa' = mfa \/ rowLock = None
    BY DEF RotateSession, ChangeGrant, DisableMfa, Tick
  <2> QED BY <1>0, <2>1, <2>3, <2>4, ElevationAssumption DEF Coherent, Minted, Names
<1> QED BY <1>0, <1>1, <1>2 DEF IInv

\* The invariant holds at the start, whatever enrollment and elevation there were.
LEMMA InitEstablishesInv == Init => IInv
<1> SUFFICES ASSUME Init PROVE IInv
  OBVIOUS
<1>1. 0 \in 0 .. MaxEpoch /\ 1 \in 1 .. MaxClock /\ 1 + TTL \in Nat /\ 0 \in 0 .. MaxClock + 1
  BY ElevationAssumption
<1>2. Idle \in Request
  BY <1>1 DEF Idle, Request
<1>3. mfa \in Mfa /\ (mfa.row = None => mfa = NoMfa)
  <2>1. NoMfa \in Mfa
    BY <1>1 DEF NoMfa, Mfa
  <2>2. Seed \in Names /\ Earlier \in Names /\ Seed # None
    BY ElevationAssumption DEF Names
  <2>3. CASE mfa = NoMfa
    BY <2>1, <2>3
  <2>4. ASSUME NEW k \in {"old", "new"}, NEW p \in {None, Earlier},
               mfa = [NoMfa EXCEPT !.row = Seed, !.active = Seed, !.key = k, !.pending = p,
                                   !.codes = {Seed}]
        PROVE  mfa \in Mfa /\ mfa.row = Seed
    BY <1>1, <2>2, <2>4 DEF NoMfa, Mfa
  <2>5. ASSUME mfa = [NoMfa EXCEPT !.row = Seed, !.pending = Earlier]
        PROVE  mfa \in Mfa /\ mfa.row = Seed
    BY <1>1, <2>2, <2>5 DEF NoMfa, Mfa
  <2> QED BY <2>2, <2>3, <2>4, <2>5 DEF Init
<1>4. PICK e \in {None, EarlierElevation} :
        elevation = [n \in Names |-> IF n = Seed THEN e ELSE None]
  BY DEF Init
<1>5. e \in Elevation \cup {None} /\ (e # None => e.proved >= e.epoch)
  <2>1. Seed \in Factor /\ {} \in SUBSET Names
    BY DEF Factor, Names
  <2>2. CASE e = None
    BY <2>2
  <2>3. CASE e = EarlierElevation
    <3>1. e \in Elevation
      BY <1>1, <2>1, <2>3 DEF EarlierElevation, Elevation
    <3>2. e.proved = 0 /\ e.epoch = 0
      BY <2>3 DEF EarlierElevation
    <3> QED BY <3>1, <3>2
  <2> QED BY <2>2, <2>3
<1>6. RowsOK
  <2>1. elevation \in [Names -> Elevation \cup {None}]
    BY <1>4, <1>5
  <2>2. ASSUME NEW n \in Minted PROVE elevation[n].proved >= elevation[n].epoch
    BY <1>4, <1>5, <2>2 DEF Minted
  <2> QED BY <1>1, <1>3, <2>1, <2>2, ElevationAssumption DEF Init, RowsOK
<1>7. ASSUME NEW r \in Requests PROVE Coherent(r, req[r])
  <2>1. req[r] = Idle /\ rowLock = None /\ epoch = 0 /\ r # Seed /\ r \in Names
    BY ElevationAssumption DEF Init, Names
  <2>2. elevation[r] = None /\ rowLock # r
    BY <1>4, <2>1, ElevationAssumption
  <2>3. Idle.pc = "idle" /\ Idle.epoch = 0 /\ Idle.token = None
    BY DEF Idle
  <2> QED BY <1>2, <2>1, <2>2, <2>3 DEF Coherent, Proved
<1>8. req \in [Requests -> Request]
  BY <1>2 DEF Init
<1> QED BY <1>6, <1>7, <1>8 DEF IInv

\* Every step of the operator's requests and of their surroundings keeps the
\* invariant.
LEMMA StepKeepsInv == IInv /\ [Next]_vars => IInv'
<1> SUFFICES ASSUME IInv, [Next]_vars PROVE IInv'
  OBVIOUS
<1>1. CASE UNCHANGED vars
  BY <1>1 DEF vars, IInv, RowsOK, Coherent, Minted
<1>2. ASSUME NEW r \in Requests, Elevate(r) PROVE IInv'
  BY <1>2, StepUpKeepsInv, FactorKeepsInv, RowsKeepInv DEF Elevate
<1>3. ASSUME NEW r \in Requests,
             \/ \E flow \in {"elevate", "operate", "end", "enroll", "activate"} : Start(r, flow)
             \/ CheckGrant(r)
             \/ \E n \in Names : PassGate(r, n) \/ EndElevation(r, n)
      PROVE  IInv'
  BY <1>3, GateKeepsInv, RowsKeepInv
<1> QED BY <1>1, <1>2, <1>3, EnrollKeepsInv, AbandonKeepsInv, SurroundingsKeepInv DEF Next

\* The inductive invariant holds in every state of every behaviour.
THEOREM Invariance == Spec => []IInv
BY InitEstablishesInv, StepKeepsInv, PTL DEF Spec

\* The tables and the requests keep their types: in particular the mfa row is locked
\* only by a request that is looking for a recovery code.
THEOREM TypeCorrect == Spec => []TypeOK
BY Invariance, Implied, PTL

\* For any number of requests, rotations and elevations, an operation the gate lets
\* through rests on a password proved no earlier than the epoch of its session.
THEOREM GateRestsOnAFreshProof == Spec => []OperationsFollowAFreshProof
BY Invariance, Implied, PTL
\* The names whose requests are over: a row or a code named by one was made before.
Past == {Seed} \cup {r \in Requests : req[r].pc = "done"}

\* The requests that hold a second factor they consumed, in the elevation they minted or
\* on their way to it, and which.
Holders == {r \in Requests : r \in Minted \/ req[r].pc \in {"factored", "superseded"}}

Consumed(r) == IF r \in Minted THEN elevation[r].by ELSE req[r].by

\* A factor that cannot be consumed again.
Used(f) ==
  IF f \in Names THEN f \in Past \ mfa.codes
  ELSE f[1] \in Past /\ (f[1] = mfa.row => f[3] + f[4] <= mfa.lastStep)

\* No two requests hold the same factor, and none is left to be consumed again: rows and
\* codes are new when they are made, the counter of a row only grows, and a code is spent
\* under the lock of the row it was found in.
FactorInv ==
  /\ elevation[Earlier] = None
  /\ mfa.row \in Past \cup {None}
  /\ mfa.codes \subseteq Past
  /\ \A r \in Requests : req[r].pc = "locked" /\ req[r].seen # {} => req[r].seen = mfa.codes
  /\ \A r \in Holders : Used(Consumed(r))
  /\ \A q, r \in Holders : Consumed(q) = Consumed(r) => q = r

\* The elevations there were when one was requested had ended when it was minted.
OverlapInv ==
  /\ \A r \in Requests : req[r].after \subseteq Minted
  /\ \A r \in Requests : req[r].pc = "superseded" => \A m \in req[r].after : elevation[m].ended
  /\ \A n \in Minted : \A m \in elevation[n].after : m \in Minted /\ elevation[m].ended

\* Each factor that is held was consumed by the request that holds it.
LEMMA HeldIsFactor ==
  ASSUME IInv, NEW r \in Holders
  PROVE  r \in Requests /\ Consumed(r) \in Factor
<1>1. CASE r \in Minted
  BY <1>1 DEF Holders, Consumed, Minted, IInv, RowsOK, Elevation
<1>2. CASE r \notin Minted
  BY <1>2 DEF Holders, Consumed, IInv, Coherent
<1> QED BY <1>1, <1>2

\* A step keeps the factors apart if nothing that is used becomes usable, and a request
\* that comes to hold a factor takes one that was not used and is from now on.
LEMMA FactorStep ==
  ASSUME IInv, FactorInv, NEW r \in Requests, NEW f,
         elevation'[Earlier] = None,
         mfa'.row \in Past' \cup {None},
         mfa'.codes \subseteq Past',
         \A q \in Requests : req'[q].pc = "locked" /\ req'[q].seen # {} => req'[q].seen = mfa'.codes,
         \A g \in Factor : Used(g) => Used(g)',
         \A q \in Holders' : \/ q \in Holders /\ Consumed(q)' = Consumed(q)
                             \/ q = r /\ Consumed(q)' = f /\ ~Used(f) /\ Used(f)'
  PROVE  FactorInv'
<1>1. ASSUME NEW q \in Holders' PROVE Used(Consumed(q))'
  <2>1. CASE q \in Holders /\ Consumed(q)' = Consumed(q)
    <3>1. Used(Consumed(q)) /\ Consumed(q) \in Factor
      BY <2>1, HeldIsFactor DEF FactorInv
    <3> QED BY <2>1, <3>1 DEF Used
  <2>2. CASE q = r /\ Consumed(q)' = f /\ Used(f)'
    BY <2>2 DEF Used
  <2> QED BY <2>1, <2>2
<1>2. ASSUME NEW p \in Holders', NEW q \in Holders', Consumed(p)' = Consumed(q)'
      PROVE  p = q
  <2>1. \A h \in Holders : Used(Consumed(h))
    BY DEF FactorInv
  <2>2. \A h \in Holders : ~Used(f) => Consumed(h) # f
    BY <2>1
  <2> QED BY <1>2, <2>2 DEF FactorInv
<1> QED BY <1>1, <1>2 DEF FactorInv
\* A step of a request that writes no row but perhaps a lock, and neither consumes a
\* factor nor gets as far as to mint.
QuietStep(r) ==
  /\ UNCHANGED <<mfa, elevation>>
  /\ req' = [req EXCEPT ![r] = req'[r]]
  /\ req[r].pc # "done" /\ req'[r].pc \notin {"factored", "superseded"}
  /\ req'[r].pc = "locked" => req'[r].seen = mfa.codes
  /\ req'[r].after \in {req[r].after, Minted, {}}

\* Going on and being refused are quiet unless the next place says otherwise.
LEMMA GoingOnIsQuiet ==
  ASSUME IInv, NEW r \in Requests, req[r].pc # "done", UNCHANGED <<mfa, elevation>>
  PROVE  /\ Reject(r) => QuietStep(r)
         /\ \A x : (/\ Continue(r, x) /\ x.pc \notin {"factored", "superseded"}
                    /\ x.pc = "locked" => x.seen = mfa.codes
                    /\ x.after \in {req[r].after, Minted, {}}) => QuietStep(r)
<1>1. ASSUME NEW x, Continue(r, x), x.pc \notin {"factored", "superseded"},
             x.pc = "locked" => x.seen = mfa.codes, x.after \in {req[r].after, Minted, {}}
      PROVE  QuietStep(r)
  <2>1. req'[r] = x
    BY <1>1 DEF Continue, IInv
  <2> QED BY <1>1, <2>1 DEF Continue, QuietStep
<1>2. /\ [Idle EXCEPT !.pc = "rejected"].pc = "rejected"
      /\ [Idle EXCEPT !.pc = "rejected"].after = {}
  BY DEF Idle
<1> QED BY <1>1, <1>2 DEF Reject

\* The steps up to the factor, those that are refused and those that read what is to be
\* confirmed are quiet.
LEMMA QuietSteps ==
  ASSUME IInv, NEW r \in Requests
  PROVE  /\ \A flow \in {"elevate", "operate", "end", "enroll", "activate"} :
              Start(r, flow) => QuietStep(r)
         /\ CheckGrant(r) => QuietStep(r)
         /\ \A n \in Names : PassGate(r, n) => QuietStep(r)
         /\ ProvePassword(r) => QuietStep(r)
         /\ \A step \in 1 .. MaxClock, late \in {0, 1} : ReadTotp(r, step, late) => QuietStep(r)
         /\ \A code \in Names : ReadForRecovery(r, code) => QuietStep(r)
         /\ LockCodes(r) => QuietStep(r)
         /\ CheckRotation(r) => QuietStep(r)
         /\ ReadPending(r) => QuietStep(r)
         /\ Abandon(r) => QuietStep(r)
<1>0. req[r] \in Request
  BY DEF IInv
<1>1. ASSUME NEW flow \in {"elevate", "operate", "end", "enroll", "activate"}, Start(r, flow)
      PROVE  QuietStep(r)
  <2> DEFINE x == [Idle EXCEPT !.pc = "session", !.flow = flow, !.epoch = epoch, !.after = Minted]
  <2>1. x.pc = "session" /\ x.after = Minted
    BY DEF Idle
  <2> QED BY <1>1, <2>1, GoingOnIsQuiet DEF Start
<1>2. ASSUME CheckGrant(r) PROVE QuietStep(r)
  <2>1. [req[r] EXCEPT !.pc = "granted"].pc = "granted"
        /\ [req[r] EXCEPT !.pc = "granted"].after = req[r].after
    BY <1>0 DEF Request
  <2> QED BY <1>2, <2>1, GoingOnIsQuiet DEF CheckGrant, Goto
<1>3. ASSUME NEW n \in Names, PassGate(r, n) PROVE QuietStep(r)
  <2> DEFINE x == [req[r] EXCEPT !.pc = "allowed", !.token = n]
  <2>1. x.pc = "allowed" /\ x.after = req[r].after
    BY <1>0 DEF Request
  <2> QED BY <1>3, <2>1, GoingOnIsQuiet DEF PassGate
<1>4. ASSUME ProvePassword(r) PROVE QuietStep(r)
  <2> DEFINE x == [req[r] EXCEPT !.pc = "proved", !.proved = epoch]
  <2>1. x.pc = "proved" /\ x.after = req[r].after
    BY <1>0 DEF Request
  <2> QED BY <1>4, <2>1, GoingOnIsQuiet DEF ProvePassword, At
<1>5. ASSUME NEW step \in 1 .. MaxClock, NEW late \in {0, 1}, ReadTotp(r, step, late)
      PROVE  QuietStep(r)
  <2> DEFINE x == [req[r] EXCEPT !.pc = "matched", !.secret = mfa.active,
                                 !.key = mfa.key, !.step = step, !.late = late]
  <2>1. x.pc = "matched" /\ x.after = req[r].after
    BY <1>0 DEF Request
  <2> QED BY <1>5, <2>1, GoingOnIsQuiet DEF ReadTotp, At
<1>6. ASSUME NEW code \in Names, ReadForRecovery(r, code) PROVE QuietStep(r)
  <2> DEFINE x == [req[r] EXCEPT !.pc = "recovering", !.by = code]
  <2>1. x.pc = "recovering" /\ x.after = req[r].after
    BY <1>0 DEF Request
  <2> QED BY <1>6, <2>1, GoingOnIsQuiet DEF ReadForRecovery, At
<1>7. ASSUME LockCodes(r) PROVE QuietStep(r)
  <2> DEFINE x == [req[r] EXCEPT !.pc = "locked", !.seen = mfa.codes]
  <2>1. x.pc = "locked" /\ x.seen = mfa.codes /\ x.after = req[r].after
    BY <1>0 DEF Request
  <2> QED BY <1>7, <2>1, GoingOnIsQuiet DEF LockCodes, At
<1>8. ASSUME CheckRotation(r) PROVE QuietStep(r)
  <2> DEFINE x == [req[r] EXCEPT !.pc = "allowed"]
             y == [req[r] EXCEPT !.flow = "rotate", !.pc = "session"]
  <2>1. /\ x.pc = "allowed" /\ x.after = req[r].after
        /\ y.pc = "session" /\ y.after = req[r].after
    BY <1>0 DEF Request
  <2>2. Continue(r, x) \/ Continue(r, y) \/ Reject(r)
    BY <1>8 DEF CheckRotation, Goto
  <2> QED BY <1>8, <2>1, <2>2, GoingOnIsQuiet DEF CheckRotation, At
<1>9. ASSUME ReadPending(r) PROVE QuietStep(r)
  <2> DEFINE x == [req[r] EXCEPT !.pc = "confirmed", !.secret = mfa.pending]
  <2>1. x.pc = "confirmed" /\ x.after = req[r].after
    BY <1>0 DEF Request
  <2> QED BY <1>9, <2>1, GoingOnIsQuiet DEF ReadPending, At
<1>10. ASSUME Abandon(r) PROVE QuietStep(r)
  BY <1>10, GoingOnIsQuiet DEF Abandon
<1> QED BY <1>1, <1>2, <1>3, <1>4, <1>5, <1>6, <1>7, <1>8, <1>9, <1>10

\* A quiet step leaves every factor where it is.
LEMMA QuietKeepsFactors ==
  ASSUME IInv, FactorInv, NEW r \in Requests, QuietStep(r)
  PROVE  FactorInv'
<1>1. \A q \in Requests \ {r} : req'[q] = req[q]
  BY DEF QuietStep, IInv
<1>2. Past \subseteq Past' /\ Minted' = Minted
  BY <1>1 DEF QuietStep, Past, Minted
<1>3. \A g \in Factor : Used(g) => Used(g)'
  BY <1>2 DEF QuietStep, Used
<1>4. \A q \in Requests : req'[q].pc = "locked" /\ req'[q].seen # {} => req'[q].seen = mfa'.codes
  BY <1>1 DEF QuietStep, FactorInv
<1>5. \A q \in Holders' : q \in Holders /\ Consumed(q)' = Consumed(q)
  BY <1>1, <1>2 DEF QuietStep, Holders, Consumed
<1>6. /\ elevation'[Earlier] = None
      /\ mfa'.row \in Past' \cup {None}
      /\ mfa'.codes \subseteq Past'
  BY <1>2 DEF QuietStep, FactorInv
<1> QED BY <1>3, <1>4, <1>5, <1>6, FactorStep

\* A step of a request that holds no factor afterwards and, free of the row's lock, makes
\* a row or a code named after itself, if anything, leaves the others their factors.
LEMMA MakingKeepsFactors ==
  ASSUME IInv, FactorInv, NEW r \in Requests, rowLock' = None, IInv', elevation' = elevation,
         req[r].pc # "done", req'[r].pc = "done", req' = [req EXCEPT ![r] = req'[r]],
         mfa'.row = mfa.row \/ mfa'.row = r, mfa'.codes = mfa.codes \/ mfa'.codes = {r},
         mfa'.row = mfa.row => mfa'.lastStep = mfa.lastStep
  PROVE  FactorInv'
<1>1. \A q \in Requests \ {r} : req'[q] = req[q]
  BY DEF IInv
<1>2. Past' = Past \cup {r} /\ r \notin Past /\ Minted' = Minted
  BY <1>1, ElevationAssumption DEF Past, Minted
<1>3. \A g \in Factor : Used(g) => Used(g)'
  BY <1>2 DEF Used
<1>4. \A q \in Requests : req'[q].pc = "locked" /\ req'[q].seen # {} => req'[q].seen = mfa'.codes
  <2>1. \A q \in Requests : req'[q].pc = "locked" /\ req'[q].seen # {} => rowLock' = q
    BY DEF IInv, Coherent
  <2> QED BY <2>1, ElevationAssumption DEF Names
<1>5. \A q \in Holders' : q \in Holders /\ Consumed(q)' = Consumed(q)
  BY <1>1, <1>2 DEF Holders, Consumed
<1>6. /\ elevation'[Earlier] = None
      /\ mfa'.row \in Past' \cup {None}
      /\ mfa'.codes \subseteq Past'
  BY <1>2 DEF FactorInv
<1> QED BY <1>3, <1>4, <1>5, <1>6, FactorStep

\* A factor is consumed by one request only: the counter of a row passes each step once,
\* and a code is looked for and removed under the row's lock.
LEMMA ConsumingKeepsFactors ==
  ASSUME IInv, IInv', FactorInv, NEW r \in Requests
  PROVE  /\ \A sealed \in BOOLEAN : AdvanceCounter(r, sealed) => FactorInv'
         /\ SpendCode(r) => FactorInv'
<1>0. /\ Coherent(r, req[r]) /\ req[r] \in Request /\ RowsOK
      /\ None \notin Names /\ Requests \subseteq Names
  BY ElevationAssumption DEF IInv, Coherent, Names
<1>1. ASSUME NEW sealed \in BOOLEAN, AdvanceCounter(r, sealed) PROVE FactorInv'
  <2>0. PICK f : f = <<mfa.row, req[r].secret, req[r].step, req[r].late>>
    OBVIOUS
  <2> DEFINE x == [req[r] EXCEPT !.pc = "factored", !.by = f]
  <2>1. CASE mfa.row # None /\ mfa.lastStep < Counter(r)
    <3>1. /\ mfa.row \in Names /\ req[r].secret \in Names /\ req[r].step \in Nat
          /\ req[r].late \in {0, 1} /\ Counter(r) = req[r].step + req[r].late
          /\ mfa.lastStep \in Nat /\ req[r].pc = "matched" /\ r \notin Minted
      BY <1>0, <1>1, <2>1, ElevationAssumption
      DEF AdvanceCounter, At, Coherent, Request, RowsOK, Mfa, Minted, Counter
    <3>2. /\ mfa'.row = mfa.row /\ mfa'.codes = mfa.codes /\ mfa'.lastStep = Counter(r)
          /\ Continue(r, x) /\ UNCHANGED <<rowLock, elevation>> /\ rowLock = None
      BY <1>0, <1>1, <2>0, <2>1 DEF AdvanceCounter, RowsOK, Mfa
    <3>3. req'[r] = x /\ x.pc = "factored" /\ x.by = f /\ \A q \in Requests \ {r} : req'[q] = req[q]
      BY <1>0, <3>2 DEF Continue, IInv, Request
    <3>4. Past \subseteq Past' /\ Minted' = Minted
      BY <3>1, <3>2, <3>3 DEF Past, Minted
    <3>5. \A g \in Factor : Used(g) => Used(g)'
      <4> SUFFICES ASSUME NEW g \in Factor, Used(g) PROVE Used(g)'
        OBVIOUS
      <4>1. CASE g \in Names
        BY <3>2, <3>4, <4>1 DEF Used
      <4>2. CASE g \notin Names
        <5>1. g[3] + g[4] \in Nat
          BY <4>2 DEF Factor, Totp
        <5>2. g[1] = mfa.row => g[3] + g[4] <= Counter(r)
          BY <2>1, <3>1, <4>2, <5>1 DEF Used
        <5> QED BY <3>2, <3>4, <4>2, <5>2 DEF Used
      <4> QED BY <4>1, <4>2
    <3>6. ~Used(f) /\ Used(f)'
      <4>1. f \in Totp /\ f[1] = mfa.row /\ f[3] + f[4] = Counter(r)
        BY <2>0, <3>1 DEF Totp
      <4>2. f \notin Names
        BY <4>1, ElevationAssumption
      <4>3. mfa.row \in Past'
        BY <2>1, <3>4 DEF FactorInv
      <4> QED BY <2>1, <3>1, <3>2, <4>1, <4>2, <4>3 DEF Used
    <3>7. \A q \in Requests : req'[q].pc = "locked" /\ req'[q].seen # {} => req'[q].seen = mfa'.codes
      BY <3>2, <3>3 DEF FactorInv
    <3>8. \A q \in Holders' : \/ q \in Holders /\ Consumed(q)' = Consumed(q)
                              \/ q = r /\ Consumed(q)' = f
      BY <3>1, <3>2, <3>3, <3>4 DEF Holders, Consumed
    <3>9. /\ elevation'[Earlier] = None
          /\ mfa'.row \in Past' \cup {None}
          /\ mfa'.codes \subseteq Past'
      BY <3>2, <3>4 DEF FactorInv
    <3> QED BY <3>5, <3>6, <3>7, <3>8, <3>9, FactorStep
  <2>2. CASE ~(mfa.row # None /\ mfa.lastStep < Counter(r))
    <3>1. Reject(r) /\ UNCHANGED <<mfa, elevation>> /\ req[r].pc = "matched"
      BY <1>1, <2>2 DEF AdvanceCounter, At
    <3> QED BY <3>1, GoingOnIsQuiet, QuietKeepsFactors
  <2> QED BY <2>1, <2>2
<1>2. ASSUME SpendCode(r) PROVE FactorInv'
  <2>0. PICK f : f = req[r].by
    OBVIOUS
  <2> DEFINE x == [req[r] EXCEPT !.pc = "factored"]
  <2>1. CASE f \in req[r].seen
    <3>1. /\ req[r].pc = "locked" /\ f \in Names /\ r \notin Minted
          /\ rowLock = r /\ req[r].seen = mfa.codes
      BY <1>0, <1>2, <2>0, <2>1 DEF SpendCode, At, Coherent, Minted, FactorInv
    <3>2. /\ mfa'.row = mfa.row /\ mfa'.codes = mfa.codes \ {f} /\ mfa'.lastStep = mfa.lastStep
          /\ Continue(r, x) /\ rowLock' = None /\ UNCHANGED elevation
      BY <1>0, <1>2, <2>0, <2>1, <3>1 DEF SpendCode, RowsOK, Mfa, Goto
    <3>3. /\ req'[r] = x /\ x.pc = "factored" /\ x.by = f
          /\ \A q \in Requests \ {r} : req'[q] = req[q]
      BY <1>0, <2>0, <3>2 DEF Continue, IInv, Request
    <3>4. Past \subseteq Past' /\ Minted' = Minted
      BY <3>1, <3>2, <3>3 DEF Past, Minted
    <3>5. \A g \in Factor : Used(g) => Used(g)'
      BY <3>2, <3>4 DEF Used
    <3>6. ~Used(f) /\ Used(f)'
      <4>1. f \in Past'
        BY <2>1, <3>1, <3>4 DEF FactorInv
      <4> QED BY <2>1, <3>1, <3>2, <4>1 DEF Used
    <3>7. \A q \in Requests : req'[q].pc = "locked" /\ req'[q].seen # {} => req'[q].seen = mfa'.codes
      <4>1. \A q \in Requests : req'[q].pc = "locked" /\ req'[q].seen # {} => rowLock' = q
        BY DEF IInv, Coherent
      <4> QED BY <1>0, <3>2, <4>1
    <3>8. \A q \in Holders' : \/ q \in Holders /\ Consumed(q)' = Consumed(q)
                              \/ q = r /\ Consumed(q)' = f
      BY <3>1, <3>2, <3>3, <3>4 DEF Holders, Consumed
    <3>9. /\ elevation'[Earlier] = None
          /\ mfa'.row \in Past' \cup {None}
          /\ mfa'.codes \subseteq Past'
      BY <3>2, <3>4 DEF FactorInv
    <3> QED BY <3>5, <3>6, <3>7, <3>8, <3>9, FactorStep
  <2>2. CASE f \notin req[r].seen
    <3>1. Reject(r) /\ UNCHANGED <<mfa, elevation>> /\ req[r].pc = "locked"
      BY <1>2, <2>0, <2>2 DEF SpendCode, At
    <3> QED BY <3>1, GoingOnIsQuiet, QuietKeepsFactors
  <2> QED BY <2>1, <2>2
<1> QED BY <1>1, <1>2

\* Enrolling, confirming and disabling a factor keep the factors apart: the row and the
\* codes they leave are new ones or none.
LEMMA EnrollKeepsFactors ==
  ASSUME IInv, IInv', FactorInv
  PROVE  /\ \A r \in Requests : BeginEnrollment(r) \/ Promote(r) => FactorInv'
         /\ DisableMfa => FactorInv'
<1>0. RowsOK
  BY DEF IInv
<1>1. ASSUME NEW r \in Requests, BeginEnrollment(r) PROVE FactorInv'
  <2> DEFINE x == [req[r] EXCEPT !.pc = "done"]
  <2>1. /\ mfa'.row = mfa.row \/ mfa'.row = r
        /\ mfa'.codes = mfa.codes /\ mfa'.lastStep = mfa.lastStep
    BY <1>0, <1>1 DEF BeginEnrollment, RowsOK, Mfa
  <2>2. Continue(r, x) /\ rowLock' = None /\ elevation' = elevation /\ req[r].pc = "allowed"
    BY <1>1 DEF BeginEnrollment, Goto
  <2>3. req'[r] = x /\ x.pc = "done" /\ req' = [req EXCEPT ![r] = req'[r]]
    BY <2>2 DEF Continue, IInv, Request
  <2> QED BY <2>1, <2>2, <2>3, MakingKeepsFactors
<1>2. ASSUME NEW r \in Requests, Promote(r) PROVE FactorInv'
  <2> DEFINE x == [req[r] EXCEPT !.pc = "done"]
  <2>1. CASE mfa.row # None
    <3>1. /\ mfa'.row = mfa.row
          /\ mfa'.codes = {r} /\ mfa'.lastStep = mfa.lastStep
      BY <1>0, <1>2, <2>1 DEF Promote, RowsOK, Mfa
    <3>2. Continue(r, x) /\ rowLock' = None /\ elevation' = elevation /\ req[r].pc = "confirmed"
      BY <1>2, <2>1 DEF Promote, Goto, At
    <3>3. req'[r] = x /\ x.pc = "done" /\ req' = [req EXCEPT ![r] = req'[r]]
      BY <3>2 DEF Continue, IInv, Request
    <3> QED BY <3>1, <3>2, <3>3, MakingKeepsFactors
  <2>2. CASE mfa.row = None
    <3>1. Reject(r) /\ UNCHANGED <<mfa, elevation>> /\ req[r].pc # "done"
      BY <1>2, <2>2 DEF Promote, At
    <3> QED BY <3>1, GoingOnIsQuiet, QuietKeepsFactors
  <2> QED BY <2>1, <2>2
<1>3. ASSUME DisableMfa PROVE FactorInv'
  <2>1. /\ UNCHANGED <<req, elevation, rowLock>> /\ rowLock = None
        /\ mfa'.row = None /\ mfa'.codes = {}
    BY <1>3 DEF DisableMfa, NoMfa
  <2>2. Past' = Past /\ Minted' = Minted /\ None \notin Past /\ Past \subseteq Names
    BY <2>1, ElevationAssumption DEF Past, Minted, Names
  <2>3. \A g \in Factor : Used(g) => Used(g)'
    BY <2>1, <2>2 DEF Used
  <2>4. \A q \in Requests : req'[q].pc = "locked" /\ req'[q].seen # {} => req'[q].seen = mfa'.codes
    <3>1. \A q \in Requests : req'[q].pc = "locked" /\ req'[q].seen # {} => rowLock' = q
      BY DEF IInv, Coherent
    <3> QED BY <2>1, <3>1, ElevationAssumption DEF Names
  <2>5. \A q \in Holders' : q \in Holders /\ Consumed(q)' = Consumed(q)
    BY <2>1, <2>2 DEF Holders, Consumed
  <2>6. elevation'[Earlier] = None
    BY <2>1 DEF FactorInv
  <2>7. CASE Requests = {}
    BY <2>1, <2>5, <2>6, <2>7 DEF FactorInv, Holders
  <2>8. CASE Requests # {}
    <3>1. PICK r : r \in Requests
      BY <2>8
    <3> QED BY <2>1, <2>2, <2>3, <2>4, <2>5, <2>6, <3>1, FactorStep
  <2> QED BY <2>7, <2>8
<1> QED BY <1>1, <1>2, <1>3

\* Superseding, minting and ending leave each request the factor it consumed: a row that
\* is minted records that of its request, and no row changes it.
LEMMA RowsKeepFactors ==
  ASSUME IInv, FactorInv, NEW r \in Requests
  PROVE  /\ Supersede(r) => FactorInv'
         /\ Mint(r) => FactorInv'
         /\ \A n \in Names : EndElevation(r, n) => FactorInv'
<1>0. /\ Coherent(r, req[r]) /\ req[r] \in Request /\ RowsOK /\ r \in Names
      /\ Earlier \notin Requests /\ Earlier \in Names
  BY ElevationAssumption DEF IInv, Coherent, Names
<1>1. ASSUME mfa' = mfa, req' = [req EXCEPT ![r] = req'[r]], req[r].pc # "done",
             req'[r].pc # "locked", elevation'[Earlier] = None,
             \A q \in Holders' : q \in Holders /\ Consumed(q)' = Consumed(q)
      PROVE  FactorInv'
  <2>1. \A q \in Requests \ {r} : req'[q] = req[q]
    BY <1>1 DEF IInv
  <2>2. Past \subseteq Past'
    BY <1>1, <2>1 DEF Past
  <2>3. \A g \in Factor : Used(g) => Used(g)'
    BY <1>1, <2>2 DEF Used
  <2>4. \A q \in Requests : req'[q].pc = "locked" /\ req'[q].seen # {} => req'[q].seen = mfa'.codes
    BY <1>1, <2>1 DEF FactorInv
  <2>5. mfa'.row \in Past' \cup {None} /\ mfa'.codes \subseteq Past'
    BY <1>1, <2>2 DEF FactorInv
  <2> QED BY <1>1, <2>3, <2>4, <2>5, FactorStep
<1>2. ASSUME Supersede(r) PROVE FactorInv'
  <2> DEFINE x == [req[r] EXCEPT !.pc = "superseded", !.step = clock + TTL]
  <2>1. /\ mfa' = mfa /\ Continue(r, x) /\ req[r].pc = "factored"
        /\ elevation' = [n \in Names |-> IF n \in Minted THEN [elevation[n] EXCEPT !.ended = TRUE]
                                                         ELSE None]
    BY <1>2 DEF Supersede, At
  <2>2. /\ req'[r] = x /\ x.pc = "superseded" /\ x.by = req[r].by
        /\ \A q \in Requests \ {r} : req'[q] = req[q]
        /\ req' = [req EXCEPT ![r] = req'[r]]
    BY <1>0, <2>1 DEF Continue, IInv, Request
  <2>3. \A n \in Minted : elevation'[n].by = elevation[n].by /\ elevation'[n] # None
    BY <1>0, <2>1, ElevationAssumption DEF RowsOK, Minted, Elevation
  <2>4. Minted' = Minted /\ elevation'[Earlier] = None
    BY <1>0, <2>1, <2>3 DEF Minted, FactorInv
  <2>5. ASSUME NEW q \in Holders' PROVE q \in Holders /\ Consumed(q)' = Consumed(q)
    <3>1. CASE q = r
      <4>1. r \notin Minted /\ r \notin Minted' /\ req'[r].by = req[r].by
        BY <1>0, <2>1, <2>2, <2>4 DEF Coherent, Minted
      <4> QED BY <2>1, <3>1, <4>1 DEF Holders, Consumed
    <3>2. CASE q # r
      BY <2>2, <2>3, <2>4, <3>2 DEF Holders, Consumed
    <3> QED BY <3>1, <3>2
  <2> QED BY <1>1, <2>1, <2>2, <2>4, <2>5
<1>3. ASSUME Mint(r) PROVE FactorInv'
  <2> DEFINE x == [req[r] EXCEPT !.pc = "done"]
             e == [epoch |-> req[r].epoch, expires |-> req[r].step, ended |-> FALSE,
                   proved |-> req[r].proved, by |-> req[r].by, after |-> req[r].after]
  <2>1. /\ mfa' = mfa /\ Continue(r, x) /\ req[r].pc = "superseded"
        /\ elevation' = [elevation EXCEPT ![r] = e]
    BY <1>3 DEF Mint, At, Goto
  <2>2. /\ req'[r] = x /\ x.pc = "done"
        /\ \A q \in Requests \ {r} : req'[q] = req[q]
        /\ req' = [req EXCEPT ![r] = req'[r]]
    BY <1>0, <2>1 DEF Continue, IInv, Request
  <2>3. elevation[r] = None /\ elevation'[r] = e /\ e.by = req[r].by
        /\ \A n \in Names \ {r} : elevation'[n] = elevation[n]
    BY <1>0, <2>1 DEF Coherent, RowsOK
  <2>4. e \in Elevation
    BY <1>0, <2>1 DEF Coherent, Request, Elevation
  <2>5. Minted' = Minted \cup {r} /\ elevation'[Earlier] = None
    BY <1>0, <2>3, <2>4, ElevationAssumption DEF Minted, FactorInv
  <2>6. ASSUME NEW q \in Holders' PROVE q \in Holders /\ Consumed(q)' = Consumed(q)
    <3>1. CASE q = r
      BY <2>1, <2>2, <2>3, <2>5, <3>1 DEF Holders, Consumed, Minted
    <3>2. CASE q # r
      BY <2>2, <2>3, <2>5, <3>2 DEF Holders, Consumed, Names
    <3> QED BY <3>1, <3>2
  <2> QED BY <1>1, <2>1, <2>2, <2>5, <2>6
<1>4. ASSUME NEW n \in Names, EndElevation(r, n) PROVE FactorInv'
  <2> DEFINE x == [req[r] EXCEPT !.pc = "done"]
  <2>1. mfa' = mfa /\ Continue(r, x) /\ req[r].pc = "session"
    BY <1>4 DEF EndElevation, At, Goto
  <2>2. /\ req'[r] = x /\ x.pc = "done"
        /\ \A q \in Requests \ {r} : req'[q] = req[q]
        /\ req' = [req EXCEPT ![r] = req'[r]]
    BY <1>0, <2>1 DEF Continue, IInv, Request
  <2>3. /\ Minted' = Minted /\ elevation'[Earlier] = None
        /\ \A m \in Minted : elevation'[m].by = elevation[m].by
    <3>1. CASE n \in Minted
      <4>1. elevation' = [elevation EXCEPT ![n] = [elevation[n] EXCEPT !.ended = TRUE]]
        BY <1>4, <3>1 DEF EndElevation
      <4>2. elevation[n] \in Elevation /\ [elevation[n] EXCEPT !.ended = TRUE] \in Elevation
        BY <1>0, <3>1 DEF Elevation, RowsOK, Minted
      <4>3. [elevation[n] EXCEPT !.ended = TRUE].by = elevation[n].by
        BY <4>2 DEF Elevation
      <4> QED BY <1>0, <3>1, <4>1, <4>2, <4>3, ElevationAssumption DEF RowsOK, Minted, FactorInv
    <3>2. CASE n \notin Minted
      BY <1>0, <1>4, <3>2 DEF EndElevation, Minted, FactorInv
    <3> QED BY <3>1, <3>2
  <2>4. \A q \in Holders' : q \in Holders /\ Consumed(q)' = Consumed(q)
    BY <2>1, <2>2, <2>3 DEF Holders, Consumed
  <2> QED BY <1>1, <2>1, <2>2, <2>3, <2>4
<1> QED BY <1>2, <1>3, <1>4

\* At the start no request holds a factor, and the seed's code is that of a row.
LEMMA InitSetsFactors == Init => FactorInv
<1> SUFFICES ASSUME Init PROVE FactorInv
  OBVIOUS
<1>1. req = [r \in Requests |-> Idle] /\ Idle.pc = "idle"
  BY DEF Init, Idle
<1>2. elevation[Earlier] = None /\ \A r \in Requests : elevation[r] = None
  BY ElevationAssumption DEF Init, Names
<1>3. Holders = {}
  BY <1>1, <1>2 DEF Holders, Minted
<1>4. mfa.row \in {Seed, None} /\ mfa.codes \subseteq {Seed}
  <2>1. CASE mfa = NoMfa
    BY <2>1 DEF NoMfa
  <2>3. ASSUME mfa = [NoMfa EXCEPT !.row = Seed, !.pending = Earlier]
        PROVE  mfa.row = Seed /\ mfa.codes = {}
    BY <2>3 DEF NoMfa
  <2>2. ASSUME NEW k \in {"old", "new"}, NEW p \in {None, Earlier},
               mfa = [NoMfa EXCEPT !.row = Seed, !.active = Seed, !.key = k, !.pending = p,
                                   !.codes = {Seed}]
        PROVE  mfa.row = Seed /\ mfa.codes = {Seed}
    BY <2>2 DEF NoMfa
  <2> QED BY <2>1, <2>2, <2>3 DEF Init
<1> QED BY <1>1, <1>2, <1>3, <1>4 DEF FactorInv, Past

\* Every step keeps the factors apart.
LEMMA StepKeepsFactors == IInv /\ FactorInv /\ [Next]_vars => FactorInv'
<1> SUFFICES ASSUME IInv, FactorInv, [Next]_vars PROVE FactorInv'
  OBVIOUS
<1>0. IInv'
  BY StepKeepsInv
<1>1. ASSUME UNCHANGED <<mfa, elevation, req>> PROVE FactorInv'
  BY <1>1 DEF FactorInv, Past, Holders, Consumed, Used, Minted
<1>2. CASE UNCHANGED vars \/ RotateSession \/ ChangeGrant \/ Tick
  BY <1>1, <1>2 DEF vars, RotateSession, ChangeGrant, Tick
<1>3. ASSUME NEW r \in Requests, Elevate(r) PROVE FactorInv'
  BY <1>0, <1>3, QuietSteps, QuietKeepsFactors, ConsumingKeepsFactors, RowsKeepFactors DEF Elevate
<1>4. ASSUME NEW r \in Requests, Enroll(r) PROVE FactorInv'
  BY <1>0, <1>4, QuietSteps, QuietKeepsFactors, EnrollKeepsFactors DEF Enroll
<1>5. ASSUME NEW r \in Requests,
             \/ \E flow \in {"elevate", "operate", "end", "enroll", "activate"} : Start(r, flow)
             \/ CheckGrant(r) \/ Abandon(r)
             \/ \E n \in Names : PassGate(r, n) \/ EndElevation(r, n)
      PROVE  FactorInv'
  BY <1>5, QuietSteps, QuietKeepsFactors, RowsKeepFactors
<1> QED BY <1>0, <1>2, <1>3, <1>4, <1>5, EnrollKeepsFactors DEF Next

\* Of one TOTP code two elevations come only from two rows, or from two readings of the
\* clock: what was consumed differs.
LEMMA DistinctFactors ==
  ASSUME NEW f \in Factor, NEW g \in Factor, f # g, SameCode(f, g)
  PROVE  f \in Totp /\ (f[1] # g[1] \/ f[4] # g[4])
<1>1. f \in Totp /\ g \in Totp /\ f[2] = g[2] /\ f[3] = g[3]
  BY DEF SameCode
<1>2. f = <<f[1], f[2], f[3], f[4]>> /\ g = <<g[1], g[2], g[3], g[4]>>
  BY <1>1 DEF Totp
<1> QED BY <1>1, <1>2

\* For any number of requests, rotations, re-seals and resets, a second factor authorises
\* one elevation: no recovery code two, and a TOTP code two only if it was counted on two
\* rows or on one in two time steps.
THEOREM OneElevationPerFactor == Spec => []FactorsAuthoriseOnce
<1>1. IInv /\ FactorInv => FactorsAuthoriseOnce
  <2> SUFFICES ASSUME IInv, FactorInv,
                      NEW m \in Minted \ {Seed}, NEW n \in Minted \ {Seed}, m # n,
                      SameCode(elevation[m].by, elevation[n].by)
               PROVE  /\ elevation[m].by \in Totp
                      /\ \/ elevation[m].by[1] # elevation[n].by[1]
                         \/ elevation[m].by[4] # elevation[n].by[4]
    BY DEF FactorsAuthoriseOnce
  <2>1. m \in Holders /\ n \in Holders
    BY DEF Minted, Names, Holders, FactorInv
  <2>2. Consumed(m) = elevation[m].by /\ Consumed(n) = elevation[n].by
    BY DEF Consumed
  <2>3. Consumed(m) \in Factor /\ Consumed(n) \in Factor /\ Consumed(m) # Consumed(n)
    BY <2>1, HeldIsFactor DEF FactorInv
  <2> QED BY <2>2, <2>3, DistinctFactors
<1> QED BY <1>1, Invariance, InitSetsFactors, StepKeepsFactors, PTL DEF Spec

\* A step of a request that changes no elevation, and is not the one that ends the others,
\* leaves what was there before each request where it was.
LEMMA OverlapKept ==
  ASSUME IInv, OverlapInv, NEW r \in Requests, elevation' = elevation,
         req' = [req EXCEPT ![r] = req'[r]], req'[r].pc # "superseded",
         req'[r].after \in {req[r].after, Minted, {}}
  PROVE  OverlapInv'
<1>1. /\ \A q \in Requests \ {r} : req'[q] = req[q]
      /\ Minted' = Minted
  BY DEF IInv, Minted
<1> QED BY <1>1 DEF OverlapInv

\* Superseding, minting and ending keep it: those there when a request came are ended
\* before it mints, no elevation that has ended is live again, and none is taken away.
LEMMA RowsKeepOverlap ==
  ASSUME IInv, OverlapInv, NEW r \in Requests
  PROVE  /\ Supersede(r) => OverlapInv'
         /\ Mint(r) => OverlapInv'
         /\ \A n \in Names : EndElevation(r, n) => OverlapInv'
<1>0. /\ Coherent(r, req[r]) /\ req[r] \in Request /\ RowsOK /\ r \in Names
      /\ Minted \subseteq Names
  BY DEF IInv, Coherent, Names, Minted
<1>1. ASSUME NEW x, Continue(r, x), x.after = req[r].after, Minted' = Minted,
             \A n \in Minted : /\ elevation'[n].after = elevation[n].after
                               /\ elevation[n].ended => elevation'[n].ended,
             x.pc = "superseded" => \A m \in req[r].after : elevation'[m].ended
      PROVE  OverlapInv'
  <2>1. /\ \A q \in Requests \ {r} : req'[q] = req[q]
        /\ req'[r] = x
    BY <1>1 DEF IInv, Continue
  <2>2. ASSUME NEW q \in Requests
        PROVE  /\ req'[q].after \subseteq Minted
               /\ req'[q].pc = "superseded" => \A m \in req'[q].after : elevation'[m].ended
    <3>1. CASE q = r
      BY <1>1, <2>1, <3>1 DEF OverlapInv
    <3>2. CASE q # r
      BY <1>1, <2>1, <3>2 DEF OverlapInv
    <3> QED BY <3>1, <3>2
  <2>3. \A n \in Minted : \A m \in elevation'[n].after : m \in Minted /\ elevation'[m].ended
    BY <1>1 DEF OverlapInv
  <2> QED BY <1>1, <2>2, <2>3 DEF OverlapInv
<1>2. ASSUME Supersede(r) PROVE OverlapInv'
  <2> DEFINE x == [req[r] EXCEPT !.pc = "superseded", !.step = clock + TTL]
  <2>1. /\ Continue(r, x) /\ x.after = req[r].after
        /\ elevation' = [n \in Names |-> IF n \in Minted THEN [elevation[n] EXCEPT !.ended = TRUE]
                                                         ELSE None]
    BY <1>0, <1>2 DEF Supersede, Request
  <2>2. \A n \in Minted : /\ elevation'[n].after = elevation[n].after
                          /\ elevation'[n].ended /\ elevation'[n] # None
    BY <1>0, <2>1, ElevationAssumption DEF RowsOK, Minted, Elevation
  <2>3. Minted' = Minted
    BY <1>0, <2>1, <2>2 DEF Minted
  <2>4. \A m \in req[r].after : elevation'[m].ended
    BY <2>2 DEF OverlapInv
  <2> HIDE DEF x
  <2> QED BY <1>1, <2>1, <2>2, <2>3, <2>4
<1>3. ASSUME Mint(r) PROVE OverlapInv'
  <2> DEFINE x == [req[r] EXCEPT !.pc = "done"]
             e == [epoch |-> req[r].epoch, expires |-> req[r].step, ended |-> FALSE,
                   proved |-> req[r].proved, by |-> req[r].by, after |-> req[r].after]
  <2>1. /\ Continue(r, x) /\ req[r].pc = "superseded"
        /\ elevation' = [elevation EXCEPT ![r] = e]
        /\ x.pc = "done" /\ x.after = req[r].after
    BY <1>0, <1>3 DEF Mint, At, Goto, Request
  <2>2. /\ \A q \in Requests \ {r} : req'[q] = req[q]
        /\ req'[r] = x
    BY <2>1 DEF IInv, Continue
  <2>3. elevation[r] = None /\ elevation'[r] = e /\ e.after = req[r].after
        /\ \A n \in Names \ {r} : elevation'[n] = elevation[n]
    BY <1>0, <2>1 DEF Coherent, RowsOK
  <2>4. e \in Elevation
    BY <1>0, <2>1 DEF Coherent, Request, Elevation
  <2>5. Minted' = Minted \cup {r} /\ r \notin Minted
        /\ \A n \in Minted : elevation'[n] = elevation[n]
    BY <1>0, <2>3, <2>4, ElevationAssumption DEF Minted
  <2>6. ASSUME NEW q \in Requests
        PROVE  /\ req'[q].after \subseteq Minted'
               /\ req'[q].pc = "superseded" => \A m \in req'[q].after : elevation'[m].ended
    <3>1. req[q].after \subseteq Minted
      BY DEF OverlapInv
    <3>2. CASE q = r
      BY <2>1, <2>2, <2>5, <3>1, <3>2
    <3>3. CASE q # r
      BY <2>2, <2>5, <3>1, <3>3 DEF OverlapInv
    <3> QED BY <3>2, <3>3
  <2>7. ASSUME NEW n \in Minted'
        PROVE  \A m \in elevation'[n].after : m \in Minted' /\ elevation'[m].ended
    <3>1. CASE n = r
      BY <2>1, <2>3, <2>5, <3>1 DEF OverlapInv
    <3>2. CASE n # r
      BY <2>5, <3>2 DEF OverlapInv
    <3> QED BY <3>1, <3>2
  <2> QED BY <2>6, <2>7 DEF OverlapInv
<1>4. ASSUME NEW n \in Names, EndElevation(r, n) PROVE OverlapInv'
  <2> DEFINE x == [req[r] EXCEPT !.pc = "done"]
  <2>1. Continue(r, x) /\ x.pc = "done" /\ x.after = req[r].after
    BY <1>0, <1>4 DEF EndElevation, At, Goto, Request
  <2>2. CASE n \in Minted
    <3>1. elevation' = [elevation EXCEPT ![n] = [elevation[n] EXCEPT !.ended = TRUE]]
      BY <1>4, <2>2 DEF EndElevation
    <3>2. elevation[n] \in Elevation /\ [elevation[n] EXCEPT !.ended = TRUE] \in Elevation
      BY <1>0, <2>2 DEF Elevation, RowsOK, Minted
    <3>3. /\ [elevation[n] EXCEPT !.ended = TRUE].after = elevation[n].after
          /\ [elevation[n] EXCEPT !.ended = TRUE].ended
      BY <3>2 DEF Elevation
    <3>4. /\ Minted' = Minted
          /\ \A m \in Minted : /\ elevation'[m].after = elevation[m].after
                               /\ elevation[m].ended => elevation'[m].ended
      BY <1>0, <2>2, <3>1, <3>2, <3>3, ElevationAssumption DEF RowsOK, Minted
    <3> HIDE DEF x
    <3> QED BY <1>1, <2>1, <3>4
  <2>3. CASE n \notin Minted
    <3>1. elevation' = elevation /\ Minted' = Minted
      BY <1>4, <2>3 DEF EndElevation, Minted
    <3> HIDE DEF x
    <3> QED BY <1>1, <2>1, <3>1
  <2> QED BY <2>2, <2>3
<1> QED BY <1>2, <1>3, <1>4

\* Consuming a factor, enrolling and confirming one touch no elevation.
LEMMA OtherStepsKeepOverlap ==
  ASSUME IInv, OverlapInv, NEW r \in Requests
  PROVE  /\ QuietStep(r) => OverlapInv'
         /\ \A sealed \in BOOLEAN : AdvanceCounter(r, sealed) => OverlapInv'
         /\ SpendCode(r) => OverlapInv'
         /\ BeginEnrollment(r) => OverlapInv'
         /\ Promote(r) => OverlapInv'
<1>0. req[r] \in Request
  BY DEF IInv
<1>1. QuietStep(r) => OverlapInv'
  BY OverlapKept DEF QuietStep
<1>2. ASSUME NEW x, Continue(r, x), x.pc # "superseded", x.after \in {req[r].after, Minted, {}},
             elevation' = elevation
      PROVE  OverlapInv'
  <2>1. req'[r] = x /\ req' = [req EXCEPT ![r] = req'[r]]
    BY <1>2 DEF IInv, Continue
  <2> QED BY <1>2, <2>1, OverlapKept
<1>3. ASSUME Reject(r), elevation' = elevation PROVE OverlapInv'
  <2>1. /\ [Idle EXCEPT !.pc = "rejected"].pc = "rejected"
        /\ [Idle EXCEPT !.pc = "rejected"].after = {}
    BY DEF Idle
  <2> QED BY <1>2, <1>3, <2>1 DEF Reject
<1>4. ASSUME NEW sealed \in BOOLEAN, AdvanceCounter(r, sealed) PROVE OverlapInv'
  <2> DEFINE x == [req[r] EXCEPT !.pc = "factored", !.by = <<mfa.row, req[r].secret, req[r].step, req[r].late>>]
  <2>1. x.pc = "factored" /\ x.after = req[r].after
    BY <1>0 DEF Request
  <2>2. Continue(r, x) \/ Reject(r)
    BY <1>4 DEF AdvanceCounter
  <2>3. elevation' = elevation
    BY <1>4 DEF AdvanceCounter
  <2> HIDE DEF x
  <2> QED BY <1>2, <1>3, <2>1, <2>2, <2>3
<1>5. ASSUME SpendCode(r) PROVE OverlapInv'
  <2>1. [req[r] EXCEPT !.pc = "factored"].pc = "factored"
        /\ [req[r] EXCEPT !.pc = "factored"].after = req[r].after
    BY <1>0 DEF Request
  <2> QED BY <1>2, <1>3, <1>5, <2>1 DEF SpendCode, Goto
<1>6. /\ [req[r] EXCEPT !.pc = "done"].pc = "done"
      /\ [req[r] EXCEPT !.pc = "done"].after = req[r].after
  BY <1>0 DEF Request
<1>7. ASSUME BeginEnrollment(r) PROVE OverlapInv'
  BY <1>2, <1>6, <1>7 DEF BeginEnrollment, Goto
<1>8. ASSUME Promote(r) PROVE OverlapInv'
  BY <1>2, <1>3, <1>6, <1>8 DEF Promote, Goto
<1> QED BY <1>1, <1>4, <1>5, <1>7, <1>8

\* At the start only the seed's elevation is there, requested before any other.
LEMMA InitSetsOverlap == Init => OverlapInv
<1> SUFFICES ASSUME Init PROVE OverlapInv
  OBVIOUS
<1>1. \A r \in Requests : req[r].pc = "idle" /\ req[r].after = {}
  BY DEF Init, Idle
<1>2. PICK e \in {None, EarlierElevation} :
        elevation = [n \in Names |-> IF n = Seed THEN e ELSE None]
  BY DEF Init
<1>3. \A n \in Minted : elevation[n].after = {}
  BY <1>2 DEF Minted, EarlierElevation
<1> QED BY <1>1, <1>3 DEF OverlapInv

\* Every step keeps those that were there before a request ended when it mints.
LEMMA StepKeepsOverlap == IInv /\ OverlapInv /\ [Next]_vars => OverlapInv'
<1> SUFFICES ASSUME IInv, OverlapInv, [Next]_vars PROVE OverlapInv'
  OBVIOUS
<1>1. CASE UNCHANGED vars \/ RotateSession \/ ChangeGrant \/ DisableMfa \/ Tick
  <2>1. UNCHANGED <<elevation, req>>
    BY <1>1 DEF vars, RotateSession, ChangeGrant, DisableMfa, Tick
  <2> QED BY <2>1 DEF OverlapInv, Minted
<1>2. ASSUME NEW r \in Requests, Elevate(r) PROVE OverlapInv'
  BY <1>2, QuietSteps, OtherStepsKeepOverlap, RowsKeepOverlap DEF Elevate
<1>3. ASSUME NEW r \in Requests, Enroll(r) PROVE OverlapInv'
  BY <1>3, QuietSteps, OtherStepsKeepOverlap DEF Enroll
<1>4. ASSUME NEW r \in Requests,
             \/ \E flow \in {"elevate", "operate", "end", "enroll", "activate"} : Start(r, flow)
             \/ CheckGrant(r) \/ Abandon(r)
             \/ \E n \in Names : PassGate(r, n) \/ EndElevation(r, n)
      PROVE  OverlapInv'
  BY <1>4, QuietSteps, OtherStepsKeepOverlap, RowsKeepOverlap
<1> QED BY <1>1, <1>2, <1>3, <1>4 DEF Next

\* However many requests elevate side by side, two elevations that are live were
\* requested at the same time: each later request supersedes all it found.
THEOREM LiveElevationsOverlapped == Spec => []LiveOnesOverlapped
<1>1. OverlapInv => LiveOnesOverlapped
  BY DEF OverlapInv, LiveOnesOverlapped, Live
<1> QED BY <1>1, Invariance, InitSetsOverlap, StepKeepsOverlap, PTL DEF Spec
=============================================================================
