------------------------ MODULE TenantLifecycleProofs ------------------------
(***************************************************************************)
(* Theorems about TenantLifecycle, for any number of calls: nothing an     *)
(* operator asks for after a purge takes effect, doors that are shut stay  *)
(* shut, and views and purges are on the ledger.                           *)
(***************************************************************************)
EXTENDS TenantLifecycle, TLAPS

\* What barred a request when it began, and has not been lifted since, bars it now.
Standing(r) ==
  ~AtRest(r) => req[r].barred \subseteq Bars(req[r].kind, req[r].of, org, grant, key)

\* The requests the properties are about, and what stops them: not the tenant's state as
\* such, for a member's write.
Watched == {"lifecycle", "impersonate", "issue", "purge", "view", "ingest", "edit"}

Stopped(kind, barred) == kind \in Watched /\ (kind = "edit" => ~(barred \subseteq {"tenant"})) /\ barred # {}

\* A request that is barred gets no further than its checks: of the two reads behind a
\* door, the first one finds the credential dead, the second one the tenant closed.
Behind(r) ==
  LET x == req[r]
  IN /\ Stopped(x.kind, x.barred) => x.pc \in {"begun", "found", "refused", "failed"}
     /\ x.pc = "found" => /\ x.kind \in {"view", "edit", "create", "ingest"}
                          /\ x.kind \in {"view", "ingest"} => "credential" \notin x.barred

\* What a request comes with was handed out before it began, and never changes hands.
Presented(r) ==
  LET x == req[r]
  IN /\ x.kind \in {"view", "ingest"} => x.of \in Credentials
     /\ x.of \in Requests => req[x.of].pc = "done"
     /\ x.kind = "view" /\ x.of \in Requests => req[x.of].kind = "impersonate"

\* Grants come from impersonations, which end with their event, or without it for good.
OnRecord(r) ==
  /\ grant[r] # "none" => req[r].kind = "impersonate" /\ req[r].pc # "idle"
  /\ Done(r, {"impersonate"}) => r \in journal \/ req[r].lost

IInv ==
  /\ TypeOK
  /\ \A r \in Requests : Standing(r) /\ Behind(r) /\ Presented(r) /\ OnRecord(r)

\* The inductive invariant implies the invariants the run checks.
LEMMA Implied == IInv => NothingAfterPurge /\ DoorsStayShut /\ ViewsAreOnRecord
<1> SUFFICES ASSUME IInv PROVE NothingAfterPurge /\ DoorsStayShut /\ ViewsAreOnRecord
  OBVIOUS
<1>1. NothingAfterPurge
  BY DEF IInv, Behind, Stopped, Watched, NothingAfterPurge, Done
<1>2. DoorsStayShut
  BY DEF IInv, Behind, Stopped, Watched, DoorsStayShut, Done
<1>3. ViewsAreOnRecord
  <2> SUFFICES ASSUME NEW r \in Requests, Done(r, {"view"}), req[r].of # First
               PROVE  req[r].of \in journal \/ req[req[r].of].lost
    BY DEF ViewsAreOnRecord
  <2>1. req[r].of \in Requests /\ Done(req[r].of, {"impersonate"})
    BY DEF IInv, Presented, Done, Credentials
  <2> QED BY <2>1 DEF IInv, OnRecord
<1> QED BY <1>1, <1>2, <1>3

\* The invariant holds of a tenant as it is provisioned.
LEMMA InitHolds == Init => IInv
<1> SUFFICES ASSUME Init PROVE IInv
  OBVIOUS
<1>1. TypeOK
  BY DEF Init, TypeOK, Idle, Request, Status
<1>2. ASSUME NEW r \in Requests PROVE Standing(r) /\ Behind(r) /\ Presented(r) /\ OnRecord(r)
  BY TenantAssumption
  DEF Init, Idle, Standing, AtRest, Behind, Stopped, Watched, Presented, OnRecord, Done, Credentials
<1> QED BY <1>1, <1>2 DEF IInv

\* A step of one request keeps the invariant when it keeps what the others have read,
\* lifts no bar but its own history, and ends its own part properly.
LEMMA StepKeepsInv ==
  ASSUME IInv, TypeOK', NEW r \in Requests, ~AtRest(r), journal \subseteq journal',
         \A s \in Requests : /\ req'[s].kind = req[s].kind /\ req'[s].of = req[s].of
                             /\ req'[s].barred \subseteq req[s].barred
                             /\ s # r => /\ req'[s].pc = req[s].pc /\ req'[s].lost = req[s].lost
                                         /\ grant'[s] # "none" => grant[s] # "none",
         \A s \in Requests : Standing(s)',
         Behind(r)', OnRecord(r)'
  PROVE  IInv'
<1> SUFFICES ASSUME NEW s \in Requests PROVE Behind(s)' /\ Presented(s)' /\ OnRecord(s)'
  BY DEF IInv
<1>1. Behind(s) /\ Presented(s) /\ OnRecord(s)
  BY DEF IInv
<1>2. Behind(s)'
  BY <1>1 DEF Behind, Stopped
<1>3. Presented(s)'
  <2>1. req[s].of \in Requests => req[s].of # r
    BY <1>1 DEF Presented, AtRest
  <2> QED BY <1>1, <2>1 DEF Presented
<1>4. OnRecord(s)'
  BY <1>1 DEF OnRecord, Done
<1> QED BY <1>2, <1>3, <1>4

\* Bars stand while nobody reopens the tenant and no credential but one not handed out
\* yet comes to life.
LEMMA BarsStand ==
  ASSUME IInv, NEW r \in Requests, ~AtRest(r), org' = org,
         \A c \in Credentials \ {r} : /\ grant'[c] = "live" => grant[c] = "live"
                                      /\ key'[c] = "live" => key[c] = "live",
         \A s \in Requests : /\ req'[s].kind = req[s].kind /\ req'[s].of = req[s].of
                             /\ req'[s].barred \subseteq req[s].barred
                             /\ s # r => req'[s].pc = req[s].pc
  PROVE  \A s \in Requests : Standing(s)'
<1> SUFFICES ASSUME NEW s \in Requests, ~AtRest(s)'
             PROVE  req'[s].barred \subseteq Bars(req[s].kind, req[s].of, org, grant', key')
  BY DEF Standing
<1>1. ~AtRest(s) /\ Standing(s) /\ Presented(s)
  BY DEF AtRest, IInv
<1>2. req[s].of \in Requests => req[s].of # r
  BY <1>1 DEF Presented, AtRest
<1>3. CredentialBars(req[s].kind, req[s].of, grant, key)
        => CredentialBars(req[s].kind, req[s].of, grant', key')
  BY <1>1, <1>2 DEF CredentialBars, Presented, Credentials
<1> QED BY <1>1, <1>3 DEF Standing, Bars

\* Most steps only move the request on, and leave tenant, grants and keys alone.
LEMMA MoveKeepsInv ==
  ASSUME IInv, NEW r \in Requests, ~AtRest(r), NEW x \in Request,
         x.kind = req[r].kind, x.of = req[r].of, x.barred = req[r].barred, x.pc # "idle",
         req' = [req EXCEPT ![r] = x], UNCHANGED <<org, grant, key>>,
         journal' \in {journal, journal \cup {r}},
         Behind(r)', Done(r, {"impersonate"})' => r \in journal' \/ x.lost
  PROVE  IInv'
<1>1. TypeOK'
  BY DEF IInv, TypeOK
<1>2. \A s \in Requests : /\ req'[s].kind = req[s].kind /\ req'[s].of = req[s].of
                          /\ req'[s].barred \subseteq req[s].barred
                          /\ s # r => /\ req'[s].pc = req[s].pc /\ req'[s].lost = req[s].lost
                                      /\ grant'[s] # "none" => grant[s] # "none"
  BY DEF IInv, TypeOK
<1>3. \A s \in Requests : Standing(s)'
  BY <1>2, BarsStand
<1>4. OnRecord(r)'
  BY <1>2 DEF IInv, OnRecord, TypeOK
<1> QED BY <1>1, <1>2, <1>3, <1>4, StepKeepsInv

\* The first read of an operator's act: a purged tenant is refused.
LEMMA ReadsKeepInv ==
  ASSUME IInv, NEW r \in Requests, ReadTenant(r) \/ ReadForExport(r) \/ ReadKeyToRevoke(r)
  PROVE  IInv'
<1>1. PICK x \in Request :
        /\ req' = [req EXCEPT ![r] = x] /\ x.kind = req[r].kind /\ x.of = req[r].of
        /\ x.barred = req[r].barred /\ x.lost = req[r].lost
        /\ \/ x.pc = "refused"
           \/ x.pc = "read" /\ (x.kind \in {"lifecycle", "impersonate", "issue", "purge"} => ~org.purged)
           \/ x.pc = "changed" /\ x.kind = "export"
  BY DEF IInv, TypeOK, Request, ReadTenant, ReadForExport, ReadKeyToRevoke, At, Goto, Status
<1>2. req[r].pc = "begun" /\ UNCHANGED <<org, grant, key, journal>>
      /\ req[r].kind \in {"lifecycle", "impersonate", "issue", "purge", "export", "revoke"}
  BY DEF ReadTenant, ReadForExport, ReadKeyToRevoke, At
<1>3. ~AtRest(r) /\ ~Done(r, {"impersonate"})'
  BY <1>1, <1>2 DEF AtRest, Done, IInv, TypeOK
<1>4. req[r].kind \in {"lifecycle", "impersonate", "issue", "purge"} /\ ~org.purged => req[r].barred = {}
  BY <1>3 DEF IInv, Standing, Bars, TenantBars, GraceBars, CredentialBars
<1>5. Behind(r)'
  BY <1>1, <1>2, <1>4 DEF Behind, Stopped, Watched, IInv, TypeOK
<1> QED BY <1>1, <1>2, <1>3, <1>5, MoveKeepsInv

\* A grant or a key is minted for a request that nothing bars.
LEMMA MintsKeepInv ==
  ASSUME IInv, NEW r \in Requests, MintGrant(r) \/ MintKey(r) \/ RevokeKey(r)
  PROVE  IInv'
<1>1. req' = [req EXCEPT ![r].pc = "changed"] /\ req[r].pc = "read" /\ UNCHANGED <<org, journal>>
  BY DEF MintGrant, MintKey, RevokeKey, Goto, At
<1>2. /\ MintGrant(r) => req[r].kind = "impersonate"
      /\ \A c \in Credentials \ {r} : /\ grant'[c] = "live" => grant[c] = "live"
                                      /\ grant'[c] # "none" => grant[c] # "none"
                                      /\ key'[c] = "live" => key[c] = "live"
      /\ ~MintGrant(r) => grant' = grant
  BY DEF MintGrant, MintKey, RevokeKey, At, IInv, TypeOK
<1>3. TypeOK'
  BY <1>1 DEF MintGrant, MintKey, RevokeKey, IInv, TypeOK, Request, Credentials
<1>4. ~AtRest(r) /\ ~Done(r, {"impersonate"})'
  BY <1>1 DEF AtRest, Done, IInv, TypeOK
<1>5. \A s \in Requests : /\ req'[s].kind = req[s].kind /\ req'[s].of = req[s].of
                          /\ req'[s].barred \subseteq req[s].barred
                          /\ s # r => /\ req'[s].pc = req[s].pc /\ req'[s].lost = req[s].lost
                                      /\ grant'[s] # "none" => grant[s] # "none"
  BY <1>1, <1>2 DEF IInv, TypeOK, Credentials
<1>6. \A s \in Requests : Standing(s)'
  BY <1>1, <1>2, <1>4, <1>5, BarsStand
<1>7. Behind(r)'
  BY <1>1 DEF IInv, TypeOK, Behind
<1>8. OnRecord(r)'
  BY <1>1, <1>2, <1>4, <1>5 DEF IInv, TypeOK, OnRecord
<1> QED BY <1>1, <1>3, <1>4, <1>5, <1>6, <1>7, <1>8, StepKeepsInv

\* An act is over when its event is on the ledger, or was tried.
LEMMA EndsKeepInv ==
  ASSUME IInv, NEW r \in Requests, NEW lost \in BOOLEAN,
         Record(r, lost) \/ CommitIngest(r, lost) \/ Write(r)
  PROVE  IInv'
<1>1. PICK x \in Request :
        /\ req' = [req EXCEPT ![r] = x] /\ x.kind = req[r].kind /\ x.of = req[r].of
        /\ x.barred = req[r].barred /\ x.pc = "done" /\ (Record(r, lost) => x.lost = lost)
  BY DEF Record, CommitIngest, Write, End, IInv, TypeOK, Request
<1>2. /\ UNCHANGED <<org, grant, key>> /\ journal' \in {journal, journal \cup {r}}
      /\ req[r].pc \in {"read", "changed"}
      /\ req[r].kind = "impersonate" => Record(r, lost)
      /\ Record(r, lost) => (~lost => r \in journal')
  BY DEF Record, CommitIngest, Write, At
<1>3. ~AtRest(r)
  BY <1>2 DEF AtRest
<1>4. Behind(r)'
  BY <1>1, <1>2 DEF IInv, TypeOK, Behind
<1> QED BY <1>1, <1>2, <1>3, <1>4, MoveKeepsInv DEF Done, IInv, TypeOK

\* A request begins with nothing in hand but what was handed out.
LEMMA BeginKeepsInv ==
  ASSUME IInv, NEW r \in Requests, NEW kind \in Kinds, NEW of \in Credentials \cup {None},
         Begin(r, kind, of)
  PROVE  IInv'
<1> DEFINE x == [Idle EXCEPT !.pc = "begun", !.kind = kind, !.of = of,
                             !.barred = Bars(kind, of, org, grant, key)]
<1>1. /\ req[r].pc = "idle" /\ of \in Known \cup {None}
      /\ kind \in {"view", "ingest"} => of # None
      /\ kind = "view" => grant[of] # "none"
      /\ req' = [req EXCEPT ![r] = x] /\ UNCHANGED <<org, grant, key, journal>>
  BY DEF Begin
<1>2. /\ x \in Request /\ x.pc = "begun" /\ x.kind = kind /\ x.of = of
      /\ x.barred = Bars(kind, of, org, grant, key) /\ x.lost = FALSE
  <2>1. Bars(kind, of, org, grant, key) \in SUBSET {"tenant", "grace", "credential"}
    BY DEF Bars
  <2> QED BY <2>1 DEF Request, Idle
<1> HIDE DEF x
<1>3. TypeOK'
  BY <1>1, <1>2 DEF IInv, TypeOK
<1>4. req'[r] = x /\ \A s \in Requests \ {r} : req'[s] = req[s]
  BY <1>1 DEF IInv, TypeOK
<1>5. ASSUME NEW s \in Requests
      PROVE  Standing(s)' /\ Behind(s)' /\ Presented(s)' /\ OnRecord(s)'
  <2>1. Standing(s)'
    BY <1>1, <1>2, <1>4 DEF IInv, Standing, AtRest
  <2>2. Behind(s)'
    BY <1>1, <1>2, <1>4 DEF IInv, Behind
  <2>3. Presented(s)'
    <3>1. CASE s = r
      <4>1. of \in Requests => req[of].pc = "done" /\ of # r
        BY <1>1, TenantAssumption DEF Known
      <4>2. kind = "view" /\ of \in Requests => req[of].kind = "impersonate"
        BY <1>1 DEF IInv, OnRecord
      <4> QED BY <3>1, <4>1, <4>2, <1>1, <1>2, <1>4 DEF Presented
    <3>2. CASE s # r
      <4>1. req[s].of # r \/ req[s].of \notin Requests
        BY <1>1 DEF IInv, Presented
      <4> QED BY <3>2, <4>1, <1>4 DEF IInv, Presented
    <3> QED BY <3>1, <3>2
  <2>4. OnRecord(s)'
    BY <1>1, <1>2, <1>4 DEF IInv, OnRecord, Done
  <2> QED BY <2>1, <2>2, <2>3, <2>4
<1> QED BY <1>3, <1>5 DEF IInv

\* What reopens the tenant strikes off the bars it lifts, from every request that runs.
LEMMA ReopenKeepsInv ==
  ASSUME IInv, NEW r \in Requests, ~AtRest(r), NEW x \in Request, NEW o, NEW gr,
         x.kind = req[r].kind, x.of = req[r].of, x.barred = req[r].barred,
         x.pc \in {"changed", "done", "refused"},
         o \in [status : Status, purged : BOOLEAN],
         gr \in [Credentials -> {"none", "live", "over"}],
         \A c \in Credentials : gr[c] # "none" => grant[c] # "none",
         org' = o, grant' = gr, key' = key,
         req' = Reopened([req EXCEPT ![r] = x], o, gr, key),
         journal' \in {journal, journal \cup {r}},
         req[r].pc = "read", x.kind # "impersonate"
  PROVE  IInv'
<1> DEFINE q == [req EXCEPT ![r] = x]
<1> DEFINE B(s) == Bars(q[s].kind, q[s].of, o, gr, key)
<1> DEFINE b(s) == IF AtRest(s) THEN q[s].barred ELSE q[s].barred \cap B(s)
<1>1. q \in [Requests -> Request] /\ q[r] = x /\ \A s \in Requests \ {r} : q[s] = req[s]
  BY DEF IInv, TypeOK
<1>2. req' = [s \in Requests |-> [q[s] EXCEPT !.barred = b(s)]]
  BY DEF Reopened
<1>3. \A s \in Requests : b(s) \subseteq q[s].barred /\ (~AtRest(s) => b(s) \subseteq B(s))
  OBVIOUS
<1> HIDE DEF B, b, q
<1>4. \A s \in Requests :
        /\ req'[s] \in Request /\ req'[s].kind = q[s].kind /\ req'[s].of = q[s].of
        /\ req'[s].pc = q[s].pc /\ req'[s].lost = q[s].lost /\ req'[s].barred = b(s)
  <2> SUFFICES ASSUME NEW s \in Requests
               PROVE  /\ req'[s] \in Request /\ req'[s].kind = q[s].kind /\ req'[s].of = q[s].of
                      /\ req'[s].pc = q[s].pc /\ req'[s].lost = q[s].lost /\ req'[s].barred = b(s)
    OBVIOUS
  <2>1. q[s] \in Request /\ req'[s] = [q[s] EXCEPT !.barred = b(s)]
    BY <1>1, <1>2
  <2>2. b(s) \in SUBSET {"tenant", "grace", "credential"}
    BY <2>1, <1>3 DEF Request
  <2> QED BY <2>1, <2>2 DEF Request
<1>5. TypeOK'
  <2>1. req' \in [Requests -> Request]
    BY <1>2, <1>4
  <2> QED BY <2>1 DEF IInv, TypeOK
<1>6. \A s \in Requests : /\ req'[s].kind = req[s].kind /\ req'[s].of = req[s].of
                          /\ req'[s].barred \subseteq req[s].barred
                          /\ ~AtRest(s) => req'[s].barred \subseteq B(s)
                          /\ s # r => /\ req'[s].pc = req[s].pc /\ req'[s].lost = req[s].lost
                                      /\ grant'[s] # "none" => grant[s] # "none"
  <2>1. \A s \in Requests : /\ q[s].kind = req[s].kind /\ q[s].of = req[s].of
                            /\ q[s].barred = req[s].barred
    BY <1>1
  <2>2. \A s \in Requests : grant'[s] # "none" => grant[s] # "none"
    BY DEF Credentials
  <2>3. \A s \in Requests : s # r => req'[s].pc = req[s].pc /\ req'[s].lost = req[s].lost
    BY <1>1, <1>4
  <2>4. \A s \in Requests : /\ req'[s].kind = req[s].kind /\ req'[s].of = req[s].of
                            /\ req'[s].barred \subseteq req[s].barred
                            /\ ~AtRest(s) => req'[s].barred \subseteq B(s)
    BY <1>3, <1>4, <2>1
  <2> QED BY <2>2, <2>3, <2>4
<1>7. \A s \in Requests : Standing(s)'
  BY <1>1, <1>4, <1>6 DEF Standing, AtRest, B
<1>8. Behind(r)'
  <2>1. ~Stopped(req[r].kind, req[r].barred)
    BY DEF IInv, Behind
  <2>2. ~Stopped(req'[r].kind, req'[r].barred)
    BY <2>1, <1>6 DEF Stopped
  <2> QED BY <2>2, <1>1, <1>4, <1>6 DEF Behind
<1>9. OnRecord(r)'
  BY <1>1, <1>4, <1>6 DEF IInv, OnRecord, Done, Credentials
<1> QED BY <1>5, <1>6, <1>7, <1>8, <1>9, StepKeepsInv

\* A status change and a purge: another status than the one read, or everything at once.
LEMMA ChangesKeepInv ==
  ASSUME IInv, NEW r \in Requests, NEW to \in Status, NEW aborted \in BOOLEAN,
         ChangeStatus(r, to) \/ CommitPurge(r, aborted)
  PROVE  IInv'
<1>1. req[r] \in Request /\ req \in [Requests -> Request]
  BY DEF IInv, TypeOK
<1>2. /\ req[r].pc = "read" /\ key' = key /\ ~AtRest(r)
      /\ req[r].kind \in {"lifecycle", "purge"}
  BY DEF ChangeStatus, CommitPurge, At, AtRest
<1>3. CASE ChangeStatus(r, to) /\ req[r].seen = to
  <2> DEFINE x == [req[r] EXCEPT !.pc = "refused", !.seen = None, !.lost = FALSE]
  <2>1. req' = [req EXCEPT ![r] = x] /\ UNCHANGED <<org, grant, key, journal>>
    BY <1>1, <1>3 DEF ChangeStatus, End
  <2>2. /\ x \in Request /\ x.kind = req[r].kind /\ x.of = req[r].of
        /\ x.barred = req[r].barred /\ x.pc = "refused"
    BY <1>1 DEF Request
  <2> HIDE DEF x
  <2>3. req'[r] = x
    BY <1>1, <2>1
  <2>4. Behind(r)'
    BY <2>2, <2>3 DEF Behind
  <2>5. ~Done(r, {"impersonate"})'
    BY <2>2, <2>3 DEF Done
  <2> QED BY <1>2, <2>1, <2>2, <2>4, <2>5, MoveKeepsInv
<1>4. CASE ChangeStatus(r, to) /\ req[r].seen # to
  <2> DEFINE x == [req[r] EXCEPT !.pc = "changed"]
  <2> DEFINE o == [org EXCEPT !.status = to]
  <2>1. /\ org' = o /\ UNCHANGED <<grant, journal>>
        /\ req' = Reopened([req EXCEPT ![r] = x], o, grant, key)
    BY <1>1, <1>4 DEF ChangeStatus
  <2>2. /\ x \in Request /\ x.kind = req[r].kind /\ x.of = req[r].of
        /\ x.barred = req[r].barred /\ x.pc = "changed"
    BY <1>1 DEF Request
  <2>3. /\ o \in [status : Status, purged : BOOLEAN]
        /\ grant \in [Credentials -> {"none", "live", "over"}]
    BY DEF IInv, TypeOK
  <2> HIDE DEF x, o
  <2> QED BY <1>2, <2>1, <2>2, <2>3, ReopenKeepsInv
<1>5. CASE CommitPurge(r, aborted)
  <2> DEFINE x == [req[r] EXCEPT !.pc = "done", !.seen = None, !.lost = aborted]
  <2>1. /\ req' = Reopened([req EXCEPT ![r] = x], org', grant', key)
        /\ journal' \in {journal, journal \cup {r}}
    BY <1>1, <1>5 DEF CommitPurge, End
  <2>2. /\ x \in Request /\ x.kind = req[r].kind /\ x.of = req[r].of
        /\ x.barred = req[r].barred /\ x.pc = "done"
    BY <1>1 DEF Request
  <2>3. /\ org' \in [status : Status, purged : BOOLEAN]
        /\ grant' \in [Credentials -> {"none", "live", "over"}]
        /\ \A c \in Credentials : grant'[c] # "none" => grant[c] # "none"
    <3>1. CASE aborted
      BY <1>5, <3>1 DEF CommitPurge, IInv, TypeOK
    <3>2. CASE ~aborted
      <4>1. /\ org' = [status |-> "SUSPENDED", purged |-> TRUE]
            /\ grant' = [g \in Credentials |-> IF grant[g] = "none" THEN "none" ELSE "over"]
        BY <1>5, <3>2 DEF CommitPurge
      <4>2. org' \in [status : Status, purged : BOOLEAN]
        BY <4>1 DEF Status
      <4>3. /\ grant' \in [Credentials -> {"none", "live", "over"}]
            /\ \A c \in Credentials : grant'[c] # "none" => grant[c] # "none"
        BY <4>1
      <4> QED BY <4>2, <4>3
    <3> QED BY <3>1, <3>2
  <2> HIDE DEF x
  <2> DEFINE o == org'
  <2> DEFINE gr == grant'
  <2>4. IInv'
    <3>1. PICK v, w : v = org' /\ w = grant'
      OBVIOUS
    <3> QED BY <1>2, <2>1, <2>2, <2>3, <3>1, ReopenKeepsInv
  <2> QED BY <2>4
<1> QED BY <1>3, <1>4, <1>5

\* The doors: a credential that was dead when the request began is found dead, a tenant
\* closed ever since is found closed, and nothing is written from an impersonated view.
LEMMA DoorsKeepInv ==
  ASSUME IInv, NEW r \in Requests,
         \/ FindGrant(r) \/ EnterByGrant(r) \/ EnterBySession(r)
         \/ FindKey(r) \/ EnterByKey(r) \/ RefuseIngest(r)
  PROVE  IInv'
<1> DEFINE bars == Bars(req[r].kind, req[r].of, org, grant, key)
<1>1. /\ req[r] \in Request /\ UNCHANGED <<org, grant, key, journal>> /\ ~AtRest(r)
      /\ req[r].kind \in {"view", "edit", "create", "ingest"}
  BY DEF IInv, TypeOK, AtRest, At,
         FindGrant, EnterByGrant, EnterBySession, FindKey, EnterByKey, RefuseIngest
<1> DEFINE x == req'[r]
<1>2. /\ req' = [req EXCEPT ![r] = x] /\ x \in Request
      /\ x.kind = req[r].kind /\ x.of = req[r].of /\ x.barred = req[r].barred
  <2>1. PICK p, s : /\ p \in {"found", "read", "done", "refused"} /\ s \in Status \cup {None}
                    /\ req' = [req EXCEPT ![r].pc = p, ![r].seen = s]
    <3>1. CASE EnterBySession(r)
      <4> DEFINE p == IF req[r].kind = "edit" /\ org.status = "GRACE_PERIOD" THEN "refused" ELSE "read"
      <4>1. req' = [req EXCEPT ![r].pc = p, ![r].seen = org.status] /\ org.status \in Status
        BY <3>1 DEF EnterBySession, IInv, TypeOK
      <4>2. p \in {"found", "read", "done", "refused"}
        OBVIOUS
      <4> HIDE DEF p
      <4> QED BY <4>1, <4>2
    <3>2. CASE ~EnterBySession(r)
      <4>1. PICK p \in {"found", "read", "done", "refused"} : Goto(r, p)
        BY <3>2 DEF FindGrant, EnterByGrant, FindKey, EnterByKey, RefuseIngest
      <4>2. req' = [req EXCEPT ![r].pc = p, ![r].seen = req[r].seen]
        BY <4>1 DEF Goto, IInv, TypeOK, Request
      <4> QED BY <1>1, <4>2 DEF Request
    <3> QED BY <3>1, <3>2
  <2>2. x = [req[r] EXCEPT !.pc = p, !.seen = s]
    BY <2>1 DEF IInv, TypeOK
  <2> HIDE DEF x
  <2>3. x \in Request /\ x.kind = req[r].kind /\ x.of = req[r].of /\ x.barred = req[r].barred
    BY <1>1, <2>1, <2>2 DEF Request
  <2> QED BY <2>1, <2>2, <2>3
<1>3. \/ x.pc = "refused"
      \/ x.pc = "found" /\ (req[r].kind \in {"view", "ingest"} => "credential" \notin bars)
      \/ /\ x.pc \in {"read", "done"}
         /\ req[r].kind = "edit" => bars \subseteq {"tenant"}
         /\ req[r].kind \in {"view", "ingest"} => "tenant" \notin bars /\ req[r].pc = "found"
  <2>1. req \in [Requests -> Request]
    BY DEF IInv, TypeOK
  <2>2. CASE FindGrant(r)
    <3>1. x.pc = IF grant[req[r].of] = "live" THEN "found" ELSE "refused"
      BY <1>1, <2>1, <2>2 DEF FindGrant, Goto, Request
    <3>2. req[r].kind \in {"view", "edit", "create"}
      BY <2>2 DEF FindGrant, At
    <3> QED BY <3>1, <3>2 DEF Bars, TenantBars, CredentialBars
  <2>3. CASE FindKey(r)
    <3>1. x.pc = IF key[req[r].of] = "live" THEN "found" ELSE "refused"
      BY <1>1, <2>1, <2>3 DEF FindKey, Goto, Request
    <3>2. req[r].kind = "ingest"
      BY <2>3 DEF FindKey, At
    <3> QED BY <3>1, <3>2 DEF Bars, TenantBars, CredentialBars
  <2>4. CASE EnterByGrant(r)
    <3>1. /\ req[r].pc = "found" /\ req[r].kind \in {"view", "edit", "create"}
          /\ x.pc = IF org.purged \/ req[r].kind = "edit" THEN "refused"
                    ELSE IF req[r].kind = "view" THEN "done" ELSE "read"
      BY <1>1, <2>1, <2>4 DEF EnterByGrant, At, Goto, Request
    <3> QED BY <3>1 DEF Bars, TenantBars, Kinds
  <2>5. CASE EnterBySession(r)
    <3>1. /\ req[r].of = None /\ req[r].kind \in {"edit", "create"}
          /\ x.pc = IF req[r].kind = "edit" /\ org.status = "GRACE_PERIOD" THEN "refused" ELSE "read"
      BY <1>1, <2>1, <2>5 DEF EnterBySession, At, Request
    <3> QED BY <3>1 DEF Bars, GraceBars, CredentialBars
  <2>6. CASE EnterByKey(r)
    <3>1. /\ req[r].pc = "found" /\ req[r].kind = "ingest"
          /\ x.pc = IF org.purged \/ org.status = "SUSPENDED" THEN "refused" ELSE "read"
      BY <1>1, <2>1, <2>6 DEF EnterByKey, At, Goto, Request
    <3> QED BY <3>1 DEF Bars, TenantBars, Kinds
  <2>7. CASE RefuseIngest(r)
    BY <1>1, <2>1, <2>7 DEF RefuseIngest, Goto, Request
  <2> QED BY <2>2, <2>3, <2>4, <2>5, <2>6, <2>7
<1>4. /\ req[r].barred \subseteq bars /\ Behind(r)
      /\ req[r].kind # "edit" => bars \subseteq {"tenant", "credential"}
  BY <1>1 DEF IInv, Standing, Bars, GraceBars
<1> HIDE DEF bars
<1>5. Behind(r)'
  <2> SUFFICES /\ Stopped(req[r].kind, req[r].barred) => x.pc \in {"begun", "found", "refused", "failed"}
               /\ x.pc = "found" => /\ req[r].kind \in {"view", "edit", "create", "ingest"}
                                    /\ req[r].kind \in {"view", "ingest"} => "credential" \notin req[r].barred
    BY <1>2 DEF Behind
  <2>1. x.pc \in {"read", "done"} => ~Stopped(req[r].kind, req[r].barred)
    BY <1>1, <1>3, <1>4 DEF Behind, Stopped, Watched
  <2> QED BY <1>1, <1>3, <1>4, <2>1
<1>6. ~Done(r, {"impersonate"})' /\ x.pc # "idle"
  BY <1>1, <1>2, <1>3 DEF Done
<1> HIDE DEF x
<1> QED BY <1>1, <1>2, <1>5, <1>6, MoveKeepsInv

\* What fails is over.
LEMMA FailKeepsInv == ASSUME IInv, NEW r \in Requests, Fail(r) PROVE IInv'
<1> DEFINE x == [req[r] EXCEPT !.pc = "failed", !.seen = None, !.lost = FALSE]
<1>1. /\ req' = [req EXCEPT ![r] = x] /\ ~AtRest(r) /\ req'[r] = x
      /\ UNCHANGED <<org, grant, key, journal>>
  BY DEF Fail, End, IInv, TypeOK
<1>2. /\ x \in Request /\ x.kind = req[r].kind /\ x.of = req[r].of
      /\ x.barred = req[r].barred /\ x.pc = "failed"
  BY DEF IInv, TypeOK, Request
<1> HIDE DEF x
<1>3. Behind(r)' /\ ~Done(r, {"impersonate"})'
  BY <1>1, <1>2 DEF Behind, Done
<1> QED BY <1>1, <1>2, <1>3, MoveKeepsInv

\* Time only kills credentials.
LEMMA SurroundingsKeepInv ==
  ASSUME IInv, NEW c \in Credentials, EndGrant(c) \/ ExpireKey(c)
  PROVE  IInv'
<1>1. /\ UNCHANGED <<org, journal, req>>
      /\ \A g \in Credentials : /\ grant'[g] = "live" => grant[g] = "live"
                                /\ grant'[g] # "none" => grant[g] # "none"
                                /\ key'[g] = "live" => key[g] = "live"
  BY DEF EndGrant, ExpireKey, IInv, TypeOK
<1>2. TypeOK'
  BY <1>1 DEF EndGrant, ExpireKey, IInv, TypeOK
<1>3. ASSUME NEW s \in Requests
      PROVE  Standing(s)' /\ Behind(s)' /\ Presented(s)' /\ OnRecord(s)'
  <2>1. Standing(s)'
    <3> SUFFICES ASSUME ~AtRest(s)
                 PROVE  req[s].barred \subseteq Bars(req[s].kind, req[s].of, org, grant', key')
      BY <1>1 DEF Standing, AtRest
    <3>1. Standing(s) /\ Presented(s)
      BY DEF IInv
    <3>2. CredentialBars(req[s].kind, req[s].of, grant, key)
            => CredentialBars(req[s].kind, req[s].of, grant', key')
      BY <1>1, <3>1 DEF CredentialBars, Presented
    <3> QED BY <3>1, <3>2 DEF Standing, Bars
  <2>2. Behind(s)' /\ Presented(s)'
    BY <1>1 DEF IInv, Behind, Presented
  <2>3. OnRecord(s)'
    BY <1>1 DEF IInv, OnRecord, Done, Credentials
  <2> QED BY <2>1, <2>2, <2>3
<1> QED BY <1>2, <1>3 DEF IInv

\* Every step of a request, an expiry and the clock keep the invariant.
LEMMA NextKeepsInv == IInv /\ [Next]_vars => IInv'
<1> SUFFICES ASSUME IInv, [Next]_vars PROVE IInv'
  OBVIOUS
<1>1. ASSUME NEW r \in Requests, NEW kind \in Kinds, NEW of \in Credentials \cup {None},
             Begin(r, kind, of)
      PROVE  IInv'
  BY <1>1, BeginKeepsInv
<1>2. ASSUME NEW r \in Requests, Operate(r) PROVE IInv'
  <2>1. CASE ReadTenant(r) \/ ReadForExport(r) \/ ReadKeyToRevoke(r)
    BY <2>1, ReadsKeepInv
  <2>2. CASE MintGrant(r) \/ MintKey(r) \/ RevokeKey(r)
    BY <2>2, MintsKeepInv
  <2>3. ASSUME NEW to \in Status, ChangeStatus(r, to) PROVE IInv'
    BY <2>3, ChangesKeepInv
  <2>4. ASSUME NEW failed \in BOOLEAN, Record(r, failed) PROVE IInv'
    BY <2>4, EndsKeepInv
  <2>5. ASSUME NEW failed \in BOOLEAN, CommitPurge(r, failed) PROVE IInv'
    BY <2>5, ChangesKeepInv DEF Status
  <2> QED BY <1>2, <2>1, <2>2, <2>3, <2>4, <2>5 DEF Operate
<1>3. ASSUME NEW r \in Requests, Enter(r) PROVE IInv'
  <2>1. CASE \/ FindGrant(r) \/ EnterByGrant(r) \/ EnterBySession(r)
             \/ FindKey(r) \/ EnterByKey(r) \/ RefuseIngest(r)
    BY <2>1, DoorsKeepInv
  <2>2. CASE Write(r)
    BY <2>2, EndsKeepInv
  <2>3. ASSUME NEW aborted \in BOOLEAN, CommitIngest(r, aborted) PROVE IInv'
    BY <2>3, EndsKeepInv
  <2> QED BY <1>3, <2>1, <2>2, <2>3 DEF Enter
<1>4. ASSUME NEW r \in Requests, Fail(r) PROVE IInv'
  BY <1>4, FailKeepsInv
<1>5. ASSUME NEW c \in Credentials, EndGrant(c) \/ ExpireKey(c) PROVE IInv'
  BY <1>5, SurroundingsKeepInv
<1>6. CASE UNCHANGED vars
  BY <1>6 DEF vars, IInv, TypeOK, Standing, AtRest, Behind, Presented, OnRecord, Done
<1> QED BY <1>1, <1>2, <1>3, <1>4, <1>5, <1>6 DEF Next

\* The invariant, for any number of calls.
THEOREM Invariant == Spec => []IInv
<1>1. Init => IInv
  BY InitHolds
<1>2. IInv /\ [Next]_vars => IInv'
  BY NextKeepsInv
<1> QED BY <1>1, <1>2, PTL DEF Spec

\* The tenant, its grants and keys, the ledger and the calls are always of their types.
THEOREM TypeCorrect == Spec => []TypeOK
<1>1. IInv => TypeOK
  BY DEF IInv
<1> QED BY <1>1, Invariant, PTL

\* assertNotPurged at the head of each act (tenant-management.ts, data-sovereignty.ts):
\* none that begins on a purged tenant, and finds it so ever since, takes effect.
THEOREM NothingFollowsAPurge == Spec => []NothingAfterPurge
<1>1. IInv => NothingAfterPurge
  BY Implied
<1> QED BY <1>1, Invariant, PTL

\* resolveImpersonation, validateApiKey and writeBlockReason: a door that was shut when
\* a request began, and was not opened in between, is shut when it is reached.
THEOREM ShutDoors == Spec => []DoorsStayShut
<1>1. IInv => DoorsStayShut
  BY Implied
<1> QED BY <1>1, Invariant, PTL

\* startImpersonation returns its token after the append: what is seen behind the cookie
\* is on the ledger, or its append was tried and failed.
THEOREM ViewsRecorded == Spec => []ViewsAreOnRecord
<1>1. IInv => ViewsAreOnRecord
  BY Implied
<1> QED BY <1>1, Invariant, PTL

\* What the purge is on record by: no event precedes its request.
Recorded == PurgeIsOnRecord /\ \A r \in journal : req[r].pc # "idle"

\* A request keeps what it is, once it has begun.
Keeps(s) == req[s].pc # "idle" => req'[s].kind = req[s].kind /\ req'[s].pc # "idle"

\* No step changes the kind of a request.
LEMMA KindsKeep == TypeOK /\ [Next]_vars => \A s \in Requests : Keeps(s)
<1> SUFFICES ASSUME TypeOK, [Next]_vars, NEW s \in Requests, req[s].pc # "idle"
             PROVE  req'[s].kind = req[s].kind /\ req'[s].pc # "idle"
  BY DEF Keeps
<1>1. req \in [Requests -> Request]
  BY DEF TypeOK
<1>2. ASSUME NEW r \in Requests, NEW pc \in {"begun", "found", "read", "changed", "done", "refused"},
             Goto(r, pc)
      PROVE  req'[s].kind = req[s].kind /\ req'[s].pc # "idle"
  BY <1>1, <1>2 DEF Goto, Request
<1>3. ASSUME NEW q \in [Requests -> Request], NEW o, NEW gr, NEW k,
             q[s].kind = req[s].kind, q[s].pc # "idle", req' = Reopened(q, o, gr, k)
      PROVE  req'[s].kind = req[s].kind /\ req'[s].pc # "idle"
  <2>1. PICK b : req'[s] = [q[s] EXCEPT !.barred = b]
    BY <1>3 DEF Reopened
  <2> QED BY <1>3, <2>1 DEF Request
<1>4. ASSUME NEW r \in Requests, NEW pc \in {"done", "refused", "failed"}, NEW lost \in BOOLEAN
      PROVE  LET q == End(r, pc, lost)
             IN q \in [Requests -> Request] /\ q[s].kind = req[s].kind /\ q[s].pc # "idle"
  <2>1. End(r, pc, lost) = [req EXCEPT ![r] = [@ EXCEPT !.pc = pc, !.seen = None, !.lost = lost]]
    BY <1>1 DEF End
  <2>2. /\ [req[r] EXCEPT !.pc = pc, !.seen = None, !.lost = lost] \in Request
        /\ [req[r] EXCEPT !.pc = pc, !.seen = None, !.lost = lost].kind = req[r].kind
        /\ [req[r] EXCEPT !.pc = pc, !.seen = None, !.lost = lost].pc = pc
    BY <1>1 DEF Request
  <2> QED BY <1>1, <2>1, <2>2
<1>5. ASSUME NEW r \in Requests, NEW kind \in Kinds, NEW of \in Credentials \cup {None},
             Begin(r, kind, of)
      PROVE  req'[s].kind = req[s].kind /\ req'[s].pc # "idle"
  BY <1>1, <1>5 DEF Begin
<1>6. ASSUME NEW r \in Requests, Operate(r)
      PROVE  req'[s].kind = req[s].kind /\ req'[s].pc # "idle"
  <2>1. CASE ReadTenant(r)
    <3>1. CASE org.purged
      BY <1>2, <2>1, <3>1 DEF ReadTenant
    <3>2. CASE ~org.purged
      BY <1>1, <2>1, <3>2 DEF ReadTenant, Request
    <3> QED BY <3>1, <3>2
  <2>2. CASE \/ ReadForExport(r) \/ MintGrant(r) \/ MintKey(r)
             \/ ReadKeyToRevoke(r) \/ RevokeKey(r)
    BY <1>2, <2>2 DEF ReadForExport, MintGrant, MintKey, ReadKeyToRevoke, RevokeKey
  <2>3. ASSUME NEW to \in Status, ChangeStatus(r, to)
        PROVE  req'[s].kind = req[s].kind /\ req'[s].pc # "idle"
    <3>1. CASE req[r].seen = to
      BY <1>4, <2>3, <3>1 DEF ChangeStatus
    <3>2. CASE req[r].seen # to
      <4>1. /\ [req EXCEPT ![r].pc = "changed"] \in [Requests -> Request]
            /\ [req EXCEPT ![r].pc = "changed"][s].kind = req[s].kind
            /\ [req EXCEPT ![r].pc = "changed"][s].pc # "idle"
        BY <1>1 DEF Request
      <4> QED BY <1>3, <2>3, <3>2, <4>1 DEF ChangeStatus
    <3> QED BY <3>1, <3>2
  <2>4. ASSUME NEW failed \in BOOLEAN, Record(r, failed)
        PROVE  req'[s].kind = req[s].kind /\ req'[s].pc # "idle"
    BY <1>4, <2>4 DEF Record
  <2>5. ASSUME NEW failed \in BOOLEAN, CommitPurge(r, failed)
        PROVE  req'[s].kind = req[s].kind /\ req'[s].pc # "idle"
    BY <1>3, <1>4, <2>5 DEF CommitPurge
  <2> QED BY <1>6, <2>1, <2>2, <2>3, <2>4, <2>5 DEF Operate
<1>7. ASSUME NEW r \in Requests, Enter(r)
      PROVE  req'[s].kind = req[s].kind /\ req'[s].pc # "idle"
  <2>1. CASE FindGrant(r) \/ EnterByGrant(r) \/ FindKey(r) \/ EnterByKey(r) \/ RefuseIngest(r)
    BY <1>2, <2>1 DEF FindGrant, EnterByGrant, FindKey, EnterByKey, RefuseIngest
  <2>2. CASE EnterBySession(r)
    BY <1>1, <2>2 DEF EnterBySession, Request
  <2>3. CASE Write(r)
    BY <1>4, <2>3 DEF Write
  <2>4. ASSUME NEW aborted \in BOOLEAN, CommitIngest(r, aborted)
        PROVE  req'[s].kind = req[s].kind /\ req'[s].pc # "idle"
    BY <1>4, <2>4 DEF CommitIngest
  <2> QED BY <1>7, <2>1, <2>2, <2>3, <2>4 DEF Enter
<1>8. ASSUME NEW r \in Requests, Fail(r)
      PROVE  req'[s].kind = req[s].kind /\ req'[s].pc # "idle"
  BY <1>4, <1>8 DEF Fail
<1>9. CASE UNCHANGED req
  BY <1>9
<1> QED BY <1>5, <1>6, <1>7, <1>8, <1>9 DEF Next, EndGrant, ExpireKey, vars

\* The ledger grows and the tenant is purged in the same step, or neither.
LEMMA RecordKeeps == TypeOK /\ Recorded /\ [Next]_vars => Recorded'
<1> SUFFICES ASSUME TypeOK, Recorded, [Next]_vars PROVE Recorded'
  OBVIOUS
<1>1. \A s \in Requests : Keeps(s)
  BY KindsKeep
<1>2. ASSUME org'.purged = org.purged, UNCHANGED journal PROVE Recorded'
  BY <1>1, <1>2 DEF Recorded, PurgeIsOnRecord, Keeps, TypeOK
<1>3. ASSUME NEW r \in Requests, NEW aborted \in BOOLEAN,
             Record(r, aborted) \/ CommitIngest(r, aborted)
      PROVE  Recorded'
  <2>1. /\ UNCHANGED org /\ journal' \in {journal, journal \cup {r}}
        /\ req[r].kind # "purge" /\ req[r].pc # "idle"
    BY <1>3 DEF Record, CommitIngest, At
  <2> QED BY <1>1, <2>1 DEF Recorded, PurgeIsOnRecord, Keeps, TypeOK
<1>4. ASSUME NEW r \in Requests, NEW aborted \in BOOLEAN, CommitPurge(r, aborted)
      PROVE  Recorded'
  <2>1. CASE aborted
    BY <1>2, <1>4, <2>1 DEF CommitPurge
  <2>2. CASE ~aborted
    <3>1. org'.purged = TRUE /\ journal' = journal \cup {r}
          /\ req[r].kind = "purge" /\ req[r].pc = "read"
      BY <1>4, <2>2 DEF CommitPurge, At
    <3> QED BY <1>1, <3>1 DEF Recorded, PurgeIsOnRecord, Keeps, TypeOK
  <2> QED BY <2>1, <2>2
<1>5. ASSUME NEW r \in Requests, NEW to \in Status, ChangeStatus(r, to) PROVE Recorded'
  BY <1>2, <1>5 DEF ChangeStatus, TypeOK
<1>6. ASSUME UNCHANGED <<org, journal>> PROVE Recorded'
  BY <1>2, <1>6
<1>7. ASSUME NEW r \in Requests, Operate(r) PROVE Recorded'
  BY <1>3, <1>4, <1>5, <1>6, <1>7
  DEF Operate, ReadTenant, ReadForExport, MintGrant, MintKey, ReadKeyToRevoke, RevokeKey
<1>8. ASSUME NEW r \in Requests, Enter(r) PROVE Recorded'
  BY <1>3, <1>6, <1>8
  DEF Enter, FindGrant, EnterByGrant, EnterBySession, Write, FindKey, EnterByKey, RefuseIngest
<1>9. CASE UNCHANGED vars
  BY <1>6, <1>9 DEF vars
<1> QED BY <1>6, <1>7, <1>8, <1>9 DEF Next, Begin, Fail, EndGrant, ExpireKey

\* executePurgeProtocol: the tenant is purged and the purge is on its ledger in one
\* transaction, so that neither is found without the other.
THEOREM PurgesRecorded == Spec => []PurgeIsOnRecord
<1>1. Init => Recorded
  BY DEF Init, Recorded, PurgeIsOnRecord
<1>2. TypeOK /\ Recorded /\ [Next]_vars => Recorded'
  BY RecordKeeps
<1>3. Recorded => PurgeIsOnRecord
  BY DEF Recorded
<1> QED BY <1>1, <1>2, <1>3, TypeCorrect, PTL DEF Spec
=============================================================================
