--------------------------- MODULE TenantLifecycle ---------------------------
(***************************************************************************)
(* One tenant from its provisioning to its purge: what operators do to it  *)
(* (src/lib/ops/tenant-management.ts, data-sovereignty.ts, api-keys.ts),   *)
(* and the doors by which others come in, each of which reads the tenant   *)
(* for itself: an impersonation cookie, an API key, a member's session.    *)
(*                                                                         *)
(* An operator's act is a read of the tenant, a write, and an append to    *)
(* the ledger, in statements of their own; only a purge and an ingest are  *)
(* transactions.  Other requests run between any two of them.  The         *)
(* activity feed and the contents of an export are left out.               *)
(***************************************************************************)
EXTENDS FiniteSets

CONSTANTS
  Requests,   \* calls
  First,      \* the grant and the key there are when the story begins
  None        \* no grant or key, no status

ASSUME TenantAssumption == First \notin Requests /\ None \notin Requests \cup {First}

VARIABLES
  org,       \* Organization: status, and whether purgedAt is set
  grant,     \* grant[g]: the ImpersonationGrant minted by request g, or the first one
  key,       \* key[k]: the ApiKey issued by request k, or the first one
  journal,   \* the requests with an event on the tenant's ledger
  req        \* the requests

vars == <<org, grant, key, journal, req>>

Status == {"ACTIVE", "SUSPENDED", "GRACE_PERIOD"}

Credentials == Requests \cup {First}

OperatorActs == {"lifecycle", "impersonate", "issue", "revoke", "export", "purge"}

\* "view" opens a page behind the cookie, "edit" is an action behind the write guard,
\* "create" one that does without it (createProject).
Kinds == OperatorActs \cup {"view", "edit", "create", "ingest"}

\* of is the grant or key a request comes with, seen what it has read of the tenant's
\* status.  barred and lost are history: what has stood against such a request from its
\* beginning until now; its ledger event failed.
Request ==
  [pc : {"idle", "begun", "found", "read", "changed", "done", "refused", "failed"},
   kind : Kinds \cup {"none"}, of : Credentials \cup {None},
   seen : Status \cup {None}, barred : SUBSET {"tenant", "grace", "credential"}, lost : BOOLEAN]

Idle == [pc |-> "idle", kind |-> "none", of |-> None, seen |-> None,
         barred |-> {}, lost |-> FALSE]

\* provisionTenant: the tenant is there, ACTIVE, or it is not, all in one transaction.
Init ==
  /\ org = [status |-> "ACTIVE", purged |-> FALSE]
  /\ grant = [g \in Credentials |-> IF g = First THEN "live" ELSE "none"]
  /\ key = [k \in Credentials |-> IF k = First THEN "live" ELSE "none"]
  /\ journal = {}
  /\ req = [r \in Requests |-> Idle]

(***************************************************************************)
(* Helpers                                                                 *)
(***************************************************************************)
AtRest(r) == req[r].pc \in {"idle", "done", "refused", "failed"}

At(r, kinds, pc) == req[r].kind \in kinds /\ req[r].pc = pc

Goto(r, pc) == req' = [req EXCEPT ![r].pc = pc]

End(r, pc, lost) == [req EXCEPT ![r].pc = pc, ![r].seen = None, ![r].lost = lost]

\* A token or a key is known to its client when the answer that carries it has come.
Known == {First} \cup {r \in Requests : req[r].pc = "done"}

\* By the table of its states the tenant is closed to requests of kind x that come with
\* c: a purged one to everything but the export and the end of a key, a suspended one to
\* members and keys, one in its grace period to the writes of members.
TenantBars(x, c, o) ==
  \/ o.purged /\ x \in Kinds \ {"export", "revoke"}
  \/ o.status = "SUSPENDED" /\ x = "ingest"
  \/ o.status # "ACTIVE" /\ x \in {"edit", "create"} /\ c = None

\* The one of those states that the write guard looks for.
GraceBars(x, c, o) == o.status = "GRACE_PERIOD" /\ x = "edit" /\ c = None

\* What a request comes with, c, opens nothing; an impersonation opens nothing to writes.
CredentialBars(x, c, gr, k) ==
  \/ x = "view" /\ gr[c] # "live"
  \/ x = "ingest" /\ k[c] # "live"
  \/ x \in {"edit", "create"} /\ c # None

Bars(x, c, o, gr, k) ==
  {b \in {"tenant", "grace", "credential"} :
     \/ b = "tenant" /\ TenantBars(x, c, o)
     \/ b = "grace" /\ GraceBars(x, c, o)
     \/ b = "credential" /\ CredentialBars(x, c, gr, k)}

\* q, where what no longer stands against those that run is struck off.
Reopened(q, o, gr, k) ==
  [r \in Requests |->
     [q[r] EXCEPT !.barred = IF AtRest(r) THEN @ ELSE @ \cap Bars(q[r].kind, q[r].of, o, gr, k)]]

(***************************************************************************)
(* The acts of operators                                                   *)
(***************************************************************************)
Begin(r, kind, of) ==
  /\ req[r].pc = "idle"
  /\ of \in Known \cup {None}
  /\ CASE kind = "view" -> of # None /\ grant[of] # "none"
       [] kind \in {"edit", "create"} -> IF of = None THEN TRUE ELSE grant[of] # "none"
       [] kind \in {"ingest", "revoke"} -> of # None /\ key[of] # "none"
       [] OTHER -> of = None
  /\ req' = [req EXCEPT ![r] = [Idle EXCEPT !.pc = "begun", !.kind = kind, !.of = of,
                                !.barred = Bars(kind, of, org, grant, key)]]
  /\ UNCHANGED <<org, grant, key, journal>>

\* Mutant: only a suspended tenant is refused.
ReadStatus(r) ==
  /\ At(r, {"lifecycle", "impersonate", "issue", "purge"}, "begun")
  /\ IF org.purged /\ org.status = "SUSPENDED"
     THEN Goto(r, "refused")
     ELSE req' = [req EXCEPT ![r].pc = "read", ![r].seen = org.status]
  /\ UNCHANGED <<org, grant, key, journal>>

\* A purged tenant is refused, in a query of its own before the write.
ReadTenant(r) ==
  /\ At(r, {"lifecycle", "impersonate", "issue", "purge"}, "begun")
  /\ IF org.purged
     THEN Goto(r, "refused")
     ELSE req' = [req EXCEPT ![r].pc = "read", ![r].seen = org.status]
  /\ UNCHANGED <<org, grant, key, journal>>

\* exportTenantData takes the tenant as it is, purged or not.
ReadForExport(r) ==
  /\ At(r, {"export"}, "begun")
  /\ Goto(r, "changed")
  /\ UNCHANGED <<org, grant, key, journal>>

\* applyTenantLifecycle: what was read decides, what is there is overwritten.
ChangeStatus(r, to) ==
  /\ At(r, {"lifecycle"}, "read")
  /\ IF req[r].seen = to
     THEN req' = End(r, "refused", FALSE) /\ UNCHANGED org
     ELSE /\ org' = [org EXCEPT !.status = to]
          /\ req' = Reopened([req EXCEPT ![r].pc = "changed"], org', grant, key)
  /\ UNCHANGED <<grant, key, journal>>

\* Mutant: the cookie is set first, and the access recorded when there is time.
GrantAtOnce(r) ==
  /\ At(r, {"impersonate"}, "read")
  /\ grant' = [grant EXCEPT ![r] = "live"]
  /\ Goto(r, "done")
  /\ UNCHANGED <<org, key, journal>>

MintGrant(r) ==
  /\ At(r, {"impersonate"}, "read")
  /\ grant' = [grant EXCEPT ![r] = "live"]
  /\ Goto(r, "changed")
  /\ UNCHANGED <<org, key, journal>>

MintKey(r) ==
  /\ At(r, {"issue"}, "read")
  /\ key' = [key EXCEPT ![r] = "live"]
  /\ Goto(r, "changed")
  /\ UNCHANGED <<org, grant, journal>>

\* revokeApiKey: a key already revoked is refused; an expired one may still be revoked.
ReadKeyToRevoke(r) ==
  /\ At(r, {"revoke"}, "begun")
  /\ Goto(r, IF key[req[r].of] = "revoked" THEN "refused" ELSE "read")
  /\ UNCHANGED <<org, grant, key, journal>>

RevokeKey(r) ==
  /\ At(r, {"revoke"}, "read")
  /\ key' = [key EXCEPT ![req[r].of] = "revoked"]
  /\ Goto(r, "changed")
  /\ UNCHANGED <<org, grant, journal>>

\* The append, in a transaction of its own: when it fails the act stands all the same.
Record(r, lost) ==
  /\ At(r, {"lifecycle", "impersonate", "issue", "revoke", "export"}, "changed")
  /\ journal' = IF lost THEN journal ELSE journal \cup {r}
  /\ req' = End(r, "done", lost)
  /\ UNCHANGED <<org, grant, key>>

\* Mutant: the purge is recorded like the other acts, after the fact.
PurgeThenRecord(r, aborted) ==
  /\ At(r, {"purge"}, "read")
  /\ org' = [status |-> "SUSPENDED", purged |-> TRUE]
  /\ grant' = [g \in Credentials |-> IF grant[g] = "none" THEN "none" ELSE "over"]
  /\ journal' = IF aborted THEN journal ELSE journal \cup {r}
  /\ req' = Reopened(End(r, "done", aborted), org', grant', key)
  /\ UNCHANGED key

\* executePurgeProtocol: one transaction, whose first statement holds the tenant's row
\* until it ends.  A ledger append that fails aborts it, unknown to the caller: the
\* certificate is issued, and nothing has changed.
CommitPurge(r, aborted) ==
  /\ At(r, {"purge"}, "read")
  /\ IF aborted
     THEN UNCHANGED <<org, grant, journal>>
     ELSE /\ org' = [status |-> "SUSPENDED", purged |-> TRUE]
          /\ grant' = [g \in Credentials |-> IF grant[g] = "none" THEN "none" ELSE "over"]
          /\ journal' = journal \cup {r}
  /\ req' = Reopened(End(r, "done", aborted), org', grant', key)
  /\ UNCHANGED key

(***************************************************************************)
(* The doors                                                               *)
(***************************************************************************)
\* resolveImpersonation, the row of the grant; an action whose cookie resolves to
\* nothing goes on with the memberships of the operator, who has none here.
FindGrant(r) ==
  /\ At(r, {"view", "edit", "create"}, "begun") /\ req[r].of # None
  /\ Goto(r, IF grant[req[r].of] = "live" THEN "found" ELSE "refused")
  /\ UNCHANGED <<org, grant, key, journal>>

\* Mutant: the purge has ended the grants, so the tenant is not looked at.
TrustGrant(r) ==
  /\ At(r, {"view", "edit", "create"}, "found")
  /\ Goto(r, IF req[r].kind = "edit" THEN "refused" ELSE IF req[r].kind = "view" THEN "done" ELSE "read")
  /\ UNCHANGED <<org, grant, key, journal>>

\* Then the tenant that comes with it.  The context is read-only: writeBlockReason
\* refuses it, where it is asked.
EnterByGrant(r) ==
  /\ At(r, {"view", "edit", "create"}, "found")
  /\ Goto(r, IF org.purged \/ req[r].kind = "edit" THEN "refused"
             ELSE IF req[r].kind = "view" THEN "done" ELSE "read")
  /\ UNCHANGED <<org, grant, key, journal>>

\* A member's session takes the status along as it is refreshed at the start of the
\* request; the guard refuses a grace period.
EnterBySession(r) ==
  /\ At(r, {"edit", "create"}, "begun") /\ req[r].of = None
  /\ req' = [req EXCEPT ![r].seen = org.status, ![r].pc =
       IF req[r].kind = "edit" /\ org.status = "GRACE_PERIOD" THEN "refused" ELSE "read"]
  /\ UNCHANGED <<org, grant, key, journal>>

Write(r) ==
  /\ At(r, {"edit", "create"}, "read")
  /\ req' = End(r, "done", FALSE)
  /\ UNCHANGED <<org, grant, key, journal>>

\* validateApiKey, the row of the key.
FindKey(r) ==
  /\ At(r, {"ingest"}, "begun")
  /\ Goto(r, IF key[req[r].of] = "live" THEN "found" ELSE "refused")
  /\ UNCHANGED <<org, grant, key, journal>>

\* Then the tenant that comes with it.
EnterByKey(r) ==
  /\ At(r, {"ingest"}, "found")
  /\ Goto(r, IF org.purged \/ org.status = "SUSPENDED" THEN "refused" ELSE "read")
  /\ UNCHANGED <<org, grant, key, journal>>

\* The limiter, the checks of the payload and of the ids in it: all before any write.
RefuseIngest(r) ==
  /\ At(r, {"ingest"}, "read")
  /\ Goto(r, "refused")
  /\ UNCHANGED <<org, grant, key, journal>>

\* Entries, weekly slots and ledger event in one transaction; a failed append aborts
\* it and the answer is 201 all the same.
CommitIngest(r, aborted) ==
  /\ At(r, {"ingest"}, "read")
  /\ journal' = IF aborted THEN journal ELSE journal \cup {r}
  /\ req' = End(r, "done", aborted)
  /\ UNCHANGED <<org, grant, key>>

(***************************************************************************)
(* The surroundings                                                        *)
(***************************************************************************)
\* Mutant: running out of time is a state of its own.
ExpireGrant(g) ==
  /\ grant[g] = "live"
  /\ grant' = [grant EXCEPT ![g] = "expired"]
  /\ UNCHANGED <<org, key, journal, req>>

\* endImpersonation by whoever has the cookie, or the twenty minutes are over.
EndGrant(g) ==
  /\ grant[g] = "live"
  /\ grant' = [grant EXCEPT ![g] = "over"]
  /\ UNCHANGED <<org, key, journal, req>>

ExpireKey(k) ==
  /\ key[k] = "live"
  /\ key' = [key EXCEPT ![k] = "expired"]
  /\ UNCHANGED <<org, grant, journal, req>>

\* A statement fails or the server dies: what was written stays.
Fail(r) ==
  /\ ~AtRest(r)
  /\ req' = End(r, "failed", FALSE)
  /\ UNCHANGED <<org, grant, key, journal>>

Operate(r) ==
  \/ ReadTenant(r) \/ ReadForExport(r) \/ MintGrant(r) \/ MintKey(r)
  \/ ReadKeyToRevoke(r) \/ RevokeKey(r)
  \/ \E to \in Status : ChangeStatus(r, to)
  \/ \E failed \in BOOLEAN : Record(r, failed) \/ CommitPurge(r, failed)

Enter(r) ==
  \/ FindGrant(r) \/ EnterByGrant(r) \/ EnterBySession(r) \/ Write(r)
  \/ FindKey(r) \/ EnterByKey(r) \/ RefuseIngest(r)
  \/ \E aborted \in BOOLEAN : CommitIngest(r, aborted)

Next ==
  \/ \E r \in Requests :
       \/ \E kind \in Kinds, of \in Credentials \cup {None} : Begin(r, kind, of)
       \/ Operate(r) \/ Enter(r) \/ Fail(r)
  \/ \E c \in Credentials : EndGrant(c) \/ ExpireKey(c)

Spec == Init /\ [][Next]_vars

(***************************************************************************)
(* Properties                                                              *)
(***************************************************************************)
Done(r, kinds) == req[r].kind \in kinds /\ req[r].pc = "done"

TypeOK ==
  /\ org \in [status : Status, purged : BOOLEAN]
  /\ grant \in [Credentials -> {"none", "live", "over"}]
  /\ key \in [Credentials -> {"none", "live", "expired", "revoked"}]
  /\ journal \in SUBSET Requests
  /\ req \in [Requests -> Request]

\* A purge is the end of a tenant: no act of an operator asked for after it changes
\* the tenant, opens a door to it or certifies its destruction once more, though a
\* status change that overlapped the purge may have made the tenant ACTIVE again.
NothingAfterPurge ==
  \A r \in Requests : req[r].barred # {} => ~Done(r, {"lifecycle", "impersonate", "issue", "purge"})

\* Every door with a guard stays shut while it should, whichever of the two rows was read
\* first: no page is seen behind a grant, no ingest made behind a key, when from its
\* beginning on the grant was over, the key dead, the tenant suspended or purged; also for
\* a grant or a key minted by a request that had read the tenant before the purge.  Nothing
\* behind the write guard is written from an impersonated view, nor by a member when the
\* grace period lasted from the beginning.  A member of a suspended or purged tenant does
\* write: the guard asks for neither (writeBlockReason, authz.ts:53).
DoorsStayShut ==
  \A r \in Requests :
    /\ Done(r, {"view", "ingest"}) => req[r].barred = {}
    /\ Done(r, {"edit"}) => req[r].barred \subseteq {"tenant"}

\* As documented: SUSPENDED locks members out and a grace period leaves them read-only
\* (actions/ops.ts:165, tenant-lifecycle.ts:29), and no session may write from a
\* read-only impersonation (authz.ts:41).
MembersStayOut ==
  \A r \in Requests : req[r].barred # {} => ~Done(r, {"edit", "create"})

\* A tenant is purged if and only if its ledger tells of a purge: in one transaction,
\* or not at all.
PurgeIsOnRecord == org.purged <=> \E r \in journal : req[r].kind = "purge"

\* As documented, an impersonation is audited before it starts: nobody sees the tenant
\* by a grant the ledger does not tell of, unless the append was tried and failed.
ViewsAreOnRecord ==
  \A r \in Requests : Done(r, {"view"}) =>
    req[r].of = First \/ req[r].of \in journal \/ req[req[r].of].lost

\* As the code answers, "Tenant has been purged and can no longer be modified", and as
\* documented, the purge forces it to SUSPENDED.
PurgedStaysSuspended == org.purged => org.status = "SUSPENDED"
=============================================================================
