# TLA+ models of the A2R Delivery Operating System

The repository is a multi-tenant Next.js application over PostgreSQL (Prisma): tenants plan and
govern delivery projects, A2R's operators run the fleet of tenants from `/ops`. Any number of
server instances handle requests; they share nothing but the database. Each request is a sequence
of statements, some of them in a transaction (read committed), and the hard part of the code is
what happens *between* those statements when requests overlap, fail or die. The other hard part is
that a dozen pages each work out, from the same rows and in code of their own, how a project is
doing. These modules model both. Paths below are relative to the repository (its Next.js code
lives in `src/`).

## Inventory

| Part | State | Operations | What makes it hard |
| --- | --- | --- | --- |
| Compliance ledger, `src/lib/audit-ledger.ts` | one hash chain of rows per tenant | append (own or caller's transaction, retried), verify, read a page | concurrent appends, clock skew, aborted caller transactions, crashes |
| Sessions, `src/lib/auth.ts`, `src/lib/auth/*`, `src/server/actions/auth.ts` | account row (hash, version, flags), one cookie per device | sign in, refresh, sign out (everywhere), change the password | cookies in flight, two changes at once, lookups that fail, second-granular times |
| Operator elevation, `src/lib/ops/staff-elevation.ts`, `src/lib/ops-auth.ts` | elevation rows, session epoch | request, use, end | check and write in separate statements |
| Operator second factor, `src/lib/ops/operator-mfa.ts` | one row: active and pending secret, replay counter, recovery codes | enroll, activate, rotate, verify, reset | replays, races with a rotation, re-sealing |
| Staff grants, `src/lib/ops/staff-grants.ts` | grant rows with a role | grant, revoke, change role | a role change racing a revocation, mutual revocation |
| Tenant lifecycle, `src/lib/ops/{tenant-management,data-sovereignty,api-keys}.ts`, `src/server/authz.ts` | status, `purgedAt`, impersonation grants, API keys | suspend, grace period, impersonate, export, purge, issue and revoke keys, every member's write | the state is read at the start of a request and acted on at its end |
| Batch ingestion, `src/server/actions/data-import.ts` | batch status and counters, staged rows | stage, edit a row, commit, discard | the status is checked outside the transaction that commits |
| Integrations, `src/lib/integrations/*`, `src/server/actions/integrations.ts` | connection status, credentials, runs, error log | cron and manual sync, test, edit, delete; eight adapters | runs overlap, crash half way, write over newer state, throw on replies nobody foresaw |
| Projects, `src/server/actions/projects.ts` and siblings | project rows, baseline snapshot and lock, audit trail | create, edit, lock, unlock, interventions, restore | totals and previous values read before the transaction that uses them |
| Single sign-on, `src/server/services/{saml-sso,identity-jit}.ts`, `src/server/actions/identity.ts` | provider, group mappings, request ids, memberships | configure, verify, switch, handshake, just-in-time provisioning | a doubled answer, switches of a provider that is saved anew meanwhile |
| Schedule, triage, economics and capacity, `src/lib/calculations/*`, `src/lib/*-triage.ts`, `src/lib/capacity-engine.ts`, `src/lib/decision-options.ts` | none | pure functions of rows and the clock | rounding, empty and boundary inputs, several surfaces over one truth |
| Roles and scope, `src/lib/auth/rbac.ts`, `src/lib/scoping.ts` | a decision table | edit checks, where clauses, predicates | one scope stated in four places |
| Tenant isolation, `src/lib/db.ts`, `src/lib/db/*` | the scope in a request's async context, open transactions, the pool | scope, rewrite, wrap in a transaction of the tenant's role | two extensions and the policies decide on their own; nested connections |
| Rate limiter, `src/lib/rate-limiter*.ts` | a counter per window | hit | the limit and the window's edge |
| Backup, retention, pages, assistant | none of their own | one transaction or none | input and output |

How they meet. Every governed action ends in an append to the ledger of the tenant it concerns,
through the client it was given. The operator actions run behind the elevation gate, which rests on
the session's version; a password change or sign-out everywhere bumps that version and so ends
sessions and elevations together. A tenant's status is read by four doors: the impersonation
cookie, API keys, the write guard and the pages. Batches, restores and the editors write the rows
that the calculations read; whoever may edit them is decided by role, leadership and reporting
line. Under all of it the data-access layer confines each statement to a tenant. `PROJECT.json`
lists each part with its files and status, and under `hazards` the places where the code is hard
to test, with the properties that watch them.

## Modules

| Module | Models | EXTENDS / uses |
| --- | --- | --- |
| `AuditLedger` | `recordLedgerEvent` and `verifyLedgerIntegrity` | INSTANCE `GovernanceJournal` |
| `GovernanceJournal` | what the ledger promises, without hashes, locks or transactions | - |
| `SessionLifecycle` | the JWT sessions of one account | - |
| `StaffElevation` | requests of one operator: elevation, gate, second factor | - |
| `BatchIngestion` | one import batch under several administrators | - |
| `TenantLifecycle` | one tenant from provisioning to purge, and the doors into it | - |
| `IntegrationAdapters` | what a page of an external system becomes | - |
| `IntegrationSync` | connections, operator calls and the sweep | EXTENDS `IntegrationAdapters` |
| `ProjectBaseline` | one project: sizing, baseline lock, audit trail, interventions, restore | - |
| `FederatedLogin` | one provider and one person's SAML logins | - |
| `ScheduleHealth` | slip, pace, colours, audit score, health code, schedule triage, executive feed | - |
| `RootCauses` | financial, commercial and RAID triage; options of a flagged project | - |
| `DealEconomics` | sold totals, estimate at completion, drift, contractor exposure, roll-ups | - |
| `TeamCapacity` | working hours, utilisation, resource triage, scope and edit predicates | - |
| `ControlTower` | the rows of a workspace, everyone who changes them, and the pages | EXTENDS `ScheduleHealth`, INSTANCE `RootCauses`, `DealEconomics`, `TeamCapacity` |
| `TenantIsolation` | scopes, both Prisma extensions, tenant transactions, policies, the pool | - |
| `SumTheorems` | what sums, counts and orders of finite sets obey | TLAPS |
| `SignInProofs` | theorems about `SessionLifecycle` and `FederatedLogin` | EXTENDS both, TLAPS |
| `ProjectDataProofs` | theorems about `BatchIngestion` and `ProjectBaseline` | EXTENDS both, `SumTheorems` |
| `WorkspaceProofs` | theorems about `IntegrationSync` and `ControlTower` | EXTENDS both, `SumTheorems` |
| `*Proofs` (the other four) | theorems about the module of that name | that module, TLAPS |
| `MC*` | constants and symmetry for TLC | the module of that name |

Definitions named `Mutant` in a comment are plausible bugs: each is used in place of the definition
that follows it to show that a property notices.

### AuditLedger

A request performs one governance action for a tenant and records one event. `Begin` makes the
mutation and picks the client: `db` (the mutation is already committed; the append opens its own
transaction) or `tx` (the caller's transaction is open around both). Then one action per statement:
`AcquireLock` (`pg_advisory_xact_lock`), `ReadHead`, `Insert`, `Count`, `Commit`; `Collide` is the
`P2002` of the unique index with its retry, `StatementFails` and `CommitFails` any other error,
`CommitAborted` the caller's COMMIT of a transaction PostgreSQL has aborted, `Crash` a dead server
or an expired transaction. `ledger` holds committed rows only; an inserted row stays in `row` until
its transaction commits, and an insert waits for an open transaction that holds the same key. A
row's hash covers its whole content, so the event identifies the row: `prev` names an event.
`CreatedAt` is the larger of this server's clock and the head's time plus one.

`Locked` is the set of tenants whose appends take the lock. In the code it is every tenant; the
others show what the unique index alone guarantees (`NoForkAfterGenesis`).

`GovernanceJournal` numbers entries per tenant, adds them only at the end, and never records an
action that was lost. `AuditLedger` implements it (`ImplementsJournal`): a committed row is the
entry whose number is the sequence its request was told.

### SessionLifecycle

One account (accounts share nothing), several devices with one cookie each. A request that is in
flight keeps what it has read: `login` the password `authorize()` accepted, `refresh` the cookie on
its way back from `/api/auth/session`, `change` and `signOut` the two actions. `Derive` is
`deriveSessionState` with the row as it is when it runs; `Refreshed` is the token the `jwt` callback
returns. Only `/api/auth/session` sends that token back; `getServerSession` in an action drops it,
so a refused action leaves the cookie as it was. Cookies, the NextAuth route and sign-out in the
browser are external and modelled from how the code uses them.

### StaffElevation

Requests of one operator, each in one of the flows *elevate*, *operate*, *end*, *enroll*, *rotate*,
*activate*. The guard of every flow reads the session and then the grant; the elevation flow then
proves the password, verifies a TOTP code or spends a recovery code, supersedes the old elevations
and inserts its own row, each a separate statement in the code and a separate action here. An
elevation remembers `proved` and `by`, the epoch at which its password was proved and the factor it
used, and `after`, the elevations that existed when it was requested: history for the properties,
never read by an action. `Abandon` stands for every rejection that changes nothing and for a crash.
A TOTP code is accepted one step either way of the clock, and the code reads the clock again for
the counter it stores (`operator-mfa.ts:228` and 231): `ReadTotp` matches a code against one step and
counts it `late` when the next one begins in between. The factor an elevation names is therefore
the code presented, its row, its secret, its step and whether it was counted late.

### BatchIngestion

One batch (batches share nothing), staged in one step: nobody knows it before its create. Calls
of the kinds *edit*, *commit* and *discard* then take the code's statements one by one: the status
check, the rows they are about, `LoadLookups`, and their writes. A commit either marks the rows that
no longer validate (`Quarantine`, a transaction) and stores the counts (`StoreCounts`), or writes the
rows inside one transaction (`WriteDelivery`, seen by nobody) that `Commit` ends; a ledger append
that failed in it turns the COMMIT into a rollback. `ChangeName` is every other action that adds,
renames or removes a project or person: it is what makes a stored status stale. `CallFails` is a failed
statement or a dead server. `landed` is per call because the code's writes are: an upsert
repeated finds its row, a narrative or a RAID item is created again. `known` and `late` are history
for the properties.

### TenantLifecycle

One tenant. A request is an operator's act (*lifecycle*, *impersonate*, *issue*, *revoke*,
*export*, *purge*), a page behind an impersonation cookie (*view*), a member's write behind the
write guard (*edit*) or past it (*create*: `createProject` does without), or an API call with a key
(*ingest*). Each takes the code's reads one by one: grant, then tenant; key, then tenant; and writes
what it decided on them, so `ReadTenant` and `ChangeStatus`, `MintGrant`, `MintKey` are steps
between which others run. A purge and an ingest are transactions: `CommitPurge` changes the tenant
and appends its event in one step or not at all; every other act changes first and `Record`s after,
which may fail and is then lost. `barred` remembers what has stood against a request ever since it
began; the properties speak of those only, since a door that was open for a moment may be passed.
It tells apart *tenant* (suspended, purged or past its grace period: what the documentation calls
closed, for everyone), *grace* (the grace period, all that `writeBlockReason` asks of a member's
write) and *credential* (an impersonation, for a write; a key or grant that has ended).

### IntegrationSync and IntegrationAdapters

`Pull` says what a provider's adapter makes of each kind of reply: a page, a failure it returns, or
a throw. `IntegrationSync` runs it page by page inside `runSync`: `MarkSyncing`, `OpenSecret`,
`PullPage`, `Finish` (the run, the error and the status in one transaction). Operator calls
(`Update`, `Delete`, `Probe` with `NoteFailure` and `SettleTest`, *sync*) and sweeps (`FindDue`,
`SweepNext`) overlap freely on a connection, since nothing locks it. `Strand` is a sync that leaves
its connection SYNCING: a foreign secret, a reply of another shape, a crash. `lost` records which.

### ProjectBaseline

One project. *lock*, *unlock*, *cell*, *import*, *record* (a change under the audit trail) and
*intervene* each authorize, read (`ReadProject`, and for a lock `ReadCard`) and write in one step,
their transaction; `SetIntake`, `AddRole`, `DropRole` and `Restore` are others' single writes in
between. So is `Overwrite`, which changes a recorded item without having read it: the form of a RAID
entry takes its escalation along, with no entry on the trail, and a file of actuals makes one entry
for all. `quiet` and `exact` of a baseline, and `silent`, are history: whether sizing or card changed
between the reads of a lock, whether the totals are those of the moment it was written, and whether
a change went unrecorded. Of the items only a control can be changed silently by a race: figures
always make an entry, and the run looks at a control and an escalation.

### FederatedLogin

The provider row, the mappings and one person. A post of a SAML response is `Arrive`, `Find`
(node-saml looks the request up), `Consume` (checks, and removes the request), `Resolve` (the role
its groups map to), `ReadUser`, `ReadMember` and `Write` (the transaction). Operators save, delete
and map in one step, and switch (verify, enable, disable, enforce) in two, `Read` and `Update`.
Saving leaves `enabled` and `verified` as the code's upsert leaves them.

### ControlTower and its four libraries

The rows of a workspace are one record `ws`, since a restore replaces them in one transaction;
`roster`, `policies`, `holidays` and `orders` are what a snapshot does not hold. The actions are the
editors (schedule, audit, lock, RAID, effort cell, intake, actuals, change order), the
administrators (tolerances, rate card, people, holidays, role policies, restore) and `Tick`.
`Workspace`, `Person` and the other row types say what the schema lets a row hold; a `Snapshot` may
lack tolerances and people, whom `PutBack` leaves as they are.
`UpdateRolePolicy` and `SyncTargets` are the two statements of one action, and `DieBeforeSync` is
the process that ends between them. The libraries have no state: they translate the functions that
every page calls on each request, and the properties compare what different pages say of the same
rows. Dates are whole days and the clock runs in half days. Percentages are compared by
cross-multiplication, so that no rounding of the model's own gets in. The roundings of the code are
there: rates have decimals beyond the cent, so an hour at rate 1 is worth 1/`RateScale` of one, an
estimate rounds every role's row (`EacRow`), sold totals are rounded once (`Totals`), and the sold
margin is exact (`SoldMargin`). `ExecuteChangeOrder` takes the flag that asks for approval from its
caller, as the server does; `CanExecute` is the preview, which works it out (`Guardrail` is both).
Stored colours and budget columns are constants, because nothing in the application writes them.

### TenantIsolation

A request comes from a session, an API key, the operator console or nobody, and asks for operations
in its own words. `ScopesOf` is what `currentOrgScope` and the lazy resolver find; `EnterScope`,
`RunUnscoped` and `LeaveUnscoped` move the async context; `WithTenantTx` and `WithTenantTxFor` open
transactions. `Issue` puts an operation through both extensions. The one added first, the rewriting,
is the outer one: `Rerouted` reads by unique key leave it for the base client, whatever transaction
they were asked in, and never reach the wrapper. The inner one gives what reaches it bare a
transaction of the tenant's role (`Wrapped`). A scope that nothing pinned is read from the database,
by the base client: inside a transaction, the request's own or the wrapper's, that is a second
connection (`Looks`, `LookUp`), unless React's `cache()` remembers the answer. `Needed` is how many
connections an operation holds before it goes on; `Take` and `TimeOut` are the pool. `Where` and
`CreatedFor` are the rewriting, `Policy` the row-level policies. `done` is the operation just
answered and what it touched, which the properties read.

## Runs

| Run | Bounds | States | Shows |
| --- | --- | --- | --- |
| `ledger` | 4 requests, 2 tenants on one lock key, 2 attempts, clocks 0 and 5 | 762 547 | the chain verifies, is numbered, only grows, agrees with the mutations, and implements the journal |
| `ledger_live` | 2 requests, 3 tenants on one lock key, 3 attempts | 6 237 | every append is answered |
| `session` | 2 devices, 2 passwords, 2 bumps, 2 seconds, 2 requests in flight | 79 599 | stale cookies stay dead, of the cookies minted by password changes one survives, who knows the password |
| `elevation` | 2 requests, 3 time steps, 1 rotation of the session | 1 519 790 | a code authorises once per row and counting; live elevations overlapped; operations rest on a fresh proof |
| `batch` | 2 rows, 2 names, 2 requests after staging | 524 939 | a batch lands whole or not at all, no stale name lands, a closed batch lands nothing more |
| `tenant` | 3 requests, a grant and a key from before | 487 345 | nothing gets in after a purge, guarded doors stay shut, views are on record |
| `integration` | 1 connection, 2 calls, 2 pages, 3 adapters | 203 200 | SYNCING means a sync or a known end of one; what the health page shows can be explained |
| `integration_live` | 2 connections, 1 sweep, 2 adapters | 81 360 | every due connection is tried, every sync settles its connection unless it was stopped or threw |
| `project` | 2 requests, 1 role, 2 records, 2 files | 409 264 | a baseline is exact unless its reads were raced; what is changed silently was raced, or is an escalation changed in its RAID form |
| `federated` | 1 request id, 2 posts, 1 operator, 3 edits, 2 claims | 3 997 529 | a response counts twice only in overlapping posts; switches keep their order; roles follow the groups, manual ones stay |
| `portfolio` | 3 projects (a program of two waves), 4 people, 2 phases, 2 controls, 2 roles, 2 RAID entries, 2 edits, 5 half days | 57 504 | pages agree, money reconciles, editors see what they edit, stale targets were raced, time never heals, good news never hurts |
| `isolation` | 2 requests, 2 tenants, 3 rows, 6 operations to ask for, a pool of 2, 2 calls, RLS on and off | 828 049 | rows stay home; policies and rewriting agree; what runs as owner is explained; what stalls the pool are lookups of a scope; every call settles |

Why these bounds are enough. *Ledger*: a bad chain needs two appends of one tenant to overlap and a
third to extend the result; the fourth request puts another tenant, one whose appends do not lock,
on the same lock key. Two clock values, one far ahead, produce every order of clock and head. For
liveness two tenants wait for each other's lock, and a third collides and retries. *Sessions*: a
hazard here is a pair of overlapping requests seen by a third cookie; two requests in flight,
started in any order and as often as the version bound lets them matter, cover the pairs.
*Elevation*: the races are between two requests; an earlier elevation and an earlier pending secret,
either of which may be there at the start, stand for what came before. *Batch*: a hazard is a pair
of overlapping actions; two rows are the least that can land in part, two names the least that can
swap. *Tenant*: an act that changes the tenant, a request that read it before, and a third that
undoes the change. *Integration*: one connection is enough for two calls to collide, since
connections share nothing but a sweep, which the second run looks at; two pages are the least with a
middle and an end. *Project*: a read, a write in between by any other action, a write. *Federated*:
two posts of one request, with a switch in two steps and two more edits around them, such as a
deletion and a new provider. *Portfolio*: the properties compare functions of one state, or of one
step; two edits away from a workspace in full delivery and from an empty one reach every theme,
driver, colour and option, with the tolerances cut to a few days and the windows to two, so that the
clock crosses half, three quarters and the end of a window. Rates are in half cents (`RateScale` 2),
the least at which a row of an estimate is rounded. *Isolation*: a stall needs as many requests in
transactions as there are connections, each looking up a scope, and a lookup that succeeds needs a
second connection: two and two. Each way of asking - by filter, by key, creating, writing, deleting
- is asked for by tenants that own the row, by others, and by cross-tenant requests; an update is
that of an upsert.

Counters are bounded in the guards: `MaxAttempts` (three in the code), `MaxVersion`, `MaxClock`,
`MaxEpoch`, `MaxEdits`, `MaxCalls`, `Horizon`, and the number of concurrent requests by the sets of
requests and `MaxInFlight`. Symmetry is used for interchangeable requests, in runs without liveness.

Deadlock is checked where something can always happen, or an explicit step says that all is done
(`Finished` of `AuditLedger`). It is not in `tenant`, `project`, `federated`, `portfolio` and
`isolation`, where the calls or edits of a behaviour run out.

## Fairness

Three specifications assume any. `AuditLedger`: weak fairness of a request's next statement (a
transaction's statements are awaited one after the other, and Prisma's transaction timeout ends
those that hang) and strong fairness of `AcquireLock` (PostgreSQL's lock queue is first come, first
served). `IntegrationSync` and `TenantIsolation`: weak fairness of `Proceed`, what a call that has
begun does next. That is the function going on after each await, every one of which is bounded: by
the adapters' request timeout, or by the pool's and the transaction's. `SweptSpec` adds that whoever
triggers the sweep keeps doing so, which the repository does not put on a schedule; no run uses it
but to see that `FailuresAreRetried` fails even then. Faults are never fair. Beginning is not: a
request need not arrive.

## Proofs

TLAPS proves the theorems of the seven `Proofs` modules, and the lemmas of `SumTheorems` they cite, for
every value of the constants, from the assumptions the modules name. Every safety property a run
checks is a theorem, invariants and action properties alike. The properties are seldom inductive; in
each module `IInv` (or an invariant with a name of its own, where a module holds the proofs of two) is
the strengthening, a lemma per action keeps it, and the properties follow from it.

*AuditLedgerProofs*, from `LedgerAssumption`, for any requests, tenants, keys, clock values and retry
bound: type correctness, `ChainVerifies`, `AppendOnly`, the unambiguous order, `SequenceIsPosition`,
`EntryMatchesMutation` and the refinement of `GovernanceJournal`.
- That the next row extends the chain depends on its inserter having read the *latest* row, and on
  nobody committing between that read and its commit. `IInv` adds three facts: a request past the
  lock holds its tenant's lock (hence at most one is), what it read is still the head of the chain,
  and the row it has inserted follows that head. `OnePastTheLock` turns the first into mutual
  exclusion; `CommitKeepsInv` uses the other two, and every other action leaves the ledger alone.
- The number is counted before the commit, so `CountIsFresh` says that a request waiting to commit
  still has the right count, and `NewRowIsLast` that its row, later than all, moves no other.
  `MutationFollows` says at which statements a mutation is open, committed or gone. Together they are
  `NumberInv`.
- The refinement (`ImplementsJournal`) maps a committed row to the entry of that number, and a
  mutation that is still open to none. `StepMaps` shows each action to be a step of the journal or a
  stutter; only a commit, a rollback and a loss are visible there.

*StaffElevationProofs*, from `ElevationAssumption`: type correctness, `OperationsFollowAFreshProof`,
`FactorsAuthoriseOnce` and `LiveOnesOverlapped`. `FactorsAuthoriseOnce` speaks of the code the operator
typed (`SameCode`: the secret and its step, or the recovery code): no two elevations rest on one, but
for a TOTP code counted on two rows or under two steps.
- `IInv` relates the epochs along the flow: the epoch a request starts with, the one its password is
  proved at, the one its elevation is bound to, and the current one never decrease in that order.
- For the factors, `FactorInv` says which can no longer be consumed (`Used`): a counter of the row in
  force up to its last step, a counter of a row that is gone for good, a recovery code no longer in
  the row; that all those held are used; and that no two requests hold the same. A TOTP code is
  consumed by raising the counter in one conditional update; a recovery code under the row lock,
  where the codes read are still those of the row. `FactorStep` states once what a step has to keep,
  `QuietStep` covers the steps that concern no factor. The assumption that a recovery code is never
  equal to a counter of a row says that the two are different things in the code.
- `OverlapInv` says that what a request found when it began had ended when its own row was inserted,
  which is what superseding does, and that nothing un-ends.

*SignInProofs*, sessions: type correctness, the three invariants of the run and
`StaleCookiesStayDead`. `IInv` says of every cookie, also of those in flight, that it has no version
but one that has been, that a minted one has its version, and that one of the current version was
issued after the last password change; of every password change, that the version it wrote is a past
one or its password is in force; and (`OneMinter`) that no two changes mint one version, which is
what makes the survivor unique: of the cookies that changes minted; those of later logins live beside
it. One assumption on the constants is that `None` is no number.

*SignInProofs*, single sign-on, from `FederationAssumption`: type correctness,
`AcceptedTwiceOverlapped`, `SwitchesInOrder`, `LoginsSyncTheRole`, `ManualAssignmentsStand`, and
`FailedLoginsRaced`, which the run leaves out. `SignOnInv` says of a post that nothing came in
between (`Fresh`) that what it has read of account, membership, provider and mappings is what is
there; that the request of an accepted response is gone for good, so that a post which comes after
the acceptance cannot find it (`PostOK`); and of a switch that the row it read allowed it
(`CallOK`). Every write marks the calls it races (`RacedCalls`), so one lemma, `ConfiguredKeepsSignOn`,
covers the operators' writes. The transaction of a login has one lemma for what it may do to the
membership (`WriteOutcome`), on which both action properties rest. The distinctness of `Null` and
`Unread` from every value is that of SQL's null from a value.

*ProjectDataProofs*, batches: type correctness and the three invariants, for any file, names and number
of calls. `BatchIInv` says of each call that the names alive were seen while it ran, that its lookups
are among those, that a commit writes only rows it found to resolve, that one which began on a closed
batch gets no further than the check, and that what has landed landed whole, on a batch then closed.

*ProjectDataProofs*, projects: `SilentChangesExplained`, `LocksAreExact` and type correctness, for any
requests, records, roles, hours, rates and files, from `ProjectAssumption`, which asks for a finite rate
card. `IInv` says that what a request has read is what is there, unless it was told of a change; a write
keeps that if it tells all those who have read what it writes (`WriteKeepsInv`). That a locked project
has a baseline at all rests on a sum over the card being a number.

*SumTheorems*: the community modules define a sum by recursion over subsets, each time taking away an
element that CHOOSE picks. `SumsExist` and `SumsAgree` show, by a smallest subset on which they would
fail, that a finite set has one table of sums; from it follow the laws the other modules cite (a sum
takes any element first, splits over parts, grows with its terms, and so on). Then what clusters count
(`ClustersCount`: sets of members, each element in exactly one, count every element once) and what
is left of a list cut to its first entries (`FirstFew`). This is induction over sets, which needs no
theorem with an operator as a parameter.

*TenantLifecycleProofs*: type correctness, the three invariants of the run and `PurgeIsOnRecord`, for
any number of calls, from `TenantAssumption`. `Stopped` says what stops a request of each kind. Each
door reads two rows, one after the other, and the
properties speak of what stood against a request all along, so `IInv` says where a request can be that
is still barred: before the first read, or, when only the tenant bars it, between the two
(`Behind`); that what bars it now is what the tenant and its credential say now (`Standing`), which
only a step that reopens the tenant strikes off (`ReopenKeepsInv`); that what it came with had been
handed out before and is no request under way (`Presented`); and that grants come from impersonations,
which end with their event or with its failure (`OnRecord`).

*WorkspaceProofs*, integrations: type correctness, `SyncingIsTrue`, `HealthIsExplained` and
`NothingOutlivesDeletion`, for any connections, calls, sweeps and page limit, from
`IntegrationAssumption`. The invariants are inductive but for what calls carry from one step to the
next (`Informed`): the secret a call has read still is one, or the connection is deleted; an error row
noted still is there, or the connection is not; without a secret nothing is pulled, so a sync cannot
end CONNECTED; a loop that turns is below the limit. Every write that ends a call is an instance of
`WriteKeepsInv`, which shows in one place why a deleted connection stays without runs and errors.

*WorkspaceProofs*, the portfolio, from `TowerAssumption`, for any workspace, people, rates, inputs and
bounds: type correctness, `StaleTargetsRaced`, `EditorsCanSee`, `TimeNeverHeals`,
`GoodNewsNeverHurts`, `MoneyReconciles` and `SurfacesAgree`.
- Of a role policy's two writes `TowerInv` says that a change which met no other of its policy carries
  the target the policy has (`CleanIsCurrent`): then the second write brings every person in line,
  and one that was overlapped or cut leaves the policy marked.
- The edit check, the pure predicate and the where clause are compared case by case for any leads,
  contributors and reporting lines.
- The two action properties need no more than the types. The judgement is monotone: the pace of a
  phase worsens with time (`PaceWorsens`) and does not worsen with progress or a later deadline
  (`PaceNoWorse`), the colour of a phase follows (`PhaseWorsens`, `PhaseNoWorse`), and the worst of a
  set follows its members (`WorstIsWorst`). For the audit score, more controls that say yes and fewer
  that apply raise the quotient past any bound it had reached (`TermsRise`, `QuotientReaches`,
  `PctNoLower`).
- `MoneyReconciles` and `SurfacesAgree` hold in every state whose rows are typed; no history is needed,
  as the pages compute everything from the rows. A lemma per conjunct (`MoneyHolds`, `TilesHold`,
  `HeadlinesHold`, `FeedHolds`, `RedHolds`, `MoneyPagesHold`, `CausesHold`, `OptionsHold`) rests on one
  per page.
- For the money: each row of an estimate has its type whatever left the card (`EacRowTyped`), so the
  sum of what is spent, or of the contractors, is at most that of all (`EstimateHoldsItsParts`). A project
  nobody reported on is estimated at what it was sized at, to half a cent per role that sells hours
  (`SilentMatrix`, from `SumOfRounded`), and to one rounding in direct mode (`SilentDirect`). The
  margin of amounts that were rounded is close to the exact one (`RoundedRatio`), within the dead band
  once there are ten dollars of revenue for each rounding, of the rows and of the revenue
  (`SilentMatrixHolds`, `SilentDirectHolds`). A program that lay above or below all its waves would sum
  to more, or less, than itself (`ProgramsBlend`).
- For the pages: two tiles that count the same rows are two sums over one set. Clusters are the values
  of a function from rows to clusters, so no two share a member and none is left out
  (`MoneyPageSplits`, `ScheduleClustersCount`, `ResourceTriageCounts`, `RaidCounts`); where a milestone is
  red the worst of its project is (`ProjectRagIs`, `MilestonesAddUp`).
- For the feed: a list sorted by score and cut short leaves out only what scores less than all it
  shows (`FeedIs`), and a driver weighs at least `DriverWeight` (`FewerDrivers`).
- `TowerAssumption` says that the workspace, the inputs and the files are of their types, that there
  are finitely many projects, phases, roles, people, RAID entries and controls, that no role has the
  key under which direct deals are reported, that the stored health and money of a project are colours
  and amounts, that the two horizons of the schedule page are in order, and that a seed gives each
  person the target of the role policy it links (`prisma/seed.ts:1599`).

*TenantIsolationProofs*: type correctness and the four invariants, for any tenants, rows, requests,
operations and pool. `OwnerRunsAreExplained` and `PoolStallsOnLookups` say that the two exceptions
the code makes are all there are: reads by unique key and scopes found by one lookup and not by the
other run as the owner; a request that holds a connection and waits for a second is looking up its
scope. `IInv` relates a request's origin to what its async context may hold (`ScopeOK`), to the role
of its transaction (`TxOK`), to the scope of the operation under way (`CallOK`, and `LooksOK` while
it looks its scope up) and to the connections it holds (`HeldOK`). That `None` is no call is an
assumption (`NoneIsNoCall`).

What the proofs found, where TLC had no counterexample within its bounds:
- The feed was thought to leave off a project with more drivers only when *that* one is the further over
  budget. The score adds a driver's weight and the variance (`executive-triage.ts:103-109`), so it is the
  one it *shows* that has to be. The property says so now.
- A direct deal that nobody reported on has a cost rounded to the cent, and the drift is judged on the
  margin it leaves. Below ten dollars of revenue half a cent can be more than the tolerance, and the
  project shows a drift. In matrix mode every role's row is rounded and the sold margin is not, with the
  same effect: an hour at 9.00 that costs 4.9950 is estimated at 5.00. `UntouchedIsOnBaseline` leaves out
  deals that small for their roundings (`RoundingShows`); deals and cards of the run are such that
  rounding happens on both sides of that bound.
- Two assumptions had been silent: that `_direct` is the id of no role, and that sets of rows are finite.

Only model-checked: all liveness (`Settles`, `EveryDueOneIsTried`, `SyncsSettle`, `EveryCallSettles`),
since fairness and ENABLED are out of the prover's reach. There are no RECURSIVE operators.

## Where the code and its documentation disagree

Met while modelling. Where a definition is named it stands next to the module's properties, states
what the repository says, and fails when TLC is given it as a property with the constants of the
module's run (`FailuresAreRetried`: under `SweptSpec`); no run of the project lists it.

1. *A ledger write never blocks the action it records* (`src/lib/audit-ledger.ts:227`,
   `NeverBlocksTheAction`). Inside a caller's transaction a failed append aborts that transaction;
   swallowing the error hides it, and the action is rolled back while its caller reports success.
2. *A login is authoritative* (`src/lib/auth.ts:199`, `LoginIsAuthoritative`). Password and version
   are read in separate steps; a change in between leaves a session of the old password alive.
3. *At most one live elevation per operator* (`staff-elevation.ts`, `AtMostOneLive`). Two requests
   can both supersede before either inserts.
4. *A secret is re-sealed on verification* (`operator-mfa.ts:241`, `ResealKeepsTheSecret`). The
   re-seal writes back the secret that was read, also over one activated meanwhile.
5. *A committed batch has nothing to commit* (`data-import.ts`, `LandsOnce`). The status is checked
   outside the transaction that lands the rows; two commits that both pass the check both land.
6. *Counts are kept in sync on every row mutation* (`schema.prisma`, `CountsInSync`). A refused
   commit stores the counts of its own re-check but rewrites the status only of the rows that failed.
7. *A purge forces the tenant to SUSPENDED* (`PurgedStaysSuspended`). A status change that read the
   tenant before the purge writes its own status after it.
8. *Unlocking leaves no stale baseline* (`UnlockedHasNoBaseline`). A restore of a file without a
   baseline unlocks the project and keeps the baseline it had (`backup.ts:236`).
9. *A configuration is not live until it is verified* (`LiveIsVerified`). Saving over a live
   provider keeps it on with the new key (`src/server/actions/identity.ts:129`).
10. *Enforced domains come through the identity provider* (`EnforcedCanSignOn`). The password form
    turns such users away also while single sign-on is not offered: after a save that left the
    certificate empty (a configuration that the run leaves out to stay small).
11. *The next scheduled sync will retry* (`sync-runner.ts:57`, `FailuresAreRetried`). Only CONNECTED
    connections are due; one in ERROR waits for an operator.
12. *A reply of another shape becomes a recorded error* (`DriftIsRecorded`). The adapter throws, the
    run ends, and the connection stays SYNCING.
13. *Ends an impersonation grant* (`src/server/actions/ops.ts:244`, `EndingEnds`). From a workspace
    page under row-level security the tenant's role may not touch grants: the update matches no
    row, reports success, and the grant lives until it expires.
14. *Two concurrent requests presenting the same valid code cannot both succeed*
    (`operator-mfa.ts:187-188` and 246-249, `CodesAuthoriseOnce`). The code is matched at one reading of
    the clock (228) and stored under the counter of another (231): where a step begins in between, it is
    counted as the next and accepted there again. Nor does the counter outlive its row.
15. *SUSPENDED locks members out, and a grace period leaves them read-only* (`actions/ops.ts:165-166`,
    `tenant-lifecycle.ts:29`, `MembersStayOut`). `writeBlockReason` asks for the grace period only
    (`authz.ts:53`), `createProject` not even that; a purge keeps memberships, and the layout
    (`layout.tsx:44`) hides the pages, not the actions behind them.
16. *The trail has every escalation and control status that changed* (`docs/SECURITY.md:455-456`,
    `OnlyRacesAreSilent`). The form of a RAID entry writes its escalation as well (`raid.ts:126`), without
    the entry that the toggle makes (190); a comment (167-170) says so.
17. *Every tenant-scoped operation is run inside a transaction* of the tenant's role
    (`rls-transaction.ts:11-13`, `PoliciesSeeEverything`). Reads by unique key go to the base client
    (`db.ts:163-172`) and run as the owner, kept home by the check on the row alone; so does an operation
    whose tenant was not found when its role was chosen and was when it was rewritten. And with
    `connection_limit=1` (`VERCEL_DEPLOYMENT.md:43`) an operation in a transaction whose scope is not
    pinned looks it up by a second connection and waits until it times out; so do n of them at once on a
    pool of n. The comment above `db` says that the wrapping changes types only, also inside interactive
    transactions, yet a `tx` read by unique key would leave its transaction; there is no such call today.
18. *An un-forecast role is assumed to still land on its original sizing* (`financials.ts:67-69`, and
    `calculations.test.ts:430-439`, `NoDriftUnreported`). Its row is rounded to the cent (116-118) and
    compared with an exact margin (`sizing.ts:99`): a deal of a few dollars drifts without actuals.

Without a definition of their own:

- SECURITY.md: every provisioning event is ledgered. The append after a login is best effort
  (`identity-jit.ts:171`). And a request id is consumed exactly once: two overlapping posts both
  find it before either removes it.
- Includes of `user` under row-level security are refused by the deny policies on identity tables
  (`dashboards.ts:35`, `active-stream.ts:54`, `audit-log.ts:42`).
- `updateRolePolicy`: the fallback target is kept in sync. Two statements without a transaction
  (`capacity.ts:98`); an overlap or a crash leaves them apart (`StaleTargetsRaced`).
- `schema.prisma:1043-1046`: stored health colours and budget columns, and a live project count
  (`capacity-engine.ts:126`). Only the seed writes them.
- `schedule-triage.ts:22-24`: both surfaces agree on what counts as slipped. One of them counts
  finished phases (`executive-triage.ts:138-140`), and the triage uses the default tolerances
  whatever the organisation has set. `SchedulePagesAgree` therefore asks for default tolerances and
  phases in flight.
- A slip of a day is tried before the pace (`schedule-triage.ts:139-148`): a row whose pace is
  critical turns from Amber to Red when its slip is cured. `GoodNewsNeverHurts` leaves that out.
  Clearing an actual end heals a slip; an overdue phase with half its progress and no end is Green;
  a window the wrong way round hides the pace.
- `executive-triage.ts:103-105`: more drivers outrank fewer, unless the variance of the one with
  fewer is a million greater.
  133-136 says "over budget" of an absolute value. The feed flags containers that
  `portfolio.ts` keeps out of the high-risk count.
- `scoping.ts:94-96`: the two forms of scope can never drift. The predicate does not know
  contributors. In `roleMatches` the bare title "pm" matches the senior list first.
- A direct deal with no sold hours has nothing to spread its cost over and shows a margin of 100 % as
  upside. Actuals of a deleted role leave the estimate until a restore brings the role back.
- `server/actions/financials.ts:35-41`: actuals of a role that is off the card are saved nonetheless. The
  foreign key of a migration (`00000000000022_composite_fk_tenant_closure/migration.sql:111`) refuses
  them, and `UpdateFinancialActual` asks for a role on the card.
- `server/actions/financials.ts:54-56`: a resave of the same figures is kept off the trail. The stored cost
  is a Decimal and the new one a number, whose JSON never agree: every save makes its entry.
- Holiday dates are stored at midnight UTC and compared after a local `startOfDay`.
- Financial triage counts contractor actuals also of a deal that was switched to direct mode, for
  which the exposure page says "not applicable". `CausesShow` leaves those out.
- `decision-options.ts:90` names Delivery Managers as approvers, whom `rbac.ts:217` never lets
  submit one. Whether approval is required is taken from the client at submission
  (`portfolio-interventions.ts:80`), though the comment there says that the server derives it again. A
  project over budget by more than the threshold leaves its own manager no option to execute; a red
  cost without an overrun never asks for approval. A swap candidate with hours to spare may have too many
  projects and be red on the resource page.

## Not modelled, and why

- *The table of staff grants.* In `StaffElevation` a grant is a Boolean that another operator flips.
  Read from the code: a role change (`staff-grants.ts:157`) is a transaction that ends the live rows
  and creates one. A revocation that waits for it sees, under read committed, no row left to revoke,
  answers "does not currently hold operator access" (191-195), and the operator stays in; a role
  change that read the live grant before a revocation creates it again. Two grants side by side leave
  two live rows, as no index forbids it. Two super administrators may end each other.
- *Rate limiter.* Whether a call is let through is a rejection of the calling module. The window of
  REGISTER (15 minutes) outlives the sweep of idle counters (`rate-limiter.ts:59`, 10 minutes), and
  without Redis each instance counts for itself.
- *Data retention.* A daily delete past a cut-off, idempotent by its own condition, of rows that no
  other part reads.
- *Of modelled parts*: the paged read of the ledger; registration and the refusal of password logins;
  renaming and listing tenants; the validators of a batch row beyond whether its name resolves; the
  checks of a restore file before its transaction; the margin modeler, the suggested matrix and the
  flight path, which nothing is stored from; the order of themes on a page; templates, labels and
  custom KPIs; metadata parsing and OIDC discovery; identity tables and the rollback of what a
  transaction wrote before it was given up.
- *Pages, components, the assistant and parsers of documents.* They change no state and make no
  decision another part rests on. They are most of the repository: some 25 000 of its 57 500 lines
  are React pages and components, and seeds, the changelog, demo scripts, help texts, prompts, CSV
  readers and generated documentation are a good part of the rest. The models cover the code with
  state and decisions; the share of all lines they map stays small for that reason.
- *Cryptography* is ideal: hashes identify contents, codes cannot be guessed, sealed secrets open
  under their own key only.

## What is left

1. A module for the table of staff grants and one for the limiter.
2. An abstract batch that is applied at most once per overlapping commit, as a refinement.
3. The flight path and the margin modeler, pure functions that nothing is stored from.
