---------------------------- MODULE ControlTower ------------------------------
(* The portfolio as its pages show it.  Editors, administrators, a restore    *)
(* and the clock change the rows of a workspace; ScheduleHealth, RootCauses,  *)
(* DealEconomics and TeamCapacity turn them into the health codes, triage     *)
(* tiles, margins and utilisation that every page computes on each request.   *)
(* Baseline locks and the audit trail are in ProjectBaseline; here the lock   *)
(* is a flag.  Stored colours and engagement counts are constants: nothing in *)
(* the application writes them.                                               *)
EXTENDS ScheduleHealth

CONSTANTS Projects,        \* numbered in the order queries return them
          Roles, People, HomePractices, Users, Admins, RolePolicies,
          RoleOf,          \* the delivery role of a user's membership
          Level,           \* "parent", "child" or "standalone"
          Published,       \* the stored [cost, sched, scope, res, bac, spent] of a project
          ApprovalThreshold,
          RateScale,       \* what hours times rates are worth, in parts of a cent
          Entries,         \* RAID entries: [type, severity, words]
          WindowWeeks, OverloadAbove,
          Files,           \* workspace snapshots that can be restored
          Seed,            \* [ws, roster, policies, holidays] a seed leaves
          Rows, Policies, Cells, Intakes, Reports, Targets, Hours, Days,   \* inputs
          Horizon, MaxEdits                                                \* bounds

VARIABLES clock,      \* in ticks
          ws,         \* what a snapshot holds: policy, card, leads, parent, contributors,
                      \* manager, home, job, phases, answers, locked, raid, deals, actuals
          roster,     \* person -> None or tenure, hours, policy, target, login
          policies,   \* role policy -> [target, head]
          holidays,
          orders,     \* projects with an executed change order; no snapshot holds them
          sync,       \* admin -> None or the policy change whose second write is due
          raced,      \* history: policies whose last change overlapped another or was cut
          edits

towerVars == <<clock, ws, roster, policies, holidays, orders, sync, raced, edits>>

Money == INSTANCE DealEconomics
Team == INSTANCE TeamCapacity
Causes == INSTANCE RootCauses

Keys == Roles \cup {"_direct"}

(* -------------------------------- the rows ------------------------------- *)

Tolerances == [warn : Nat, crit : Nat]

Rate == [bill : Nat, cost : Nat, type : {"fte", "contractor"}]

Lead == [pd : {None} \cup People, dm : {None} \cup People, pm : {None} \cup People,
         practice : {None} \cup HomePractices]

Phase == [plannedStart : {None} \cup Int, plannedEnd : {None} \cup Int, actualEnd : {None} \cup Int,
          pct : 0..100, status : Statuses]

\* What is sold without an effort matrix.
Intake == [hours : Nat, revenue : Nat, margin : 0..99]

Deal == [mode : {"matrix", "direct"}, model : {"tm", "ff"}, contingency : Nat,
         hours : Nat, revenue : Nat, margin : 0..99, cells : [Roles -> Nat]]

Report == [hours : Nat, cost : Nat, forecast : {None} \cup Nat, open : {None} \cup Nat]

\* The practices people are in: nothing but the seed sets another than the default.
PracticeNames ==
  {"TRANS-Delivery"}
    \cup {Seed.roster[i].practice : i \in {j \in People : Seed.roster[j] # None}}

Person == [fte : Nat, start : Int, end : {None} \cup Int, hours : Nat, practice : PracticeNames,
           projects : Nat, policy : {None} \cup RolePolicies, target : Nat, user : {None} \cup Users]

RolePolicy == [target : Nat, head : BOOLEAN]

\* A policy change between its two writes; clean while no other of the policy met it.
Sync == [policy : RolePolicies, target : Nat, clean : BOOLEAN]

Workspace ==
  [policy : Tolerances, card : [Roles -> {None} \cup Rate], leads : [Projects -> Lead],
   parent : [Projects -> {None} \cup Projects], contributors : [Projects -> SUBSET People],
   manager : [People -> {None} \cup People], home : [People -> {None} \cup HomePractices],
   job : [People -> {None} \cup Roles], phases : [Projects -> [PhaseKeys -> Phase]],
   answers : [Projects -> [Controls -> Answers]], locked : [Projects -> BOOLEAN],
   raid : [Projects -> SUBSET Entries], deals : [Projects -> Deal],
   actuals : [Projects -> [Keys -> {None} \cup Report]]]

Partial(S, T) == UNION {[D -> T] : D \in SUBSET S}

\* A file may lack tolerances, and knows the people there were.
Snapshot ==
  [policy : {None} \cup Tolerances, card : [Roles -> {None} \cup Rate], leads : [Projects -> Lead],
   parent : [Projects -> {None} \cup Projects], contributors : [Projects -> SUBSET People],
   manager : Partial(People, {None} \cup People), home : Partial(People, {None} \cup HomePractices),
   job : Partial(People, {None} \cup Roles), phases : [Projects -> [PhaseKeys -> Phase]],
   answers : [Projects -> [Controls -> Answers]], locked : [Projects -> BOOLEAN],
   raid : [Projects -> SUBSET Entries], deals : [Projects -> Deal],
   actuals : [Projects -> [Keys -> {None} \cup Report]]]

\* What is stored of a project and never written.
Stored == [cost : Rags, sched : Rags, scope : Rags, res : Rags, bac : Nat, spent : Nat]

\* The seed gives a person the target of the role policy.  The texts of RAID entries are
\* of bounded length, and roles have ids, none of which is the key of direct actuals.
ASSUME TowerAssumption ==
  /\ IsFiniteSet(Projects) /\ Projects \subseteq Int /\ Published \in [Projects -> Stored]
  /\ IsFiniteSet(PhaseKeys) /\ IsFiniteSet(Roles) /\ IsFiniteSet(People) /\ IsFiniteSet(Entries)
  /\ "_direct" \notin Roles
  /\ GoLiveHorizon[1] \in Nat /\ GoLiveHorizon[2] \in Nat /\ GoLiveHorizon[1] <= GoLiveHorizon[2]
  /\ DriverWeight \in Nat /\ TriageLimit \in Nat /\ WindowWeeks \in Nat
  /\ TicksPerDay \in Nat \ {0} /\ RateScale \in Nat \ {0} /\ Horizon \in Nat /\ MaxEdits \in Nat
  /\ IsFiniteSet(Controls)
  /\ DefaultPolicy \in Tolerances /\ Policies \subseteq Tolerances
  /\ Rows \subseteq Phase /\ Intakes \subseteq Intake /\ Reports \subseteq Report
  /\ Cells \subseteq Nat /\ Hours \subseteq Nat /\ Targets \subseteq Nat
  /\ Files \subseteq Snapshot
  /\ Seed.ws \in Workspace /\ Seed.roster \in [People -> {None} \cup Person]
  /\ Seed.policies \in [RolePolicies -> RolePolicy] /\ Seed.holidays \subseteq Days
  /\ \A i \in People :
       (Seed.roster[i] # None /\ Seed.roster[i].policy # None) =>
         Seed.roster[i].target = Seed.policies[Seed.roster[i].policy].target
  /\ None \notin People /\ None \notin Roles /\ None \notin Projects /\ None \notin RolePolicies
  /\ None \notin Int /\ None \notin Tolerances /\ None \notin Rate /\ None \notin Report
  /\ None \notin Person /\ None \notin Sync

Today == clock \div TicksPerDay

(* ------------------------------- the session ----------------------------- *)

\* The person a login is linked to; a restore never links one again.
ResourceOf(u) ==
  LET linked == {i \in People : roster[i] # None /\ roster[i].user = u}
  IN IF linked = {} THEN None ELSE CHOOSE i \in linked : TRUE

Who(u) ==
  LET i == ResourceOf(u)
  IN [role |-> RoleOf[u], resource |-> i, practice |-> IF i = None THEN None ELSE ws.home[i]]

\* authorizeProjectEdit of an unblocked session.
MayEdit(p) == \E u \in Users : Team!CanEdit(Who(u), ws.leads[p])

\* The roles with "project:approve".
Approvers == {"ADMIN", "PRACTICE_DIRECTOR", "DELIVERY_MANAGER"}

IsAdmin == \E u \in Users : RoleOf[u] = "ADMIN"

Edit == edits < MaxEdits /\ edits' = edits + 1

\* A project as the money pages read it.  A role takes its link on logged
\* costs along when it leaves the card.
Engagement(p) ==
  LET logged == {k \in Keys : ws.actuals[p][k] # None}
      vendor == {k \in logged \cap Money!OnCard(ws.card) : ws.card[k].type = "contractor"}
      cost(S) == SumFunction([k \in S |-> ws.actuals[p][k].cost])
      stored == Published[p]
  IN [cost |-> stored.cost, scope |-> stored.scope, bac |-> stored.bac, spent |-> stored.spent,
      model |-> ws.deals[p].model, locked |-> ws.locked[p], order |-> p \in orders,
      delayed |-> \E k \in PhaseKeys : ws.phases[p][k].status = "delayed",
      logged |-> cost(logged), vendor |-> cost(vendor)]

(* ------------------------------- the editors ----------------------------- *)

OnlyWs == UNCHANGED <<clock, roster, policies, holidays, orders, sync, raced>>

\* A whole row at once; the dates are not checked against each other.
UpdateSchedulePhase(p, k, row) ==
  /\ Edit /\ MayEdit(p) /\ ws' = [ws EXCEPT !.phases[p][k] = row] /\ OnlyWs

UpdateAuditEntry(p, c, status) ==
  /\ Edit /\ MayEdit(p) /\ ws' = [ws EXCEPT !.answers[p][c] = status] /\ OnlyWs

ToggleProjectLock(p) ==
  /\ Edit /\ MayEdit(p) /\ ws' = [ws EXCEPT !.locked[p] = ~@] /\ OnlyWs

\* An entry is logged or opened again, rewritten, or closed.
UpdateRaid(p, from, to) ==
  /\ Edit /\ MayEdit(p)
  /\ from \in ws.raid[p] \cup {None} /\ from # to
  /\ ws' = [ws EXCEPT !.raid[p] = (@ \ {from}) \cup ({to} \ {None})]
  /\ OnlyWs

\* Of the interventions only the change order is read again by a page.  Whether
\* it requires approval is what the client sends along.
ExecuteChangeOrder(p) ==
  /\ Edit
  /\ \E u \in Users, requires \in BOOLEAN :
       /\ Team!CanEdit(Who(u), ws.leads[p])
       /\ Causes!Guardrail("change_order", Engagement(p), requires, RoleOf[u] \in Approvers)
  /\ orders' = orders \cup {p}
  /\ UNCHANGED <<clock, ws, roster, policies, holidays, sync, raced>>

\* The role must be on the rate card.
UpdateEffortCell(p, r, hours) ==
  /\ Edit /\ MayEdit(p) /\ ws.card[r] # None
  /\ ws' = [ws EXCEPT !.deals[p].cells[r] = hours]
  /\ OnlyWs

SetEstimationMode(p, mode) ==
  /\ Edit /\ MayEdit(p) /\ ws' = [ws EXCEPT !.deals[p].mode = mode] /\ OnlyWs

UpdateDirectIntake(p, intake) ==
  /\ Edit /\ MayEdit(p)
  /\ ws' = [ws EXCEPT !.deals[p] = [@ EXCEPT !.hours = intake.hours, !.revenue = intake.revenue,
                                             !.margin = intake.margin]]
  /\ OnlyWs

\* The foreign key lets in no role off the card; it may leave the card later.
UpdateFinancialActual(p, key, row) ==
  /\ Edit /\ MayEdit(p)
  /\ key \in Money!OnCard(ws.card) \cup {"_direct"}
  /\ ws' = [ws EXCEPT !.actuals[p][key] = row] /\ OnlyWs

(* ---------------------------- the administrators ------------------------- *)

UpdateOrgPolicy(policy) == Edit /\ IsAdmin /\ ws' = [ws EXCEPT !.policy = policy] /\ OnlyWs

\* Deleting a role takes its effort cells along, not its actuals; whoever
\* held it is left without one.
DeleteDeliveryRole(r) ==
  /\ Edit /\ IsAdmin /\ ws.card[r] # None
  /\ ws' = [ws EXCEPT !.card[r] = None,
                      !.deals = [p \in Projects |-> [@[p] EXCEPT !.cells[r] = 0]],
                      !.job = [i \in People |-> IF @[i] = r THEN None ELSE @[i]]]
  /\ OnlyWs

SetDeliveryRoleEmploymentType(r, type) ==
  /\ Edit /\ IsAdmin /\ ws.card[r] # None /\ ws' = [ws EXCEPT !.card[r].type = type] /\ OnlyWs

Newcomer == [fte |-> 100, start |-> Today, end |-> None, hours |-> 0, practice |-> "TRANS-Delivery",
             projects |-> 0, policy |-> None, target |-> 70, user |-> None]

CreateResource(i, home, role) ==
  /\ Edit /\ IsAdmin /\ roster[i] = None
  /\ role \in Money!OnCard(ws.card) \cup {None}
  /\ roster' = [roster EXCEPT ![i] = Newcomer]
  /\ ws' = [ws EXCEPT !.home[i] = home, !.job[i] = role]
  /\ UNCHANGED <<clock, policies, holidays, orders, sync, raced>>

\* References to the person are nulled, contributions and hours go with it.
DeleteResource(i) ==
  LET without(x) == IF x = i THEN None ELSE x
      lead(p) == [ws.leads[p] EXCEPT !.pd = without(@), !.dm = without(@), !.pm = without(@)]
  IN /\ Edit /\ IsAdmin /\ roster[i] # None
     /\ roster' = [roster EXCEPT ![i] = None]
     /\ ws' = [ws EXCEPT
                 !.leads = [p \in Projects |-> lead(p)],
                 !.contributors = [p \in Projects |-> @[p] \ {i}],
                 !.manager = [j \in People |-> IF j = i THEN None ELSE without(@[j])],
                 !.home[i] = None, !.job[i] = None]
     /\ UNCHANGED <<clock, policies, holidays, orders, sync, raced>>

\* A timesheet or a committed assignment batch sets the hours of the window.
LogHours(i, hours) ==
  /\ Edit /\ roster[i] # None
  /\ roster' = [roster EXCEPT ![i].hours = hours]
  /\ UNCHANGED <<clock, ws, policies, holidays, orders, sync, raced>>

CreateHoliday(d) ==
  /\ Edit /\ IsAdmin /\ d \notin holidays /\ holidays' = holidays \cup {d}
  /\ UNCHANGED <<clock, ws, roster, policies, orders, sync, raced>>

DeleteHoliday(d) ==
  /\ Edit /\ IsAdmin /\ d \in holidays /\ holidays' = holidays \ {d}
  /\ UNCHANGED <<clock, ws, roster, policies, orders, sync, raced>>

\* updateRolePolicy writes the policy, then in a second statement the targets
\* of its people; no transaction holds the two together.
UpdateRolePolicy(a, r, target, head) ==
  LET other(b) == sync[b] # None /\ sync[b].policy = r
      clean == \A b \in Admins : ~other(b)
  IN /\ Edit /\ IsAdmin /\ sync[a] = None
     /\ policies' = [policies EXCEPT ![r] = [target |-> target, head |-> head]]
     /\ sync' = [b \in Admins |->
                   IF b = a THEN [policy |-> r, target |-> target, clean |-> clean]
                   ELSE IF other(b) THEN [sync[b] EXCEPT !.clean = FALSE] ELSE sync[b]]
     /\ UNCHANGED <<clock, ws, roster, holidays, orders, raced>>

\* Mutant: only the targets of billable heads are synced.
SyncHeads(a) ==
  /\ sync[a] # None
  /\ roster' = [i \in People |-> IF /\ roster[i] # None /\ roster[i].policy = sync[a].policy
                                    /\ policies[sync[a].policy].head
                                 THEN [roster[i] EXCEPT !.target = sync[a].target]
                                 ELSE roster[i]]
  /\ sync' = [sync EXCEPT ![a] = None]
  /\ raced' = IF sync[a].clean THEN raced \ {sync[a].policy} ELSE raced \cup {sync[a].policy}
  /\ UNCHANGED <<clock, ws, policies, holidays, orders, edits>>

SyncTargets(a) ==
  /\ sync[a] # None
  /\ roster' = [i \in People |-> IF roster[i] # None /\ roster[i].policy = sync[a].policy
                                 THEN [roster[i] EXCEPT !.target = sync[a].target]
                                 ELSE roster[i]]
  /\ sync' = [sync EXCEPT ![a] = None]
  /\ raced' = IF sync[a].clean THEN raced \ {sync[a].policy} ELSE raced \cup {sync[a].policy}
  /\ UNCHANGED <<clock, ws, policies, holidays, orders, edits>>

\* The process ends between the two writes.
DieBeforeSync(a) ==
  /\ sync[a] # None
  /\ sync' = [sync EXCEPT ![a] = None]
  /\ raced' = raced \cup {sync[a].policy}
  /\ UNCHANGED <<clock, ws, roster, policies, holidays, orders, edits>>

PutBack(file, now) == [i \in People |-> IF i \in DOMAIN file THEN file[i] ELSE now[i]]

\* One transaction.  Roles and people of the file are put back, others stay;
\* projects and their rows become the file's.
Restore(file) ==
  LET back == DOMAIN file.manager
  IN /\ Edit /\ IsAdmin
     /\ ws' = [file EXCEPT !.policy = IF @ = None THEN ws.policy ELSE @,
                           !.card = [r \in Roles |-> IF @[r] = None THEN ws.card[r] ELSE @[r]],
                           !.manager = PutBack(@, ws.manager), !.home = PutBack(@, ws.home),
                           !.job = PutBack(@, ws.job)]
     /\ roster' = [i \in People |-> IF i \in back /\ roster[i] = None THEN Newcomer ELSE roster[i]]
     /\ UNCHANGED <<clock, policies, holidays, orders, sync, raced>>

Tick ==
  /\ clock < Horizon /\ clock' = clock + 1
  /\ UNCHANGED <<ws, roster, policies, holidays, orders, sync, raced, edits>>

(* ------------------------------ the behaviour ---------------------------- *)

\* A workspace as it was seeded.
TowerInit ==
  /\ clock = 0
  /\ ws = Seed.ws
  /\ roster = Seed.roster /\ policies = Seed.policies /\ holidays = Seed.holidays
  /\ orders = {} /\ sync = [a \in Admins |-> None] /\ raced = {} /\ edits = 0

EditProject(p) ==
  \/ \E k \in PhaseKeys, row \in Rows : UpdateSchedulePhase(p, k, row)
  \/ \E c \in Controls, status \in Answers : UpdateAuditEntry(p, c, status)
  \/ ToggleProjectLock(p)
  \/ \E from, to \in Entries \cup {None} : UpdateRaid(p, from, to)
  \/ ExecuteChangeOrder(p)
  \/ \E r \in Roles, h \in Cells : UpdateEffortCell(p, r, h)
  \/ \E mode \in {"matrix", "direct"} : SetEstimationMode(p, mode)
  \/ \E intake \in Intakes : UpdateDirectIntake(p, intake)
  \/ \E key \in Keys, row \in Reports : UpdateFinancialActual(p, key, row)

Administer ==
  \/ \E policy \in Policies : UpdateOrgPolicy(policy)
  \/ \E r \in Roles : DeleteDeliveryRole(r)
  \/ \E r \in Roles, type \in {"fte", "contractor"} : SetDeliveryRoleEmploymentType(r, type)
  \/ \E file \in Files : Restore(file)

ManageTeam ==
  \/ \E i \in People, home \in HomePractices \cup {None}, role \in Roles \cup {None} :
       CreateResource(i, home, role)
  \/ \E i \in People : DeleteResource(i)
  \/ \E i \in People, h \in Hours : LogHours(i, h)
  \/ \E d \in Days : CreateHoliday(d) \/ DeleteHoliday(d)
  \/ \E a \in Admins : SyncTargets(a) \/ DieBeforeSync(a)
  \/ \E a \in Admins, r \in RolePolicies, t \in Targets, head \in BOOLEAN :
       UpdateRolePolicy(a, r, t, head)

TowerNext == Tick \/ Administer \/ ManageTeam \/ \E p \in Projects : EditProject(p)

TowerSpec == TowerInit /\ [][TowerNext]_towerVars

(* -------------------------------- the pages ------------------------------ *)

Health(p) == ProjectHealth(ws.locked[p], ws.answers[p])

RagOf(p) == ProjectRag(ws.phases[p], clock)

PageOf(p) == ScheduleSummary(ws.phases[p], ws.policy, clock)

\* Projects with an open severe dependency.
Dependent == {p \in Projects : \E e \in ws.raid[p] : e.type = "dependency" /\ Causes!RaidRag(e) = "Red"}

Triage == ScheduleTriage(ws.phases, Published, Dependent, clock)

FlagsOf == [p \in Projects |-> Drivers(Health(p), Published[p])]

TeamRows ==
  LET window == Team!TrailingWindow(Today)
  IN Tabulated([i \in {j \in People : roster[j] # None} |->
                  Team!CapacityRow(window, roster[i], ws.job[i], policies, holidays)])

Engagements == Tabulated([p \in Projects |-> Engagement(p)])

\* Who could take a flagged project over from its team.
Candidates(p, rows) ==
  LET lead == ws.leads[p]
  IN Causes!SwapCandidates(lead.dm, {lead.pd, lead.dm, lead.pm} \cup ws.contributors[p], rows)

Waves(p) == {q \in Projects : ws.parent[q] = p}

\* The worst health among the waves, "NA" without any.
ProgramHealth(p) ==
  IF Waves(p) = {} THEN "NA"
  ELSE LET codes == {Health(q) : q \in Waves(p)}
       IN CHOOSE h \in codes : \A g \in codes : HealthRank[g] <= HealthRank[h]

\* Containers are no engagements: they do not count as high risk.
HighRisk == Cardinality({p \in Projects : Level[p] # "parent" /\ Health(p) = "R"})

EacOf(p) == Money!EacSummary(ws.deals[p], ws.card, ws.actuals[p])

Program(p) == Money!ProgramRollup(Waves(p), ws.deals, ws.card, ws.actuals)

(***************************************************************************)
(* Invariants                                                              *)
(***************************************************************************)

\* Every variable holds what the schema lets it hold.
TowerTypeOK ==
  /\ clock \in 0..Horizon /\ edits \in 0..MaxEdits
  /\ ws \in Workspace
  /\ roster \in [People -> {None} \cup Person]
  /\ policies \in [RolePolicies -> RolePolicy]
  /\ holidays \subseteq Days /\ orders \subseteq Projects
  /\ sync \in [Admins -> {None} \cup Sync] /\ raced \subseteq RolePolicies

\* The two tiles of the schedule page tell one story: a red milestone is
\* counted exactly when some cluster holds a red project, the clusters share
\* out the projects at risk, and the milestone counts add up.
TilesAgree ==
  LET page == Triage
      held == UNION {c.members : c \in page.clusters}
      counted == SumFunction([c \in page.clusters |-> c.red + c.amber])
  IN /\ (page.red > 0) = (\E c \in page.clusters : c.red > 0)
     /\ (page.red + page.amber > 0) = (page.clusters # {})
     /\ counted = Cardinality(held)
     /\ page.red + page.amber + page.onTrack = page.active
     /\ page.goLive[1] <= page.goLive[2]

\* While the organisation keeps the default tolerances, a project all of
\* whose phases are in flight and which the schedule page warns of, by slip
\* or by pace, is on the triage page, as red for a critical slip.
SchedulePagesAgree ==
  ws.policy = DefaultPolicy =>
    \A p \in Projects : Active(ws.phases[p]) = PhaseKeys =>
      /\ "critical" = PageOf(p).worst => RagOf(p) = "Red"
      /\ {PageOf(p).worst, PageOf(p).worstPace} # {"onTrack"} => RagOf(p) # "Green"

\* The headline of the resource triage is the capacity page's, the practices
\* add up to it, and every billable head is in one colour and, if at risk,
\* in one cluster.
HeadlinesAgree ==
  LET rows == TeamRows
      page == Team!ResourceTriage(rows)
      whole == Team!BlendedSummary(rows, DOMAIN rows)
      parts == Team!Practices(rows)
      heads == {i \in DOMAIN rows : rows[i].head}
  IN /\ page.headline = whole
     /\ whole.billable = SumFunction([q \in parts |-> q.of.billable])
     /\ whole.available = SumFunction([q \in parts |-> q.of.available])
     /\ page.red + page.amber + page.optimal = Cardinality(heads)
     /\ page.red + page.amber = SumFunction([c \in page.clusters |-> c.red + c.amber])
     /\ page.severe <= page.red

\* The feed never leaves off a project with more drivers than one it shows,
\* unless the one it shows is over budget by a driver's weight more.
FeedKeepsTheWorst ==
  LET flags == FlagsOf
      feed == Feed(flags, Published)
      flagged == {p \in Projects : flags[p] # {}}
  IN \A p \in feed, q \in flagged \ feed :
       Causes!Variance(Published[p]) - Causes!Variance(Published[q]) < DriverWeight =>
         Cardinality(flags[q]) <= Cardinality(flags[p])

\* A red engagement shows: in its program's health, in the high-risk count
\* and, while there is room, in the feed.
RedShows ==
  LET feed == Feed(FlagsOf, Published)
  IN \A p \in Projects : Health(p) = "R" =>
       /\ ws.parent[p] # None => ProgramHealth(ws.parent[p]) = "R"
       /\ Level[p] # "parent" => HighRisk > 0
       /\ p \in feed \/ Cardinality(feed) = TriageLimit

\* The financial and the commercial page count the same reds, those the feed
\* calls over budget, and what is at risk on the first is so on the second;
\* both split the whole portfolio, and a cluster holds every project at risk.
MoneyPagesAgree ==
  LET rows == Engagements
      financial == Causes!FinancialTriage(rows)
      commercial == Causes!CommercialTriage(rows)
      over == {p \in Projects : "Over Budget" \in Drivers(Health(p), Published[p])}
  IN /\ financial.red = Cardinality(over) /\ commercial.red = financial.red
     /\ financial.atRisk \cup orders \subseteq commercial.atRisk
     /\ \A page \in {financial, commercial} :
          /\ page.split["ff"].bac + page.split["tm"].bac = page.bac
          /\ page.split["ff"].count + page.split["tm"].count = Cardinality(Projects)
          /\ SumFunction([c \in page.clusters |-> c.red + c.amber]) = Cardinality(page.atRisk)

\* What one page names as the cause another one shows: a delayed milestone is
\* red on the schedule page, a contractor's share is exposure of a matrix deal,
\* a dependency is a red entry on the RAID page.
CausesShow ==
  LET rows == Engagements
      with(page, t) == UNION {c.members : c \in {d \in page.clusters : d.theme = t}}
      financial == Causes!FinancialTriage(rows)
      raid == Causes!RaidTriage(ws.raid)
      exposure(p) == Money!ContractorExposure(ws.deals[p], ws.card, ws.actuals[p])
  IN /\ \A p \in with(financial, "UNBILLED_MILESTONE_DELAY") : RagOf(p) = "Red"
     /\ \A p \in with(financial, "SUBCONTRACTOR_RATE_VARIANCE") :
          ws.deals[p].mode = "direct" \/ exposure(p).cost > 0
     /\ \A p \in with(Triage, "THIRD_PARTY_DEPENDENCY") :
          \E i \in raid.items : i.project = p /\ Causes!RaidRag(i.entry) = "Red"
     /\ raid.red + raid.amber = SumFunction([c \in raid.clusters |-> Cardinality(c.members)])

\* A flagged project is offered two or three options, and never to take over
\* by someone the resource page counts as overbooked.  Every editor is offered
\* one to execute at once, but for a project manager over the approval threshold.
OptionsFit ==
  LET rows == TeamRows
      flags == FlagsOf
  IN \A p \in {q \in Projects : flags[q] # {}} :
       LET candidates == Candidates(p, rows)
           options == Causes!Options(flags[p], candidates)
           may(u, o) == Causes!CanExecute(o, Engagement(p), RoleOf[u] \in Approvers)
       IN /\ Cardinality(options) \in 2..3
          /\ \A i \in candidates : ~Team!OverAllocated(rows[i])
          /\ \A u \in Users : Team!CanEdit(Who(u), ws.leads[p]) =>
               \/ \E o \in options : may(u, o)
               \/ RoleOf[u] = "PROJECT_MANAGER" /\ Causes!Variance(Published[p]) > ApprovalThreshold

\* The pages that read the same rows agree with each other.
SurfacesAgree ==
  /\ TilesAgree /\ SchedulePagesAgree /\ HeadlinesAgree /\ FeedKeepsTheWorst /\ RedShows
  /\ MoneyPagesAgree /\ CausesShow /\ OptionsFit

\* The roles an effort matrix sells hours of.
SoldRoles(deal) == {r \in Money!OnCard(ws.card) : deal.cells[r] > 0}

\* Of a deal so small, rounding alone may show a drift: of a direct one its cost is
\* rounded to a cent, of a matrix the cost of every role and the revenue.  Where cost
\* is no more than revenue that is up to ten dollars per rounding.
RoundingShows(deal) ==
  LET exact == Money!Matrix(deal, ws.card)
      revenue == Money!Totals(deal, ws.card).revenue
  IN IF deal.mode = "direct" THEN revenue < 1000
     ELSE revenue * exact.revenue
          < 1000 * (Cardinality(SoldRoles(deal)) * exact.revenue + exact.cost)

\* A project nobody reported on stands on its sold margin, in whichever mode
\* it is sized and whatever left the rate card, once it has hours and is not
\* so small that rounding shows.
UntouchedIsOnBaseline ==
  \A p \in Projects :
    LET sized == Money!Totals(ws.deals[p], ws.card).hours > 0
        silent == \A k \in Money!EacKeys(ws.deals[p], ws.card) : ws.actuals[p][k] = None
    IN sized /\ silent =>
         \/ Money!DriftStatus(ws.deals[p], ws.card, ws.actuals[p]) = "on-baseline"
         \/ RoundingShows(ws.deals[p])

\* As documented: a role nobody forecast lands on its sizing, so a project nobody
\* reported on does not drift.  TLC refutes it, by the rounding of small deals.
NoDriftUnreported ==
  \A p \in Projects :
    /\ Money!Totals(ws.deals[p], ws.card).hours > 0
    /\ \A k \in Money!EacKeys(ws.deals[p], ws.card) : ws.actuals[p][k] = None
    => Money!DriftStatus(ws.deals[p], ws.card, ws.actuals[p]) = "on-baseline"

\* What is spent and what contractors cost are parts of the estimate, and a
\* program's blended margin lies between those of its waves: it does not
\* drift above every wave, nor below.
MoneyAddsUp ==
  \A p \in Projects :
    LET eac == EacOf(p)
        exposure == Money!ContractorExposure(ws.deals[p], ws.card, ws.actuals[p])
        program == Program(p)
        revenue == Tabulated([q \in Waves(p) |-> Money!Totals(ws.deals[q], ws.card).revenue])
        cost == Tabulated([q \in Waves(p) |-> EacOf(q).eac])
    IN /\ eac.spent <= eac.eac /\ Money!BurnToDate(eac) \in 0..100
       /\ exposure.cost <= eac.eac /\ exposure.hours <= eac.hours + eac.forecast + eac.open
       /\ (Waves(p) # {} /\ \A q \in Waves(p) : revenue[q] > 0) =>
            /\ \E q \in Waves(p) : cost[q] * program.revenue >= program.eac * revenue[q]
            /\ \E q \in Waves(p) : cost[q] * program.revenue <= program.eac * revenue[q]

MoneyReconciles == UntouchedIsOnBaseline /\ MoneyAddsUp

\* Whoever may edit a project finds it in every list, so does whoever the pure
\* predicate lets in, and a manager who sees a project through its lead sees
\* that lead on the roster.
EditorsCanSee ==
  \A u \in Users, p \in Projects :
    LET who == Who(u)
        lead == ws.leads[p]
        sees == Team!InProjectScope(who, lead, ws.contributors[p], ws.manager)
        reports == {i \in People : ws.manager[i] = who.resource}
    IN /\ Team!CanEdit(who, lead) \/ Team!IsProjectInScope(who, lead, reports) => sees
       /\ (sees /\ who.role = "DELIVERY_MANAGER" /\ who.resource # lead.dm) =>
            Team!InResourceScope(who, lead.pm, ws.home[lead.pm], ws.manager[lead.pm])

\* A person's own target is that of the role policy, unless a change is on its
\* way or the last one overlapped another or was cut between its two writes.
StaleTargetsRaced ==
  \A i \in People : (roster[i] # None /\ roster[i].policy # None) =>
    \/ roster[i].target = policies[roster[i].policy].target
    \/ roster[i].policy \in raced
    \/ \E a \in Admins : sync[a] # None /\ sync[a].policy = roster[i].policy

(***************************************************************************)
(* Action properties                                                       *)
(***************************************************************************)

\* Waiting cures nothing: when only time passes, no phase and no project gets
\* a better colour, and no pace on the schedule page improves.
TimeNeverHeals ==
  [][clock' # clock =>
       LET level == [onTrack |-> 0, warning |-> 1, critical |-> 2]
       IN \A p \in Projects :
            /\ RagRank[RagOf(p)] <= RagRank[RagOf(p)']
            /\ level[PageOf(p).worst] <= level[PageOf(p).worst']
            /\ level[PageOf(p).worstPace] <= level[PageOf(p).worstPace']
            /\ \A k \in PhaseKeys : RagRank[PhaseRag(ws.phases[p][k], clock)]
                                    <= RagRank[PhaseRag(ws.phases[p][k], clock)']]_towerVars

\* Row b is no worse news than row a: more progress, a later deadline over a
\* proper window, an earlier end, a better status.  Where a slip hides a
\* critical pace, curing the slip would show it.
NoWorse(a, b) ==
  /\ b.plannedStart = a.plannedStart /\ b.pct >= a.pct
  /\ \/ b.plannedEnd = a.plannedEnd
     \/ HasWindow(a) /\ b.plannedEnd # None /\ b.plannedEnd > a.plannedEnd
  /\ \/ b.actualEnd = a.actualEnd
     \/ None \notin {a.actualEnd, b.actualEnd} /\ b.actualEnd < a.actualEnd
  /\ b.status \in {a.status, "complete"} \/ a.status = "delayed"
  /\ Pace(a, clock) = "critical" => SlipDays(a) = SlipDays(b)

Score == [no |-> 0, partial |-> 1, yes |-> 2]

\* Control answers: some are better, or a "no" stopped applying.
NoLower(a, b) ==
  \A c \in Controls :
    \/ b[c] = a[c] \/ a[c] = "no"
    \/ "na" \notin {a[c], b[c]} /\ Score[b[c]] >= Score[a[c]]

\* Good news never hurts: while no phase of a project gets worse, no control
\* answer falls and the baseline is not unlocked, its schedule colour and its
\* health code do not get worse.
GoodNewsNeverHurts ==
  [][clock' = clock =>
       \A p \in Projects :
         (\A k \in PhaseKeys : NoWorse(ws.phases[p][k], ws'.phases[p][k])) =>
            /\ RagRank[RagOf(p)'] <= RagRank[RagOf(p)]
            /\ (NoLower(ws.answers[p], ws'.answers[p]) /\ (ws.locked[p] => ws'.locked[p])) =>
                 HealthRank[Health(p)'] <= HealthRank[Health(p)]]_towerVars
=============================================================================
