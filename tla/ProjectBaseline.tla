--------------------------- MODULE ProjectBaseline ---------------------------
(***************************************************************************)
(* One project of a tenant: its sizing, the baseline locked from it, the   *)
(* records whose changes go on the audit trail, and interventions (the     *)
(* actions of server/actions/projects, ingestion, financials, audit, raid  *)
(* and portfolio-interventions), while administrators change the rate card *)
(* (admin) and restore a workspace file (backup).                          *)
(*                                                                         *)
(* Every action authorizes and reads first, each read a query of its own,  *)
(* and then writes in one transaction; other requests run in between, and  *)
(* nothing is locked or compared at the write.  The sizing is one phase,   *)
(* the commercial model T&M, a bill rate a small number.  The activity     *)
(* feed, the ledger's own failures and the tenant's write guard are in     *)
(* other modules, and schedule phases and RAID texts, overwritten without  *)
(* being read and on no trail, in none.                                    *)
(***************************************************************************)
EXTENDS Integers, FiniteSets, Functions

CONSTANTS
  Requests,   \* calls of the actions
  Roles,      \* ids of rate card roles
  Hours,      \* hours of a cell of the effort matrix
  Rates,      \* bill rates
  Revenue,    \* what direct intake may say
  Items,      \* records under the audit trail: those of ItemKinds that are looked at
  Files,      \* workspace files there are to restore
  None        \* no baseline, no role

ItemKinds == {"control", "escalation", "actual"}

\* The mode, direct revenue and effort matrix of a Project; a rate card; a workspace file.
Sizing == [mode : {"MATRIX", "DIRECT"}, direct : Revenue, cells : [Roles -> Hours]]

Card == [Roles -> Rates \cup {None}]

File == [sizing : Sizing, card : Card, totals : Nat \cup {None}, item : [Items -> BOOLEAN]]

ASSUME ProjectAssumption ==
  /\ IsFiniteSet(Roles)
  /\ Hours \subseteq Nat /\ 0 \in Hours
  /\ Rates \subseteq Nat \ {0}
  /\ Revenue \subseteq Nat /\ 0 \in Revenue
  /\ Items \subseteq ItemKinds
  /\ None \notin Int
  /\ Files \subseteq File

VARIABLES
  sizing,   \* mode, direct revenue and effort matrix of the Project
  card,     \* card[a]: the bill rate of role a, or None
  base,     \* locked, the baselineSnapshot, and history: the lock call it is from
  item,     \* item[i]: FALSE or TRUE, the status, flag or figures of i
  silent,   \* history: how a record was changed or a baseline discarded unrecorded
  req       \* the requests

vars == <<sizing, card, base, item, silent, req>>

(***************************************************************************)
(* rbac.ts                                                                 *)
(***************************************************************************)
DeliveryRole ==
  {"ADMIN", "VP_EXECUTIVE", "PRACTICE_DIRECTOR", "DELIVERY_MANAGER", "PROJECT_MANAGER", "VIEWER"}

\* Who of the PERMISSIONS matrix may approve.
Approvers == {"ADMIN", "PRACTICE_DIRECTOR", "DELIVERY_MANAGER"}

\* canEditProject, for a director and a manager who are those of the project.
Editors == {"ADMIN", "PRACTICE_DIRECTOR", "PROJECT_MANAGER"}

(***************************************************************************)
(* sizing.ts                                                               *)
(***************************************************************************)
\* computeTotalsFor, the revenue: a cell whose role is not on the card counts nothing.
RevenueOf(mode, direct, cells, roles) ==
  IF mode = "DIRECT"
  THEN direct
  ELSE SumFunction([a \in {b \in Roles : roles[b] # None} |-> cells[a] * roles[a]])

SizedNow(s, c) == RevenueOf(s.mode, s.direct, s.cells, c)

(***************************************************************************)
(* State                                                                   *)
(***************************************************************************)
Kinds == {"lock", "unlock", "cell", "import", "record", "intervene"}

\* order says whether an intervention is a change order, approve whether it calls for an
\* approval, may whether its caller may give it.  saw is the lock or the value a request
\* has read, sized and roles the sizing and the card.  raced is history:
\* something the request has to do with was changed since it began.
Request ==
  [pc : {"idle", "begun", "read", "sized", "done", "refused"},
   kind : Kinds \cup {"none"}, may : BOOLEAN, order : BOOLEAN, approve : BOOLEAN,
   on : Items \cup {"none"}, saw : BOOLEAN, sized : Sizing, roles : Card,
   raced : BOOLEAN]

Unsized == [mode |-> "MATRIX", direct |-> 0, cells |-> [a \in Roles |-> 0]]

NoCard == [a \in Roles |-> None]

Idle == [pc |-> "idle", kind |-> "none", may |-> FALSE, order |-> FALSE, approve |-> FALSE,
         on |-> "none", saw |-> FALSE, sized |-> Unsized, roles |-> NoCard,
         raced |-> FALSE]

\* createProject: no sizing, no lock.  The card is what the administrators have made it.
Init ==
  /\ sizing = Unsized
  /\ card \in [Roles -> Rates \cup {None}]
  /\ base = [locked |-> FALSE, totals |-> None, exact |-> TRUE, quiet |-> TRUE]
  /\ item = [i \in Items |-> FALSE]
  /\ silent = {}
  /\ req = [r \in Requests |-> Idle]

(***************************************************************************)
(* Helpers                                                                 *)
(***************************************************************************)
At(r, kinds, pc) == req[r].kind \in kinds /\ req[r].pc = pc

AtRest(r) == req[r].pc \in {"idle", "done", "refused"}

Ended(r, pc) == [Idle EXCEPT !.pc = pc]

\* The requests, where r becomes x and what has been changed tells those it concerns.
Tell(r, x, concerns(_)) ==
  req' = [q \in Requests |->
            IF q = r THEN x
            ELSE IF AtRest(q) THEN req[q]
            ELSE [req[q] EXCEPT !.raced = @ \/ concerns(req[q])]]

Continue(r, x) == req' = [req EXCEPT ![r] = x]

ConcernsSizing(q) == q.kind = "lock"

\* Was what a request does unrecorded raced?
Silence(r) == IF req[r].raced THEN "raced" ELSE "unraced"

(***************************************************************************)
(* Reading                                                                 *)
(***************************************************************************)
\* The session tells the role; authorizeProjectEdit and canEditProject refuse the rest.
Begin(r, kind, who, on, order, approve) ==
  /\ req[r].pc = "idle"
  /\ (kind = "record") <=> (on # "none")
  /\ order \/ approve => kind = "intervene"
  /\ Continue(r, IF who \in Editors
                 THEN [Idle EXCEPT !.pc = "begun", !.kind = kind, !.on = on,
                         !.order = order, !.approve = approve,
                         !.may = approve /\ who \in Approvers]
                 ELSE [Idle EXCEPT !.pc = "refused"])
  /\ UNCHANGED <<sizing, card, base, item, silent>>

\* The project, or the previous state of the record.  An escalation that is already as
\* it should be is left alone.
ReadProject(r, to) ==
  /\ At(r, {"lock", "unlock", "record", "intervene"}, "begun")
  /\ LET saw == IF req[r].kind = "record" THEN item[req[r].on] ELSE base.locked
     IN  Continue(r, IF req[r].on = "escalation" /\ saw = to
                     THEN Ended(r, "done")
                     ELSE [req[r] EXCEPT !.pc = IF req[r].kind = "lock" THEN "sized" ELSE "read",
                             !.saw = saw,
                             !.sized = IF req[r].kind = "lock" THEN sizing ELSE Unsized])
  /\ UNCHANGED <<sizing, card, base, item, silent>>

\* The rate card: for the totals of a lock, for the role of a cell, for the names in a file.
ReadCard(r) ==
  /\ At(r, {"lock"}, "sized") \/ At(r, {"cell", "import"}, "begun")
  /\ Continue(r, [req[r] EXCEPT !.pc = "read", !.roles = card])
  /\ UNCHANGED <<sizing, card, base, item, silent>>

(***************************************************************************)
(* Writing                                                                 *)
(***************************************************************************)
\* Mutant: the matrix is what counts, whatever the mode.
LockMatrix(r) ==
  /\ At(r, {"lock"}, "read")
  /\ LET totals == RevenueOf("MATRIX", 0, req[r].sized.cells, req[r].roles)
     IN  base' = [locked |-> TRUE, totals |-> totals,
                  exact |-> totals = SizedNow(sizing, card), quiet |-> ~req[r].raced]
  /\ Tell(r, Ended(r, "done"), LAMBDA q : q.kind = "unlock")
  /\ UNCHANGED <<sizing, card, item, silent>>

\* toggleProjectLock(true): the totals of what was read become the baseline, also over
\* one that is locked already.  exact and quiet are history: the totals are those of this
\* moment; nothing they come from was changed while the lock ran.
Lock(r) ==
  /\ At(r, {"lock"}, "read")
  /\ LET totals == SizedNow(req[r].sized, req[r].roles)
     IN  base' = [locked |-> TRUE, totals |-> totals,
                  exact |-> totals = SizedNow(sizing, card), quiet |-> ~req[r].raced]
  /\ Tell(r, Ended(r, "done"), LAMBDA q : q.kind = "unlock")
  /\ UNCHANGED <<sizing, card, item, silent>>

\* toggleProjectLock(false): an override is told to the ledger if the project was locked
\* when it was read.
Unlock(r) ==
  /\ At(r, {"unlock"}, "read")
  /\ base' = [locked |-> FALSE, totals |-> None, exact |-> TRUE, quiet |-> TRUE]
  /\ silent' = IF base.locked /\ ~req[r].saw THEN silent \cup {Silence(r)} ELSE silent
  /\ Tell(r, Ended(r, "done"), LAMBDA q : q.kind = "unlock")
  /\ UNCHANGED <<sizing, card, item>>

\* updateEffortCell: the role was there when it was looked up, and the row needs it.  A
\* locked project is edited like any other.
SetCell(r, a, h) ==
  /\ At(r, {"cell"}, "read")
  /\ IF req[r].roles[a] = None \/ card[a] = None
     THEN Continue(r, Ended(r, "refused")) /\ UNCHANGED sizing
     ELSE /\ sizing' = [sizing EXCEPT !.cells[a] = h]
          /\ Tell(r, Ended(r, "done"), ConcernsSizing)
  /\ UNCHANGED <<card, base, item, silent>>

\* commitCsvImport of an effort matrix: every row whose role was found, in one
\* transaction with its entry on the trail; a row whose role has gone aborts them all.
ImportCells(r, h) ==
  /\ At(r, {"import"}, "read")
  /\ LET found == {a \in Roles : req[r].roles[a] # None}
     IN  CASE found = {} -> Continue(r, Ended(r, "refused")) /\ UNCHANGED sizing
           [] \E a \in found : card[a] = None -> Continue(r, Ended(r, "refused")) /\ UNCHANGED sizing
           [] OTHER ->
                /\ sizing' = [sizing EXCEPT !.cells = [a \in Roles |-> IF a \in found THEN h ELSE @[a]]]
                /\ Tell(r, Ended(r, "done"), ConcernsSizing)
  /\ UNCHANGED <<card, base, item, silent>>

\* updateDirectIntake and setEstimationMode by one of the Editors, like the next two:
\* they read nothing but the authority.
SetIntake(mode, direct) ==
  /\ sizing' = [sizing EXCEPT !.mode = mode, !.direct = direct]
  /\ mode = sizing.mode \/ direct = sizing.direct
  /\ Tell(None, Idle, ConcernsSizing)
  /\ UNCHANGED <<card, base, item, silent>>

\* Mutant: the trail tells of a change from what the client has shown.
RecordByClient(r, to) ==
  /\ At(r, {"record"}, "read")
  /\ item' = [item EXCEPT ![req[r].on] = to]
  /\ silent' = IF item[req[r].on] # to /\ to THEN silent \cup {Silence(r)} ELSE silent
  /\ Tell(r, Ended(r, "done"), LAMBDA q : q.on = req[r].on)
  /\ UNCHANGED <<sizing, card, base>>

\* updateAuditEntry, toggleRaidEscalation, updateFinancialActual: the record, and an
\* entry on the trail; for a control only if the new status is not the one that was
\* read.  (Figures are compared too, but a stored cost is a Decimal and the new one a
\* number, which never read the same.)
Record(r, to) ==
  /\ At(r, {"record"}, "read")
  /\ req[r].on = "escalation" => to # req[r].saw
  /\ item' = [item EXCEPT ![req[r].on] = to]
  /\ silent' = IF req[r].on = "control" /\ item["control"] # to /\ req[r].saw = to
               THEN silent \cup {Silence(r)} ELSE silent
  /\ Tell(r, Ended(r, "done"), LAMBDA q : q.on = req[r].on)
  /\ UNCHANGED <<sizing, card, base>>

\* Two more write without having read.  updateRaidEntry: the form of a RAID item takes
\* the flag of its escalation along, with nothing on the trail.  commitCsvImport of
\* financials, and a batch of forecasts: one entry for the file.
Overwrite(i, to) ==
  /\ i \in {"escalation", "actual"}
  /\ item' = [item EXCEPT ![i] = to]
  /\ silent' = IF i = "escalation" /\ item[i] # to THEN silent \cup {"form"} ELSE silent
  /\ Tell(None, Idle, LAMBDA q : q.on = i)
  /\ UNCHANGED <<sizing, card, base>>

\* submitPortfolioIntervention: checkGuardrail on what was read, then record, trail and
\* ledger in one transaction.
Intervene(r) ==
  /\ At(r, {"intervene"}, "read")
  /\ Continue(r, Ended(r, IF /\ req[r].order => req[r].saw
                             /\ req[r].approve => req[r].may
                          THEN "done" ELSE "refused"))
  /\ UNCHANGED <<sizing, card, base, item, silent>>

\* A statement fails, or the transaction does: nothing is written.
Fail(r) ==
  /\ ~AtRest(r)
  /\ Continue(r, Ended(r, "refused"))
  /\ UNCHANGED <<sizing, card, base, item, silent>>

(***************************************************************************)
(* Administrators                                                          *)
(***************************************************************************)
\* createDeliveryRole; and deleteDeliveryRole, which takes the cells of the role with it.
AddRole(a, rate) ==
  /\ card[a] = None
  /\ card' = [card EXCEPT ![a] = rate]
  /\ Tell(None, Idle, ConcernsSizing)
  /\ UNCHANGED <<sizing, base, item, silent>>

DropRole(a) ==
  /\ card[a] # None
  /\ card' = [card EXCEPT ![a] = None]
  /\ sizing' = [sizing EXCEPT !.cells[a] = 0]
  /\ Tell(None, Idle, ConcernsSizing)
  /\ UNCHANGED <<base, item, silent>>

\* restoreWorkspaceSnapshot, in one transaction: roles in the file are put back, others
\* stay; the project's fields and rows become those of the file.  A file without a
\* baseline leaves the baseline that is there.  Cells without a role are refused before.
Restore(file) ==
  /\ \A a \in Roles : file.sizing.cells[a] # 0 => file.card[a] # None
  /\ card' = [a \in Roles |-> IF file.card[a] = None THEN card[a] ELSE file.card[a]]
  /\ sizing' = file.sizing
  /\ base' = [locked |-> file.totals # None,
              totals |-> IF file.totals = None THEN base.totals ELSE file.totals,
              exact |-> TRUE, quiet |-> TRUE]
  /\ item' = file.item
  /\ Tell(None, Idle, LAMBDA q : TRUE)
  /\ UNCHANGED silent

Step(r) ==
  \/ ReadCard(r) \/ Lock(r) \/ Unlock(r) \/ Intervene(r) \/ Fail(r)
  \/ \E h \in Hours : ImportCells(r, h) \/ \E a \in Roles : SetCell(r, a, h)
  \/ \E to \in BOOLEAN : ReadProject(r, to) \/ Record(r, to)

Administer ==
  \/ \E a \in Roles : DropRole(a) \/ \E rate \in Rates : AddRole(a, rate)
  \/ \E file \in Files : Restore(file)

Next ==
  \/ \E r \in Requests :
       \/ Step(r)
       \/ \E kind \in Kinds, who \in DeliveryRole, on \in Items \cup {"none"}, order, approve \in BOOLEAN :
            Begin(r, kind, who, on, order, approve)
  \/ \E mode \in {"MATRIX", "DIRECT"}, direct \in Revenue : SetIntake(mode, direct)
  \/ \E i \in Items, to \in BOOLEAN : Overwrite(i, to)
  \/ Administer

Spec == Init /\ [][Next]_vars

(***************************************************************************)
(* Properties                                                              *)
(***************************************************************************)
TypeOK ==
  /\ sizing \in Sizing
  /\ card \in Card
  /\ base.locked \in BOOLEAN /\ base.totals \in Nat \cup {None}
  /\ base.exact \in BOOLEAN /\ base.quiet \in BOOLEAN
  /\ item \in [Items -> BOOLEAN]
  /\ silent \subseteq {"raced", "unraced", "form"}
  /\ req \in [Requests -> Request]

\* A locked project has a baseline, and the baseline is what the project was worth when
\* it was locked, unless sizing or rate card were changed between the reads of the lock:
\* then it may be a sum that never was.
LocksAreExact == base.locked => base.totals # None /\ (base.quiet => base.exact)

\* A baseline is discarded without an override on the ledger, and a control, an
\* escalation or a figure changed without an entry on the trail, only when another
\* request changed the same between the read and the write, or when an escalation was
\* changed in the form of its RAID item (updateRaidEntry, raid.ts:126).
SilentChangesExplained == "unraced" \notin silent

\* As documented, the trail has every escalation and control status that changed
\* (docs/SECURITY.md:455-456): nothing is silent unless it was raced.
OnlyRacesAreSilent == silent \subseteq {"raced"}

\* As the code says of unlocking, no stale baseline stays around.
UnlockedHasNoBaseline == ~base.locked => base.totals = None
=============================================================================
