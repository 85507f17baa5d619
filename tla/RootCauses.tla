------------------------------ MODULE RootCauses ------------------------------
(* Why an engagement is at risk, and what to do about it: the financial, the  *)
(* commercial and the RAID triage, and the options of a flagged project.      *)
(* Pure functions; ControlTower keeps the rows.  Each page sorts its projects *)
(* or entries into themes, by the first rule that fires; the order it lists   *)
(* the themes in is left out.                                                 *)
EXTENDS Integers, FiniteSets, Functions

CONSTANTS ApprovalThreshold,   \* a sum an intervention may not exceed without approval
          None

(* An engagement: [cost, scope] its stored colours, [bac, spent] its stored   *)
(* money, model, locked, delayed, order, and of the costs logged on it        *)
(* [logged, vendor], the latter on contractor roles.                          *)

Variance(row) == row.spent - row.bac

(* ------------------------------ the money pages -------------------------- *)

FinancialRag(row) == row.cost

FinancialTheme(row) ==
  IF row.delayed /\ row.model = "ff" THEN "UNBILLED_MILESTONE_DELAY"
  ELSE IF row.scope = "Red" THEN "SCOPE_CREEP_OVERRUN"
  ELSE IF row.logged > 0 /\ 100 * row.vendor >= 40 * row.logged THEN "SUBCONTRACTOR_RATE_VARIANCE"
  ELSE IF Variance(row) > 0 THEN "LABOR_BURN_ACCELERATION"
  ELSE "OTHER"

\* Scope and change orders make a project Amber here, not Red.
CommercialRag(row) ==
  IF row.cost = "Red" THEN "Red"
  ELSE IF row.cost = "Amber" \/ row.scope = "Red" \/ row.order THEN "Amber"
  ELSE "Green"

CommercialTheme(row) ==
  IF row.order THEN "CHANGE_ORDER_EXPOSURE"
  ELSE IF row.cost # "Green"
       THEN IF row.model = "ff" THEN "MARGIN_SQUEEZE_FIXED_FEE" ELSE "BLENDED_RATE_EROSION"
  ELSE IF row.scope = "Red" THEN "EXCEEDED_BASELINE_SCOPE_CAP"
  ELSE "OTHER"

\* A page over all rows in scope: the totals of its first tile, and the
\* clusters of the projects that are not Green.  rag and theme are per project.
MoneyPage(rows, rag, theme) ==
  LET P == DOMAIN rows
      atRisk == {p \in P : rag[p] # "Green"}
      of(color) == {p \in atRisk : rag[p] = color}
      sold(m) == {p \in P : rows[p].model = m}
      bac(S) == SumFunction([p \in S |-> rows[p].bac])
      cluster(t) ==
        LET members == {p \in atRisk : theme[p] = t}
        IN [theme |-> t, members |-> members, red |-> Cardinality(members \cap of("Red")),
            amber |-> Cardinality(members \cap of("Amber")),
            variance |-> SumFunction([p \in members |-> Variance(rows[p])])]
  IN [bac |-> bac(P), spent |-> SumFunction([p \in P |-> rows[p].spent]),
      locked |-> Cardinality({p \in P : rows[p].locked}),
      split |-> [m \in {"ff", "tm"} |-> [count |-> Cardinality(sold(m)), bac |-> bac(sold(m))]],
      atRisk |-> atRisk, red |-> Cardinality(of("Red")), amber |-> Cardinality(of("Amber")),
      clusters |-> {cluster(theme[p]) : p \in atRisk}]

FinancialTriage(rows) ==
  MoneyPage(rows, [p \in DOMAIN rows |-> FinancialRag(rows[p])],
                  [p \in DOMAIN rows |-> FinancialTheme(rows[p])])

CommercialTriage(rows) ==
  MoneyPage(rows, [p \in DOMAIN rows |-> CommercialRag(rows[p])],
                  [p \in DOMAIN rows |-> CommercialTheme(rows[p])])

(* -------------------------------- the RAID page -------------------------- *)

(* An open entry: [type, severity, words], words how often its text names     *)
(* each theme of RaidThemes.                                                  *)

RaidThemes == <<"RESOURCE_BOTTLENECK", "INTEGRATION_DATA", "SCOPE_CREEP", "VENDOR_DELAY">>

RaidRag(entry) == IF entry.severity \in {"critical", "high"} THEN "Red" ELSE "Amber"

\* The theme named most often; of equals, the first.
RaidTheme(entry) ==
  LET best(i) == \A j \in 1..4 : \/ entry.words[j] < entry.words[i]
                                 \/ entry.words[j] = entry.words[i] /\ i <= j
      top == CHOOSE i \in 1..4 : best(i)
  IN IF entry.words[top] = 0 THEN "OTHER" ELSE RaidThemes[top]

\* raid[p] the open entries of a project; the query leaves the low ones out.
RaidTriage(raid) ==
  LET items == UNION {{[project |-> p, entry |-> e] : e \in raid[p]} : p \in DOMAIN raid}
      shown == {i \in items : i.entry.severity # "low"}
      of(color) == {i \in shown : RaidRag(i.entry) = color}
      cluster(t) ==
        LET members == {i \in shown : RaidTheme(i.entry) = t}
        IN [theme |-> t, members |-> members, red |-> Cardinality(members \cap of("Red")),
            amber |-> Cardinality(members \cap of("Amber")),
            projects |-> {i.project : i \in members}]
  IN [items |-> shown, red |-> Cardinality(of("Red")), amber |-> Cardinality(of("Amber")),
      byType |-> [t \in {"risk", "assumption", "issue", "dependency"} |->
                    Cardinality({i \in shown : i.entry.type = t})],
      clusters |-> {cluster(RaidTheme(i.entry)) : i \in shown}]

(* ------------------------------- the options ----------------------------- *)

\* Who could take over: someone of the delivery manager's role, outside the
\* project's team, with hours to spare, and most of those.
SwapCandidates(dm, team, rows) ==
  LET spare(i) == rows[i].available - 100 * rows[i].billable
      fit == {i \in DOMAIN rows \ team : /\ dm \in DOMAIN rows /\ rows[dm].role # None
                                         /\ rows[i].role = rows[dm].role /\ spare(i) > 0}
  IN {i \in fit : \A j \in fit : spare(j) <= spare(i)}

\* What is offered goes by the first driver only.
Options(drivers, candidates) ==
  LET swap == IF candidates = {} THEN {} ELSE {"resource_releveling"}
  IN IF "Over Budget" \in drivers THEN {"change_order", "margin_absorption"} \cup swap
     ELSE IF "Behind Schedule" \in drivers THEN {"timeline_extension", "scope_descope"} \cup swap
     ELSE IF "Governance Red" \in drivers THEN {"governance_remediation", "escalate_governance"}
     ELSE {}

\* Only an overrun counts as an impact, and only options that cost money ask
\* for approval; a swap asked for a late project does too.
RequiresApproval(option, row) ==
  /\ option \in {"change_order", "margin_absorption", "resource_releveling"}
  /\ Variance(row) > 0 /\ Variance(row) > ApprovalThreshold

\* The gate of an option that is said to require approval or not.
Guardrail(option, row, requires, approver) ==
  /\ option = "change_order" => row.locked
  /\ requires => approver

\* What the page previews and offers.
CanExecute(option, row, approver) ==
  Guardrail(option, row, RequiresApproval(option, row), approver)
=============================================================================
