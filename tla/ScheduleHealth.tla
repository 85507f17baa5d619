---------------------------- MODULE ScheduleHealth ----------------------------
(* How a delivery is judged: the slip and the pace of a phase, the schedule   *)
(* roll-up of a project, the schedule triage over the portfolio, the audit    *)
(* score, the health code and the executive feed.                             *)
(* Pure functions of rows; ControlTower keeps the rows.  Dates are whole days *)
(* (the forms send YYYY-MM-DD), the clock runs in TicksPerDay ticks, so "now" *)
(* falls inside a day.  Percentages are compared by cross-multiplication.     *)
EXTENDS Integers, FiniteSets, FiniteSetsExt

CONSTANTS PhaseKeys,       \* of the six canonical phases; "test" and "deploy" carry rules
          Controls,        \* the delivery controls of the audit
          TicksPerDay,     \* clock ticks in one day
          DefaultPolicy,   \* the tolerances a bare call falls back to: [warn, crit]
          GoLiveHorizon,   \* <<30, 60>> days in the code
          DriverWeight,    \* 1,000,000 in the code
          TriageLimit,     \* 6 in the code
          None

Statuses == {"notstarted", "inprogress", "complete", "delayed"}
Answers == {"yes", "partial", "no", "na"}
Rags == {"Green", "Amber", "Red"}
RagRank == [Green |-> 0, Amber |-> 1, Red |-> 2]
HealthRank == [G |-> 0, Y |-> 1, R |-> 2]

\* f itself; TLC works out once what it compares.
Tabulated(f) == CHOOSE g \in {f} : g = f

WorstOf(S) == CHOOSE x \in S : \A y \in S : RagRank[y] <= RagRank[x]

(* -------------------------------- one phase ----------------------------- *)

\* Days from the planned to the actual end; None when either is missing.
SlipDays(row) ==
  IF None \in {row.plannedEnd, row.actualEnd} THEN None ELSE row.actualEnd - row.plannedEnd

\* Nothing keeps warn below crit: the bands are tried in this order.
SlipSeverity(row, tol) ==
  IF SlipDays(row) = None THEN "unknown"
  ELSE IF SlipDays(row) <= 0 THEN "onTrack"
  ELSE IF SlipDays(row) >= tol.crit THEN "critical"
  ELSE IF SlipDays(row) >= tol.warn THEN "warning"
  ELSE "slip"

HasWindow(row) == None \notin {row.plannedStart, row.plannedEnd} /\ row.plannedEnd > row.plannedStart

\* Mutant: a window that is over has no pace.
PaceInWindow(row, now) ==
  LET gone == 100 * (now - row.plannedStart * TicksPerDay)
      window == (row.plannedEnd - row.plannedStart) * TicksPerDay
  IN IF ~HasWindow(row) \/ gone > 100 * window THEN "unknown"
     ELSE IF row.status = "complete" THEN "complete"
     ELSE IF gone > 75 * window /\ row.pct < 50 THEN "critical"
     ELSE IF gone > 50 * window /\ row.pct < 25 THEN "warning" ELSE "onPace"

\* How much of the planned window is gone, against the logged progress.
Pace(row, now) ==
  LET elapsed == 100 * (now - row.plannedStart * TicksPerDay)      \* percent, times the window
      window == (row.plannedEnd - row.plannedStart) * TicksPerDay
  IN IF ~HasWindow(row) THEN "unknown"
     ELSE IF row.status = "complete" THEN "complete"
     ELSE IF elapsed <= 0 THEN "notStarted"
     ELSE IF elapsed > 75 * window /\ row.pct < 50 THEN "critical"
     ELSE IF elapsed > 50 * window /\ row.pct < 25 THEN "warning"
     ELSE "onPace"

\* A phase's own health on the triage page, which never asks for the
\* organisation's tolerances.
PhaseRag(row, now) ==
  LET slip == SlipSeverity(row, DefaultPolicy)
      pace == Pace(row, now)
  IN IF row.status = "delayed" \/ slip = "critical" THEN "Red"
     ELSE IF slip \in {"warning", "slip"} THEN "Amber"
     ELSE IF pace = "critical" THEN "Red"
     ELSE IF pace = "warning" THEN "Amber"
     ELSE "Green"

(* ------------------------------- one project ---------------------------- *)

\* The roll-up of the schedule page: every phase counts, finished ones too.
ScheduleSummary(rows, tol, now) ==
  LET slipped(s) == {k \in PhaseKeys : SlipSeverity(rows[k], tol) = s}
      paced(s) == {k \in PhaseKeys : Pace(rows[k], now) = s}
      worst(critical, warning) == IF critical # {} THEN "critical"
                                  ELSE IF warning # {} THEN "warning" ELSE "onTrack"
      days == {SlipDays(rows[k]) : k \in {j \in PhaseKeys : SlipDays(rows[j]) # None}}
  IN [worst |-> worst(slipped("critical"), slipped("warning")),
      worstPace |-> worst(paced("critical"), paced("warning")),
      worstSlipDays |-> Max({0} \cup days)]

Active(rows) == {k \in PhaseKeys : rows[k].status # "complete"}

\* Mutant: the second tile goes by the roll-up's slip.
RagBySlip(rows, now) ==
  LET slip == ScheduleSummary(rows, DefaultPolicy, now).worst
  IN IF slip = "critical" THEN "Red" ELSE IF slip = "warning" THEN "Amber" ELSE "Green"

\* The worst phase still in flight: what puts a project on the second tile.
ProjectRag(rows, now) == WorstOf({"Green"} \cup {PhaseRag(rows[k], now) : k \in Active(rows)})

\* The root cause of a project at risk, the first rule that fires.
ScheduleTheme(rows, published, dependency) ==
  LET slipped(k) == k \in PhaseKeys /\ SlipSeverity(rows[k], DefaultPolicy) \in {"critical", "warning"}
  IN IF dependency THEN "THIRD_PARTY_DEPENDENCY"
     ELSE IF slipped("test") THEN "UAT_SIGNOFF_LAG"
     ELSE IF published.res = "Amber" /\ slipped("deploy") THEN "DEPLOYMENT_RESOURCE_CONTENTION"
     ELSE IF published.scope = "Red" THEN "SCOPE_EXPANSION_SLIPPAGE"
     ELSE "OTHER"

(* ---------------------------- the triage page --------------------------- *)

\* phases[p][k] the rows, published[p] the stored colours, dependencies the
\* projects with an open severe dependency.  The first tile counts milestones,
\* the second clusters the projects at risk by root cause.
ScheduleTriage(phases, published, dependencies, now) ==
  LET P == DOMAIN phases
      milestones(color) == SumFunction([p \in P |->
        Cardinality({k \in Active(phases[p]) : PhaseRag(phases[p][k], now) = color})])
      days(p) == phases[p]["deploy"].plannedEnd * TicksPerDay - now
      live(h) == {p \in P : /\ "deploy" \in Active(phases[p]) /\ phases[p]["deploy"].plannedEnd # None
                            /\ days(p) >= 0 /\ days(p) <= h * TicksPerDay}
      rag == Tabulated([p \in P |-> ProjectRag(phases[p], now)])
      atRisk == {p \in P : rag[p] # "Green"}
      theme == Tabulated([p \in atRisk |-> ScheduleTheme(phases[p], published[p], p \in dependencies)])
      slip(p) == ScheduleSummary(phases[p], DefaultPolicy, now).worstSlipDays
      cluster(t) ==
        LET members == {p \in atRisk : theme[p] = t}
            of(color) == Cardinality({p \in members : rag[p] = color})
        IN [theme |-> t, members |-> members, red |-> of("Red"), amber |-> of("Amber"),
            slip |-> SumFunction([p \in members |-> slip(p)])]
  IN [active |-> SumFunction([p \in P |-> Cardinality(Active(phases[p]))]),
      red |-> milestones("Red"), amber |-> milestones("Amber"), onTrack |-> milestones("Green"),
      goLive |-> [i \in 1..2 |-> Cardinality(live(GoLiveHorizon[i]))],
      clusters |-> {cluster(theme[p]) : p \in atRisk}]

(* ------------------------- the audit and the feed ------------------------ *)

\* Mutant: a control nobody answered is not applicable yet.
PctOfAnswered(answers) ==
  LET with(a) == Cardinality({c \in Controls : answers[c] = a})
      applicable == with("yes") + with("partial")
  IN IF applicable = 0 THEN 100 ELSE (100 * with("yes") + 50 * with("partial")) \div applicable

\* The compliance percentage, rounded half up; 100 when nothing applies.
AuditPct(answers) ==
  LET with(a) == Cardinality({c \in Controls : answers[c] = a})
      applicable == Cardinality(Controls) - with("na")
      halves == 2 * with("yes") + with("partial")
  IN IF applicable = 0 THEN 100 ELSE (100 * halves + applicable) \div (2 * applicable)

ProjectHealth(locked, answers) ==
  IF locked /\ AuditPct(answers) >= 80 THEN "G"
  ELSE IF locked \/ AuditPct(answers) >= 50 THEN "Y"
  ELSE "R"

Drivers(health, published) ==
  {d \in {"Governance Red", "Over Budget", "Behind Schedule"} :
     \/ d = "Governance Red" /\ health = "R"
     \/ d = "Over Budget" /\ published.cost = "Red"
     \/ d = "Behind Schedule" /\ published.sched = "Red"}

\* The executive feed: the flagged projects, worst score first, cut to the
\* limit.  Projects are numbered in the order the query returns them.
Feed(drivers, published) ==
  LET flagged == {p \in DOMAIN drivers : drivers[p] # {}}
      score(p) == Cardinality(drivers[p]) * DriverWeight + published[p].spent - published[p].bac
      ahead(p) == {q \in flagged : score(q) > score(p) \/ (score(q) = score(p) /\ q < p)}
  IN {p \in flagged : Cardinality(ahead(p)) < TriageLimit}
=============================================================================
