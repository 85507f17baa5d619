----------------------------- MODULE TeamCapacity -----------------------------
(* Who can deliver and who may look: the hours a person has in a reporting    *)
(* window, utilisation against target, the resource triage, and the scope and *)
(* edit predicates over projects and people.  Pure functions; ControlTower    *)
(* keeps the rows.  Day 0 is a Monday; full-time shares and targets are       *)
(* percentages, and ratios are compared by cross-multiplication.              *)
EXTENDS Integers, FiniteSets, Functions

CONSTANTS WindowWeeks,     \* 13 in the code
          OverloadAbove,   \* 5 concurrent engagements in the code
          None

HoursPerDay == 8

(* ------------------------------ hours in a window ------------------------ *)

IsWeekday(d) == d % 7 < 5

\* The trailing window: from the Monday WindowWeeks ago to today.
TrailingWindow(today) == [start |-> today - (today % 7) - 7 * WindowWeeks, end |-> today]

\* The days of the window the person was on the roster; empty when the two
\* do not meet.
Tenure(window, person) ==
  LET from == IF window.start > person.start THEN window.start ELSE person.start
      left == IF person.end = None THEN window.end ELSE person.end
      to == IF window.end < left THEN window.end ELSE left
  IN from..to

\* Percent-hours: working days times eight times the full-time share.
AvailableHours(window, person, holidays) ==
  LET days == {d \in Tenure(window, person) : IsWeekday(d)}
  IN Cardinality(days \ holidays) * HoursPerDay * person.fte

(* A person's row: the policy of the role wins over the person's own target,  *)
(* and a person without a policy is a billable head.                          *)
CapacityRow(window, person, role, policies, holidays) ==
  [available |-> AvailableHours(window, person, holidays),
   billable |-> person.hours, fte |-> person.fte, role |-> role,
   practice |-> person.practice, projects |-> person.projects,
   head |-> IF person.policy = None THEN TRUE ELSE policies[person.policy].head,
   target |-> IF person.policy = None THEN person.target ELSE policies[person.policy].target]

\* The headline of a set of rows: hours of everyone, over the capacity of the
\* billable heads, against their target weighted by full-time share.
BlendedSummary(rows, S) ==
  LET heads == {i \in S : rows[i].head}
  IN [billable |-> SumFunction([i \in S |-> rows[i].billable]),
      available |-> SumFunction([i \in heads |-> rows[i].available]),
      fte |-> SumFunction([i \in heads |-> rows[i].fte]),
      target |-> SumFunction([i \in heads |-> rows[i].target * rows[i].fte])]

Practices(rows) == {[practice |-> q, of |-> BlendedSummary(rows, {i \in DOMAIN rows : rows[i].practice = q})]
                    : q \in {rows[i].practice : i \in DOMAIN rows}}

(* ------------------------------ resource triage -------------------------- *)

\* Utilisation is zero for a head without capacity, and attainment for one
\* without a target.
OverAllocated(row) == row.head /\ row.available > 0 /\ 10 * 100 * row.billable > 11 * row.available

UnderUtilized(row) ==
  \/ row.available = 0 \/ row.target = 0
  \/ 10 * 100 * 100 * row.billable < 7 * row.target * row.available

ResourceRag(row) ==
  IF OverAllocated(row) \/ row.projects > OverloadAbove THEN "Red"
  ELSE IF UnderUtilized(row) THEN "Amber" ELSE "Green"

\* Role names by what they read as; the bare title "pm" reads as every one.
ReadsAs(role, tier) == role \in {tier, "pm"}

ResourceTheme(row) ==
  LET rag == ResourceRag(row)
  IN IF rag = "Red" /\ ReadsAs(row.role, "senior") THEN "SENIOR_ARCHITECT_OVERALLOCATION"
     ELSE IF rag = "Red" /\ ReadsAs(row.role, "lead") THEN "LEAD_PM_CONTENTION"
     ELSE IF rag = "Amber" /\ ReadsAs(row.role, "junior") THEN "JUNIOR_ANALYST_UNDERUTILIZATION"
     ELSE IF rag = "Amber" /\ row.projects = 0 THEN "BENCH_UNDERUTILIZATION"
     ELSE "OTHER"

\* The page works its headline out again from its own rows.
ResourceTriage(rows) ==
  LET billable == {i \in DOMAIN rows : rows[i].head}
      reads(rag) == {i \in billable : ResourceRag(rows[i]) = rag}
      cluster(t) ==
        LET members == {i \in billable \ reads("Green") : ResourceTheme(rows[i]) = t}
        IN [theme |-> t, members |-> members, red |-> Cardinality(members \cap reads("Red")),
            amber |-> Cardinality(members \cap reads("Amber"))]
  IN [headline |-> [billable |-> SumFunction([i \in DOMAIN rows |-> rows[i].billable]),
                    available |-> SumFunction([i \in billable |-> rows[i].available]),
                    fte |-> SumFunction([i \in billable |-> rows[i].fte]),
                    target |-> SumFunction([i \in billable |-> rows[i].target * rows[i].fte])],
      bench |-> Cardinality({i \in billable : rows[i].projects = 0}),
      severe |-> Cardinality({i \in billable : OverAllocated(rows[i])}),
      red |-> Cardinality(reads("Red")), amber |-> Cardinality(reads("Amber")),
      optimal |-> Cardinality(reads("Green")),
      clusters |-> {cluster(ResourceTheme(rows[i])) : i \in billable \ reads("Green")}]

(* ------------------------------ scope and edit --------------------------- *)

\* who = [role, resource, practice]; a project's leads and home practice.
Holds(id, field) == id # None /\ id = field

\* Mutant: directors see what they are assigned to, not their practice.
InAssignedScope(who, project, contributors, managerOf) ==
  \/ who.role \in {"ADMIN", "VP_EXECUTIVE", "VIEWER"}
  \/ who.role = "PRACTICE_DIRECTOR" /\ Holds(who.resource, project.pd)
  \/ who.role = "DELIVERY_MANAGER" /\ Holds(who.resource, project.dm)
  \/ who.role = "PROJECT_MANAGER" /\ Holds(who.resource, project.pm)

\* The where clause of every project list.
InProjectScope(who, project, contributors, managerOf) ==
  \/ who.role \in {"ADMIN", "VP_EXECUTIVE", "VIEWER"}
  \/ /\ who.role = "PRACTICE_DIRECTOR"
     /\ Holds(who.resource, project.pd) \/ Holds(who.practice, project.practice)
  \/ /\ who.role = "DELIVERY_MANAGER" /\ who.resource # None
     /\ \/ who.resource = project.dm
        \/ project.pm # None /\ managerOf[project.pm] = who.resource
  \/ /\ who.role = "PROJECT_MANAGER"
     /\ Holds(who.resource, project.pm) \/ who.resource \in contributors

\* The per-project edit check every editing action makes.
CanEdit(who, project) ==
  \/ who.role = "ADMIN"
  \/ /\ who.role = "PRACTICE_DIRECTOR"
     /\ Holds(who.resource, project.pd) \/ Holds(who.practice, project.practice)
  \/ who.role = "PROJECT_MANAGER" /\ Holds(who.resource, project.pm)

\* The predicate over one project that is tested as the meaning of the where
\* clause; it does not know contributors.
IsProjectInScope(who, project, reports) ==
  \/ who.role \in {"ADMIN", "VP_EXECUTIVE", "VIEWER"}
  \/ /\ who.role = "PRACTICE_DIRECTOR"
     /\ Holds(who.resource, project.pd) \/ Holds(who.practice, project.practice)
  \/ /\ who.role = "DELIVERY_MANAGER" /\ who.resource # None
     /\ who.resource = project.dm \/ project.pm \in reports
  \/ who.role = "PROJECT_MANAGER" /\ Holds(who.resource, project.pm)

\* Roster visibility.
InResourceScope(who, i, practice, manager) ==
  \/ who.role \in {"ADMIN", "VP_EXECUTIVE", "VIEWER"}
  \/ who.role = "PRACTICE_DIRECTOR" /\ (IF who.practice # None THEN who.practice = practice
                                        ELSE Holds(who.resource, i))
  \/ who.role = "DELIVERY_MANAGER" /\ (Holds(who.resource, i) \/ Holds(who.resource, manager))
  \/ who.role = "PROJECT_MANAGER" /\ Holds(who.resource, i)
=============================================================================
