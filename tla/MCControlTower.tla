---------------------------- MODULE MCControlTower ----------------------------
(* ControlTower for TLC: a program with two waves in full delivery, four      *)
(* people of whom three sign in besides an administrator, and snapshots of    *)
(* that workspace and of a new one.  Tolerances are cut to a few days.        *)
EXTENDS ControlTower, TLC

CONSTANTS dir, dm, pm, arch, admin, director, manager, owner, consulting

Row(from, to, actual, pct, status) ==
  [plannedStart |-> from, plannedEnd |-> to, actualEnd |-> actual, pct |-> pct, status |-> status]

Blank == Row(None, None, None, 0, "notstarted")

MCRows == {Blank, Row(0, 2, None, 0, "inprogress"), Row(0, 2, None, 30, "inprogress"),
           Row(0, 2, 4, 60, "inprogress"), Row(0, 3, 4, 60, "inprogress"),
           Row(0, 2, 5, 60, "inprogress"), Row(0, 2, 5, 100, "complete"),
           Row(2, 1, None, 0, "delayed")}

MCDefault == [warn |-> 2, crit |-> 3]
MCPolicies == {MCDefault, [warn |-> 1, crit |-> 1]}
MCGoLive == <<1, 2>>

MCRoleOf == (admin :> "ADMIN") @@ (director :> "PRACTICE_DIRECTOR")
            @@ (manager :> "DELIVERY_MANAGER") @@ (owner :> "PROJECT_MANAGER")

MCLevel == <<"parent", "child", "child">>

MCPublished ==
  <<[cost |-> "Amber", sched |-> "Green", scope |-> "Green", res |-> "Green", bac |-> 8, spent |-> 9],
    [cost |-> "Red", sched |-> "Green", scope |-> "Red", res |-> "Amber", bac |-> 3, spent |-> 10],
    [cost |-> "Green", sched |-> "Red", scope |-> "Red", res |-> "Amber", bac |-> 8, spent |-> 4]>>

vendorLate == [type |-> "dependency", severity |-> "high", words |-> <<0, 0, 0, 2>>]
short == [type |-> "risk", severity |-> "med", words |-> <<1, 0, 1, 0>>]

Nobody == [pd |-> None, dm |-> None, pm |-> None, practice |-> None]

NoDeal == [mode |-> "matrix", model |-> "tm", contingency |-> 0, hours |-> 0, revenue |-> 0,
           margin |-> 0, cells |-> [r \in Roles |-> 0]]

SetUp ==
  [policy |-> None, card |-> [r \in Roles |-> [bill |-> 1800, cost |-> 999, type |-> "fte"]],
   leads |-> [p \in Projects |-> Nobody], parent |-> <<None, 1, None>>,
   contributors |-> [p \in Projects |-> {}],
   manager |-> [i \in People |-> None], home |-> [i \in People |-> None], job |-> [i \in People |-> None],
   phases |-> [p \in Projects |-> [k \in PhaseKeys |-> Blank]],
   answers |-> [p \in Projects |-> [c \in Controls |-> "no"]],
   locked |-> [p \in Projects |-> FALSE], raid |-> [p \in Projects |-> {}],
   deals |-> [p \in Projects |-> NoDeal],
   actuals |-> [p \in Projects |-> [k \in Keys |-> None]]]

InDelivery ==
  [SetUp EXCEPT
     !.policy = MCDefault,
     !.card = [r \in Roles |-> [bill |-> 1301, cost |-> 751, type |-> "contractor"]],
     !.leads = <<[Nobody EXCEPT !.pd = dir, !.dm = dm], [Nobody EXCEPT !.pm = pm, !.practice = consulting],
                 [Nobody EXCEPT !.dm = dm, !.pm = arch]>>,
     !.parent = <<None, 1, 1>>, !.contributors = <<{}, {arch}, {pm}>>,
     !.manager = (dir :> None) @@ (dm :> dir) @@ (pm :> dm) @@ (arch :> None),
     !.home = [i \in People |-> IF i = dir THEN consulting ELSE None],
     !.job = [i \in People |-> IF i = arch THEN "junior" ELSE "lead"],
     !.phases[2] = [k \in PhaseKeys |-> Row(0, 2, None, 30, "inprogress")],
     !.phases[3]["deploy"] = Row(0, 2, 4, 60, "inprogress"),
     !.answers[1] = [c \in Controls |-> "na"], !.answers[2] = [c \in Controls |-> "partial"],
     !.locked[2] = TRUE, !.raid[3] = {vendorLate},
     !.deals[2] = [NoDeal EXCEPT !.cells = [r \in Roles |-> 3], !.model = "ff", !.contingency = 10],
     !.deals[3] = [NoDeal EXCEPT !.mode = "direct", !.hours = 3, !.revenue = 1010, !.margin = 33]]

MCEntries == {vendorLate, short}

MCFiles == {SetUp, InDelivery}

Employee(fte, hours, projects, policy, user) ==
  [fte |-> fte, start |-> -3, end |-> None, hours |-> hours, practice |-> "TRANS-Delivery",
   projects |-> projects, policy |-> policy, target |-> 80, user |-> user]

MCSeed ==
  [ws |-> InDelivery,
   roster |-> (dir :> Employee(100, 8, 2, None, director))
              @@ (dm :> Employee(100, 60, 6, "staff", manager))
              @@ (pm :> [Employee(50, 4, 2, "staff", owner) EXCEPT !.practice = "ADVISORY"])
              @@ (arch :> [Employee(100, 0, 0, "staff", None) EXCEPT !.end = 1]),
   policies |-> ("staff" :> [target |-> 80, head |-> TRUE]),
   holidays |-> {0}]

MCIntakes == {[hours |-> 0, revenue |-> 1010, margin |-> 33],
              [hours |-> 7, revenue |-> 1010, margin |-> 33]}

Logged(hours, cost, forecast, open) ==
  [hours |-> hours, cost |-> cost, forecast |-> forecast, open |-> open]

MCReports == {Logged(1, 3, None, None), Logged(2, 20, 0, 1)}
=============================================================================
