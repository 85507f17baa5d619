---------------------------- MODULE WorkspaceProofs ----------------------------
(***************************************************************************)
(* Theorems about what the people of a workspace see of it: the marks and  *)
(* the health of its integrations (IntegrationSync), then the portfolio as *)
(* its pages judge it (ControlTower).  The two share no variable; each part *)
(* stands on an invariant of its own.                                      *)
(***************************************************************************)
EXTENDS IntegrationSync, ControlTower, SumTheorems

(***************************************************************************)
(* IntegrationSync, for any connections, calls, sweeps and bound on the    *)
(* pages: no sync that ends leaves its mark, what the health matrix shows  *)
(* can be explained, and nothing outlives a deletion.                      *)
(***************************************************************************)

Resting == {"idle", "next", "dead"}

Syncing(x) == run[x].kind = "sync" /\ run[x].pc \in {"marked", "pulling", "pulled"}

\* What a call or a sweep has read and found still holds of its connection, or the
\* connection is deleted: there is a secret, there is a row in the error log.  And
\* without a secret nothing is pulled.
Informed(x) ==
  LET r == run[x]
  IN /\ r.pc \notin Resting => r.on \in Connections
     /\ r.secret # "none" => /\ r.pc \notin Resting
                             /\ \/ conn[r.on].status = "deleted"
                                \/ conn[r.on].status # "none" /\ conn[r.on].secret # "none"
     /\ r.pc = "passed" => r.secret # "none"
     /\ r.pc = "noted" => errlog[r.on] \/ conn[r.on].status = "deleted"
     /\ r.secret = "none" => ~r.got /\ (r.pc = "pulled" => r.bad)
     /\ r.pc \in {"read", "marked"} => r.pages = 0
     /\ r.pc = "begun" => r.pages = 0 /\ ~r.got
     /\ r.pc = "pulling" => r.pages < MaxPages

IInv ==
  /\ TypeOK
  /\ SyncingIsTrue /\ HealthIsExplained /\ NothingOutlivesDeletion
  /\ \A x \in Runners : Informed(x)

\* The invariant holds where nothing is connected yet.
LEMMA InitHolds == Init => IInv
<1> SUFFICES ASSUME Init PROVE IInv
  OBVIOUS
<1>1. TypeOK
  BY IntegrationAssumption DEF Init, TypeOK, Connection, Runner, Idle, Outcome
<1>2. SyncingIsTrue /\ HealthIsExplained /\ NothingOutlivesDeletion
  BY DEF Init, SyncingIsTrue, HealthIsExplained, NothingOutlivesDeletion
<1>3. \A x \in Runners : Informed(x)
  BY DEF Init, Informed, Idle, Resting
<1> QED BY <1>1, <1>2, <1>3 DEF IInv

\* A step of one call or sweep keeps what the others have read.
LEMMA StepKeepsInv ==
  ASSUME IInv, TypeOK', NEW x \in Runners, NEW q \in Runner, run' = [run EXCEPT ![x] = q],
         \A c \in Connections :
           /\ conn[c].status # "none" => conn'[c].status # "none"
           /\ conn[c].status = "deleted" => conn'[c].status = "deleted"
           /\ conn'[c].status # "deleted" => /\ conn[c].secret # "none" => conn'[c].secret # "none"
                                             /\ errlog[c] => errlog'[c],
         Informed(x)', SyncingIsTrue', HealthIsExplained', NothingOutlivesDeletion'
  PROVE  IInv'
<1> SUFFICES ASSUME NEW y \in Runners, y # x PROVE Informed(y)'
  BY DEF IInv
<1>1. run'[y] = run[y] /\ Informed(y)
  BY DEF IInv, TypeOK
<1>2. run[y].pc \notin Resting => run[y].on \in Connections
  BY <1>1 DEF Informed
<1> QED BY <1>1, <1>2 DEF Informed, Resting

\* Most steps only move a call on.
LEMMA MoveKeepsInv ==
  ASSUME IInv, NEW x \in Runners, NEW q \in Runner, run' = [run EXCEPT ![x] = q],
         UNCHANGED <<provider, conn, runs, errlog>>, Informed(x)',
         \/ lost' = lost /\ (Syncing(x) => q.on = run[x].on /\ Syncing(x)')
         \/ \E how \in {"threw", "drifted", "crashed"} : Syncing(x) /\ Strand(x, how)
  PROVE  IInv'
<1>1. run[x].pc \notin Resting => run[x].on \in Connections
  BY DEF IInv, Informed
<1>2. TypeOK'
  BY <1>1 DEF IInv, TypeOK, Strand, Syncing, Resting
<1>3. \A c \in Connections : lost[c] # "none" => lost'[c] # "none"
  BY <1>1 DEF IInv, TypeOK, Strand, Syncing, Resting
<1>4. SyncingIsTrue'
  <2> SUFFICES ASSUME NEW c \in Connections, conn[c].status = "SYNCING", lost'[c] = "none"
               PROVE  \E y \in Runners : /\ run'[y].on = c /\ run'[y].kind = "sync"
                                         /\ run'[y].pc \in {"marked", "pulling", "pulled"}
    BY DEF SyncingIsTrue
  <2>1. PICK y \in Runners : run[y].on = c /\ Syncing(y)
    BY <1>3 DEF IInv, SyncingIsTrue, Syncing
  <2>2. CASE y # x
    BY <2>1, <2>2 DEF IInv, TypeOK, Syncing
  <2>3. CASE y = x
    <3>1. lost' = lost
      BY <2>1, <2>3 DEF IInv, TypeOK, Strand
    <3>2. q.on = c /\ Syncing(x)'
      BY <2>1, <2>3, <3>1 DEF IInv, TypeOK, Strand
    <3> QED BY <3>2 DEF IInv, TypeOK, Syncing
  <2> QED BY <2>2, <2>3
<1>5. HealthIsExplained'
  BY DEF IInv, HealthIsExplained
<1>6. NothingOutlivesDeletion'
  BY <1>1 DEF IInv, NothingOutlivesDeletion, Strand, Syncing, Resting, TypeOK
<1> QED BY <1>2, <1>4, <1>5, <1>6, StepKeepsInv DEF IInv

\* What is over has nothing in hand.
LEMMA EndRests ==
  ASSUME TypeOK, NEW x \in Runners, End(x)
  PROVE  \E q \in Runner : /\ run' = [run EXCEPT ![x] = q]
                           /\ q.pc \in Resting /\ q.secret = "none" /\ q.kind = "none" /\ ~q.got
<1>1. run[x].queue \in SUBSET Connections
  BY DEF TypeOK, Runner
<1>2. Idle \in Runner /\ [Idle EXCEPT !.pc = "next", !.queue = run[x].queue] \in Runner
  <2>1. Idle \in Runner
    BY IntegrationAssumption DEF Idle, Runner
  <2> QED BY <1>1, <2>1 DEF Runner
<1>3. CASE x \in Sweeps
  BY <1>2, <1>3 DEF End, Continue, Idle, Resting
<1>4. CASE x \notin Sweeps
  BY <1>2, <1>4 DEF End, Continue, Idle, Resting
<1> QED BY <1>3, <1>4

\* What is over, and has not been syncing, leaves no trace.
LEMMA EndKeepsInv ==
  ASSUME IInv, NEW x \in Runners, End(x), UNCHANGED <<provider, conn, runs, errlog>>,
         \/ lost' = lost /\ ~Syncing(x)
         \/ \E how \in {"threw", "drifted", "crashed"} : Syncing(x) /\ Strand(x, how)
  PROVE  IInv'
<1>1. PICK q \in Runner : /\ run' = [run EXCEPT ![x] = q]
                          /\ q.pc \in Resting /\ q.secret = "none" /\ q.kind = "none" /\ ~q.got
  BY EndRests DEF IInv
<1>2. Informed(x)'
  BY <1>1 DEF IInv, TypeOK, Informed, Resting
<1> QED BY <1>1, <1>2, MoveKeepsInv

\* Calls begin, sweeps find and go on.
LEMMA BeginKeepsInv ==
  ASSUME IInv, NEW x \in Runners,
         \/ \E kind \in {"update", "test", "delete", "sync"}, c \in Connections : Begin(x, kind, c)
         \/ FindDue(x) \/ SweepNext(x)
  PROVE  IInv'
<1>1. Idle \in Runner /\ run \in [Runners -> Runner]
  BY IntegrationAssumption DEF Idle, Runner, IInv, TypeOK
<1>2. /\ UNCHANGED <<provider, conn, runs, errlog, lost>>
      /\ run[x].pc \in Resting
      /\ \E q \in Runner :
           /\ run' = [run EXCEPT ![x] = q]
           /\ q.secret = "none" /\ ~q.got /\ q.pages = 0
           /\ q.pc \in {"idle", "next"} \/ (q.pc = "begun" /\ q.on \in Connections)
  <2>1. CASE \E kind \in {"update", "test", "delete", "sync"}, c \in Connections : Begin(x, kind, c)
    <3>1. PICK kind \in {"update", "test", "delete", "sync"}, c \in Connections : Begin(x, kind, c)
      BY <2>1
    <3>2. [Idle EXCEPT !.pc = "begun", !.kind = kind, !.on = c] \in Runner
      BY <1>1 DEF Runner
    <3> QED BY <3>1, <3>2 DEF Begin, Continue, Idle, Resting
  <2>2. CASE FindDue(x)
    <3> DEFINE due == {c \in Connections : conn[c].status = "CONNECTED" /\ conn[c].due}
    <3>1. [Idle EXCEPT !.pc = "next", !.queue = due] \in Runner
      BY <1>1 DEF Runner
    <3> QED BY <2>2, <3>1 DEF FindDue, Continue, Idle, Resting
  <2>3. CASE SweepNext(x)
    <3>1. CASE run[x].queue = {}
      BY <1>1, <2>3, <3>1 DEF SweepNext, Continue, Idle, Resting
    <3>2. CASE run[x].queue # {}
      <4>1. PICK c \in run[x].queue :
              Continue(x, [Idle EXCEPT !.pc = "begun", !.kind = "sync", !.on = c,
                                       !.queue = run[x].queue \ {c}])
        BY <2>3, <3>2 DEF SweepNext
      <4>2. c \in Connections /\ run[x].queue \ {c} \in SUBSET Connections
        BY <1>1 DEF Runner
      <4>3. [Idle EXCEPT !.pc = "begun", !.kind = "sync", !.on = c,
                         !.queue = run[x].queue \ {c}] \in Runner
        BY <1>1, <4>2 DEF Runner
      <4> QED BY <2>3, <4>1, <4>2, <4>3 DEF SweepNext, Continue, Idle, Resting
    <3> QED BY <3>1, <3>2
  <2> QED BY <2>1, <2>2, <2>3
<1>3. PICK q \in Runner :
        /\ run' = [run EXCEPT ![x] = q]
        /\ q.secret = "none" /\ ~q.got /\ q.pages = 0
        /\ q.pc \in {"idle", "next"} \/ (q.pc = "begun" /\ q.on \in Connections)
  BY <1>2
<1>4. Informed(x)' /\ ~Syncing(x)
  BY <1>1, <1>2, <1>3 DEF Informed, Syncing, Resting
<1> QED BY <1>2, <1>3, <1>4, MoveKeepsInv

\* The first read, which a deleted connection does not survive.
LEMMA ReadKeepsInv == ASSUME IInv, NEW x \in Runners, ReadConnection(x) PROVE IInv'
<1>1. /\ run[x].pc = "begun" /\ ~Syncing(x) /\ Informed(x) /\ run[x] \in Runner
      /\ UNCHANGED <<provider, conn, runs, errlog, lost>>
  BY DEF ReadConnection, Syncing, IInv, TypeOK
<1>2. CASE ~Exists(run[x].on)
  BY <1>1, <1>2, EndKeepsInv DEF ReadConnection
<1>3. CASE Exists(run[x].on)
  <2> DEFINE q == [run[x] EXCEPT !.pc = "read", !.secret = conn[run[x].on].secret]
  <2>1. run' = [run EXCEPT ![x] = q] /\ run'[x] = q
    BY <1>3 DEF ReadConnection, Continue, IInv, TypeOK
  <2>2. run[x].on \in Connections /\ conn[run[x].on] \in Connection
    BY <1>1 DEF Informed, Resting, IInv, TypeOK
  <2>3. /\ q \in Runner /\ q.pc = "read" /\ q.on = run[x].on /\ q.secret = conn[q.on].secret
        /\ q.got = run[x].got /\ q.pages = run[x].pages
    BY <1>1, <2>2 DEF Runner, Connection
  <2> HIDE DEF q
  <2>4. Informed(x)'
    BY <1>1, <1>3, <2>1, <2>2, <2>3 DEF Informed, Resting, Exists
  <2> QED BY <1>1, <2>1, <2>3, <2>4, MoveKeepsInv
<1> QED BY <1>2, <1>3

\* The external system answers a test.
LEMMA ProbeKeepsInv ==
  ASSUME IInv, NEW x \in Runners, NEW how \in {"passed", "refused", "thrown"}, Probe(x, how)
  PROVE  IInv'
<1>1. /\ run[x].pc = "read" /\ ~Syncing(x) /\ Informed(x) /\ run[x] \in Runner
      /\ UNCHANGED <<provider, conn, runs, errlog, lost>>
      /\ run[x].secret = "none" => how # "passed"
  BY DEF Probe, At, Syncing, IInv, TypeOK
<1>2. CASE how = "thrown"
  BY <1>1, <1>2, EndKeepsInv DEF Probe
<1>3. CASE how # "thrown"
  <2> DEFINE q == [run[x] EXCEPT !.pc = how]
  <2>1. run' = [run EXCEPT ![x] = q] /\ run'[x] = q
    BY <1>3 DEF Probe, Goto, Continue, IInv, TypeOK
  <2>2. /\ q \in Runner /\ q.pc = how /\ q.on = run[x].on /\ q.secret = run[x].secret
        /\ q.got = run[x].got
    BY <1>1, <1>3 DEF Runner
  <2> HIDE DEF q
  <2>3. Informed(x)'
    BY <1>1, <1>3, <2>1, <2>2 DEF Informed, Resting
  <2> QED BY <1>1, <2>1, <2>2, <2>3, MoveKeepsInv
<1> QED BY <1>2, <1>3

\* What an adapter makes of a reply; without a secret it refuses.
LEMMA PullResult ==
  ASSUME NEW p \in Providers, NEW secret \in BOOLEAN, NEW first \in BOOLEAN, NEW reply \in Reply
  PROVE  LET page == Pull(p, secret, first, reply)
         IN /\ page.is \in {"thrown", "failed", "page"}
            /\ ~secret => page.is = "failed"
            /\ page.is = "page" => page.next \in BOOLEAN /\ page.bad \in BOOLEAN /\ page.records \in Nat
<1>1. /\ Failed.is = "failed" /\ Thrown.is = "thrown"
      /\ \A n \in Nat, b, m \in BOOLEAN :
           LET page == Page(n, b, m)
           IN page.is = "page" /\ page.next = m /\ page.bad = b /\ page.records = n
  BY DEF Failed, Thrown, Page
<1>2. reply.items \in Nat /\ reply.more \in BOOLEAN
  BY DEF Reply
<1> DEFINE Good(page) == \/ page.is \in {"thrown", "failed"}
                         \/ /\ page.is = "page"
                            /\ page.next \in BOOLEAN /\ page.bad \in BOOLEAN /\ page.records \in Nat
<1>3. Good(Failed) /\ Good(Thrown) /\ \A n \in Nat, b \in BOOLEAN : Good(Page(n, b, reply.more))
  BY <1>1, <1>2
<1> HIDE DEF Good
<1>4. Good(MondayPull(first, reply))
  BY <1>3 DEF MondayPull
<1>5. Good(CountingPull(reply)) /\ Good(ListingPull(reply))
  <2>1. CASE ~GetJson(reply)
    BY <1>3, <2>1 DEF CountingPull, ListingPull, GetJson
  <2>2. CASE GetJson(reply) /\ reply.kind \in {"errors", "drift"}
    BY <1>3, <2>2 DEF CountingPull, ListingPull
  <2>3. CASE GetJson(reply) /\ reply.kind \notin {"errors", "drift"}
    <3> DEFINE odd == reply.kind = "odd" /\ reply.items > 0
    <3>1. /\ CountingPull(reply) = Page(1, FALSE, reply.more)
          /\ ListingPull(reply) = Page(reply.items, odd, reply.more)
      BY <2>3 DEF CountingPull, ListingPull
    <3>2. odd \in BOOLEAN
      OBVIOUS
    <3> HIDE DEF odd
    <3> QED BY <1>2, <1>3, <3>1, <3>2
  <2> QED BY <2>1, <2>2, <2>3
<1>6. CASE ~secret
  BY <1>1, <1>6 DEF Pull
<1>7. CASE secret
  <2>1. Pull(p, secret, first, reply) \in {MondayPull(first, reply), CountingPull(reply), ListingPull(reply)}
    BY <1>7 DEF Pull
  <2>2. Good(Pull(p, secret, first, reply))
    BY <1>4, <1>5, <2>1
  <2> QED BY <1>7, <2>2 DEF Good
<1> QED BY <1>6, <1>7

\* A sync opens its secret and turns its loop: it goes on, or leaves its mark behind and
\* what became of it in lost.
LEMMA SyncKeepsInv ==
  ASSUME IInv, NEW x \in Runners, OpenSecret(x) \/ \E reply \in Reply : PullPage(x, reply)
  PROVE  IInv'
<1> DEFINE c == run[x].on
<1>1. /\ run[x].kind = "sync" /\ run[x].pc \in {"marked", "pulling"} /\ Syncing(x)
      /\ UNCHANGED <<provider, conn, runs, errlog>> /\ Informed(x) /\ run[x] \in Runner
      /\ run \in [Runners -> Runner]
  BY DEF OpenSecret, PullPage, At, Syncing, IInv, TypeOK
<1>2. ASSUME NEW q \in Runner, run' = [run EXCEPT ![x] = q], lost' = lost,
             q.kind = "sync", q.pc \in {"pulling", "pulled"}, q.on = c, q.secret = run[x].secret,
             q.secret = "none" => ~q.got /\ (q.pc = "pulled" => q.bad),
             q.pc = "pulling" => q.pages < MaxPages
      PROVE  IInv'
  <2>1. run'[x] = q
    BY <1>1, <1>2
  <2>2. Informed(x)'
    BY <1>1, <1>2, <2>1 DEF Informed, Resting
  <2>3. Syncing(x)'
    BY <1>2, <2>1 DEF Syncing
  <2> QED BY <1>1, <1>2, <2>2, <2>3, MoveKeepsInv
<1>3. CASE OpenSecret(x)
  <2>1. CASE run[x].secret = "foreign"
    BY <1>1, <1>3, <2>1, EndKeepsInv DEF OpenSecret
  <2>2. CASE run[x].secret # "foreign"
    <3> DEFINE q == [run[x] EXCEPT !.pc = "pulling"]
    <3>1. run' = [run EXCEPT ![x] = q] /\ lost' = lost /\ run[x].pc = "marked"
      BY <1>3, <2>2 DEF OpenSecret, Goto, Continue, At
    <3>2. /\ q \in Runner /\ q.kind = "sync" /\ q.pc = "pulling" /\ q.on = c
          /\ q.secret = run[x].secret /\ q.got = run[x].got /\ q.pages = run[x].pages
      BY <1>1 DEF Runner
    <3> HIDE DEF q
    <3>3. q.pages < MaxPages /\ (q.secret = "none" => ~q.got)
      BY <1>1, <3>1, <3>2, IntegrationAssumption DEF Informed
    <3> QED BY <1>2, <3>1, <3>2, <3>3
  <2> QED BY <2>1, <2>2
<1>4. ASSUME NEW reply \in Reply, PullPage(x, reply) PROVE IInv'
  <2> DEFINE page == Pull(provider[c], run[x].secret = "sealed", run[x].pages = 0, reply)
  <2> DEFINE ends == [run[x] EXCEPT !.pc = "pulled", !.bad = TRUE]
  <2> DEFINE on == [run[x] EXCEPT
                      !.got = @ \/ page.records > 0, !.pages = @ + 1,
                      !.pc = IF page.next /\ run[x].pages + 1 < MaxPages THEN @ ELSE "pulled"]
  <2>1. provider[c] \in Providers
    BY <1>1, IntegrationAssumption DEF Informed, Resting, IInv, TypeOK
  <2>2. /\ page.is \in {"thrown", "failed", "page"}
        /\ run[x].secret # "sealed" => page.is = "failed"
        /\ page.is = "page" => page.next \in BOOLEAN /\ page.bad \in BOOLEAN /\ page.records \in Nat
    BY <2>1, PullResult
  <2>3. \/ page.is = "thrown" /\ Strand(x, "drifted") /\ End(x)
        \/ page.is \in {"failed", "page"} /\ run' = [run EXCEPT ![x] = ends] /\ lost' = lost
        \/ page.is = "page" /\ run' = [run EXCEPT ![x] = on] /\ lost' = lost
    <3>1. CASE page.is = "thrown"
      BY <1>4, <3>1 DEF PullPage
    <3>2. CASE page.is = "failed"
      BY <1>4, <3>2 DEF PullPage, Continue
    <3>3. CASE page.is = "page"
      BY <1>4, <3>3 DEF PullPage, Continue
    <3> QED BY <2>2, <3>1, <3>2, <3>3
  <2>4. run[x].pc = "pulling" /\ run[x].pages < MaxPages
    BY <1>1, <1>4 DEF PullPage, At, Informed
  <2>5. /\ ends \in Runner /\ ends.kind = "sync" /\ ends.pc = "pulled" /\ ends.on = c
        /\ ends.secret = run[x].secret /\ ends.bad = TRUE /\ ends.got = run[x].got
    BY <1>1 DEF Runner
  <2>6. page.is = "page" =>
          /\ on \in Runner /\ on.kind = "sync" /\ on.pc \in {"pulling", "pulled"} /\ on.on = c
          /\ on.secret = run[x].secret /\ (on.pc = "pulling" => on.pages < MaxPages)
    <3> DEFINE got == run[x].got \/ page.records > 0
    <3> DEFINE pc == IF page.next /\ run[x].pages + 1 < MaxPages THEN run[x].pc ELSE "pulled"
    <3>1. on = [run[x] EXCEPT !.got = got, !.pages = run[x].pages + 1, !.pc = pc]
      BY <1>1 DEF Runner
    <3>2. got \in BOOLEAN /\ pc \in {"pulling", "pulled"}
      BY <2>4
    <3>3. run[x].pages + 1 \in 0 .. MaxPages /\ (pc = "pulling" => run[x].pages + 1 < MaxPages)
      BY <1>1, <2>4, IntegrationAssumption DEF Runner
    <3> HIDE DEF got, pc, on, page
    <3> QED BY <1>1, <3>1, <3>2, <3>3 DEF Runner
  <2> HIDE DEF page, ends, on
  <2>7. CASE page.is = "thrown" /\ Strand(x, "drifted") /\ End(x)
    BY <1>1, <2>7, EndKeepsInv
  <2>8. CASE run' = [run EXCEPT ![x] = ends] /\ lost' = lost
    BY <1>1, <1>2, <2>5, <2>8 DEF Informed
  <2>9. CASE page.is = "page" /\ run' = [run EXCEPT ![x] = on] /\ lost' = lost
    BY <1>1, <1>2, <2>2, <2>6, <2>9
  <2> QED BY <2>3, <2>7, <2>8, <2>9
<1> QED BY <1>3, <1>4

\* A crash in the middle of a sync leaves the mark, and says so.
LEMMA CrashKeepsInv == ASSUME IInv, NEW x \in Runners, Crash(x) PROVE IInv'
<1> DEFINE q == [Idle EXCEPT !.pc = IF x \in Sweeps THEN "dead" ELSE "idle"]
<1>1. run' = [run EXCEPT ![x] = q] /\ UNCHANGED <<provider, conn, runs, errlog>>
  BY DEF Crash, Continue
<1>2. Idle \in Runner
  BY IntegrationAssumption DEF Idle, Runner
<1>3. q \in Runner /\ q.pc \in {"idle", "dead"} /\ q.secret = "none" /\ ~q.got
  BY <1>2 DEF Runner, Idle
<1> HIDE DEF q
<1>4. Informed(x)'
  BY <1>1, <1>3 DEF IInv, TypeOK, Informed, Resting
<1>5. \/ lost' = lost /\ ~Syncing(x)
      \/ Syncing(x) /\ Strand(x, "crashed")
  BY DEF Crash, At, Syncing
<1> QED BY <1>1, <1>3, <1>4, <1>5, MoveKeepsInv

\* A write that ends a call or a sync of a connection which is there, or finds it gone.
LEMMA WriteKeepsInv ==
  ASSUME IInv, TypeOK', NEW x \in Runners, End(x), NEW c \in Connections, c = run[x].on,
         \A d \in Connections \ {c} : /\ conn'[d] = conn[d] /\ runs'[d] = runs[d]
                                      /\ errlog'[d] = errlog[d] /\ lost'[d] = lost[d],
         \/ /\ Exists(c) /\ conn'[c].status \in {"CONNECTED", "ERROR"}
            /\ conn[c].secret # "none" => conn'[c].secret # "none"
            /\ errlog[c] => errlog'[c]
            /\ conn'[c].status = "ERROR" => errlog'[c]
            /\ conn'[c].last # "none" => conn'[c].last \in runs'[c]
            /\ conn'[c].status = "CONNECTED" => conn'[c].secret # "none"
         \/ /\ Exists(c) /\ conn'[c].status = "deleted" /\ conn'[c].last = "none"
            /\ runs'[c] = {} /\ ~errlog'[c] /\ lost'[c] = "none"
         \/ ~Syncing(x) /\ UNCHANGED <<conn, runs, errlog, lost>>
         \/ ~Exists(c) /\ UNCHANGED <<conn, runs, errlog, lost>>
  PROVE  IInv'
<1>1. PICK q \in Runner : /\ run' = [run EXCEPT ![x] = q]
                          /\ q.pc \in Resting /\ q.secret = "none" /\ q.kind = "none" /\ ~q.got
  BY EndRests DEF IInv
<1>2. Informed(x)'
  BY <1>1 DEF IInv, TypeOK, Informed, Resting
<1>3. \A d \in Connections :
        /\ conn[d].status # "none" => conn'[d].status # "none"
        /\ conn[d].status = "deleted" => conn'[d].status = "deleted"
        /\ conn'[d].status # "deleted" => /\ conn[d].secret # "none" => conn'[d].secret # "none"
                                          /\ errlog[d] => errlog'[d]
  BY DEF Exists
<1>4. SyncingIsTrue'
  <2> SUFFICES ASSUME NEW d \in Connections, conn'[d].status = "SYNCING", lost'[d] = "none"
               PROVE  \E y \in Runners : /\ run'[y].on = d /\ run'[y].kind = "sync"
                                         /\ run'[y].pc \in {"marked", "pulling", "pulled"}
    BY DEF SyncingIsTrue
  <2>1. conn[d].status = "SYNCING" /\ lost[d] = "none" /\ (d = c => ~Syncing(x))
    BY DEF Exists
  <2>2. PICK y \in Runners : run[y].on = d /\ Syncing(y)
    BY <2>1 DEF IInv, SyncingIsTrue, Syncing
  <2>3. y # x
    BY <2>1, <2>2
  <2> QED BY <1>1, <2>2, <2>3 DEF IInv, TypeOK, Syncing
<1>5. HealthIsExplained'
  BY DEF IInv, HealthIsExplained, Exists
<1>6. NothingOutlivesDeletion'
  BY DEF IInv, NothingOutlivesDeletion, Exists
<1> QED BY <1>1, <1>2, <1>3, <1>4, <1>5, <1>6, StepKeepsInv

\* The end of a test, an update and a sync, and a deletion.
LEMMA EndsKeepInv ==
  ASSUME IInv, NEW x \in Runners,
         \/ SettleTest(x) \/ Finish(x) \/ Delete(x) \/ \E secret \in BOOLEAN : Update(x, secret)
  PROVE  IInv'
<1> DEFINE c == run[x].on
<1>1. /\ Informed(x) /\ End(x) /\ UNCHANGED provider /\ run[x] \in Runner
      /\ run[x].pc \notin Resting
  BY DEF SettleTest, Finish, Delete, Update, At, Resting, IInv, TypeOK
<1>2. c \in Connections /\ conn[c] \in Connection /\ conn \in [Connections -> Connection]
  BY <1>1 DEF Informed, IInv, TypeOK
<1>3. run' \in [Runners -> Runner]
  BY <1>1, EndRests DEF IInv, TypeOK
<1>4. CASE SettleTest(x)
  <2> DEFINE to == IF run[x].pc = "noted" THEN "ERROR" ELSE "CONNECTED"
  <2> DEFINE row == [conn[c] EXCEPT !.status = to]
  <2>1. CASE Exists(c)
    <3>1. /\ conn' = [conn EXCEPT ![c] = row] /\ lost' = [lost EXCEPT ![c] = "none"]
          /\ UNCHANGED <<runs, errlog>>
      BY <1>4, <2>1 DEF SettleTest, SetStatus
    <3>2. /\ row \in Connection /\ row.status = to /\ row.secret = conn[c].secret
          /\ row.last = conn[c].last
      BY <1>2 DEF Connection
    <3>3. /\ to \in {"CONNECTED", "ERROR"}
          /\ to = "ERROR" => errlog[c]
          /\ to = "CONNECTED" => conn[c].secret # "none"
      BY <1>1, <1>4, <2>1 DEF SettleTest, Informed, Exists
    <3> HIDE DEF row, to
    <3>4. TypeOK'
      BY <1>1, <1>2, <1>3, <3>1, <3>2 DEF IInv, TypeOK
    <3>5. conn'[c] = row /\ \A d \in Connections \ {c} : conn'[d] = conn[d] /\ lost'[d] = lost[d]
      BY <1>2, <3>1 DEF IInv, TypeOK
    <3>6. conn[c].last # "none" => conn[c].last \in runs[c]
      BY <1>2 DEF IInv, HealthIsExplained
    <3> HIDE DEF c
    <3> QED BY <1>1, <1>2, <2>1, <3>1, <3>2, <3>3, <3>4, <3>5, <3>6, WriteKeepsInv DEF c
  <2>2. CASE ~Exists(c)
    <3>1. UNCHANGED <<conn, lost, runs, errlog>>
      BY <1>4, <2>2 DEF SettleTest
    <3>2. TypeOK'
      BY <1>1, <1>3, <3>1 DEF IInv, TypeOK
    <3> QED BY <1>1, <1>2, <2>2, <3>1, <3>2, WriteKeepsInv
  <2> QED BY <2>1, <2>2
<1>5. CASE Finish(x)
  <2> DEFINE out == OutcomeOf(x)
  <2> DEFINE row == [conn[c] EXCEPT !.status = IF out = "FAILED" THEN "ERROR" ELSE "CONNECTED",
                                    !.due = FALSE, !.last = out]
  <2>1. CASE Exists(c)
    <3>1. /\ conn' = [conn EXCEPT ![c] = row] /\ lost' = [lost EXCEPT ![c] = "none"]
          /\ runs' = [runs EXCEPT ![c] = @ \cup {out}]
          /\ errlog' = [errlog EXCEPT ![c] = @ \/ run[x].bad]
      BY <1>5, <2>1 DEF Finish
    <3>2. /\ out \in Outcome
          /\ out = "FAILED" => run[x].bad
          /\ out # "FAILED" => run[x].secret # "none"
      BY <1>1, <1>5 DEF OutcomeOf, Outcome, Finish, At, Informed
    <3> HIDE DEF out
    <3>3. /\ row \in Connection /\ row.status \in {"CONNECTED", "ERROR"}
          /\ row.status = "ERROR" => out = "FAILED"
          /\ row.status = "CONNECTED" => out # "FAILED"
          /\ row.secret = conn[c].secret /\ row.last = out
      BY <1>2, <3>2 DEF Connection
    <3> HIDE DEF row
    <3>4. run[x].secret # "none" => conn[c].secret # "none"
      BY <1>1, <2>1 DEF Informed, Exists
    <3>5. errlog' \in [Connections -> BOOLEAN]
      BY <1>1, <3>1 DEF IInv, TypeOK, Runner
    <3>6. TypeOK'
      BY <1>1, <1>2, <1>3, <3>1, <3>2, <3>3, <3>5 DEF IInv, TypeOK
    <3>7. /\ conn'[c] = row /\ out \in runs'[c]
          /\ \A d \in Connections \ {c} : /\ conn'[d] = conn[d] /\ lost'[d] = lost[d]
                                          /\ runs'[d] = runs[d] /\ errlog'[d] = errlog[d]
      BY <1>2, <3>1 DEF IInv, TypeOK
    <3>8. errlog[c] \/ run[x].bad => errlog'[c]
      BY <1>2, <3>1 DEF IInv, TypeOK
    <3> HIDE DEF c
    <3> QED BY <1>1, <1>2, <2>1, <3>2, <3>3, <3>4, <3>6, <3>7, <3>8, WriteKeepsInv DEF c
  <2>2. CASE ~Exists(c)
    <3>1. UNCHANGED <<conn, lost, runs, errlog>>
      BY <1>5, <2>2 DEF Finish
    <3>2. TypeOK'
      BY <1>1, <1>3, <3>1 DEF IInv, TypeOK
    <3> QED BY <1>1, <1>2, <2>2, <3>1, <3>2, WriteKeepsInv
  <2> QED BY <2>1, <2>2
<1>6. CASE Delete(x)
  <2> DEFINE row == [status |-> "deleted", secret |-> "none", due |-> FALSE, last |-> "none"]
  <2>1. CASE Exists(c)
    <3>1. /\ conn' = [conn EXCEPT ![c] = row] /\ lost' = [lost EXCEPT ![c] = "none"]
          /\ runs' = [runs EXCEPT ![c] = {}] /\ errlog' = [errlog EXCEPT ![c] = FALSE]
      BY <1>6, <2>1 DEF Delete
    <3>2. row \in Connection /\ row.status = "deleted" /\ row.last = "none"
      BY DEF Connection
    <3> HIDE DEF row
    <3>3. TypeOK'
      BY <1>1, <1>2, <1>3, <3>1, <3>2 DEF IInv, TypeOK
    <3>4. /\ conn'[c] = row /\ runs'[c] = {} /\ ~errlog'[c] /\ lost'[c] = "none"
          /\ \A d \in Connections \ {c} : /\ conn'[d] = conn[d] /\ lost'[d] = lost[d]
                                          /\ runs'[d] = runs[d] /\ errlog'[d] = errlog[d]
      BY <1>2, <3>1 DEF IInv, TypeOK
    <3> HIDE DEF c
    <3> QED BY <1>1, <1>2, <2>1, <3>2, <3>3, <3>4, WriteKeepsInv DEF c
  <2>2. CASE ~Exists(c)
    <3>1. UNCHANGED <<conn, lost, runs, errlog>>
      BY <1>6, <2>2 DEF Delete
    <3>2. TypeOK'
      BY <1>1, <1>3, <3>1 DEF IInv, TypeOK
    <3> QED BY <1>1, <1>2, <2>2, <3>1, <3>2, WriteKeepsInv
  <2> QED BY <2>1, <2>2
<1>7. ASSUME NEW secret \in BOOLEAN, Update(x, secret) PROVE IInv'
  <2> DEFINE row == [conn[c] EXCEPT !.status = "CONNECTED", !.secret = "sealed"]
  <2>1. CASE Exists(c) /\ secret
    <3>1. /\ conn' = [conn EXCEPT ![c] = row] /\ lost' = [lost EXCEPT ![c] = "none"]
          /\ UNCHANGED <<runs, errlog>>
      BY <1>2, <1>7, <2>1 DEF Update
    <3>2. /\ row \in Connection /\ row.status = "CONNECTED" /\ row.secret = "sealed"
          /\ row.last = conn[c].last
      BY <1>2 DEF Connection
    <3> HIDE DEF row
    <3>3. TypeOK'
      BY <1>1, <1>2, <1>3, <3>1, <3>2 DEF IInv, TypeOK
    <3>4. conn'[c] = row /\ \A d \in Connections \ {c} : conn'[d] = conn[d] /\ lost'[d] = lost[d]
      BY <1>2, <3>1 DEF IInv, TypeOK
    <3>5. conn[c].last # "none" => conn[c].last \in runs[c]
      BY <1>2 DEF IInv, HealthIsExplained
    <3> HIDE DEF c
    <3> QED BY <1>1, <1>2, <2>1, <3>1, <3>2, <3>3, <3>4, <3>5, WriteKeepsInv DEF c
  <2>2. CASE ~(Exists(c) /\ secret)
    <3>1. UNCHANGED <<conn, lost, runs, errlog>> /\ ~Syncing(x)
      BY <1>7, <2>2 DEF Update, At, Syncing
    <3>2. TypeOK'
      BY <1>1, <1>3, <3>1 DEF IInv, TypeOK
    <3> QED BY <1>1, <1>2, <3>1, <3>2, WriteKeepsInv
  <2> QED BY <2>1, <2>2
<1> QED BY <1>4, <1>5, <1>6, <1>7

\* The mark of a sync, and the error of a test.
LEMMA MarksKeepInv ==
  ASSUME IInv, NEW x \in Runners, MarkSyncing(x) \/ NoteFailure(x)
  PROVE  IInv'
<1> DEFINE c == run[x].on
<1>1. /\ Informed(x) /\ ~Syncing(x) /\ UNCHANGED <<provider, runs, lost>> /\ run[x] \in Runner
      /\ run[x].pc \notin Resting /\ run \in [Runners -> Runner]
  BY DEF MarkSyncing, NoteFailure, At, Resting, Syncing, IInv, TypeOK
<1>2. c \in Connections /\ conn[c] \in Connection /\ conn \in [Connections -> Connection]
  BY <1>1 DEF Informed, IInv, TypeOK
<1>3. CASE ~Exists(c)
  BY <1>1, <1>3, EndKeepsInv DEF MarkSyncing, NoteFailure
<1>4. CASE MarkSyncing(x) /\ Exists(c)
  <2> DEFINE q == [run[x] EXCEPT !.pc = "marked"]
  <2> DEFINE row == [conn[c] EXCEPT !.status = "SYNCING"]
  <2>1. /\ run' = [run EXCEPT ![x] = q] /\ conn' = [conn EXCEPT ![c] = row] /\ errlog' = errlog
        /\ run[x].pc = "read" /\ run[x].kind = "sync"
    BY <1>4 DEF MarkSyncing, Goto, Continue, At
  <2>2. /\ q \in Runner /\ q.pc = "marked" /\ q.kind = "sync" /\ q.on = c /\ q.got = run[x].got
        /\ q.secret = run[x].secret /\ q.pages = run[x].pages
    BY <1>1, <2>1 DEF Runner
  <2>3. /\ row \in Connection /\ row.status = "SYNCING" /\ row.secret = conn[c].secret
        /\ row.last = conn[c].last
    BY <1>2 DEF Connection
  <2> HIDE DEF q, row
  <2>4. TypeOK'
    BY <1>1, <1>2, <2>1, <2>2, <2>3 DEF IInv, TypeOK
  <2>5. /\ conn'[c] = row /\ \A d \in Connections \ {c} : conn'[d] = conn[d]
        /\ run'[x] = q /\ \A y \in Runners \ {x} : run'[y] = run[y]
    BY <1>1, <1>2, <2>1
  <2> HIDE DEF c
  <2>6. \A d \in Connections :
          /\ conn[d].status # "none" => conn'[d].status # "none"
          /\ conn[d].status = "deleted" => conn'[d].status = "deleted"
          /\ conn'[d].status # "deleted" => /\ conn[d].secret # "none" => conn'[d].secret # "none"
                                            /\ errlog[d] => errlog'[d]
    BY <1>4, <2>1, <2>3, <2>5 DEF Exists
  <2>7. Informed(x)'
    BY <1>1, <1>2, <1>4, <2>1, <2>2, <2>3, <2>5 DEF Informed, Resting, Exists, c
  <2>8. SyncingIsTrue'
    <3> SUFFICES ASSUME NEW d \in Connections, conn'[d].status = "SYNCING", lost[d] = "none"
                 PROVE  \E y \in Runners : /\ run'[y].on = d /\ run'[y].kind = "sync"
                                           /\ run'[y].pc \in {"marked", "pulling", "pulled"}
      BY <1>1 DEF SyncingIsTrue
    <3>1. CASE d = c
      BY <2>2, <2>5, <3>1
    <3>2. CASE d # c
      <4>1. PICK y \in Runners : run[y].on = d /\ Syncing(y)
        BY <2>5, <3>2 DEF IInv, SyncingIsTrue, Syncing
      <4> QED BY <1>1, <2>5, <4>1 DEF Syncing
    <3> QED BY <3>1, <3>2
  <2>9. HealthIsExplained' /\ NothingOutlivesDeletion'
    BY <1>1, <1>4, <2>1, <2>3, <2>5
    DEF IInv, HealthIsExplained, NothingOutlivesDeletion, Exists
  <2> QED BY <2>1, <2>2, <2>4, <2>6, <2>7, <2>8, <2>9, StepKeepsInv
<1>5. CASE NoteFailure(x) /\ Exists(c)
  <2> DEFINE q == [run[x] EXCEPT !.pc = "noted"]
  <2>1. /\ run' = [run EXCEPT ![x] = q] /\ errlog' = [errlog EXCEPT ![c] = TRUE] /\ conn' = conn
        /\ run[x].pc = "refused"
    BY <1>5 DEF NoteFailure, Goto, Continue, At
  <2>2. /\ q \in Runner /\ q.pc = "noted" /\ q.on = c /\ q.got = run[x].got
        /\ q.secret = run[x].secret
    BY <1>1, <2>1 DEF Runner
  <2> HIDE DEF q
  <2>3. TypeOK'
    BY <1>1, <1>2, <2>1, <2>2 DEF IInv, TypeOK
  <2>4. /\ errlog'[c] /\ \A d \in Connections \ {c} : errlog'[d] = errlog[d]
        /\ run'[x] = q /\ \A y \in Runners \ {x} : run'[y] = run[y]
    BY <1>1, <1>2, <2>1 DEF IInv, TypeOK
  <2> HIDE DEF c
  <2>5. Informed(x)'
    BY <1>1, <2>1, <2>2, <2>4 DEF Informed, Resting, c
  <2>6. SyncingIsTrue'
    <3> SUFFICES ASSUME NEW d \in Connections, conn[d].status = "SYNCING", lost[d] = "none"
                 PROVE  \E y \in Runners : /\ run'[y].on = d /\ run'[y].kind = "sync"
                                           /\ run'[y].pc \in {"marked", "pulling", "pulled"}
      BY <1>1, <2>1 DEF SyncingIsTrue
    <3>1. PICK y \in Runners : run[y].on = d /\ Syncing(y)
      BY DEF IInv, SyncingIsTrue, Syncing
    <3> QED BY <1>1, <2>4, <3>1 DEF Syncing
  <2>7. HealthIsExplained' /\ NothingOutlivesDeletion'
    BY <1>1, <1>5, <2>1, <2>4 DEF IInv, HealthIsExplained, NothingOutlivesDeletion, Exists
  <2> QED BY <2>1, <2>2, <2>3, <2>4, <2>5, <2>6, <2>7, StepKeepsInv
<1> QED BY <1>3, <1>4, <1>5

\* A connection is created, its interval is over, its secret opens no more.
LEMMA SurroundingsKeepInv ==
  ASSUME IInv,
         \/ \E c \in Connections, secret \in BOOLEAN : Create(c, secret)
         \/ \E c \in Connections : Elapse(c)
         \/ ChangeKey
  PROVE  IInv'
<1>1. UNCHANGED <<provider, runs, errlog, lost, run>>
  BY DEF Create, Elapse, ChangeKey
<1> DEFINE Fine(c) ==
      /\ conn'[c] \in Connection
      /\ \/ /\ conn'[c].status = conn[c].status /\ conn'[c].last = conn[c].last
            /\ conn'[c].secret = "none" <=> conn[c].secret = "none"
         \/ /\ conn[c].status = "none" /\ conn'[c].last = conn[c].last
            /\ conn'[c].status \in {"CONNECTED", "NOT_CONFIGURED"}
            /\ conn'[c].status = "CONNECTED" => conn'[c].secret # "none"
<1>2. \A c \in Connections : Fine(c)
  <2>1. ASSUME NEW c \in Connections, NEW secret \in BOOLEAN, Create(c, secret)
        PROVE  \A d \in Connections : Fine(d)
    <3> DEFINE st == IF secret THEN "CONNECTED" ELSE "NOT_CONFIGURED"
    <3> DEFINE se == IF secret THEN "sealed" ELSE "none"
    <3>1. conn' = [conn EXCEPT ![c] = [@ EXCEPT !.status = st, !.secret = se]]
          /\ conn[c].status = "none"
      BY <2>1 DEF Create
    <3>2. /\ st \in {"CONNECTED", "NOT_CONFIGURED"} /\ se \in {"none", "sealed"}
          /\ st = "CONNECTED" => se # "none"
      OBVIOUS
    <3> HIDE DEF st, se
    <3> QED BY <3>1, <3>2 DEF IInv, TypeOK, Connection
  <2>2. ASSUME NEW c \in Connections, Elapse(c)
        PROVE  \A d \in Connections : Fine(d)
    BY <2>2 DEF Elapse, IInv, TypeOK, Connection
  <2>3. CASE ChangeKey
    BY <2>3 DEF ChangeKey, IInv, TypeOK, Connection
  <2> QED BY <2>1, <2>2, <2>3
<1>3. TypeOK'
  <2>1. DOMAIN conn' = Connections /\ conn' = [c \in Connections |-> conn'[c]]
    BY DEF Create, Elapse, ChangeKey, IInv, TypeOK
  <2> QED BY <1>1, <1>2, <2>1 DEF IInv, TypeOK
<1>4. SyncingIsTrue' /\ HealthIsExplained' /\ NothingOutlivesDeletion'
  BY <1>1, <1>2 DEF IInv, SyncingIsTrue, HealthIsExplained, NothingOutlivesDeletion
<1>5. ASSUME NEW x \in Runners PROVE Informed(x)'
  <2>1. Informed(x)
    BY DEF IInv
  <2> QED BY <1>1, <1>2, <2>1 DEF Informed, Resting
<1> QED BY <1>3, <1>4, <1>5 DEF IInv

\* Every step of a call or a sweep, and all that happens around them, keeps the invariant.
LEMMA NextKeepsInv == IInv /\ [Next]_vars => IInv'
<1> SUFFICES ASSUME IInv, [Next]_vars PROVE IInv'
  OBVIOUS
<1>1. CASE \E c \in Connections : Elapse(c) \/ \E secret \in BOOLEAN : Create(c, secret)
  BY <1>1, SurroundingsKeepInv
<1>2. CASE ChangeKey
  BY <1>2, SurroundingsKeepInv
<1>3. ASSUME NEW x \in Calls, NEW kind \in {"update", "test", "delete", "sync"},
             NEW c \in Connections, Begin(x, kind, c)
      PROVE  IInv'
  BY <1>3, BeginKeepsInv DEF Runners
<1>4. ASSUME NEW x \in Sweeps, FindDue(x) PROVE IInv'
  BY <1>4, BeginKeepsInv DEF Runners
<1>5. ASSUME NEW x \in Runners, Crash(x) PROVE IInv'
  BY <1>5, CrashKeepsInv
<1>6. ASSUME NEW x \in Runners, Proceed(x) PROVE IInv'
  <2>1. CASE ReadConnection(x)
    BY <2>1, ReadKeepsInv
  <2>2. CASE \E how \in {"passed", "refused", "thrown"} : Probe(x, how)
    BY <2>2, ProbeKeepsInv
  <2>3. CASE OpenSecret(x) \/ \E reply \in Reply : PullPage(x, reply)
    BY <2>3, SyncKeepsInv
  <2>4. CASE MarkSyncing(x) \/ NoteFailure(x)
    BY <2>4, MarksKeepInv
  <2>5. CASE SettleTest(x) \/ Finish(x) \/ Delete(x) \/ \E secret \in BOOLEAN : Update(x, secret)
    BY <2>5, EndsKeepInv
  <2>6. CASE SweepNext(x)
    BY <2>6, BeginKeepsInv
  <2> QED BY <1>6, <2>1, <2>2, <2>3, <2>4, <2>5, <2>6 DEF Proceed
<1>7. CASE UNCHANGED vars
  BY <1>7 DEF vars, IInv, TypeOK, SyncingIsTrue, HealthIsExplained, NothingOutlivesDeletion, Informed
<1> QED BY <1>1, <1>2, <1>3, <1>4, <1>5, <1>6, <1>7 DEF Next

\* The invariant, for any connections, calls and sweeps.
THEOREM Invariant == Spec => []IInv
<1>1. Init => IInv
  BY InitHolds
<1>2. IInv /\ [Next]_vars => IInv'
  BY NextKeepsInv
<1> QED BY <1>1, <1>2, PTL DEF Spec

\* Connections, their runs and errors, the calls and the sweeps are always of their types.
THEOREM TypeCorrect == Spec => []TypeOK
<1>1. IInv => TypeOK
  BY DEF IInv
<1> QED BY <1>1, Invariant, PTL

\* runSync: a connection that says SYNCING is being synced, or its sync was stopped or
\* has thrown past its mark.
THEOREM MarksAreTrue == Spec => []SyncingIsTrue
<1>1. IInv => SyncingIsTrue
  BY DEF IInv
<1> QED BY <1>1, Invariant, PTL

\* testIntegrationConnection and runSync: ERROR has its row in the error log, an outcome
\* its run, CONNECTED its credential, whatever came in between two of their writes.
THEOREM HealthExplained == Spec => []HealthIsExplained
<1>1. IInv => HealthIsExplained
  BY DEF IInv
<1> QED BY <1>1, Invariant, PTL

\* deleteIntegrationConnection: what was on its way to the connection writes nothing more.
THEOREM DeletionIsFinal == Spec => []NothingOutlivesDeletion
<1>1. IInv => NothingOutlivesDeletion
  BY DEF IInv
<1> QED BY <1>1, Invariant, PTL

(***************************************************************************)
(* ControlTower, for any workspace, people, inputs and bounds: rows stay   *)
(* typed, only raced targets are stale, editors find their projects,       *)
(* neither waiting improves a judgement nor progress worsens one, and what *)
(* the pages add up and list agrees from page to page.                     *)
(***************************************************************************)

\* A policy change that no other met carries the target its policy has.
CleanIsCurrent ==
  \A a \in Admins : (sync[a] # None /\ sync[a].clean) =>
    sync[a].target = policies[sync[a].policy].target

TowerInv == TowerTypeOK /\ CleanIsCurrent /\ StaleTargetsRaced

\* What an edit of the workspace alone keeps.
LEMMA OnlyWorkspace ==
  ASSUME TowerInv, ws' \in Workspace, Edit, OnlyWs
  PROVE  TowerInv'
<1>1. edits' \in 0..MaxEdits
  BY TowerAssumption DEF TowerInv, TowerTypeOK, Edit
<1>2. TowerTypeOK'
  BY <1>1 DEF TowerInv, TowerTypeOK, OnlyWs
<1> QED BY <1>2 DEF TowerInv, OnlyWs, CleanIsCurrent, StaleTargetsRaced

\* The editors of a project leave the workspace as the schema has it.
LEMMA EditProjectTyped ==
  ASSUME TowerInv, NEW p \in Projects, EditProject(p), ~ExecuteChangeOrder(p)
  PROVE  ws' \in Workspace /\ Edit /\ OnlyWs
<1>1. ws \in Workspace
  BY DEF TowerInv, TowerTypeOK
<1>2. ASSUME NEW k \in PhaseKeys, NEW row \in Rows, UpdateSchedulePhase(p, k, row)
      PROVE  ws' \in Workspace /\ Edit /\ OnlyWs
  BY <1>1, <1>2, TowerAssumption DEF UpdateSchedulePhase, Workspace
<1>3. ASSUME NEW c \in Controls, NEW status \in Answers, UpdateAuditEntry(p, c, status)
      PROVE  ws' \in Workspace /\ Edit /\ OnlyWs
  BY <1>1, <1>3 DEF UpdateAuditEntry, Workspace
<1>4. ASSUME ToggleProjectLock(p)
      PROVE  ws' \in Workspace /\ Edit /\ OnlyWs
  BY <1>1, <1>4 DEF ToggleProjectLock, Workspace
<1>5. ASSUME NEW from \in Entries \cup {None}, NEW to \in Entries \cup {None}, UpdateRaid(p, from, to)
      PROVE  ws' \in Workspace /\ Edit /\ OnlyWs
  BY <1>1, <1>5 DEF UpdateRaid, Workspace
<1>6. ASSUME NEW r \in Roles, NEW h \in Cells, UpdateEffortCell(p, r, h)
      PROVE  ws' \in Workspace /\ Edit /\ OnlyWs
  <2>1. PICK d : d = [ws.deals[p] EXCEPT !.cells[r] = h]
    OBVIOUS
  <2>2. ws.deals[p] \in Deal /\ h \in Nat
    BY <1>1, TowerAssumption DEF Workspace
  <2>3. d \in Deal
    BY <2>1, <2>2 DEF Deal
  <2>4. ws' = [ws EXCEPT !.deals[p] = d]
    BY <1>6, <2>1 DEF UpdateEffortCell
  <2>5. ws' \in Workspace
    BY <1>1, <2>3, <2>4 DEF Workspace
  <2> QED BY <1>6, <2>5 DEF UpdateEffortCell
<1>7. ASSUME NEW mode \in {"matrix", "direct"}, SetEstimationMode(p, mode)
      PROVE  ws' \in Workspace /\ Edit /\ OnlyWs
  <2>1. PICK d : d = [ws.deals[p] EXCEPT !.mode = mode]
    OBVIOUS
  <2>2. ws.deals[p] \in Deal
    BY <1>1 DEF Workspace
  <2>3. d \in Deal
    BY <2>1, <2>2 DEF Deal
  <2>4. ws' = [ws EXCEPT !.deals[p] = d]
    BY <1>7, <2>1 DEF SetEstimationMode
  <2>5. ws' \in Workspace
    BY <1>1, <2>3, <2>4 DEF Workspace
  <2> QED BY <1>7, <2>5 DEF SetEstimationMode
<1>8. ASSUME NEW intake \in Intakes, UpdateDirectIntake(p, intake)
      PROVE  ws' \in Workspace /\ Edit /\ OnlyWs
  <2>1. PICK d : d = [ws.deals[p] EXCEPT !.hours = intake.hours, !.revenue = intake.revenue,
                                        !.margin = intake.margin]
    OBVIOUS
  <2>2. ws.deals[p] \in Deal /\ intake \in Intake
    BY <1>1, TowerAssumption DEF Workspace
  <2>3. d \in Deal
    BY <2>1, <2>2 DEF Deal, Intake
  <2>4. ws' = [ws EXCEPT !.deals[p] = d]
    BY <1>8, <2>1 DEF UpdateDirectIntake
  <2>5. ws' \in Workspace
    BY <1>1, <2>3, <2>4 DEF Workspace
  <2> QED BY <1>8, <2>5 DEF UpdateDirectIntake
<1>9. ASSUME NEW key \in Keys, NEW row \in Reports, UpdateFinancialActual(p, key, row)
      PROVE  ws' \in Workspace /\ Edit /\ OnlyWs
  BY <1>1, <1>9, TowerAssumption DEF UpdateFinancialActual, Workspace
<1> QED BY <1>2, <1>3, <1>4, <1>5, <1>6, <1>7, <1>8, <1>9 DEF EditProject

\* So do the administrators.
LEMMA AdministerTyped ==
  ASSUME TowerInv, Administer, ~(\E file \in Files : Restore(file))
  PROVE  ws' \in Workspace /\ Edit /\ OnlyWs
<1>1. ws \in Workspace
  BY DEF TowerInv, TowerTypeOK
<1>2. ASSUME NEW policy \in Policies, UpdateOrgPolicy(policy)
      PROVE  ws' \in Workspace /\ Edit /\ OnlyWs
  BY <1>1, <1>2, TowerAssumption DEF UpdateOrgPolicy, Workspace
<1>3. ASSUME NEW r \in Roles, DeleteDeliveryRole(r)
      PROVE  ws' \in Workspace /\ Edit /\ OnlyWs
  <2>1. PICK card : card = [ws.card EXCEPT ![r] = None]
    OBVIOUS
  <2>2. PICK deals : deals = [p \in Projects |-> [ws.deals[p] EXCEPT !.cells[r] = 0]]
    OBVIOUS
  <2>3. PICK job : job = [i \in People |-> IF ws.job[i] = r THEN None ELSE ws.job[i]]
    OBVIOUS
  <2>4. card \in [Roles -> {None} \cup Rate] /\ job \in [People -> {None} \cup Roles]
    BY <1>1, <2>1, <2>3 DEF Workspace
  <2>5. deals \in [Projects -> Deal]
    <3>1. ASSUME NEW p \in Projects PROVE deals[p] \in Deal
      <4>1. ws.deals[p] \in Deal /\ deals[p] = [ws.deals[p] EXCEPT !.cells[r] = 0]
        BY <1>1, <2>2 DEF Workspace
      <4>2. PICK d \in Deal : d = ws.deals[p]
        BY <4>1
      <4>3. [d EXCEPT !.cells[r] = 0] \in Deal
        BY DEF Deal
      <4> QED BY <4>1, <4>2, <4>3
    <3> QED BY <2>2, <3>1
  <2>6. ws' = [ws EXCEPT !.card = card, !.deals = deals, !.job = job]
    BY <1>3, <2>1, <2>2, <2>3 DEF DeleteDeliveryRole
  <2> QED BY <1>1, <1>3, <2>4, <2>5, <2>6 DEF DeleteDeliveryRole, Workspace
<1>4. ASSUME NEW r \in Roles, NEW type \in {"fte", "contractor"},
             SetDeliveryRoleEmploymentType(r, type)
      PROVE  ws' \in Workspace /\ Edit /\ OnlyWs
  <2>1. PICK rate : rate = [ws.card[r] EXCEPT !.type = type]
    OBVIOUS
  <2>2. ws.card[r] \in Rate
    BY <1>1, <1>4 DEF SetDeliveryRoleEmploymentType, Workspace
  <2>3. rate \in Rate
    BY <2>1, <2>2 DEF Rate
  <2>4. ws' = [ws EXCEPT !.card[r] = rate]
    BY <1>4, <2>1 DEF SetDeliveryRoleEmploymentType
  <2>5. ws' \in Workspace
    BY <1>1, <2>3, <2>4 DEF Workspace
  <2> QED BY <1>4, <2>5 DEF SetDeliveryRoleEmploymentType
<1> QED BY <1>2, <1>3, <1>4 DEF Administer

\* What a snapshot puts back covers everybody.
LEMMA PutBackTyped ==
  ASSUME NEW T, NEW file \in Partial(People, T), NEW now \in [People -> T]
  PROVE  PutBack(file, now) \in [People -> T]
BY DEF PutBack, Partial

\* A restored workspace is one the schema allows.
LEMMA RestoreTyped ==
  ASSUME TowerInv, NEW file \in Files, Restore(file)
  PROVE  ws' \in Workspace
<1>1. ws \in Workspace /\ file \in Snapshot
  BY TowerAssumption DEF TowerInv, TowerTypeOK
<1>2. PICK policy : policy = IF file.policy = None THEN ws.policy ELSE file.policy
  OBVIOUS
<1>3. PICK card : card = [r \in Roles |-> IF file.card[r] = None THEN ws.card[r] ELSE file.card[r]]
  OBVIOUS
<1>4. PICK manager : manager = PutBack(file.manager, ws.manager)
  OBVIOUS
<1>5. PICK home : home = PutBack(file.home, ws.home)
  OBVIOUS
<1>6. PICK job : job = PutBack(file.job, ws.job)
  OBVIOUS
<1>7. policy \in Tolerances /\ card \in [Roles -> {None} \cup Rate]
  BY <1>1, <1>2, <1>3 DEF Workspace, Snapshot
<1>8. manager \in [People -> {None} \cup People]
  <2>1. file.manager \in Partial(People, {None} \cup People) /\ ws.manager \in [People -> {None} \cup People]
    BY <1>1 DEF Workspace, Snapshot
  <2> QED BY <1>4, <2>1, PutBackTyped
<1>9. home \in [People -> {None} \cup HomePractices]
  <2>1. file.home \in Partial(People, {None} \cup HomePractices) /\ ws.home \in [People -> {None} \cup HomePractices]
    BY <1>1 DEF Workspace, Snapshot
  <2> QED BY <1>5, <2>1, PutBackTyped
<1>10. job \in [People -> {None} \cup Roles]
  <2>1. file.job \in Partial(People, {None} \cup Roles) /\ ws.job \in [People -> {None} \cup Roles]
    BY <1>1 DEF Workspace, Snapshot
  <2> QED BY <1>6, <2>1, PutBackTyped
<1>11. ws' = [file EXCEPT !.policy = policy, !.card = card, !.manager = manager, !.home = home, !.job = job]
  BY <1>2, <1>3, <1>4, <1>5, <1>6 DEF Restore
<1> HIDE DEF Partial
<1> QED BY <1>1, <1>7, <1>8, <1>9, <1>10, <1>11 DEF Workspace, Snapshot

\* Somebody new has no role policy.
LEMMA NewcomerTyped ==
  ASSUME TowerInv
  PROVE  Newcomer \in Person /\ Newcomer.policy = None
<1>1. Today \in Int
  BY TowerAssumption DEF TowerInv, TowerTypeOK, Today
<1>2. "TRANS-Delivery" \in PracticeNames
  BY DEF PracticeNames
<1> QED BY <1>1, <1>2 DEF Newcomer, Person

\* A restore makes people anew, with no role policy, and leaves the others theirs.
LEMMA RestoreKeepsInv ==
  ASSUME TowerInv, NEW file \in Files, Restore(file)
  PROVE  TowerInv'
<1>1. ws' \in Workspace
  BY RestoreTyped
<1>2. Newcomer \in Person /\ Newcomer.policy = None
  BY NewcomerTyped
<1>3. roster' \in [People -> {None} \cup Person] /\ \A i \in People : roster'[i] \in {roster[i], Newcomer}
  BY <1>2 DEF Restore, TowerInv, TowerTypeOK
<1>4. edits' \in 0..MaxEdits
  BY TowerAssumption DEF TowerInv, TowerTypeOK, Edit, Restore
<1>5. UNCHANGED <<clock, policies, holidays, orders, sync, raced>>
  BY DEF Restore
<1>6. TowerTypeOK'
  BY <1>1, <1>3, <1>4, <1>5 DEF TowerInv, TowerTypeOK
<1>7. CleanIsCurrent'
  BY <1>5 DEF TowerInv, CleanIsCurrent
<1>8. StaleTargetsRaced'
  BY <1>2, <1>3, <1>5 DEF TowerInv, StaleTargetsRaced
<1> QED BY <1>6, <1>7, <1>8 DEF TowerInv

\* So does a new resource.
LEMMA CreateResourceKeepsInv ==
  ASSUME TowerInv, NEW i \in People, NEW home \in HomePractices \cup {None},
         NEW role \in Roles \cup {None}, CreateResource(i, home, role)
  PROVE  TowerInv'
<1>1. ws' \in Workspace
  <2>1. ws' = [ws EXCEPT !.home[i] = home, !.job[i] = role] /\ ws \in Workspace
    BY DEF CreateResource, TowerInv, TowerTypeOK
  <2> QED BY <2>1 DEF Workspace
<1>2. Newcomer \in Person /\ Newcomer.policy = None
  BY NewcomerTyped
<1>3. roster' \in [People -> {None} \cup Person] /\ \A j \in People : roster'[j] \in {roster[j], Newcomer}
  BY <1>2 DEF CreateResource, TowerInv, TowerTypeOK
<1>4. edits' \in 0..MaxEdits
  BY TowerAssumption DEF TowerInv, TowerTypeOK, Edit, CreateResource
<1>5. UNCHANGED <<clock, policies, holidays, orders, sync, raced>>
  BY DEF CreateResource
<1>6. TowerTypeOK'
  BY <1>1, <1>3, <1>4, <1>5 DEF TowerInv, TowerTypeOK
<1>7. CleanIsCurrent'
  BY <1>5 DEF TowerInv, CleanIsCurrent
<1>8. StaleTargetsRaced'
  BY <1>2, <1>3, <1>5 DEF TowerInv, StaleTargetsRaced
<1> QED BY <1>6, <1>7, <1>8 DEF TowerInv

\* A deleted resource leaves no target behind.
LEMMA DeleteResourceKeepsInv ==
  ASSUME TowerInv, NEW i \in People, DeleteResource(i)
  PROVE  TowerInv'
<1> DEFINE without(x) == IF x = i THEN None ELSE x
<1>1. PICK leads : leads = [p \in Projects |->
         [ws.leads[p] EXCEPT !.pd = without(@), !.dm = without(@), !.pm = without(@)]]
  OBVIOUS
<1>2. PICK contributors : contributors = [p \in Projects |-> ws.contributors[p] \ {i}]
  OBVIOUS
<1>3. PICK manager : manager = [j \in People |-> IF j = i THEN None ELSE without(ws.manager[j])]
  OBVIOUS
<1>4. ws \in Workspace
  BY DEF TowerInv, TowerTypeOK
<1>5. leads \in [Projects -> Lead]
  <2>1. ASSUME NEW p \in Projects PROVE leads[p] \in Lead
    <3>1. PICK l \in Lead : l = ws.leads[p]
      BY <1>4 DEF Workspace
    <3>2. leads[p] = [l EXCEPT !.pd = without(@), !.dm = without(@), !.pm = without(@)]
      BY <1>1, <3>1
    <3> QED BY <3>2 DEF Lead
  <2> QED BY <1>1, <2>1
<1>6. contributors \in [Projects -> SUBSET People] /\ manager \in [People -> {None} \cup People]
  BY <1>2, <1>3, <1>4 DEF Workspace
<1>7. ws' = [ws EXCEPT !.leads = leads, !.contributors = contributors, !.manager = manager,
                       !.home[i] = None, !.job[i] = None]
  BY <1>1, <1>2, <1>3 DEF DeleteResource
<1>8. ws' \in Workspace
  BY <1>4, <1>5, <1>6, <1>7 DEF Workspace
<1>9. roster' \in [People -> {None} \cup Person] /\ \A j \in People : roster'[j] \in {roster[j], None}
  BY DEF DeleteResource, TowerInv, TowerTypeOK
<1>10. edits' \in 0..MaxEdits
  BY TowerAssumption DEF TowerInv, TowerTypeOK, Edit, DeleteResource
<1>11. UNCHANGED <<clock, policies, holidays, orders, sync, raced>>
  BY DEF DeleteResource
<1>12. TowerTypeOK'
  BY <1>8, <1>9, <1>10, <1>11 DEF TowerInv, TowerTypeOK
<1>13. CleanIsCurrent'
  BY <1>11 DEF TowerInv, CleanIsCurrent
<1>14. StaleTargetsRaced'
  BY <1>9, <1>11 DEF TowerInv, StaleTargetsRaced
<1> QED BY <1>12, <1>13, <1>14 DEF TowerInv

\* Hours touch neither a policy nor a target.
LEMMA LogHoursKeepsInv ==
  ASSUME TowerInv, NEW i \in People, NEW h \in Hours, LogHours(i, h)
  PROVE  TowerInv'
<1>1. PICK person : person = [roster[i] EXCEPT !.hours = h]
  OBVIOUS
<1>2. roster[i] \in Person /\ h \in Nat
  BY TowerAssumption DEF LogHours, TowerInv, TowerTypeOK
<1>3. person \in Person /\ person.policy = roster[i].policy /\ person.target = roster[i].target
  BY <1>1, <1>2 DEF Person
<1>4. roster' = [roster EXCEPT ![i] = person] /\ roster[i] # None
  BY <1>1 DEF LogHours
<1>5. UNCHANGED <<clock, ws, policies, holidays, orders, sync, raced>>
  BY DEF LogHours
<1>6. edits' \in 0..MaxEdits
  BY TowerAssumption DEF TowerInv, TowerTypeOK, Edit, LogHours
<1>7. TowerTypeOK'
  BY <1>3, <1>4, <1>5, <1>6 DEF TowerInv, TowerTypeOK
<1>8. CleanIsCurrent'
  BY <1>5 DEF TowerInv, CleanIsCurrent
<1>9. StaleTargetsRaced'
  <2> SUFFICES ASSUME NEW j \in People, roster'[j] # None, roster'[j].policy # None
               PROVE  \/ roster'[j].target = policies'[roster'[j].policy].target
                      \/ roster'[j].policy \in raced'
                      \/ \E a \in Admins : sync'[a] # None /\ sync'[a].policy = roster'[j].policy
    BY DEF StaleTargetsRaced
  <2>1. roster[j] # None /\ roster'[j].policy = roster[j].policy /\ roster'[j].target = roster[j].target
    BY <1>3, <1>4 DEF TowerInv, TowerTypeOK
  <2> QED BY <1>5, <2>1 DEF TowerInv, StaleTargetsRaced
<1> QED BY <1>7, <1>8, <1>9 DEF TowerInv

\* Nor do holidays.
LEMMA HolidaysKeepInv ==
  ASSUME TowerInv, NEW d \in Days, CreateHoliday(d) \/ DeleteHoliday(d)
  PROVE  TowerInv'
<1>1. edits' \in 0..MaxEdits
  BY TowerAssumption DEF TowerInv, TowerTypeOK, Edit, CreateHoliday, DeleteHoliday
<1>2. UNCHANGED <<clock, ws, roster, policies, orders, sync, raced>> /\ holidays' \subseteq Days
  BY DEF CreateHoliday, DeleteHoliday, TowerInv, TowerTypeOK
<1> QED BY <1>1, <1>2 DEF TowerInv, TowerTypeOK, CleanIsCurrent, StaleTargetsRaced

\* A policy change announces itself before any target is stale, and tells those under way
\* that they are no longer the last.
LEMMA UpdateRolePolicyKeepsInv ==
  ASSUME TowerInv, NEW a \in Admins, NEW r \in RolePolicies, NEW t \in Targets, NEW head \in BOOLEAN,
         UpdateRolePolicy(a, r, t, head)
  PROVE  TowerInv'
<1> DEFINE other(b) == sync[b] # None /\ sync[b].policy = r
<1>1. PICK clean \in BOOLEAN :
        sync' = [b \in Admins |->
                   IF b = a THEN [policy |-> r, target |-> t, clean |-> clean]
                   ELSE IF other(b) THEN [sync[b] EXCEPT !.clean = FALSE] ELSE sync[b]]
  BY DEF UpdateRolePolicy
<1>2. t \in Nat
  BY TowerAssumption
<1>3. /\ UNCHANGED <<clock, ws, roster, holidays, orders, raced>>
      /\ policies' = [policies EXCEPT ![r] = [target |-> t, head |-> head]]
  BY DEF UpdateRolePolicy
<1>4. edits' \in 0..MaxEdits
  BY TowerAssumption DEF TowerInv, TowerTypeOK, Edit, UpdateRolePolicy
<1>5. /\ policies' \in [RolePolicies -> RolePolicy] /\ policies'[r].target = t
      /\ \A s \in RolePolicies \ {r} : policies'[s] = policies[s]
  BY <1>2, <1>3 DEF TowerInv, TowerTypeOK, RolePolicy
<1>6. /\ sync'[a] \in Sync /\ sync'[a].policy = r /\ sync'[a].target = t
  BY <1>1, <1>2 DEF Sync
<1>7. ASSUME NEW b \in Admins \ {a}
      PROVE  /\ sync'[b] \in {None} \cup Sync /\ (sync'[b] = None <=> sync[b] = None)
             /\ sync'[b] # None =>
                  /\ sync'[b].policy = sync[b].policy /\ sync'[b].target = sync[b].target
                  /\ sync'[b].clean => sync[b].clean /\ sync[b].policy # r
  <2>1. sync[b] \in {None} \cup Sync
    BY DEF TowerInv, TowerTypeOK
  <2>2. CASE other(b)
    <3>1. sync'[b] = [sync[b] EXCEPT !.clean = FALSE] /\ sync[b] \in Sync
      BY <1>1, <2>1, <2>2
    <3> QED BY <2>2, <3>1, TowerAssumption DEF Sync
  <2>3. CASE ~other(b)
    <3>1. sync'[b] = sync[b]
      BY <1>1, <2>3
    <3> QED BY <2>1, <2>3, <3>1
  <2> QED BY <2>2, <2>3
<1>8. sync' \in [Admins -> {None} \cup Sync]
  BY <1>1, <1>6, <1>7
<1>9. TowerTypeOK'
  BY <1>3, <1>4, <1>5, <1>8 DEF TowerInv, TowerTypeOK
<1>10. CleanIsCurrent'
  <2> SUFFICES ASSUME NEW b \in Admins, sync'[b] # None, sync'[b].clean
               PROVE  sync'[b].target = policies'[sync'[b].policy].target
    BY DEF CleanIsCurrent
  <2>1. CASE b = a
    BY <1>5, <1>6, <2>1
  <2>2. CASE b # a
    <3>1. sync[b] \in Sync /\ sync[b].clean /\ sync[b].policy # r
          /\ sync'[b].policy = sync[b].policy /\ sync'[b].target = sync[b].target
      BY <1>7, <2>2 DEF TowerInv, TowerTypeOK
    <3>2. sync[b].target = policies[sync[b].policy].target /\ sync[b].policy \in RolePolicies
      BY <1>7, <2>2, <3>1 DEF TowerInv, CleanIsCurrent, Sync
    <3> QED BY <1>5, <3>1, <3>2
  <2> QED BY <2>1, <2>2
<1>11. StaleTargetsRaced'
  <2> SUFFICES ASSUME NEW j \in People, roster'[j] # None, roster'[j].policy # None
               PROVE  \/ roster'[j].target = policies'[roster'[j].policy].target
                      \/ roster'[j].policy \in raced'
                      \/ \E b \in Admins : sync'[b] # None /\ sync'[b].policy = roster'[j].policy
    BY DEF StaleTargetsRaced
  <2>1. roster'[j] = roster[j] /\ roster[j] \in Person /\ roster[j].policy \in RolePolicies
    BY <1>3 DEF TowerInv, TowerTypeOK, Person
  <2>2. CASE roster[j].policy = r
    BY <1>6, <2>1, <2>2, TowerAssumption
  <2>3. CASE roster[j].policy # r
    <3>1. \/ roster[j].target = policies[roster[j].policy].target
          \/ roster[j].policy \in raced
          \/ \E b \in Admins : sync[b] # None /\ sync[b].policy = roster[j].policy
      BY <2>1 DEF TowerInv, StaleTargetsRaced
    <3>2. CASE \E b \in Admins : sync[b] # None /\ sync[b].policy = roster[j].policy
      <4>1. PICK b \in Admins : sync[b] # None /\ sync[b].policy = roster[j].policy
        BY <3>2
      <4>2. b # a
        BY <4>1 DEF UpdateRolePolicy
      <4>3. sync'[b] # None /\ sync'[b].policy = roster[j].policy
        BY <1>7, <4>1, <4>2
      <4> QED BY <2>1, <4>3
    <3> QED BY <1>3, <1>5, <2>1, <2>3, <3>1, <3>2
  <2> QED BY <2>2, <2>3
<1> QED BY <1>9, <1>10, <1>11 DEF TowerInv

\* What the second write or its loss leaves of the marks.
LEMMA SyncEnds ==
  ASSUME TowerInv, NEW a \in Admins, sync[a] # None, sync' = [sync EXCEPT ![a] = None]
  PROVE  /\ sync' \in [Admins -> {None} \cup Sync]
         /\ \A b \in Admins : sync'[b] # None => b # a /\ sync'[b] = sync[b]
         /\ \A b \in Admins \ {a} : sync'[b] = sync[b]
         /\ sync[a] \in Sync
BY DEF TowerInv, TowerTypeOK

\* The second write brings every target in line, or leaves the policy marked as raced.
LEMMA SyncTargetsKeepsInv ==
  ASSUME TowerInv, NEW a \in Admins, SyncTargets(a) PROVE TowerInv'
<1>1. PICK s : s = sync[a]
  OBVIOUS
<1>2. /\ sync' \in [Admins -> {None} \cup Sync]
      /\ \A b \in Admins : sync'[b] # None => b # a /\ sync'[b] = sync[b]
      /\ \A b \in Admins \ {a} : sync'[b] = sync[b]
      /\ s \in Sync /\ s # None
  BY <1>1, SyncEnds DEF SyncTargets
<1>3. /\ UNCHANGED <<clock, ws, policies, holidays, orders, edits>>
      /\ raced' = IF s.clean THEN raced \ {s.policy} ELSE raced \cup {s.policy}
      /\ roster' = [i \in People |-> IF roster[i] # None /\ roster[i].policy = s.policy
                                     THEN [roster[i] EXCEPT !.target = s.target]
                                     ELSE roster[i]]
  BY <1>1 DEF SyncTargets
<1>4. s.policy \in RolePolicies /\ s.target \in Nat /\ s.clean \in BOOLEAN
      /\ (s.clean => s.target = policies[s.policy].target)
  BY <1>1, <1>2 DEF Sync, TowerInv, CleanIsCurrent
<1>5. ASSUME NEW i \in People
      PROVE  /\ roster'[i] \in {None} \cup Person /\ (roster'[i] = None <=> roster[i] = None)
             /\ roster'[i] # None =>
                  /\ roster'[i].policy = roster[i].policy
                  /\ roster'[i].target = IF roster[i].policy = s.policy THEN s.target
                                         ELSE roster[i].target
  <2>1. roster[i] \in {None} \cup Person
    BY DEF TowerInv, TowerTypeOK
  <2>2. CASE roster[i] # None /\ roster[i].policy = s.policy
    <3>1. PICK x \in Person : x = roster[i]
      BY <2>1, <2>2
    <3>2. roster'[i] = [x EXCEPT !.target = s.target]
      BY <1>3, <2>2, <3>1
    <3>3. roster'[i] \in Person /\ roster'[i].policy = x.policy /\ roster'[i].target = s.target
      BY <1>4, <3>2 DEF Person
    <3> QED BY <2>2, <3>1, <3>3, TowerAssumption
  <2>3. CASE ~(roster[i] # None /\ roster[i].policy = s.policy)
    <3>1. roster'[i] = roster[i]
      BY <1>3, <2>3
    <3> QED BY <2>1, <2>3, <3>1
  <2> QED BY <2>2, <2>3
<1>6. roster' \in [People -> {None} \cup Person] /\ raced' \subseteq RolePolicies
  BY <1>3, <1>4, <1>5 DEF TowerInv, TowerTypeOK
<1>7. TowerTypeOK'
  BY <1>2, <1>3, <1>6 DEF TowerInv, TowerTypeOK
<1>8. CleanIsCurrent'
  BY <1>2, <1>3 DEF TowerInv, CleanIsCurrent
<1>9. StaleTargetsRaced'
  <2> SUFFICES ASSUME NEW i \in People, roster'[i] # None, roster'[i].policy # None
               PROVE  \/ roster'[i].target = policies'[roster'[i].policy].target
                      \/ roster'[i].policy \in raced'
                      \/ \E b \in Admins : sync'[b] # None /\ sync'[b].policy = roster'[i].policy
    BY DEF StaleTargetsRaced
  <2>1. roster[i] # None /\ roster'[i].policy = roster[i].policy
        /\ roster'[i].target = IF roster[i].policy = s.policy THEN s.target ELSE roster[i].target
    BY <1>5
  <2>2. CASE roster[i].policy = s.policy
    <3>1. roster'[i].target = s.target /\ roster'[i].policy = s.policy /\ policies' = policies
      BY <1>3, <2>1, <2>2
    <3>2. s.clean => s.target = policies[s.policy].target
      BY <1>4
    <3>3. ~s.clean => s.policy \in raced'
      BY <1>3
    <3> QED BY <3>1, <3>2, <3>3
  <2>3. CASE roster[i].policy # s.policy
    <3>1. \/ roster[i].target = policies[roster[i].policy].target
          \/ roster[i].policy \in raced
          \/ \E b \in Admins : sync[b] # None /\ sync[b].policy = roster[i].policy
      BY <2>1 DEF TowerInv, StaleTargetsRaced
    <3>2. ASSUME NEW b \in Admins, sync[b] # None, sync[b].policy = roster[i].policy
          PROVE  sync'[b] # None /\ sync'[b].policy = roster'[i].policy
      BY <1>1, <1>2, <2>1, <2>3, <3>2
    <3> QED BY <1>3, <2>1, <2>3, <3>1, <3>2
  <2> QED BY <2>2, <2>3
<1> QED BY <1>7, <1>8, <1>9 DEF TowerInv

\* A change that dies before its second write leaves the policy marked.
LEMMA DieBeforeSyncKeepsInv ==
  ASSUME TowerInv, NEW a \in Admins, DieBeforeSync(a) PROVE TowerInv'
<1>1. PICK s : s = sync[a]
  OBVIOUS
<1>2. /\ sync' \in [Admins -> {None} \cup Sync]
      /\ \A b \in Admins : sync'[b] # None => b # a /\ sync'[b] = sync[b]
      /\ \A b \in Admins \ {a} : sync'[b] = sync[b]
      /\ s \in Sync /\ s # None
  BY <1>1, SyncEnds DEF DieBeforeSync
<1>3. UNCHANGED <<clock, ws, roster, policies, holidays, orders, edits>>
      /\ raced' = raced \cup {s.policy}
  BY <1>1 DEF DieBeforeSync
<1>4. TowerTypeOK'
  BY <1>2, <1>3 DEF TowerInv, TowerTypeOK, Sync
<1>5. CleanIsCurrent'
  BY <1>2, <1>3 DEF TowerInv, CleanIsCurrent
<1>6. StaleTargetsRaced'
  <2> SUFFICES ASSUME NEW i \in People, roster[i] # None, roster[i].policy # None
               PROVE  \/ roster[i].target = policies[roster[i].policy].target
                      \/ roster[i].policy \in raced'
                      \/ \E b \in Admins : sync'[b] # None /\ sync'[b].policy = roster[i].policy
    BY <1>3 DEF StaleTargetsRaced
  <2>1. ASSUME NEW b \in Admins, sync[b] # None, sync[b].policy = roster[i].policy
        PROVE  \/ roster[i].policy \in raced'
               \/ sync'[b] # None /\ sync'[b].policy = roster[i].policy
    BY <1>1, <1>2, <1>3, <2>1
  <2> QED BY <1>3, <2>1 DEF TowerInv, StaleTargetsRaced
<1> QED BY <1>4, <1>5, <1>6 DEF TowerInv

\* A seeded workspace satisfies the invariant,
LEMMA TowerInitInv == TowerInit => TowerInv
<1> SUFFICES ASSUME TowerInit PROVE TowerInv
  OBVIOUS
<1>1. clock \in 0..Horizon /\ edits \in 0..MaxEdits
  BY TowerAssumption DEF TowerInit
<1>2. /\ ws \in Workspace /\ roster \in [People -> {None} \cup Person]
      /\ policies \in [RolePolicies -> RolePolicy] /\ holidays \subseteq Days
  BY TowerAssumption DEF TowerInit
<1>3. orders \subseteq Projects /\ raced \subseteq RolePolicies
      /\ sync \in [Admins -> {None} \cup Sync]
  BY DEF TowerInit
<1>4. CleanIsCurrent
  BY DEF TowerInit, CleanIsCurrent
<1>5. StaleTargetsRaced
  BY TowerAssumption DEF TowerInit, StaleTargetsRaced
<1> QED BY <1>1, <1>2, <1>3, <1>4, <1>5 DEF TowerInv, TowerTypeOK

\* ... every edit, restore, policy change and tick keeps it,
LEMMA TowerStep == TowerInv /\ [TowerNext]_towerVars => TowerInv'
<1> SUFFICES ASSUME TowerInv, [TowerNext]_towerVars PROVE TowerInv'
  OBVIOUS
<1>1. CASE Tick
  <2>1. clock' \in 0..Horizon
    BY <1>1, TowerAssumption DEF Tick, TowerInv, TowerTypeOK
  <2> QED BY <1>1, <2>1 DEF Tick, TowerInv, TowerTypeOK, CleanIsCurrent, StaleTargetsRaced
<1>2. CASE Administer
  <2>1. CASE \E file \in Files : Restore(file)
    BY <2>1, RestoreKeepsInv
  <2>2. CASE ~(\E file \in Files : Restore(file))
    BY <1>2, <2>2, AdministerTyped, OnlyWorkspace
  <2> QED BY <2>1, <2>2
<1>3. CASE ManageTeam
  BY <1>3, CreateResourceKeepsInv, DeleteResourceKeepsInv, LogHoursKeepsInv, HolidaysKeepInv,
     SyncTargetsKeepsInv, DieBeforeSyncKeepsInv, UpdateRolePolicyKeepsInv DEF ManageTeam
<1>4. ASSUME NEW p \in Projects, EditProject(p) PROVE TowerInv'
  <2>1. CASE ExecuteChangeOrder(p)
    <3>1. /\ orders' = orders \cup {p} /\ Edit
          /\ UNCHANGED <<clock, ws, policies, holidays, roster, sync, raced>>
      BY <2>1 DEF ExecuteChangeOrder
    <3>2. edits' \in 0..MaxEdits
      BY <3>1, TowerAssumption DEF TowerInv, TowerTypeOK, Edit
    <3> QED BY <3>1, <3>2 DEF TowerInv, TowerTypeOK, CleanIsCurrent, StaleTargetsRaced
  <2>2. CASE ~ExecuteChangeOrder(p)
    BY <1>4, <2>2, EditProjectTyped, OnlyWorkspace
  <2> QED BY <2>1, <2>2
<1>5. CASE UNCHANGED towerVars
  BY <1>5 DEF towerVars, TowerInv, TowerTypeOK, CleanIsCurrent, StaleTargetsRaced
<1> QED BY <1>1, <1>2, <1>3, <1>4, <1>5 DEF TowerNext

\* ... so it holds throughout.
LEMMA TowerInvariant == TowerSpec => []TowerInv
BY TowerInitInv, TowerStep, PTL DEF TowerSpec

\* Every row is one the schema allows.
THEOREM TowerTypeCorrect == TowerSpec => []TowerTypeOK
<1>1. TowerInv => TowerTypeOK
  BY DEF TowerInv
<1> QED BY <1>1, TowerInvariant, PTL

\* A person's own target is the role policy's, unless a change of the policy is between
\* its two writes or the last one overlapped another or was cut (updateRolePolicy).
THEOREM OnlyRacedTargetsAreStale == TowerSpec => []StaleTargetsRaced
<1>1. TowerInv => StaleTargetsRaced
  BY DEF TowerInv
<1> QED BY <1>1, TowerInvariant, PTL

\* Whoever may edit a project finds it in every list (rbac.ts, scoping.ts): the edit
\* check and the pure predicate are both inside the where clause, and a manager who sees
\* a project through its lead sees the lead.
THEOREM EditorsFindTheirProjects == TowerSpec => []EditorsCanSee
<1>1. ASSUME TowerTypeOK PROVE EditorsCanSee
  <2> SUFFICES ASSUME NEW u \in Users, NEW p \in Projects
               PROVE  LET who == Who(u)
                          lead == ws.leads[p]
                          sees == Team!InProjectScope(who, lead, ws.contributors[p], ws.manager)
                          reports == {i \in People : ws.manager[i] = who.resource}
                      IN /\ Team!CanEdit(who, lead) \/ Team!IsProjectInScope(who, lead, reports) => sees
                         /\ (sees /\ who.role = "DELIVERY_MANAGER" /\ who.resource # lead.dm) =>
                              Team!InResourceScope(who, lead.pm, ws.home[lead.pm], ws.manager[lead.pm])
    BY DEF EditorsCanSee
  <2>1. PICK who : who = Who(u)
    OBVIOUS
  <2>2. PICK lead : lead = ws.leads[p]
    OBVIOUS
  <2> DEFINE sees == Team!InProjectScope(who, lead, ws.contributors[p], ws.manager)
             reports == {i \in People : ws.manager[i] = who.resource}
  <2>3. Team!CanEdit(who, lead) => sees
    BY DEF Team!CanEdit, Team!InProjectScope
  <2>4. Team!IsProjectInScope(who, lead, reports) => sees
    BY TowerAssumption DEF Team!IsProjectInScope, Team!InProjectScope
  <2>5. (sees /\ who.role = "DELIVERY_MANAGER" /\ who.resource # lead.dm) =>
          Team!InResourceScope(who, lead.pm, ws.home[lead.pm], ws.manager[lead.pm])
    BY DEF Team!InProjectScope, Team!InResourceScope, Team!Holds
  <2> QED BY <2>1, <2>2, <2>3, <2>4, <2>5
<1> QED BY <1>1, TowerTypeCorrect, PTL

(***************************************************************************)
(* What time and good news do to the judgement of a schedule.              *)
(***************************************************************************)
\* The ranks of the colours and of the health codes.
LEMMA Ranks ==
  /\ RagRank["Green"] = 0 /\ RagRank["Amber"] = 1 /\ RagRank["Red"] = 2
  /\ HealthRank["G"] = 0 /\ HealthRank["Y"] = 1 /\ HealthRank["R"] = 2
BY DEF RagRank, HealthRank

\* The worst colour of a set is one of them, and none is worse.
LEMMA WorstIsWorst ==
  ASSUME NEW S \in SUBSET Rags, "Green" \in S
  PROVE  WorstOf(S) \in S /\ \A y \in S : RagRank[y] <= RagRank[WorstOf(S)]
<1>1. \E x \in S : \A y \in S : RagRank[y] <= RagRank[x]
  <2>1. CASE "Red" \in S
    BY <2>1, Ranks DEF Rags
  <2>2. CASE "Red" \notin S /\ "Amber" \in S
    BY <2>2, Ranks DEF Rags
  <2>3. CASE S = {"Green"}
    BY <2>3, Ranks
  <2> QED BY <2>1, <2>2, <2>3 DEF Rags
<1> QED BY <1>1 DEF WorstOf

\* A phase has one of the colours.
LEMMA PhaseRagColour ==
  ASSUME NEW row, NEW now PROVE PhaseRag(row, now) \in Rags
BY DEF PhaseRag, Rags

\* The pace of a phase, with what is gone of its window and the window as integers.
LEMMA PaceIs ==
  ASSUME NEW row \in Phase, NEW now \in Int, HasWindow(row)
  PROVE  \E e \in Int, w \in Int :
           /\ e = 100 * (now - row.plannedStart * TicksPerDay)
           /\ w = (row.plannedEnd - row.plannedStart) * TicksPerDay /\ w > 0
           /\ Pace(row, now) =
                IF row.status = "complete" THEN "complete"
                ELSE IF e <= 0 THEN "notStarted"
                ELSE IF e > 75 * w /\ row.pct < 50 THEN "critical"
                ELSE IF e > 50 * w /\ row.pct < 25 THEN "warning"
                ELSE "onPace"
<1>1. row.plannedStart \in Int /\ row.plannedEnd \in Int /\ row.plannedEnd > row.plannedStart
  BY DEF Phase, HasWindow
<1>2. TicksPerDay \in Int /\ TicksPerDay > 0
  BY TowerAssumption
<1>3. PICK e \in Int : e = 100 * (now - row.plannedStart * TicksPerDay)
  BY <1>1, <1>2
<1>4. PICK w \in Int : w = (row.plannedEnd - row.plannedStart) * TicksPerDay
  BY <1>1, <1>2
<1>5. w > 0
  <2>1. PICK d \in Int : d = row.plannedEnd - row.plannedStart
    BY <1>1
  <2>2. d > 0 /\ w = d * TicksPerDay
    BY <1>1, <1>4, <2>1
  <2> QED BY <1>2, <2>2
<1> QED BY <1>3, <1>4, <1>5 DEF Pace

\* A pace only gets worse as time passes.
LEMMA PaceWorsens ==
  ASSUME NEW row \in Phase, NEW now \in Int, NEW later \in Int, now <= later
  PROVE  /\ Pace(row, now) = "critical" => Pace(row, later) = "critical"
         /\ Pace(row, now) = "warning" => Pace(row, later) \in {"critical", "warning"}
<1>1. CASE ~HasWindow(row)
  BY <1>1 DEF Pace
<1>2. CASE HasWindow(row)
  <2>1. PICK e \in Int, w \in Int :
           /\ e = 100 * (now - row.plannedStart * TicksPerDay)
           /\ w = (row.plannedEnd - row.plannedStart) * TicksPerDay /\ w > 0
           /\ Pace(row, now) =
                IF row.status = "complete" THEN "complete"
                ELSE IF e <= 0 THEN "notStarted"
                ELSE IF e > 75 * w /\ row.pct < 50 THEN "critical"
                ELSE IF e > 50 * w /\ row.pct < 25 THEN "warning"
                ELSE "onPace"
    BY <1>2, PaceIs
  <2>2. PICK f \in Int, v \in Int :
           /\ f = 100 * (later - row.plannedStart * TicksPerDay)
           /\ v = (row.plannedEnd - row.plannedStart) * TicksPerDay /\ v > 0
           /\ Pace(row, later) =
                IF row.status = "complete" THEN "complete"
                ELSE IF f <= 0 THEN "notStarted"
                ELSE IF f > 75 * v /\ row.pct < 50 THEN "critical"
                ELSE IF f > 50 * v /\ row.pct < 25 THEN "warning"
                ELSE "onPace"
    BY <1>2, PaceIs
  <2>3. f >= e /\ v = w
    <3>1. PICK s \in Int : s = row.plannedStart * TicksPerDay
      BY <1>2, TowerAssumption DEF HasWindow, Phase
    <3> QED BY <2>1, <2>2, <3>1
  <2>4. row.pct \in Int
    BY DEF Phase
  <2> QED BY <2>1, <2>2, <2>3, <2>4
<1> QED BY <1>1, <1>2

\* So does the colour of a phase,
LEMMA PhaseWorsens ==
  ASSUME NEW row \in Phase, NEW now \in Int, NEW later \in Int, now <= later
  PROVE  RagRank[PhaseRag(row, now)] <= RagRank[PhaseRag(row, later)]
<1>1. PICK slip : slip = SlipSeverity(row, DefaultPolicy)
  OBVIOUS
<1>2. PICK p, q : p = Pace(row, now) /\ q = Pace(row, later)
  OBVIOUS
<1>3. (p = "critical" => q = "critical") /\ (p = "warning" => q \in {"critical", "warning"})
  BY <1>2, PaceWorsens
<1> QED BY <1>1, <1>2, <1>3, Ranks DEF PhaseRag

\* ... that of a project,
LEMMA ProjectWorsens ==
  ASSUME NEW rows \in [PhaseKeys -> Phase], NEW now \in Int, NEW later \in Int, now <= later
  PROVE  RagRank[ProjectRag(rows, now)] <= RagRank[ProjectRag(rows, later)]
<1> DEFINE S(t) == {"Green"} \cup {PhaseRag(rows[k], t) : k \in Active(rows)}
<1>1. S(now) \in SUBSET Rags /\ S(later) \in SUBSET Rags
  BY PhaseRagColour DEF Rags
<1>2. PICK x : x = WorstOf(S(now))
  OBVIOUS
<1>3. PICK y : y = WorstOf(S(later))
  OBVIOUS
<1>4. x \in S(now) /\ y \in Rags /\ \A z \in S(later) : RagRank[z] <= RagRank[y]
  BY <1>1, <1>2, <1>3, WorstIsWorst
<1>5. RagRank[x] <= RagRank[y]
  <2>1. CASE x = "Green"
    BY <1>4, <2>1, Ranks DEF Rags
  <2>2. CASE \E k \in Active(rows) : x = PhaseRag(rows[k], now)
    <3>1. PICK k \in Active(rows) : x = PhaseRag(rows[k], now)
      BY <2>2
    <3>2. rows[k] \in Phase
      BY DEF Active
    <3>3. PICK z : z = PhaseRag(rows[k], later)
      OBVIOUS
    <3>4. RagRank[x] <= RagRank[z]
      BY <3>1, <3>2, <3>3, PhaseWorsens
    <3>5. RagRank[z] <= RagRank[y] /\ z \in Rags /\ x \in Rags
      BY <1>1, <1>4, <3>3, PhaseRagColour
    <3> QED BY <1>4, <3>4, <3>5, Ranks DEF Rags
  <2> QED BY <1>4, <2>1, <2>2
<1> QED BY <1>2, <1>3, <1>5 DEF ProjectRag

\* ... and the two verdicts of the schedule page.
LEMMA PageWorsens ==
  ASSUME NEW rows \in [PhaseKeys -> Phase], NEW tol, NEW now \in Int, NEW later \in Int, now <= later
  PROVE  LET level == [onTrack |-> 0, warning |-> 1, critical |-> 2]
             before == ScheduleSummary(rows, tol, now)
             after == ScheduleSummary(rows, tol, later)
         IN /\ level[before.worst] <= level[after.worst]
            /\ level[before.worstPace] <= level[after.worstPace]
<1> DEFINE level == [onTrack |-> 0, warning |-> 1, critical |-> 2]
           before == ScheduleSummary(rows, tol, now)
           after == ScheduleSummary(rows, tol, later)
           paced(s, t) == {k \in PhaseKeys : Pace(rows[k], t) = s}
           worst(critical, warning) == IF critical # {} THEN "critical"
                                       ELSE IF warning # {} THEN "warning" ELSE "onTrack"
<1>1. level["onTrack"] = 0 /\ level["warning"] = 1 /\ level["critical"] = 2
  OBVIOUS
<1>2. before.worst = after.worst /\ before.worst \in {"critical", "warning", "onTrack"}
  BY DEF ScheduleSummary
<1>3. before.worstPace = worst(paced("critical", now), paced("warning", now))
      /\ after.worstPace = worst(paced("critical", later), paced("warning", later))
  BY DEF ScheduleSummary
<1>4. /\ paced("critical", now) \subseteq paced("critical", later)
      /\ paced("warning", now) \subseteq paced("critical", later) \cup paced("warning", later)
  BY PaceWorsens
<1>5. level[before.worst] <= level[after.worst]
  BY <1>1, <1>2
<1>6. level[before.worstPace] <= level[after.worstPace]
  <2> HIDE DEF level, before, after, paced
  <2> QED BY <1>1, <1>3, <1>4
<1> QED BY <1>5, <1>6

\* Only the tick moves the clock, and it moves nothing else.
LEMMA OnlyTheTick ==
  ASSUME [TowerNext]_towerVars, clock' # clock PROVE clock' = clock + 1 /\ ws' = ws
<1>1. CASE Tick
  BY <1>1 DEF Tick
<1>2. ASSUME Administer \/ ManageTeam PROVE clock' = clock
  BY <1>2 DEF Administer, ManageTeam, UpdateOrgPolicy, DeleteDeliveryRole,
     SetDeliveryRoleEmploymentType, Restore, CreateResource, DeleteResource, LogHours, CreateHoliday,
     DeleteHoliday, SyncTargets, DieBeforeSync, UpdateRolePolicy, OnlyWs
<1>3. ASSUME NEW p \in Projects, EditProject(p) PROVE clock' = clock
  BY <1>3 DEF EditProject, UpdateSchedulePhase, UpdateAuditEntry, ToggleProjectLock, UpdateRaid,
     ExecuteChangeOrder, UpdateEffortCell, SetEstimationMode, UpdateDirectIntake,
     UpdateFinancialActual, OnlyWs
<1>4. CASE UNCHANGED towerVars
  BY <1>4 DEF towerVars
<1> QED BY <1>1, <1>2, <1>3, <1>4 DEF TowerNext

\* Waiting cures nothing (schedule-health.ts, triage.ts): when only time passes, no phase
\* and no project gets a better colour, and neither verdict of the schedule page improves.
THEOREM WaitingCuresNothing == TowerSpec => TimeNeverHeals
<1> DEFINE level == [onTrack |-> 0, warning |-> 1, critical |-> 2]
           Step == clock' # clock =>
             \A p \in Projects :
               /\ RagRank[RagOf(p)] <= RagRank[RagOf(p)']
               /\ level[PageOf(p).worst] <= level[PageOf(p).worst']
               /\ level[PageOf(p).worstPace] <= level[PageOf(p).worstPace']
               /\ \A k \in PhaseKeys : RagRank[PhaseRag(ws.phases[p][k], clock)]
                                       <= RagRank[PhaseRag(ws.phases[p][k], clock)']
<1>1. ASSUME TowerInv, [TowerNext]_towerVars PROVE Step
  <2> SUFFICES ASSUME clock' # clock, NEW p \in Projects
               PROVE  /\ RagRank[RagOf(p)] <= RagRank[RagOf(p)']
                      /\ level[PageOf(p).worst] <= level[PageOf(p).worst']
                      /\ level[PageOf(p).worstPace] <= level[PageOf(p).worstPace']
                      /\ \A k \in PhaseKeys : RagRank[PhaseRag(ws.phases[p][k], clock)]
                                              <= RagRank[PhaseRag(ws.phases[p][k], clock)']
    OBVIOUS
  <2>1. clock \in Int /\ clock' \in Int /\ clock <= clock' /\ ws' = ws
    <3>1. clock' = clock + 1 /\ ws' = ws
      BY <1>1, OnlyTheTick
    <3>2. clock \in Int
      BY <1>1, TowerAssumption DEF TowerInv, TowerTypeOK
    <3> QED BY <3>1, <3>2
  <2>2. PICK rows \in [PhaseKeys -> Phase] : rows = ws.phases[p]
    BY <1>1 DEF TowerInv, TowerTypeOK, Workspace
  <2>3. RagRank[RagOf(p)] <= RagRank[RagOf(p)']
    BY <2>1, <2>2, ProjectWorsens DEF RagOf
  <2>4. /\ PageOf(p) = ScheduleSummary(rows, ws.policy, clock)
        /\ PageOf(p)' = ScheduleSummary(rows, ws.policy, clock')
    BY <2>1, <2>2 DEF PageOf
  <2>5. /\ level[ScheduleSummary(rows, ws.policy, clock).worst]
             <= level[ScheduleSummary(rows, ws.policy, clock').worst]
        /\ level[ScheduleSummary(rows, ws.policy, clock).worstPace]
             <= level[ScheduleSummary(rows, ws.policy, clock').worstPace]
    BY <2>1, PageWorsens
  <2>6. ASSUME NEW k \in PhaseKeys
        PROVE  RagRank[PhaseRag(ws.phases[p][k], clock)] <= RagRank[PhaseRag(ws.phases[p][k], clock)']
    BY <2>1, <2>2, PhaseWorsens
  <2> HIDE DEF level
  <2> QED BY <2>3, <2>4, <2>5, <2>6
<1> QED BY <1>1, TowerInvariant, PTL DEF TowerSpec, TimeNeverHeals

\* A row that is no worse news has no worse slip,
LEMMA SlipNoWorse ==
  ASSUME NEW a \in Phase, NEW b \in Phase, NoWorse(a, b)
  PROVE  /\ SlipDays(a) = None <=> SlipDays(b) = None
         /\ SlipDays(a) # None => SlipDays(a) \in Int /\ SlipDays(b) \in Int /\ SlipDays(b) <= SlipDays(a)
<1>1. /\ a.plannedEnd \in {None} \cup Int /\ b.plannedEnd \in {None} \cup Int
      /\ a.actualEnd \in {None} \cup Int /\ b.actualEnd \in {None} \cup Int
  BY DEF Phase
<1>2. b.plannedEnd = a.plannedEnd \/ (None \notin {a.plannedEnd, b.plannedEnd} /\ b.plannedEnd > a.plannedEnd)
  BY DEF NoWorse, HasWindow
<1>3. b.actualEnd = a.actualEnd \/ (None \notin {a.actualEnd, b.actualEnd} /\ b.actualEnd < a.actualEnd)
  BY DEF NoWorse
<1> QED BY <1>1, <1>2, <1>3, TowerAssumption DEF SlipDays

\* ... and no worse pace, unless it was delayed,
LEMMA PaceNoWorse ==
  ASSUME NEW a \in Phase, NEW b \in Phase, clock \in Int, NoWorse(a, b), a.status # "delayed"
  PROVE  /\ Pace(b, clock) = "critical" => Pace(a, clock) = "critical"
         /\ Pace(b, clock) = "warning" => Pace(a, clock) \in {"critical", "warning"}
<1>1. CASE ~HasWindow(b)
  BY <1>1 DEF Pace
<1>2. CASE HasWindow(b)
  <2>1. HasWindow(a) /\ a.plannedStart = b.plannedStart /\ a.plannedEnd <= b.plannedEnd
    <3>1. a.plannedEnd \in {None} \cup Int /\ b.plannedEnd \in {None} \cup Int
      BY DEF Phase
    <3> QED BY <1>2, <3>1, TowerAssumption DEF NoWorse, HasWindow
  <2>2. PICK e \in Int, w \in Int :
           /\ e = 100 * (clock - a.plannedStart * TicksPerDay)
           /\ w = (a.plannedEnd - a.plannedStart) * TicksPerDay /\ w > 0
           /\ Pace(a, clock) =
                IF a.status = "complete" THEN "complete"
                ELSE IF e <= 0 THEN "notStarted"
                ELSE IF e > 75 * w /\ a.pct < 50 THEN "critical"
                ELSE IF e > 50 * w /\ a.pct < 25 THEN "warning"
                ELSE "onPace"
    BY <2>1, PaceIs
  <2>3. PICK f \in Int, v \in Int :
           /\ f = 100 * (clock - b.plannedStart * TicksPerDay)
           /\ v = (b.plannedEnd - b.plannedStart) * TicksPerDay /\ v > 0
           /\ Pace(b, clock) =
                IF b.status = "complete" THEN "complete"
                ELSE IF f <= 0 THEN "notStarted"
                ELSE IF f > 75 * v /\ b.pct < 50 THEN "critical"
                ELSE IF f > 50 * v /\ b.pct < 25 THEN "warning"
                ELSE "onPace"
    BY <1>2, PaceIs
  <2>4. f = e
    BY <2>1, <2>2, <2>3
  <2>5. v >= w
    <3>1. a.plannedEnd \in Int /\ b.plannedEnd \in Int /\ a.plannedStart \in Int
      BY <1>2, <2>1 DEF HasWindow, Phase
    <3>2. PICK c \in Int, d \in Int : c = a.plannedEnd - a.plannedStart /\ d = b.plannedEnd - a.plannedStart
      BY <3>1
    <3>3. c <= d /\ w = c * TicksPerDay /\ v = d * TicksPerDay
      BY <2>1, <2>2, <2>3, <3>1, <3>2
    <3>4. TicksPerDay \in Nat
      BY TowerAssumption
    <3> QED BY <3>2, <3>3, <3>4
  <2>6. a.pct \in Int /\ b.pct \in Int /\ a.pct <= b.pct /\ b.status \in {a.status, "complete"}
    BY DEF Phase, NoWorse
  <2> QED BY <2>2, <2>3, <2>4, <2>5, <2>6
<1> QED BY <1>1, <1>2

\* ... so no worse colour: where a slip hid a critical pace, the slip stays.
LEMMA PhaseNoWorse ==
  ASSUME NEW a \in Phase, NEW b \in Phase, clock \in Int, NoWorse(a, b)
  PROVE  RagRank[PhaseRag(b, clock)] <= RagRank[PhaseRag(a, clock)]
<1>1. CASE a.status = "delayed"
  <2>1. PhaseRag(a, clock) = "Red"
    BY <1>1 DEF PhaseRag
  <2> QED BY <2>1, PhaseRagColour, Ranks DEF Rags
<1>2. CASE a.status # "delayed"
  <2>1. b.status # "delayed"
    BY <1>2 DEF NoWorse
  <2>2. PICK s, t : s = SlipSeverity(a, DefaultPolicy) /\ t = SlipSeverity(b, DefaultPolicy)
    OBVIOUS
  <2>3. DefaultPolicy.crit \in Int /\ DefaultPolicy.warn \in Int
    BY TowerAssumption DEF Tolerances
  <2>4. /\ t = "critical" => s = "critical"
        /\ t \in {"warning", "slip"} => s \in {"critical", "warning", "slip"}
    BY <2>2, <2>3, SlipNoWorse DEF SlipSeverity
  <2>5. PICK p, q : p = Pace(a, clock) /\ q = Pace(b, clock)
    OBVIOUS
  <2>6. /\ q = "critical" => p = "critical"
        /\ q = "warning" => p \in {"critical", "warning"}
    BY <1>2, <2>5, PaceNoWorse
  <2>7. p = "critical" => s = t
    BY <2>2, <2>5 DEF NoWorse, SlipSeverity
  <2> QED BY <1>2, <2>1, <2>2, <2>4, <2>5, <2>6, <2>7, Ranks DEF PhaseRag
<1> QED BY <1>1, <1>2

\* ... and no project is judged worse by phases that are no worse.
LEMMA ProjectNoWorse ==
  ASSUME NEW a \in [PhaseKeys -> Phase], NEW b \in [PhaseKeys -> Phase], clock \in Int,
         \A k \in PhaseKeys : NoWorse(a[k], b[k])
  PROVE  RagRank[ProjectRag(b, clock)] <= RagRank[ProjectRag(a, clock)]
<1> DEFINE S(rows) == {"Green"} \cup {PhaseRag(rows[k], clock) : k \in Active(rows)}
<1>1. S(a) \in SUBSET Rags /\ S(b) \in SUBSET Rags
  BY PhaseRagColour DEF Rags
<1>2. PICK x : x = WorstOf(S(b))
  OBVIOUS
<1>3. PICK y : y = WorstOf(S(a))
  OBVIOUS
<1>4. x \in S(b) /\ y \in Rags /\ \A z \in S(a) : RagRank[z] <= RagRank[y]
  BY <1>1, <1>2, <1>3, WorstIsWorst
<1>5. RagRank[x] <= RagRank[y]
  <2>1. CASE x = "Green"
    BY <1>4, <2>1, Ranks DEF Rags
  <2>2. CASE \E k \in Active(b) : x = PhaseRag(b[k], clock)
    <3>1. PICK k \in Active(b) : x = PhaseRag(b[k], clock)
      BY <2>2
    <3>2. k \in PhaseKeys /\ a[k] \in Phase /\ b[k] \in Phase /\ NoWorse(a[k], b[k])
      BY DEF Active
    <3>3. k \in Active(a)
      BY <3>2 DEF Active, NoWorse
    <3>4. PICK z : z = PhaseRag(a[k], clock)
      OBVIOUS
    <3>5. RagRank[x] <= RagRank[z]
      BY <3>1, <3>2, <3>4, PhaseNoWorse
    <3>6. RagRank[z] <= RagRank[y] /\ z \in Rags /\ x \in Rags
      BY <1>1, <1>4, <3>1, <3>3, <3>4, PhaseRagColour
    <3> QED BY <1>4, <3>5, <3>6, Ranks DEF Rags
  <2> QED BY <1>4, <2>1, <2>2
<1> QED BY <1>2, <1>3, <1>5 DEF ProjectRag

\* How many controls got an answer.
Got(answers, a) == Cardinality({c \in Controls : answers[c] = a})

\* When no control falls the score's terms move one way: the halves up, what applies down.
LEMMA TermsRise ==
  ASSUME NEW a \in [Controls -> Answers], NEW b \in [Controls -> Answers], NoLower(a, b)
  PROVE  /\ Got(a, "yes") \in Nat /\ Got(a, "partial") \in Nat /\ Got(a, "na") \in Nat
         /\ Got(b, "yes") \in Nat /\ Got(b, "partial") \in Nat /\ Got(b, "na") \in Nat
         /\ Got(a, "na") <= Got(b, "na") /\ Got(b, "na") <= Cardinality(Controls)
         /\ Cardinality(Controls) \in Nat
         /\ 2 * Got(a, "yes") + Got(a, "partial") <= 2 * Got(b, "yes") + Got(b, "partial")
<1> DEFINE with(f, s) == {c \in Controls : f[c] = s}
           some(f) == with(f, "yes") \cup with(f, "partial")
<1>1. IsFiniteSet(Controls)
  BY TowerAssumption
<1>2. ASSUME NEW f \in [Controls -> Answers], NEW s
      PROVE  /\ IsFiniteSet(with(f, s)) /\ Cardinality(with(f, s)) \in Nat
             /\ Cardinality(with(f, s)) <= Cardinality(Controls)
  <2>1. with(f, s) \in SUBSET Controls
    OBVIOUS
  <2>2. IsFiniteSet(with(f, s)) /\ Cardinality(with(f, s)) <= Cardinality(Controls)
    BY <1>1, <2>1, FS_Subset
  <2> HIDE DEF with
  <2> QED BY <2>2, FS_CardinalityType
<1>3. ASSUME NEW f \in [Controls -> Answers]
      PROVE  /\ IsFiniteSet(some(f)) /\ Cardinality(some(f)) \in Nat
             /\ Cardinality(some(f)) = Cardinality(with(f, "yes")) + Cardinality(with(f, "partial"))
  <2>1. with(f, "yes") \cap with(f, "partial") = {}
    OBVIOUS
  <2>2. /\ IsFiniteSet(with(f, "yes")) /\ Cardinality(with(f, "yes")) \in Nat
        /\ IsFiniteSet(with(f, "partial")) /\ Cardinality(with(f, "partial")) \in Nat
    BY <1>2
  <2> HIDE DEF with
  <2>3. /\ IsFiniteSet(some(f))
        /\ Cardinality(some(f)) = Cardinality(with(f, "yes")) + Cardinality(with(f, "partial"))
                                  - Cardinality(with(f, "yes") \cap with(f, "partial"))
    BY <2>2, FS_Union
  <2>4. Cardinality(with(f, "yes") \cap with(f, "partial")) = 0
    BY <2>1, FS_EmptySet
  <2> QED BY <2>2, <2>3, <2>4
<1>4. /\ with(a, "yes") \in SUBSET with(b, "yes") /\ with(a, "na") \in SUBSET with(b, "na")
      /\ some(a) \in SUBSET some(b)
  <2>1. Score["no"] = 0 /\ Score["partial"] = 1 /\ Score["yes"] = 2
    BY DEF Score
  <2>2. ASSUME NEW c \in Controls
        PROVE  /\ a[c] = "yes" => b[c] = "yes"
               /\ a[c] = "na" => b[c] = "na"
               /\ a[c] = "partial" => b[c] \in {"yes", "partial"}
    <3>1. a[c] \in Answers /\ b[c] \in Answers
      OBVIOUS
    <3>2. \/ b[c] = a[c] \/ a[c] = "no"
          \/ "na" \notin {a[c], b[c]} /\ Score[b[c]] >= Score[a[c]]
      BY DEF NoLower
    <3> QED BY <2>1, <3>1, <3>2 DEF Answers
  <2> QED BY <2>2
<1>5. Cardinality(Controls) \in Nat
  BY <1>1, FS_CardinalityType
<1>6. /\ Cardinality(with(a, "yes")) <= Cardinality(with(b, "yes"))
      /\ Cardinality(with(a, "na")) <= Cardinality(with(b, "na"))
      /\ Cardinality(some(a)) <= Cardinality(some(b))
  <2>1. IsFiniteSet(with(b, "yes")) /\ IsFiniteSet(with(b, "na")) /\ IsFiniteSet(some(b))
    BY <1>2, <1>3
  <2> HIDE DEF with, some
  <2> QED BY <1>4, <2>1, FS_Subset
<1>7. \A f, s : Got(f, s) = Cardinality(with(f, s))
  BY DEF Got
<1> HIDE DEF with, some
<1> QED BY <1>2, <1>3, <1>5, <1>6, <1>7

\* A rounded quotient reaches a bound when the dividend reaches that many divisors.
LEMMA QuotientReaches ==
  ASSUME NEW x \in Nat, NEW d \in Nat \ {0}, NEW t \in Nat
  PROVE  x \div d >= t <=> x >= t * d
<1>1. PICK q \in Int : q = x \div d
  OBVIOUS
<1>2. q * d <= x /\ x < q * d + d
  BY <1>1
<1>3. CASE q >= t
  <2>1. q * d >= t * d
    BY <1>3
  <2> QED BY <1>1, <1>2, <1>3, <2>1
<1>4. CASE q < t
  <2>1. PICK r \in Nat : t = q + 1 + r
    BY <1>4
  <2>2. t * d = q * d + d + r * d /\ r * d >= 0
    BY <2>1
  <2> QED BY <1>1, <1>2, <1>4, <2>2
<1> QED BY <1>3, <1>4

\* So the compliance percentage falls below neither threshold of the health code.
LEMMA PctNoLower ==
  ASSUME NEW a \in [Controls -> Answers], NEW b \in [Controls -> Answers], NoLower(a, b),
         NEW t \in {50, 80}, AuditPct(a) >= t
  PROVE  AuditPct(b) >= t
<1>1. PICK h \in Nat : h = 2 * Got(a, "yes") + Got(a, "partial")
  BY TermsRise
<1>2. PICK g \in Nat : g = 2 * Got(b, "yes") + Got(b, "partial")
  BY TermsRise
<1>3. PICK m \in Nat : m = Cardinality(Controls) - Got(a, "na")
  BY TermsRise
<1>4. PICK n \in Nat : n = Cardinality(Controls) - Got(b, "na")
  BY TermsRise
<1>5. h <= g /\ n <= m
  BY <1>1, <1>2, <1>3, <1>4, TermsRise
<1>6. AuditPct(a) = IF m = 0 THEN 100 ELSE (100 * h + m) \div (2 * m)
  BY <1>1, <1>3 DEF AuditPct, Got
<1>7. AuditPct(b) = IF n = 0 THEN 100 ELSE (100 * g + n) \div (2 * n)
  BY <1>2, <1>4 DEF AuditPct, Got
<1>8. CASE n = 0
  BY <1>7, <1>8
<1>9. CASE n # 0
  <2>1. m # 0 /\ 2 * m \in Nat \ {0} /\ 100 * h + m \in Nat
    BY <1>5, <1>9
  <2>2. 100 * h + m >= t * (2 * m)
    BY <1>6, <2>1, QuotientReaches
  <2>3. 2 * n \in Nat \ {0} /\ 100 * g + n \in Nat /\ 100 * g + n >= t * (2 * n)
    BY <1>5, <1>9, <2>2
  <2> QED BY <1>7, <1>9, <2>3, QuotientReaches
<1> QED BY <1>8, <1>9

\* Good news never hurts (audit.ts, triage.ts, health.ts): while no phase gets worse, no
\* control answer falls and the baseline is not unlocked, the schedule colour and the health
\* code of a project do not get worse, however many of its rows change at once.
THEOREM NoEditPunishesProgress == TowerSpec => GoodNewsNeverHurts
<1> DEFINE Step == clock' = clock =>
             \A p \in Projects :
               (\A k \in PhaseKeys : NoWorse(ws.phases[p][k], ws'.phases[p][k])) =>
                  /\ RagRank[RagOf(p)'] <= RagRank[RagOf(p)]
                  /\ (NoLower(ws.answers[p], ws'.answers[p]) /\ (ws.locked[p] => ws'.locked[p])) =>
                       HealthRank[Health(p)'] <= HealthRank[Health(p)]
<1>1. ASSUME TowerTypeOK, TowerTypeOK', clock' = clock, NEW p \in Projects,
             \A k \in PhaseKeys : NoWorse(ws.phases[p][k], ws'.phases[p][k])
      PROVE  RagRank[RagOf(p)'] <= RagRank[RagOf(p)]
  <2>1. clock \in Int
    BY <1>1, TowerAssumption DEF TowerTypeOK
  <2>2. ws.phases[p] \in [PhaseKeys -> Phase] /\ ws'.phases[p] \in [PhaseKeys -> Phase]
    BY <1>1 DEF TowerTypeOK, Workspace
  <2> QED BY <1>1, <2>1, <2>2, ProjectNoWorse DEF RagOf
<1>2. ASSUME TowerTypeOK, TowerTypeOK', NEW p \in Projects,
             NoLower(ws.answers[p], ws'.answers[p]), ws.locked[p] => ws'.locked[p]
      PROVE  HealthRank[Health(p)'] <= HealthRank[Health(p)]
  <2>1. PICK a \in [Controls -> Answers] : a = ws.answers[p]
    BY <1>2 DEF TowerTypeOK, Workspace
  <2>2. PICK b \in [Controls -> Answers] : b = ws'.answers[p]
    BY <1>2 DEF TowerTypeOK, Workspace
  <2>3. /\ AuditPct(a) >= 80 => AuditPct(b) >= 80
        /\ AuditPct(a) >= 50 => AuditPct(b) >= 50
    BY <1>2, <2>1, <2>2, PctNoLower
  <2>4. /\ Health(p) = ProjectHealth(ws.locked[p], a) /\ Health(p)' = ProjectHealth(ws'.locked[p], b)
    BY <2>1, <2>2 DEF Health
  <2> QED BY <1>2, <2>3, <2>4, Ranks DEF ProjectHealth
<1>3. ASSUME TowerTypeOK, TowerTypeOK' PROVE Step
  BY <1>1, <1>2, <1>3
<1> QED BY <1>3, TowerTypeCorrect, PTL DEF GoodNewsNeverHurts

\* What the schedule page warns of, the triage shows.
LEMMA SchedulePagesHold == SchedulePagesAgree
<1> SUFFICES ASSUME ws.policy = DefaultPolicy, NEW p \in Projects,
                    Active(ws.phases[p]) = PhaseKeys
             PROVE  /\ "critical" = PageOf(p).worst => RagOf(p) = "Red"
                    /\ {PageOf(p).worst, PageOf(p).worstPace} # {"onTrack"} => RagOf(p) # "Green"
  BY DEF SchedulePagesAgree
<1>1. PICK rows : rows = ws.phases[p]
  OBVIOUS
<1> DEFINE S == {"Green"} \cup {PhaseRag(rows[k], clock) : k \in PhaseKeys}
           slipped(s) == {k \in PhaseKeys : SlipSeverity(rows[k], DefaultPolicy) = s}
           paced(s) == {k \in PhaseKeys : Pace(rows[k], clock) = s}
<1>2. S \in SUBSET Rags
  BY PhaseRagColour DEF Rags
<1>3. PICK y : y = WorstOf(S)
  OBVIOUS
<1>4. RagOf(p) = y
  BY <1>1, <1>3 DEF RagOf, ProjectRag
<1>5. y \in Rags /\ \A z \in S : RagRank[z] <= RagRank[y]
  BY <1>2, <1>3, WorstIsWorst
<1>6. ASSUME NEW k \in slipped("critical") PROVE y = "Red"
  <2>1. PhaseRag(rows[k], clock) = "Red"
    BY DEF PhaseRag
  <2>2. "Red" \in S
    BY <2>1
  <2> QED BY <1>5, <2>2, Ranks DEF Rags
<1>7. ASSUME NEW k \in slipped("critical") \cup slipped("warning")
                        \cup paced("critical") \cup paced("warning")
      PROVE  y # "Green"
  <2>1. PhaseRag(rows[k], clock) \in {"Red", "Amber"}
    BY DEF PhaseRag
  <2>2. PhaseRag(rows[k], clock) \in S
    OBVIOUS
  <2> HIDE DEF S
  <2> QED BY <1>5, <2>1, <2>2, Ranks DEF Rags
<1>8. /\ PageOf(p).worst = IF slipped("critical") # {} THEN "critical"
                           ELSE IF slipped("warning") # {} THEN "warning" ELSE "onTrack"
      /\ PageOf(p).worstPace = IF paced("critical") # {} THEN "critical"
                               ELSE IF paced("warning") # {} THEN "warning" ELSE "onTrack"
  BY <1>1 DEF PageOf, ScheduleSummary
<1> HIDE DEF S, slipped, paced
<1> QED BY <1>4, <1>6, <1>7, <1>8

\* The schedule page and the triage tell one story (schedule.ts, schedule-triage.ts), for the
\* default tolerances and phases in flight: what the page warns of is not Green on the
\* triage, and what it calls critical for its slip is Red.
THEOREM PagesTellOneStory == TowerSpec => []SchedulePagesAgree
BY SchedulePagesHold, PTL

(***************************************************************************)
(* The money of a deal: what is spent and what contractors cost are parts  *)
(* of its estimate, and a program lies between its waves.                  *)
(***************************************************************************)

\* Each part of the model adds up alike.
LEMMA SumsAlike ==
  ASSUME NEW w
  PROVE  /\ SumFunction(w) = SumFunctionOnSet(w, DOMAIN w)
         /\ Money!SumFunction(w) = SumFunctionOnSet(w, DOMAIN w)
         /\ Team!SumFunction(w) = SumFunctionOnSet(w, DOMAIN w)
         /\ Causes!SumFunction(w) = SumFunctionOnSet(w, DOMAIN w)
<1>1. SumFunction(w) = SumFunctionOnSet(w, DOMAIN w)
  BY DEF SumFunction
<1>2. Money!SumFunction(w) = SumFunctionOnSet(w, DOMAIN w)
  BY DEF SumFunctionOnSet, FoldFunctionOnSet, MapThenFoldSet, Money!SumFunction,
         Money!SumFunctionOnSet, Money!FoldFunctionOnSet, Money!MapThenFoldSet
<1>3. Team!SumFunction(w) = SumFunctionOnSet(w, DOMAIN w)
  BY DEF SumFunctionOnSet, FoldFunctionOnSet, MapThenFoldSet, Team!SumFunction,
         Team!SumFunctionOnSet, Team!FoldFunctionOnSet, Team!MapThenFoldSet
<1>4. Causes!SumFunction(w) = SumFunctionOnSet(w, DOMAIN w)
  BY DEF SumFunctionOnSet, FoldFunctionOnSet, MapThenFoldSet, Causes!SumFunction,
         Causes!SumFunctionOnSet, Causes!FoldFunctionOnSet, Causes!MapThenFoldSet
<1> QED BY <1>1, <1>2, <1>3, <1>4

\* ... and counts alike.
LEMMA CountsAlike ==
  ASSUME NEW S
  PROVE  Team!Cardinality(S) = Cardinality(S) /\ Causes!Cardinality(S) = Cardinality(S)
BY DEF Team!Cardinality, Causes!Cardinality, Cardinality

\* A table worked out at once is the table.
LEMMA TabulatedIs == ASSUME NEW f PROVE Tabulated(f) = f
BY DEF Tabulated

\* The product of naturals is one.
LEMMA Products == \A m, n \in Nat : m * n \in Nat
OBVIOUS

\* A quotient rounded half up is a natural, and within half a divisor of what was divided.
LEMMA RoundDivIs ==
  ASSUME NEW a \in Nat, NEW b \in Nat \ {0}
  PROVE  LET q == Money!RoundDiv(a, b)
         IN  q \in Nat /\ 2 * (b * q) <= 2 * a + b /\ 2 * a < 2 * (b * q) + b
<1>1. PICK n \in Nat : n = 2 * a + b
  OBVIOUS
<1>2. PICK d \in Nat \ {0} : d = 2 * b
  OBVIOUS
<1>3. PICK q \in Int : q = n \div d
  OBVIOUS
<1>4. q * d <= n /\ n < q * d + d
  BY <1>3
<1>5. q >= 0
  <2> SUFFICES ASSUME q <= -1 PROVE FALSE
    OBVIOUS
  <2>1. q * d <= (-1) * d
    OBVIOUS
  <2> QED BY <1>4, <2>1
<1>6. q * d = 2 * (b * q)
  BY <1>2
<1>7. b * q \in Int
  OBVIOUS
<1> QED BY <1>1, <1>2, <1>3, <1>4, <1>5, <1>6, <1>7 DEF Money!RoundDiv

\* What the estimate reads of a deal has its type, whatever left the card.
LEMMA DirectCostIsNat == ASSUME NEW deal \in Deal PROVE Money!DirectCost(deal) \in Nat
<1>1. deal.revenue * (100 - deal.margin) \in Nat
  BY Products DEF Deal
<1> QED BY <1>1, RoundDivIs DEF Money!DirectCost

\* A row of the estimate has amounts, and what is spent is part of its estimate.
LEMMA EacRowTyped ==
  ASSUME NEW deal \in Deal, NEW card \in [Roles -> {None} \cup Rate],
         NEW actuals \in [Keys -> {None} \cup Report], NEW key \in Money!EacKeys(deal, card)
  PROVE  LET row == Money!EacRow(key, deal, card, actuals)
         IN  /\ row.hours \in Nat /\ row.forecast \in Nat /\ row.open \in Nat
             /\ row.spent \in Nat /\ row.eac \in Nat /\ row.spent <= row.eac
<1> DEFINE blank == [hours |-> 0, cost |-> 0, forecast |-> None, open |-> None]
           a == IF actuals[key] = None THEN blank ELSE actuals[key]
           sold == IF key = "_direct" THEN deal.hours ELSE deal.cells[key]
           ahead == Money!Or(a.forecast, sold) + Money!Or(a.open, 0)
           cost == IF key # "_direct" THEN Money!RoundDiv(ahead * card[key].cost, RateScale)
                   ELSE IF deal.hours = 0 THEN 0
                   ELSE Money!RoundDiv(ahead * Money!DirectCost(deal), deal.hours)
<1>1. key \in Keys /\ (key # "_direct" => key \in Roles /\ card[key] \in Rate)
  BY DEF Money!EacKeys, Money!OnCard, Keys
<1>2. a.hours \in Nat /\ a.cost \in Nat /\ a.forecast \in {None} \cup Nat /\ a.open \in {None} \cup Nat
  BY <1>1 DEF Report
<1>3. sold \in Nat
  BY <1>1 DEF Deal
<1> HIDE DEF a, sold
<1>4. Money!Or(a.forecast, sold) \in Nat /\ Money!Or(a.open, 0) \in Nat
  BY <1>2, <1>3 DEF Money!Or
<1>5. ahead \in Nat
  BY <1>4
<1> HIDE DEF ahead
<1>6. cost \in Nat
  <2>1. CASE key # "_direct"
    <3>1. card[key].cost \in Nat
      BY <1>1, <2>1 DEF Rate
    <3>2. ahead * card[key].cost \in Nat /\ RateScale \in Nat \ {0}
      BY <1>5, <3>1, Products, TowerAssumption
    <3> QED BY <2>1, <3>2, RoundDivIs
  <2>2. CASE key = "_direct" /\ deal.hours # 0
    <3>1. ahead * Money!DirectCost(deal) \in Nat
      BY <1>5, DirectCostIsNat, Products
    <3>2. deal.hours \in Nat \ {0}
      BY <2>2 DEF Deal
    <3> QED BY <2>2, <3>1, <3>2, RoundDivIs
  <2> QED BY <2>1, <2>2
<1> DEFINE row == Money!EacRow(key, deal, card, actuals)
<1>7. /\ row.hours = a.hours /\ row.forecast = Money!Or(a.forecast, sold) /\ row.open = Money!Or(a.open, 0)
      /\ row.spent = a.cost /\ row.eac = a.cost + cost
  BY DEF Money!EacRow, a, sold, ahead
<1> HIDE DEF row, cost
<1> QED BY <1>2, <1>4, <1>6, <1>7 DEF row

\* The estimate of a deal is the sum of its rows.
LEMMA EacIsSum ==
  ASSUME NEW deal \in Deal, NEW card \in [Roles -> {None} \cup Rate],
         NEW actuals \in [Keys -> {None} \cup Report]
  PROVE  LET K == Money!EacKeys(deal, card)
             row(k) == Money!EacRow(k, deal, card, actuals)
             eac == Money!EacSummary(deal, card, actuals)
         IN  /\ IsFiniteSet(K)
             /\ eac.hours = SumFunctionOnSet([k \in K |-> row(k).hours], K)
             /\ eac.forecast = SumFunctionOnSet([k \in K |-> row(k).forecast], K)
             /\ eac.open = SumFunctionOnSet([k \in K |-> row(k).open], K)
             /\ eac.spent = SumFunctionOnSet([k \in K |-> row(k).spent], K)
             /\ eac.eac = SumFunctionOnSet([k \in K |-> row(k).eac], K)
<1> DEFINE K == Money!EacKeys(deal, card)
           row(k) == Money!EacRow(k, deal, card, actuals)
           eac == Money!EacSummary(deal, card, actuals)
<1>1. IsFiniteSet(K)
  <2>1. IsFiniteSet(Money!OnCard(card)) /\ IsFiniteSet({"_direct"})
    BY TowerAssumption, FS_Subset, FS_Singleton DEF Money!OnCard
  <2> QED BY <2>1 DEF Money!EacKeys
<1>2. /\ eac.hours = Money!SumFunction([k \in K |-> row(k).hours])
      /\ eac.forecast = Money!SumFunction([k \in K |-> row(k).forecast])
      /\ eac.open = Money!SumFunction([k \in K |-> row(k).open])
      /\ eac.spent = Money!SumFunction([k \in K |-> row(k).spent])
      /\ eac.eac = Money!SumFunction([k \in K |-> row(k).eac])
  BY DEF Money!EacSummary
<1> HIDE DEF K, row, eac
<1>3. \A w : DOMAIN w = K => Money!SumFunction(w) = SumFunctionOnSet(w, K)
  BY SumsAlike
<1>4. /\ eac.hours = SumFunctionOnSet([k \in K |-> row(k).hours], K)
      /\ eac.forecast = SumFunctionOnSet([k \in K |-> row(k).forecast], K)
      /\ eac.open = SumFunctionOnSet([k \in K |-> row(k).open], K)
      /\ eac.spent = SumFunctionOnSet([k \in K |-> row(k).spent], K)
      /\ eac.eac = SumFunctionOnSet([k \in K |-> row(k).eac], K)
  BY <1>2, <1>3
<1> QED BY <1>1, <1>4 DEF K, row, eac

\* Of any deal: what is spent and what contractors cost are parts of the estimate.
LEMMA EstimateHoldsItsParts ==
  ASSUME NEW deal \in Deal, NEW card \in [Roles -> {None} \cup Rate],
         NEW actuals \in [Keys -> {None} \cup Report]
  PROVE  LET eac == Money!EacSummary(deal, card, actuals)
             exposure == Money!ContractorExposure(deal, card, actuals)
         IN  /\ eac.spent \in Nat /\ eac.eac \in Nat /\ eac.spent <= eac.eac
             /\ exposure.cost <= eac.eac
             /\ exposure.hours <= eac.hours + eac.forecast + eac.open
<1> DEFINE K == Money!EacKeys(deal, card)
           row(k) == Money!EacRow(k, deal, card, actuals)
           eac == Money!EacSummary(deal, card, actuals)
           exposure == Money!ContractorExposure(deal, card, actuals)
           vendors == {k \in K : row(k).contractor}
           total(k) == row(k).hours + row(k).forecast + row(k).open
           H == [k \in K |-> row(k).hours]
           F == [k \in K |-> row(k).forecast]
           O == [k \in K |-> row(k).open]
           P == [k \in K |-> row(k).spent]
           E == [k \in K |-> row(k).eac]
           HF == [k \in K |-> row(k).hours + row(k).forecast]
           T == [k \in K |-> total(k)]
           VE == [k \in vendors |-> row(k).eac]
           VT == [k \in vendors |-> total(k)]
<1>1. /\ IsFiniteSet(K) /\ eac.hours = SumFunctionOnSet(H, K) /\ eac.forecast = SumFunctionOnSet(F, K)
      /\ eac.open = SumFunctionOnSet(O, K) /\ eac.spent = SumFunctionOnSet(P, K)
      /\ eac.eac = SumFunctionOnSet(E, K)
  BY EacIsSum
<1>2. exposure.cost = SumFunctionOnSet(VE, vendors) /\ exposure.hours = SumFunctionOnSet(VT, vendors)
  <2>1. exposure.cost = Money!SumFunction(VE) /\ exposure.hours = Money!SumFunction(VT)
    BY DEF Money!ContractorExposure
  <2>2. DOMAIN VE = vendors /\ DOMAIN VT = vendors
    OBVIOUS
  <2> HIDE DEF VE, VT, vendors
  <2> QED BY <2>1, <2>2, SumsAlike
<1>3. \A k \in K : /\ row(k).hours \in Nat /\ row(k).forecast \in Nat /\ row(k).open \in Nat
                   /\ row(k).spent \in Nat /\ row(k).eac \in Nat /\ row(k).spent <= row(k).eac
  BY EacRowTyped
<1> HIDE DEF K, row, eac, exposure
<1>4. \A k \in K : /\ H[k] \in Nat /\ F[k] \in Nat /\ O[k] \in Nat /\ P[k] \in Nat /\ E[k] \in Nat
                   /\ P[k] <= E[k] /\ HF[k] \in Nat /\ T[k] \in Nat
                   /\ HF[k] = H[k] + F[k] /\ T[k] = HF[k] + O[k]
  BY <1>3
<1>5. /\ vendors \in SUBSET K /\ IsFiniteSet(vendors)
      /\ \A k \in vendors : VE[k] = E[k] /\ VT[k] = T[k]
  <2>1. vendors \in SUBSET K
    OBVIOUS
  <2>2. IsFiniteSet(vendors)
    BY <1>1, <2>1, FS_Subset
  <2> QED BY <2>1, <2>2
<1> HIDE DEF H, F, O, P, E, HF, T, VE, VT, vendors
<1>6. /\ eac.spent \in Nat /\ eac.eac \in Nat /\ eac.hours \in Nat /\ eac.forecast \in Nat /\ eac.open \in Nat
  BY <1>1, <1>4, SumIsNat
<1>7. eac.spent <= eac.eac
  BY <1>1, <1>4, SumOfSmaller
<1>8. SumFunctionOnSet(VE, vendors) = SumFunctionOnSet(E, vendors)
      /\ SumFunctionOnSet(VT, vendors) = SumFunctionOnSet(T, vendors)
  BY <1>5, SumsOfEquals
<1>9. SumFunctionOnSet(E, vendors) <= SumFunctionOnSet(E, K)
      /\ SumFunctionOnSet(T, vendors) <= SumFunctionOnSet(T, K)
  BY <1>1, <1>4, <1>5, SumOfSubset
<1>10. SumFunctionOnSet(HF, K) = SumFunctionOnSet(H, K) + SumFunctionOnSet(F, K)
  BY <1>1, <1>4, SumOfSums
<1>11. SumFunctionOnSet(T, K) = SumFunctionOnSet(HF, K) + SumFunctionOnSet(O, K)
  BY <1>1, <1>4, SumOfSums
<1>12. /\ exposure.cost <= eac.eac
       /\ exposure.hours <= eac.hours + eac.forecast + eac.open
  BY <1>1, <1>2, <1>8, <1>9, <1>10, <1>11
<1> QED BY <1>6, <1>7, <1>12 DEF eac, exposure

\* The burn to date is a percentage.
LEMMA BurnIsPercentage ==
  ASSUME NEW eac, eac.spent \in Nat, eac.eac \in Nat, eac.spent <= eac.eac
  PROVE  Money!BurnToDate(eac) \in 0..100
<1>1. CASE eac.eac = 0
  BY <1>1 DEF Money!BurnToDate
<1>2. CASE eac.eac > 0
  <2>1. PICK q \in Int : q = (100 * eac.spent) \div eac.eac
    BY <1>2
  <2>2. PICK d \in Nat \ {0} : d = eac.eac
    BY <1>2
  <2>3. PICK n \in Nat : n = 100 * eac.spent
    OBVIOUS
  <2>4. q = n \div d
    BY <2>1, <2>2, <2>3
  <2>5. q * d <= n /\ n < q * d + d
    BY <2>4
  <2>6. q * d <= 100 * eac.spent /\ 100 * eac.spent < q * d + d
    BY <2>3, <2>5
  <2>7. q <= 100
    <3> SUFFICES ASSUME q >= 101 PROVE FALSE
      OBVIOUS
    <3>1. q * d >= 101 * d
      OBVIOUS
    <3> QED BY <2>2, <2>6, <3>1
  <2>8. q >= 0
    <3> SUFFICES ASSUME q <= -1 PROVE FALSE
      OBVIOUS
    <3>1. q * d <= (-1) * d
      OBVIOUS
    <3> QED BY <2>2, <2>6, <3>1
  <2> QED BY <1>2, <2>1, <2>7, <2>8 DEF Money!BurnToDate
<1> QED BY <1>1, <1>2

\* What a workspace holds of the money of a project.
LEMMA MoneyTyped ==
  ASSUME ws \in Workspace
  PROVE  /\ ws.card \in [Roles -> {None} \cup Rate]
         /\ \A p \in Projects : ws.deals[p] \in Deal /\ ws.actuals[p] \in [Keys -> {None} \cup Report]
BY DEF Workspace

\* What the matrix sells, as sums over the card.
LEMMA MatrixIs ==
  ASSUME NEW deal \in Deal, NEW card \in [Roles -> {None} \cup Rate]
  PROVE  LET C == Money!OnCard(card)
             exact == Money!Matrix(deal, card)
         IN  /\ IsFiniteSet(C)
             /\ \A r \in C : /\ deal.cells[r] \in Nat
                             /\ deal.cells[r] * card[r].bill \in Nat
                             /\ deal.cells[r] * card[r].cost \in Nat
             /\ exact.revenue = SumFunctionOnSet([r \in C |-> deal.cells[r] * card[r].bill], C)
             /\ exact.cost = SumFunctionOnSet([r \in C |-> deal.cells[r] * card[r].cost], C)
             /\ exact.revenue \in Nat /\ exact.cost \in Nat
<1> DEFINE C == Money!OnCard(card)
           exact == Money!Matrix(deal, card)
           bills == [r \in C |-> deal.cells[r] * card[r].bill]
           costs == [r \in C |-> deal.cells[r] * card[r].cost]
<1>1. IsFiniteSet(C)
  BY TowerAssumption, FS_Subset DEF Money!OnCard
<1>2. ASSUME NEW r \in C
      PROVE  /\ deal.cells[r] \in Nat /\ deal.cells[r] * card[r].bill \in Nat
             /\ deal.cells[r] * card[r].cost \in Nat
  <2>1. deal.cells[r] \in Nat /\ card[r].bill \in Nat /\ card[r].cost \in Nat
    BY DEF Deal, Rate, Money!OnCard
  <2> QED BY <2>1, Products
<1>3. exact.revenue = Money!SumFunction(bills) /\ exact.cost = Money!SumFunction(costs)
  BY DEF Money!Matrix
<1>4. DOMAIN bills = C /\ DOMAIN costs = C /\ \A r \in C : bills[r] \in Nat /\ costs[r] \in Nat
  BY <1>2
<1> HIDE DEF bills, costs, C, exact
<1>5. exact.revenue = SumFunctionOnSet(bills, C) /\ exact.cost = SumFunctionOnSet(costs, C)
  BY <1>3, <1>4, SumsAlike
<1>6. SumFunctionOnSet(bills, C) \in Nat /\ SumFunctionOnSet(costs, C) \in Nat
  BY <1>1, <1>4, SumIsNat
<1> QED BY <1>1, <1>2, <1>5, <1>6 DEF C, exact, bills, costs

\* What a deal sells for is an amount: of a matrix, its bills rounded to a cent.
LEMMA RevenueIs ==
  ASSUME NEW deal \in Deal, NEW card \in [Roles -> {None} \cup Rate]
  PROVE  LET revenue == Money!Totals(deal, card).revenue
         IN  /\ revenue \in Nat
             /\ deal.mode = "direct" => revenue = deal.revenue
             /\ deal.mode # "direct" =>
                  revenue = Money!RoundDiv(Money!Matrix(deal, card).revenue, RateScale)
<1>1. CASE deal.mode = "direct"
  <2>1. Money!Totals(deal, card).revenue = Money!RoundDiv(deal.revenue, 1)
    BY <1>1 DEF Money!Totals
  <2>2. PICK a \in Nat : a = deal.revenue
    BY DEF Deal
  <2>3. (2 * a + 1) \div 2 = a /\ 2 * 1 = 2
    OBVIOUS
  <2>4. Money!RoundDiv(a, 1) = a
    BY <2>3 DEF Money!RoundDiv
  <2> QED BY <1>1, <2>1, <2>2, <2>4
<1>2. CASE deal.mode # "direct"
  <2>1. Money!Totals(deal, card).revenue = Money!RoundDiv(Money!Matrix(deal, card).revenue, RateScale)
    BY <1>2 DEF Money!Totals
  <2>2. Money!Matrix(deal, card).revenue \in Nat /\ RateScale \in Nat \ {0}
    BY MatrixIs, TowerAssumption
  <2> QED BY <1>2, <2>1, <2>2, RoundDivIs
<1> QED BY <1>1, <1>2

\* A multiple divided by what it is a multiple of.
LEMMA RoundDivCancels ==
  ASSUME NEW h \in Nat \ {0}, NEW c \in Nat
  PROVE  Money!RoundDiv(h * c, h) = c
<1>1. h * c \in Nat
  BY Products
<1>2. PICK q \in Nat : q = Money!RoundDiv(h * c, h)
  BY <1>1, RoundDivIs
<1>3. 2 * (h * q) <= 2 * (h * c) + h /\ 2 * (h * c) < 2 * (h * q) + h
  BY <1>1, <1>2, RoundDivIs
<1>4. CASE q >= c + 1
  <2>1. PICK r \in Nat : q = c + 1 + r
    BY <1>4
  <2>2. h * q = h * c + h + h * r /\ h * r \in Nat /\ h * c \in Nat
    BY <2>1
  <2> QED BY <1>3, <2>2
<1>5. CASE c >= q + 1
  <2>1. PICK r \in Nat : c = q + 1 + r
    BY <1>5
  <2>2. h * c = h * q + h + h * r /\ h * r \in Nat /\ h * q \in Nat
    BY <2>1
  <2> QED BY <1>3, <2>2
<1> QED BY <1>2, <1>4, <1>5

\* A matrix deal nobody reported on is estimated at what it was sized at, but for half a
\* cent of every role it sells.
LEMMA SilentMatrix ==
  ASSUME NEW deal \in Deal, NEW card \in [Roles -> {None} \cup Rate],
         NEW actuals \in [Keys -> {None} \cup Report], deal.mode # "direct",
         \A k \in Money!EacKeys(deal, card) : actuals[k] = None
  PROVE  LET eac == Money!EacSummary(deal, card, actuals).eac
             exact == Money!Matrix(deal, card)
             T == {r \in Money!OnCard(card) : deal.cells[r] > 0}
         IN  /\ 2 * (RateScale * eac) <= 2 * exact.cost + RateScale * Cardinality(T)
             /\ 2 * exact.cost <= 2 * (RateScale * eac) + RateScale * Cardinality(T)
             /\ IsFiniteSet(T)
             /\ T = {} => exact.revenue = 0
<1> DEFINE C == Money!OnCard(card)
           T == {r \in C : deal.cells[r] > 0}
           exact == Money!Matrix(deal, card)
           w == [r \in C |-> deal.cells[r] * card[r].cost]
           u == [r \in C |-> deal.cells[r] * card[r].bill]
           E == [k \in C |-> Money!EacRow(k, deal, card, actuals).eac]
<1>1. Money!EacKeys(deal, card) = C
  BY DEF Money!EacKeys
<1>2. /\ IsFiniteSet(C) /\ exact.cost = SumFunctionOnSet(w, C)
      /\ exact.revenue = SumFunctionOnSet(u, C) /\ exact.revenue \in Nat
  BY MatrixIs
<1>3. Money!EacSummary(deal, card, actuals).eac = SumFunctionOnSet(E, C)
  BY <1>1, EacIsSum
<1>4. T \in SUBSET C /\ IsFiniteSet(T)
  <2>1. T \in SUBSET C
    OBVIOUS
  <2> QED BY <1>2, <2>1, FS_Subset
<1>5. RateScale \in Nat \ {0}
  BY TowerAssumption
<1>6. ASSUME NEW k \in C
      PROVE  /\ E[k] \in Nat /\ w[k] \in Nat /\ u[k] \in Nat
             /\ 2 * (RateScale * E[k]) <= 2 * w[k] + RateScale
             /\ 2 * w[k] <= 2 * (RateScale * E[k]) + RateScale
             /\ k \notin T => E[k] = 0 /\ w[k] = 0 /\ u[k] = 0
  <2>1. /\ k \in Roles /\ k # "_direct" /\ card[k] \in Rate /\ actuals[k] = None
        /\ card[k].cost \in Nat /\ card[k].bill \in Nat
    BY <1>1, TowerAssumption DEF Money!OnCard, Rate
  <2>2. PICK h \in Nat : h = deal.cells[k]
    BY <2>1 DEF Deal
  <2>3. Money!Or(None, h) + Money!Or(None, 0) = h
    BY <2>2, TowerAssumption DEF Money!Or
  <2>4. PICK x \in Nat : x = w[k] /\ x = h * card[k].cost
    BY <2>1, <2>2, Products
  <2>5. E[k] = 0 + Money!RoundDiv(x, RateScale)
    BY <2>1, <2>2, <2>3, <2>4 DEF Money!EacRow
  <2>6. PICK q \in Nat : /\ q = Money!RoundDiv(x, RateScale)
                        /\ 2 * (RateScale * q) <= 2 * x + RateScale
                        /\ 2 * x < 2 * (RateScale * q) + RateScale
    BY <1>5, RoundDivIs
  <2>7. E[k] = q /\ RateScale * q \in Nat
    BY <1>5, <2>5, <2>6, Products
  <2>8. u[k] \in Nat /\ u[k] = h * card[k].bill
    BY <2>1, <2>2, Products
  <2>9. ASSUME k \notin T PROVE E[k] = 0 /\ w[k] = 0 /\ u[k] = 0
    <3>1. h = 0
      BY <2>2, <2>9
    <3>2. x = 0 /\ u[k] = 0
      BY <2>1, <2>4, <2>8, <3>1
    <3>3. q = 0
      <4> SUFFICES ASSUME q >= 1 PROVE FALSE
        BY <2>6
      <4>1. PICK y \in Nat : y = RateScale * q /\ y >= RateScale
        BY <1>5, <2>7
      <4>2. 2 * y <= 2 * 0 + RateScale
        BY <2>6, <3>2, <4>1
      <4> QED BY <1>5, <4>1, <4>2
    <3> QED BY <2>4, <2>7, <3>2, <3>3
  <2>10. E[k] \in Nat /\ w[k] \in Nat /\ u[k] \in Nat
    BY <2>4, <2>7, <2>8
  <2>11. 2 * (RateScale * q) <= 2 * x + RateScale /\ 2 * x <= 2 * (RateScale * q) + RateScale
    BY <1>5, <2>6, <2>7
  <2>12. /\ 2 * (RateScale * E[k]) <= 2 * w[k] + RateScale
         /\ 2 * w[k] <= 2 * (RateScale * E[k]) + RateScale
    BY <2>4, <2>7, <2>11
  <2> QED BY <2>9, <2>10, <2>12
<1> HIDE DEF E, w, u, C, T, exact
<1>7. /\ SumFunctionOnSet(E, C) = SumFunctionOnSet(E, T)
      /\ SumFunctionOnSet(w, C) = SumFunctionOnSet(w, T)
      /\ SumFunctionOnSet(u, C) = SumFunctionOnSet(u, T)
  BY <1>2, <1>4, <1>6, SumSkipsZeros
<1>8. \A x \in T : /\ E[x] \in Nat /\ w[x] \in Nat
                   /\ 2 * (RateScale * E[x]) <= 2 * w[x] + RateScale
                   /\ 2 * w[x] <= 2 * (RateScale * E[x]) + RateScale
  BY <1>4, <1>6
<1>9. LET V == SumFunctionOnSet(E, T)
          W == SumFunctionOnSet(w, T)
      IN  /\ 2 * (RateScale * V) <= 2 * W + RateScale * Cardinality(T)
          /\ 2 * W <= 2 * (RateScale * V) + RateScale * Cardinality(T)
  BY <1>4, <1>5, <1>8, SumOfRounded
<1>10. ASSUME T = {} PROVE exact.revenue = 0
  BY <1>2, <1>7, <1>10, SumOfNothing
<1> QED BY <1>2, <1>3, <1>4, <1>7, <1>9, <1>10 DEF T, C, exact

\* A direct one at what its margin leaves.
LEMMA SilentDirect ==
  ASSUME NEW deal \in Deal, NEW card \in [Roles -> {None} \cup Rate],
         NEW actuals \in [Keys -> {None} \cup Report], deal.mode = "direct", deal.hours > 0,
         \A k \in Money!EacKeys(deal, card) : actuals[k] = None
  PROVE  Money!EacSummary(deal, card, actuals).eac = Money!DirectCost(deal)
<1> DEFINE K == {"_direct"}
           E == [k \in K |-> Money!EacRow(k, deal, card, actuals).eac]
<1>1. Money!EacKeys(deal, card) = K
  BY DEF Money!EacKeys
<1>2. Money!EacSummary(deal, card, actuals).eac = SumFunctionOnSet(E, K) /\ IsFiniteSet(K)
  <2> HIDE DEF K
  <2> QED BY <1>1, EacIsSum
<1>3. deal.hours \in Nat \ {0} /\ actuals["_direct"] = None /\ Money!DirectCost(deal) \in Nat
  BY <1>1, DirectCostIsNat DEF Deal
<1>4. Money!Or(None, deal.hours) + Money!Or(None, 0) = deal.hours
  BY <1>3 DEF Money!Or
<1>5. E["_direct"] = 0 + Money!RoundDiv(deal.hours * Money!DirectCost(deal), deal.hours)
  BY <1>3, <1>4 DEF Money!EacRow
<1>6. E["_direct"] = Money!DirectCost(deal)
  BY <1>3, <1>5, RoundDivCancels
<1>7. "_direct" \in K /\ K \ {"_direct"} = {} /\ \A k \in K : E[k] \in Nat
  BY <1>3, <1>6
<1> HIDE DEF K, E
<1>8. SumFunctionOnSet(E, K) = E["_direct"] + SumFunctionOnSet(E, K \ {"_direct"})
  BY <1>2, <1>7, SumTakesAny
<1>9. SumFunctionOnSet(E, K \ {"_direct"}) = 0
  BY <1>7, SumOfNothing
<1> QED BY <1>2, <1>3, <1>6, <1>8, <1>9

\* A factor cancels.
LEMMA FactorCancels ==
  ASSUME NEW s \in Nat \ {0}, NEW x \in Nat, NEW y \in Nat, s * x <= s * y
  PROVE  x <= y
<1> SUFFICES ASSUME x >= y + 1 PROVE FALSE
  OBVIOUS
<1>1. PICK d \in Nat : x = y + 1 + d
  <2>1. x - y - 1 \in Nat /\ x = y + 1 + (x - y - 1)
    OBVIOUS
  <2> QED BY <2>1
<1>2. s * x = s * y + s + s * d /\ s * d \in Nat /\ s * y \in Nat
  BY <1>1
<1> QED BY <1>2

\* The cross products of two amounts and their roundings differ by as much as the
\* roundings do: E by half of n cents from C, r by half a cent from R.
LEMMA RoundedRatio ==
  ASSUME NEW s \in Nat \ {0}, NEW n \in Nat, NEW R \in Nat, NEW C \in Nat, NEW E \in Nat, NEW r \in Nat,
         2 * (s * E) <= 2 * C + s * n, 2 * C <= 2 * (s * E) + s * n,
         2 * (s * r) <= 2 * R + s, 2 * R <= 2 * (s * r) + s
  PROVE  /\ 2 * (E * R) <= 2 * (C * r) + (n * R + C)
         /\ 2 * (C * r) <= 2 * (E * R) + (n * R + C)
<1>1. /\ \A a, b \in Nat : a * b \in Nat /\ a * b = b * a
      /\ \A a, b, c \in Nat : a <= b => a * c <= b * c
  OBVIOUS
<1>2. \A a, b, c \in Nat : (a * b) * c = a * (b * c) /\ (a + b) * c = a * c + b * c
  OBVIOUS
<1>3. PICK ER \in Nat : ER = E * R
  BY <1>1
<1>4. PICK CR \in Nat : CR = C * R
  BY <1>1
<1>5. PICK Cr \in Nat : Cr = C * r
  BY <1>1
<1>6. PICK nR \in Nat : nR = n * R
  BY <1>1
<1>7. (2 * (s * E)) * R = 2 * (s * ER) /\ (s * n) * R = s * nR /\ (2 * C) * R = 2 * CR
  <2>1. (2 * (s * E)) * R = 2 * ((s * E) * R) /\ (2 * C) * R = 2 * (C * R)
    BY <1>1, <1>2
  <2>2. (s * E) * R = s * ER /\ (s * n) * R = s * nR
    BY <1>2, <1>3, <1>6
  <2> QED BY <1>4, <2>1, <2>2
<1>8. (2 * (s * r)) * C = 2 * (s * Cr) /\ (2 * R) * C = 2 * CR
  <2>1. (2 * (s * r)) * C = 2 * ((s * r) * C) /\ (2 * R) * C = 2 * (R * C) /\ R * C = CR
    BY <1>1, <1>2, <1>4
  <2>2. (s * r) * C = s * (r * C) /\ r * C = Cr
    BY <1>1, <1>2, <1>5
  <2> QED BY <2>1, <2>2
<1>9. /\ s * ER \in Nat /\ s * nR \in Nat /\ s * Cr \in Nat /\ s * C \in Nat
      /\ s * E \in Nat /\ s * n \in Nat /\ s * r \in Nat
  BY <1>1
<1>10. 2 * (s * ER) <= 2 * CR + s * nR /\ 2 * CR <= 2 * (s * ER) + s * nR
  <2>1. /\ (2 * (s * E)) * R <= (2 * C + s * n) * R
        /\ (2 * C) * R <= (2 * (s * E) + s * n) * R
    BY <1>1, <1>9
  <2>2. /\ (2 * C + s * n) * R = (2 * C) * R + (s * n) * R
        /\ (2 * (s * E) + s * n) * R = (2 * (s * E)) * R + (s * n) * R
    BY <1>2, <1>9
  <2> QED BY <1>7, <2>1, <2>2
<1>11. 2 * (s * Cr) <= 2 * CR + s * C /\ 2 * CR <= 2 * (s * Cr) + s * C
  <2>1. /\ (2 * (s * r)) * C <= (2 * R + s) * C
        /\ (2 * R) * C <= (2 * (s * r) + s) * C
    BY <1>1, <1>9
  <2>2. /\ (2 * R + s) * C = (2 * R) * C + s * C
        /\ (2 * (s * r) + s) * C = (2 * (s * r)) * C + s * C
    BY <1>2, <1>9
  <2> QED BY <1>8, <2>1, <2>2
<1> DEFINE slack == nR + C
<1>12. slack \in Nat /\ s * slack = s * nR + s * C
  BY <1>9
<1> HIDE DEF slack
<1>13. s * (2 * ER) <= s * (2 * Cr + slack) /\ s * (2 * Cr) <= s * (2 * ER + slack)
  <2>1. /\ s * (2 * ER) = 2 * (s * ER) /\ s * (2 * Cr + slack) = 2 * (s * Cr) + s * slack
        /\ s * (2 * Cr) = 2 * (s * Cr) /\ s * (2 * ER + slack) = 2 * (s * ER) + s * slack
    BY <1>12
  <2> QED BY <1>9, <1>10, <1>11, <1>12, <2>1
<1>14. 2 * ER <= 2 * Cr + slack /\ 2 * Cr <= 2 * ER + slack
  <2>1. 2 * ER \in Nat /\ 2 * Cr + slack \in Nat /\ 2 * Cr \in Nat /\ 2 * ER + slack \in Nat
    BY <1>12
  <2> QED BY <1>13, <2>1, FactorCancels
<1> QED BY <1>3, <1>5, <1>6, <1>14 DEF slack

\* A drift of no more than a two-thousandth is in the dead band.
LEMMA InTheBand ==
  ASSUME NEW deal, NEW card, NEW actuals, NEW d \in Int, NEW m \in Nat,
         LET sold == Money!SoldMargin(deal, card)
             final == Money!EacMargin(deal, card, actuals)
         IN  d = sold.of * final.per - final.of * sold.per /\ m = sold.per * final.per,
         2000 * d <= m, -(2000 * d) <= m
  PROVE  Money!DriftStatus(deal, card, actuals) = "on-baseline"
<1>1. PICK q \in Int : q = m \div 2000
  OBVIOUS
<1>2. m < 2000 * q + 2000
  BY <1>1
<1>3. ~(d > q) /\ ~(d < -q)
  BY <1>2
<1> QED BY <1>1, <1>3 DEF Money!DriftStatus

\* A matrix deal nobody reported on has not drifted, but by rounding.
LEMMA SilentMatrixHolds ==
  ASSUME ws \in Workspace, NEW deal \in Deal, NEW actuals \in [Keys -> {None} \cup Report],
         deal.mode # "direct", \A k \in Money!EacKeys(deal, ws.card) : actuals[k] = None
  PROVE  Money!DriftStatus(deal, ws.card, actuals) = "on-baseline" \/ RoundingShows(deal)
<1> DEFINE T == SoldRoles(deal)
           exact == Money!Matrix(deal, ws.card)
           sold == Money!SoldMargin(deal, ws.card)
           final == Money!EacMargin(deal, ws.card, actuals)
<1>0. ws.card \in [Roles -> {None} \cup Rate]
  BY MoneyTyped
<1>1. PICK R \in Nat : R = exact.revenue
  BY <1>0, MatrixIs
<1>2. PICK C \in Nat : C = exact.cost
  BY <1>0, MatrixIs
<1>3. PICK s \in Nat \ {0} : s = RateScale
  BY TowerAssumption
<1>4. PICK r \in Nat : /\ r = Money!Totals(deal, ws.card).revenue /\ r = Money!RoundDiv(R, s)
                      /\ 2 * (s * r) <= 2 * R + s /\ 2 * R < 2 * (s * r) + s
  <2>1. Money!Totals(deal, ws.card).revenue = Money!RoundDiv(R, s)
    BY <1>0, <1>1, <1>3, RevenueIs
  <2> QED BY <1>3, <2>1, RoundDivIs
<1>5. PICK E \in Nat : E = Money!EacSummary(deal, ws.card, actuals).eac
  BY <1>0, EstimateHoldsItsParts
<1>6. /\ 2 * (s * E) <= 2 * C + s * Cardinality(T) /\ 2 * C <= 2 * (s * E) + s * Cardinality(T)
      /\ IsFiniteSet(T) /\ (T = {} => R = 0)
  BY <1>0, <1>1, <1>2, <1>3, <1>5, SilentMatrix DEF SoldRoles
<1> HIDE DEF T
<1>7. PICK n \in Nat : /\ n = Cardinality(T)
                      /\ 2 * (s * E) <= 2 * C + s * n /\ 2 * C <= 2 * (s * E) + s * n
  BY <1>6, FS_CardinalityType
<1>8. CASE R = 0
  <2>1. r = 0
    <3> SUFFICES ASSUME r >= 1 PROVE FALSE
      OBVIOUS
    <3>1. s * r >= s /\ s * r \in Nat
      OBVIOUS
    <3> QED BY <1>4, <1>8, <3>1
  <2>2. sold = [of |-> 0, per |-> 1] /\ final = [of |-> 0, per |-> 1]
    BY <1>1, <1>4, <1>8, <2>1 DEF Money!SoldMargin, Money!EacMargin
  <2>3. 0 = sold.of * final.per - final.of * sold.per /\ 1 = sold.per * final.per
    BY <2>2
  <2> QED BY <2>3, InTheBand
<1>9. CASE R > 0 /\ r = 0
  <2>1. n >= 1
    <3>1. Cardinality(T) # 0
      BY <1>6, <1>9, FS_EmptySet
    <3> QED BY <1>7, <3>1
  <2>2. n * R >= R
    BY <2>1
  <2>3. r * R = 0
    BY <1>9
  <2>4. r * R < 1000 * (n * R + C)
    BY <1>9, <2>2, <2>3
  <2> QED BY <1>1, <1>2, <1>4, <1>7, <2>4 DEF RoundingShows, T
<1>10. CASE R > 0 /\ r > 0 /\ ~RoundingShows(deal)
  <2>1. PICK nR \in Nat : nR = n * R
    BY Products
  <2>2. PICK m \in Nat : m = r * R
    BY Products
  <2>3. 1000 * (nR + C) <= m
    BY <1>1, <1>2, <1>4, <1>7, <1>10, <2>1, <2>2 DEF RoundingShows, T
  <2>4. PICK ER \in Nat : ER = E * R
    BY Products
  <2>5. PICK Cr \in Nat : Cr = C * r
    BY Products
  <2>6. 2 * ER <= 2 * Cr + (nR + C) /\ 2 * Cr <= 2 * ER + (nR + C)
    <3>1. PICK sr \in Nat : sr = s * r
      BY Products
    <3>2. 2 * sr <= 2 * R + s /\ 2 * R <= 2 * sr + s
      BY <1>4, <3>1
    <3>3. 2 * (s * r) <= 2 * R + s /\ 2 * R <= 2 * (s * r) + s
      BY <3>1, <3>2
    <3> QED BY <1>7, <2>1, <2>4, <2>5, <3>3, RoundedRatio
  <2>7. sold = [of |-> R - C, per |-> R] /\ final = [of |-> r - E, per |-> r]
    BY <1>1, <1>2, <1>4, <1>5, <1>10 DEF Money!SoldMargin, Money!EacMargin
  <2>8. (R - C) * r = m - Cr /\ (r - E) * R = m - ER
    BY <2>2, <2>4, <2>5
  <2>9. ER - Cr = sold.of * final.per - final.of * sold.per /\ m = sold.per * final.per
    BY <2>2, <2>7, <2>8
  <2>10. 2000 * (ER - Cr) <= m /\ -(2000 * (ER - Cr)) <= m
    BY <2>3, <2>6
  <2>11. ER - Cr \in Int
    OBVIOUS
  <2> QED BY <2>9, <2>10, <2>11, InTheBand
<1> QED BY <1>8, <1>9, <1>10

\* ... nor has a direct one, once it has hours.
LEMMA SilentDirectHolds ==
  ASSUME ws \in Workspace, NEW deal \in Deal, NEW actuals \in [Keys -> {None} \cup Report],
         deal.mode = "direct", deal.hours > 0,
         \A k \in Money!EacKeys(deal, ws.card) : actuals[k] = None
  PROVE  Money!DriftStatus(deal, ws.card, actuals) = "on-baseline" \/ RoundingShows(deal)
<1> DEFINE sold == Money!SoldMargin(deal, ws.card)
           final == Money!EacMargin(deal, ws.card, actuals)
<1>0. ws.card \in [Roles -> {None} \cup Rate]
  BY MoneyTyped
<1> SUFFICES ASSUME ~RoundingShows(deal)
             PROVE  Money!DriftStatus(deal, ws.card, actuals) = "on-baseline"
  OBVIOUS
<1>1. PICK r \in Nat : r = Money!Totals(deal, ws.card).revenue /\ r = deal.revenue /\ r >= 1000
  BY <1>0, RevenueIs DEF RoundingShows
<1>2. PICK c \in Nat : c = Money!DirectCost(deal)
  BY DirectCostIsNat
<1>3. Money!EacSummary(deal, ws.card, actuals).eac = c
  BY <1>0, <1>2, SilentDirect
<1>4. PICK k \in 0..99 : k = deal.margin
  BY DEF Deal
<1>5. PICK x \in Nat : x = r * (100 - k)
  BY <1>4, Products
<1>6. c = Money!RoundDiv(x, 100)
  BY <1>1, <1>2, <1>4, <1>5 DEF Money!DirectCost
<1>7. 2 * (100 * c) <= 2 * x + 100 /\ 2 * x < 2 * (100 * c) + 100
  BY <1>6, RoundDivIs
<1>8. PICK y \in Nat : y = k * r
  BY <1>4, Products
<1>9. x = 100 * r - y
  BY <1>5, <1>8
<1>10. sold = [of |-> k, per |-> 100] /\ final = [of |-> r - c, per |-> r]
  BY <1>1, <1>3, <1>4 DEF Money!SoldMargin, Money!EacMargin
<1>11. PICK d \in Int : d = y - (r - c) * 100
  OBVIOUS
<1>12. d = sold.of * final.per - final.of * sold.per /\ 100 * r = sold.per * final.per
  BY <1>8, <1>10, <1>11
<1>13. 2000 * d <= 100 * r /\ -(2000 * d) <= 100 * r
  BY <1>1, <1>7, <1>9, <1>11
<1>14. 100 * r \in Nat
  OBVIOUS
<1> QED BY <1>12, <1>13, <1>14, InTheBand

\* The blended margin of a program lies between those of its waves.
LEMMA ProgramsBlend ==
  ASSUME ws \in Workspace, NEW p \in Projects, Waves(p) # {}
  PROVE  LET program == Program(p)
             revenue == Tabulated([q \in Waves(p) |-> Money!Totals(ws.deals[q], ws.card).revenue])
             cost == Tabulated([q \in Waves(p) |-> EacOf(q).eac])
         IN  /\ \E q \in Waves(p) : cost[q] * program.revenue >= program.eac * revenue[q]
             /\ \E q \in Waves(p) : cost[q] * program.revenue <= program.eac * revenue[q]
<1> DEFINE W == Waves(p)
           program == Program(p)
           R == [q \in W |-> Money!Totals(ws.deals[q], ws.card).revenue]
           C == [q \in W |-> EacOf(q).eac]
<1>1. program.revenue = Money!SumFunction(R) /\ program.eac = Money!SumFunction(C)
  BY DEF Program, Money!ProgramRollup, EacOf
<1>2. IsFiniteSet(W) /\ DOMAIN R = W /\ DOMAIN C = W
  BY TowerAssumption, FS_Subset DEF Waves
<1>3. \A q \in W : C[q] \in Nat /\ R[q] \in Nat
  <2> SUFFICES ASSUME NEW q \in W
               PROVE EacOf(q).eac \in Nat /\ Money!Totals(ws.deals[q], ws.card).revenue \in Nat
    OBVIOUS
  <2>1. q \in Projects
    BY DEF Waves
  <2> QED BY <2>1, MoneyTyped, EstimateHoldsItsParts, RevenueIs DEF EacOf
<1>4. Tabulated(R) = R /\ Tabulated(C) = C
  BY TabulatedIs
<1> HIDE DEF R, C, W, program
<1>5. program.revenue = SumFunctionOnSet(R, W) /\ program.eac = SumFunctionOnSet(C, W)
  BY <1>1, <1>2, SumsAlike
<1>6. W # {}
  BY DEF W
<1>7. /\ \E q \in W : C[q] * program.revenue >= program.eac * R[q]
      /\ \E q \in W : C[q] * program.revenue <= program.eac * R[q]
  BY <1>2, <1>3, <1>5, <1>6, RatioOfSums
<1> QED BY <1>4, <1>7 DEF R, C, W, program

\* What the money pages say of a deal adds up in every typed state.
LEMMA MoneyHolds == TowerTypeOK => MoneyReconciles
<1> SUFFICES ASSUME TowerTypeOK PROVE MoneyReconciles
  OBVIOUS
<1>1. ws \in Workspace
  BY DEF TowerTypeOK
<1>2. UntouchedIsOnBaseline
  <2> SUFFICES ASSUME NEW p \in Projects, Money!Totals(ws.deals[p], ws.card).hours > 0,
                      \A k \in Money!EacKeys(ws.deals[p], ws.card) : ws.actuals[p][k] = None
               PROVE  \/ Money!DriftStatus(ws.deals[p], ws.card, ws.actuals[p]) = "on-baseline"
                      \/ RoundingShows(ws.deals[p])
    BY DEF UntouchedIsOnBaseline
  <2>1. ws.deals[p] \in Deal /\ ws.actuals[p] \in [Keys -> {None} \cup Report]
    BY <1>1, MoneyTyped
  <2>2. ws.deals[p].mode = "direct" => ws.deals[p].hours > 0
    BY DEF Money!Totals
  <2> QED BY <1>1, <2>1, <2>2, SilentMatrixHolds, SilentDirectHolds
<1>3. MoneyAddsUp
  <2> SUFFICES ASSUME NEW p \in Projects
               PROVE LET eac == EacOf(p)
                         exposure == Money!ContractorExposure(ws.deals[p], ws.card, ws.actuals[p])
                     IN /\ eac.spent <= eac.eac /\ Money!BurnToDate(eac) \in 0..100
                        /\ exposure.cost <= eac.eac /\ exposure.hours <= eac.hours + eac.forecast + eac.open
    BY <1>1, ProgramsBlend DEF MoneyAddsUp
  <2> QED BY <1>1, MoneyTyped, EstimateHoldsItsParts, BurnIsPercentage DEF EacOf
<1> QED BY <1>2, <1>3 DEF MoneyReconciles

\* The money a workspace reports reconciles (calculations/financials.ts, portfolio.ts): a
\* project nobody reported on stands on its sold margin, unless it is so small that the
\* rounding of its costs and its revenue to cents shows, what is spent is part of the estimate, contractors are part of it too,
\* and a program's margin lies between those of its waves.
THEOREM MoneyAlwaysReconciles == TowerSpec => []MoneyReconciles
BY MoneyHolds, TowerTypeCorrect, PTL

(***************************************************************************)
(* The feed: the flagged projects of the highest score, as many as there   *)
(* is room for.                                                            *)
(***************************************************************************)

\* A project has finitely many drivers.
LEMMA DriversCount ==
  ASSUME NEW health, NEW published
  PROVE  IsFiniteSet(Drivers(health, published)) /\ Cardinality(Drivers(health, published)) \in Nat
<1>1. IsFiniteSet({"Governance Red"}) /\ IsFiniteSet({"Over Budget"}) /\ IsFiniteSet({"Behind Schedule"})
  BY FS_Singleton
<1>2. IsFiniteSet({"Governance Red"} \cup {"Over Budget"})
  BY <1>1, FS_Union
<1>3. IsFiniteSet(({"Governance Red"} \cup {"Over Budget"}) \cup {"Behind Schedule"})
  BY <1>1, <1>2, FS_Union
<1>4. Drivers(health, published) \in SUBSET (({"Governance Red"} \cup {"Over Budget"}) \cup {"Behind Schedule"})
  BY DEF Drivers
<1> QED BY <1>3, <1>4, FS_Subset, FS_CardinalityType

\* More of what weighs w weighs at least w more.
LEMMA MoreWeighsMore ==
  ASSUME NEW a \in Nat, NEW b \in Nat, NEW w \in Nat, a > b
  PROVE  a * w \in Nat /\ b * w \in Nat /\ a * w >= b * w + w
<1>1. PICK d \in Nat : a = b + 1 + d
  <2>1. a - b - 1 \in Nat /\ a = b + 1 + (a - b - 1)
    OBVIOUS
  <2> QED BY <2>1
<1>2. a * w = b * w + w + d * w
  BY <1>1
<1>3. b * w \in Nat /\ d * w \in Nat /\ a * w \in Nat
  OBVIOUS
<1> QED BY <1>2, <1>3

\* What weighs less at first must outweigh it otherwise.
LEMMA FewerDrivers ==
  ASSUME NEW a \in Nat, NEW b \in Nat, NEW w \in Nat, NEW v \in Int, NEW u \in Int,
         a * w + v >= b * w + u, v - u < w
  PROVE  b <= a
<1> SUFFICES ASSUME b > a PROVE FALSE
  OBVIOUS
<1>1. b * w \in Nat /\ a * w \in Nat /\ b * w >= a * w + w
  BY MoreWeighsMore
<1>2. PICK x \in Nat : x = b * w
  BY <1>1
<1>3. PICK y \in Nat : y = a * w
  BY <1>1
<1> QED BY <1>1, <1>2, <1>3

\* The feed holds the flagged projects of the highest score: all of them, or as many as
\* there is room for.
LEMMA FeedIs ==
  LET feed == Feed(FlagsOf, Published)
      flagged == {p \in Projects : FlagsOf[p] # {}}
      variance(p) == Published[p].spent - Published[p].bac
  IN  /\ feed \subseteq flagged
      /\ \A p \in feed, q \in flagged \ feed :
           Cardinality(FlagsOf[p]) * DriverWeight + variance(p)
             >= Cardinality(FlagsOf[q]) * DriverWeight + variance(q)
      /\ feed = flagged \/ Cardinality(feed) = TriageLimit
<1> DEFINE F == {p \in Projects : FlagsOf[p] # {}}
           score(p) == Cardinality(FlagsOf[p]) * DriverWeight + Published[p].spent - Published[p].bac
           R == {e \in F \X F : score(e[1]) > score(e[2]) \/ (score(e[1]) = score(e[2]) /\ e[1] < e[2])}
           variance(p) == Published[p].spent - Published[p].bac
           weight(p) == Cardinality(FlagsOf[p]) * DriverWeight
           ahead(p) == {q \in F : score(q) > score(p) \/ (score(q) = score(p) /\ q < p)}
           before == [p \in F |-> {q \in F : <<q, p>> \in R}]
           few == {p \in F : Cardinality(before[p]) < TriageLimit}
<1>1. ASSUME NEW p \in F PROVE score(p) \in Int /\ score(p) = weight(p) + variance(p)
  <2>1. Published[p].spent \in Nat /\ Published[p].bac \in Nat
    BY TowerAssumption DEF Stored
  <2>2. Cardinality(FlagsOf[p]) \in Nat
    BY DriversCount DEF FlagsOf
  <2>3. weight(p) \in Nat
    BY <2>2, TowerAssumption, Products
  <2> QED BY <2>1, <2>3
<1>2. IsFiniteSet(F) /\ F \subseteq Int
  BY TowerAssumption, FS_Subset
<1>3. Orders(R, F)
  <2> HIDE DEF F, score
  <2> QED BY <1>1, <1>2 DEF Orders
<1>4. \A p \in F : before[p] = ahead(p)
  <2> HIDE DEF F, score
  <2> QED OBVIOUS
<1>5. Feed(FlagsOf, Published) = {p \in F : Cardinality(ahead(p)) < TriageLimit}
  BY DEF Feed, FlagsOf
<1>6. Feed(FlagsOf, Published) = few
  <2> HIDE DEF F, ahead, before
  <2> QED BY <1>4, <1>5
<1>7. TriageLimit \in Nat
  BY TowerAssumption
<1>8. /\ \A p \in few, q \in F \ few : <<p, q>> \in R
      /\ few = F \/ Cardinality(few) = TriageLimit
  <2>1. \A p \in F : before[p] \in SUBSET F /\ \A q \in F : q \in before[p] <=> <<q, p>> \in R
    OBVIOUS
  <2>2. few \in SUBSET F /\ \A p \in F : p \in few <=> Cardinality(before[p]) < TriageLimit
    OBVIOUS
  <2>3. IsFiniteSet(F)
    BY <1>2
  <2>4. Orders(R, F)
    BY <1>3
  <2> HIDE DEF F, R, before, few, ahead, score, weight, variance
  <2> QED BY ONLY <1>7, <2>1, <2>2, <2>3, <2>4, FirstFew, SMTT(60)
<1>9. ASSUME NEW p \in few, NEW q \in F \ few
      PROVE  weight(p) + variance(p) >= weight(q) + variance(q)
  <2>1. p \in F /\ q \in F /\ <<p, q>> \in R
    BY <1>8
  <2>2. score(p) > score(q) \/ score(p) = score(q)
    BY <2>1
  <2> HIDE DEF F, R, few, score, weight, variance
  <2> QED BY <1>1, <2>1, <2>2
<1>10. few \subseteq F
  OBVIOUS
<1>11. /\ few \subseteq F
       /\ \A p \in few, q \in F \ few : weight(p) + variance(p) >= weight(q) + variance(q)
       /\ few = F \/ Cardinality(few) = TriageLimit
  <2> HIDE DEF weight, variance, F
  <2> QED BY <1>8, <1>9, <1>10
<1> HIDE DEF few
<1> QED BY <1>6, <1>11, Zenon

\* Who is left off the feed has no more drivers, but for a driver's weight of money.
LEMMA FeedHolds == FeedKeepsTheWorst
<1> DEFINE feed == Feed(FlagsOf, Published)
           flagged == {p \in Projects : FlagsOf[p] # {}}
<1> SUFFICES ASSUME NEW p \in feed, NEW q \in flagged \ feed,
                    Causes!Variance(Published[p]) - Causes!Variance(Published[q]) < DriverWeight
             PROVE  Cardinality(FlagsOf[q]) <= Cardinality(FlagsOf[p])
  BY DEF FeedKeepsTheWorst
<1>1. p \in Projects /\ q \in Projects
  BY FeedIs
<1>2. PICK a \in Nat : a = Cardinality(FlagsOf[p])
  BY <1>1, DriversCount DEF FlagsOf
<1>3. PICK b \in Nat : b = Cardinality(FlagsOf[q])
  BY <1>1, DriversCount DEF FlagsOf
<1>4. PICK v \in Int : v = Published[p].spent - Published[p].bac
  BY <1>1, TowerAssumption DEF Stored
<1>5. PICK u \in Int : u = Published[q].spent - Published[q].bac
  BY <1>1, TowerAssumption DEF Stored
<1>6. a * DriverWeight + v >= b * DriverWeight + u
  BY <1>2, <1>3, <1>4, <1>5, FeedIs
<1>7. v - u < DriverWeight
  BY <1>4, <1>5 DEF Causes!Variance
<1> QED BY <1>2, <1>3, <1>6, <1>7, FewerDrivers, TowerAssumption

\* A red engagement shows in its program, in the count and in the feed.
LEMMA RedHolds == RedShows
<1> SUFFICES ASSUME NEW p \in Projects, Health(p) = "R"
             PROVE  /\ ws.parent[p] # None => ProgramHealth(ws.parent[p]) = "R"
                    /\ Level[p] # "parent" => HighRisk > 0
                    /\ p \in Feed(FlagsOf, Published) \/ Cardinality(Feed(FlagsOf, Published)) = TriageLimit
  BY DEF RedShows
<1>1. ASSUME ws.parent[p] # None PROVE ProgramHealth(ws.parent[p]) = "R"
  <2> DEFINE W == Waves(ws.parent[p])
             codes == {Health(q) : q \in W}
             worst(h) == \A g \in codes : HealthRank[g] <= HealthRank[h]
  <2>1. p \in W /\ "R" \in codes
    BY DEF Waves
  <2>2. \A g \in codes : g \in {"G", "Y", "R"}
    BY DEF Health, ProjectHealth
  <2>3. HealthRank["G"] = 0 /\ HealthRank["Y"] = 1 /\ HealthRank["R"] = 2
    BY DEF HealthRank
  <2>4. ProgramHealth(ws.parent[p]) = CHOOSE h \in codes : worst(h)
    BY <2>1 DEF ProgramHealth
  <2> HIDE DEF codes
  <2>5. worst("R")
    BY <2>2, <2>3
  <2>6. \A h \in codes : worst(h) => h = "R"
    BY <2>1, <2>2, <2>3
  <2> QED BY <2>1, <2>4, <2>5, <2>6
<1>2. ASSUME Level[p] # "parent" PROVE HighRisk > 0
  <2> DEFINE S == {q \in Projects : Level[q] # "parent" /\ Health(q) = "R"}
  <2>1. p \in S /\ IsFiniteSet(S)
    BY <1>2, TowerAssumption, FS_Subset
  <2>2. HighRisk = Cardinality(S)
    BY DEF HighRisk
  <2> HIDE DEF S
  <2> QED BY <2>1, <2>2, FS_EmptySet, FS_CardinalityType
<1>3. FlagsOf[p] # {}
  BY DEF FlagsOf, Drivers
<1> QED BY <1>1, <1>2, <1>3, FeedIs

(***************************************************************************)
(* The people of a workspace, by practice and by colour.                   *)
(***************************************************************************)

\* The rows of the team are finitely many, with hours that add up.
LEMMA TeamRowsTyped ==
  ASSUME TowerTypeOK
  PROVE  /\ IsFiniteSet(DOMAIN TeamRows)
         /\ \A i \in DOMAIN TeamRows : TeamRows[i].available \in Nat /\ TeamRows[i].billable \in Nat
<1> DEFINE D == {j \in People : roster[j] # None}
           window == Team!TrailingWindow(Today)
           row(i) == Team!CapacityRow(window, roster[i], ws.job[i], policies, holidays)
<1>1. IsFiniteSet(D)
  BY TowerAssumption, FS_Subset
<1>2. TeamRows = [i \in D |-> row(i)]
  BY TabulatedIs DEF TeamRows
<1>3. ASSUME NEW i \in D PROVE row(i).available \in Nat /\ row(i).billable \in Nat
  <2>1. roster[i] \in Person
    BY DEF TowerTypeOK
  <2>2. PICK person \in Person : person = roster[i]
    BY <2>1
  <2>3. /\ person.hours \in Nat /\ person.fte \in Nat /\ person.start \in Int
        /\ person.end \in {None} \cup Int
    BY DEF Person
  <2>4. clock \in Int /\ TicksPerDay \in Nat \ {0} /\ WindowWeeks \in Nat
    BY TowerAssumption DEF TowerTypeOK
  <2>5. Today \in Int
    BY <2>4 DEF Today
  <2>6. window.start \in Int /\ window.end \in Int
    BY <2>4, <2>5 DEF Team!TrailingWindow
  <2> HIDE DEF window
  <2>7. IsFiniteSet(Team!Tenure(window, person))
    <3>1. PICK a \in Int : a = IF window.start > person.start THEN window.start ELSE person.start
      BY <2>3, <2>6
    <3>2. PICK l \in Int : l = IF person.end = None THEN window.end ELSE person.end
      BY <2>3, <2>6
    <3>3. PICK b \in Int : b = IF window.end < l THEN window.end ELSE l
      BY <2>6
    <3>4. Team!Tenure(window, person) = a..b
      BY <3>1, <3>2, <3>3 DEF Team!Tenure
    <3> QED BY <3>4, FS_Interval
  <2> DEFINE left == {d \in Team!Tenure(window, person) : Team!IsWeekday(d)} \ holidays
  <2>8. Team!AvailableHours(window, person, holidays) = Cardinality(left) * 8 * person.fte
    BY CountsAlike DEF Team!AvailableHours, Team!HoursPerDay
  <2>9. PICK n \in Nat : n = Cardinality(left)
    <3>1. left \in SUBSET Team!Tenure(window, person)
      OBVIOUS
    <3> HIDE DEF left
    <3> QED BY <2>7, <3>1, FS_Subset, FS_CardinalityType
  <2> HIDE DEF left
  <2>10. row(i).available = Team!AvailableHours(window, person, holidays) /\ row(i).billable = person.hours
    BY <2>2 DEF Team!CapacityRow
  <2>11. Cardinality(left) * 8 * person.fte \in Nat
    BY <2>3, <2>9, Products
  <2> QED BY <2>3, <2>8, <2>10, <2>11
<1> HIDE DEF D, row
<1>4. DOMAIN TeamRows = D /\ \A i \in D : TeamRows[i] = row(i)
  BY <1>2
<1> QED BY <1>1, <1>3, <1>4

\* What the practices add up to is what the headline adds up.
LEMMA PracticesAddUp ==
  ASSUME NEW rows, IsFiniteSet(DOMAIN rows),
         \A i \in DOMAIN rows : rows[i].available \in Nat /\ rows[i].billable \in Nat
  PROVE  LET whole == Team!BlendedSummary(rows, DOMAIN rows)
             parts == Team!Practices(rows)
         IN  /\ whole.billable = SumFunction([q \in parts |-> q.of.billable])
             /\ whole.available = SumFunction([q \in parts |-> q.of.available])
<1> DEFINE D == DOMAIN rows
           H == {i \in D : rows[i].head}
           whole == Team!BlendedSummary(rows, DOMAIN rows)
           parts == Team!Practices(rows)
           in(q) == {i \in D : rows[i].practice = q}
           heads(q) == {i \in in(q) : rows[i].head}
           part(q) == [practice |-> q, of |-> Team!BlendedSummary(rows, in(q))]
           P == [i \in D |-> part(rows[i].practice)]
           B == [i \in D |-> rows[i].billable]
           A == [i \in D |-> rows[i].available]
           U == [q \in parts |-> q.of.billable]
           V == [q \in parts |-> q.of.available]
<1>1. parts = {P[i] : i \in D}
  BY DEF Team!Practices
<1>2. \A i \in D : P[i] \in parts
  BY <1>1
<1>3. IsFiniteSet(parts)
  <2> HIDE DEF P, parts
  <2> QED BY <1>1, ValuesAreFinite
<1>4. H \in SUBSET D /\ IsFiniteSet(H)
  BY FS_Subset
<1>5. /\ \A i \in D : B[i] \in Nat /\ B[i] = rows[i].billable
      /\ \A i \in D : A[i] \in Nat /\ A[i] = rows[i].available
  OBVIOUS
<1>6. ASSUME NEW S \in SUBSET D
      PROVE  /\ Team!SumFunction([i \in S |-> rows[i].billable]) = SumFunctionOnSet(B, S)
             /\ Team!SumFunction([i \in S |-> rows[i].available]) = SumFunctionOnSet(A, S)
  <2>1. IsFiniteSet(S)
    BY FS_Subset
  <2> DEFINE b == [i \in S |-> rows[i].billable]
             a == [i \in S |-> rows[i].available]
  <2>2. DOMAIN a = S /\ DOMAIN b = S /\ \A i \in S : a[i] = A[i] /\ b[i] = B[i]
    OBVIOUS
  <2> HIDE DEF a, b, A, B
  <2>3. Team!SumFunction(b) = SumFunctionOnSet(b, S) /\ Team!SumFunction(a) = SumFunctionOnSet(a, S)
    BY <2>2, SumsAlike
  <2>4. SumFunctionOnSet(b, S) = SumFunctionOnSet(B, S) /\ SumFunctionOnSet(a, S) = SumFunctionOnSet(A, S)
    BY <2>1, <2>2, SumsOfEquals
  <2> QED BY <2>3, <2>4 DEF a, b
<1>7. ASSUME NEW S \in SUBSET D
      PROVE  LET of == Team!BlendedSummary(rows, S)
             IN  /\ of.billable = SumFunctionOnSet(B, S)
                 /\ of.available = SumFunctionOnSet(A, {i \in S : rows[i].head})
  <2> DEFINE h == {i \in S : rows[i].head}
  <2>1. h \in SUBSET D
    OBVIOUS
  <2>2. /\ Team!BlendedSummary(rows, S).billable = Team!SumFunction([i \in S |-> rows[i].billable])
        /\ Team!BlendedSummary(rows, S).available = Team!SumFunction([i \in h |-> rows[i].available])
    BY DEF Team!BlendedSummary
  <2> HIDE DEF h, A, B
  <2>3. /\ Team!BlendedSummary(rows, S).billable = SumFunctionOnSet(B, S)
        /\ Team!BlendedSummary(rows, S).available = SumFunctionOnSet(A, h)
    BY <1>6, <2>1, <2>2
  <2> QED BY <2>3 DEF h
<1>8. ASSUME NEW c \in parts
      PROVE  /\ U[c] = SumFunctionOnSet(B, Group(P, D, c))
             /\ V[c] = SumFunctionOnSet(A, Group(P, H, c))
  <2>1. PICK j \in D : c = P[j]
    BY <1>1
  <2> DEFINE q == rows[j].practice
             G == in(q)
             K == heads(q)
  <2>2. c = part(q)
    BY <2>1
  <2>3. \A i \in D : P[i] = c <=> rows[i].practice = q
    BY <2>2
  <2>4. Group(P, D, c) = G /\ Group(P, H, c) = K
    BY <2>3 DEF Group
  <2>5. U[c] = Team!BlendedSummary(rows, G).billable /\ V[c] = Team!BlendedSummary(rows, G).available
    BY <2>2
  <2>6. G \in SUBSET D /\ K = {i \in G : rows[i].head}
    OBVIOUS
  <2> HIDE DEF G, K, U, V, P, A, B
  <2>7. /\ Team!BlendedSummary(rows, G).billable = SumFunctionOnSet(B, G)
        /\ Team!BlendedSummary(rows, G).available = SumFunctionOnSet(A, K)
    BY <1>7, <2>6
  <2> QED BY <2>4, <2>5, <2>7
<1>9. whole.billable = SumFunctionOnSet(B, D) /\ whole.available = SumFunctionOnSet(A, H)
  BY <1>7
<1>10. DOMAIN U = parts /\ DOMAIN V = parts
  OBVIOUS
<1> HIDE DEF U, V, P, A, B, D, H, parts, whole
<1>11. SumFunctionOnSet(U, parts) = SumFunctionOnSet(B, D)
  <2>1. IsFiniteSet(D) /\ \A c \in parts : U[c] = SumFunctionOnSet(B, Group(P, D, c))
    BY <1>8 DEF D
  <2> QED BY <1>2, <1>3, <1>5, <2>1, SumByGroups
<1>12. SumFunctionOnSet(V, parts) = SumFunctionOnSet(A, H)
  <2>1. /\ \A i \in H : A[i] \in Nat /\ P[i] \in parts
        /\ \A c \in parts : V[c] = SumFunctionOnSet(A, Group(P, H, c))
    BY <1>2, <1>4, <1>5, <1>8
  <2> QED BY <1>3, <1>4, <2>1, SumByGroups
<1>13. SumFunction(U) = SumFunctionOnSet(U, parts) /\ SumFunction(V) = SumFunctionOnSet(V, parts)
  BY <1>10, SumsAlike
<1>14. whole.billable = SumFunction(U) /\ whole.available = SumFunction(V)
  BY <1>9, <1>11, <1>12, <1>13
<1> QED BY <1>14 DEF U, V, parts, whole

\* Every billable head has one colour, and one cluster when at risk.
LEMMA ResourceTriageCounts ==
  ASSUME NEW rows, IsFiniteSet(DOMAIN rows)
  PROVE  LET page == Team!ResourceTriage(rows)
             heads == {i \in DOMAIN rows : rows[i].head}
         IN  /\ page.red + page.amber + page.optimal = Cardinality(heads)
             /\ page.red + page.amber = SumFunction([c \in page.clusters |-> c.red + c.amber])
             /\ page.severe <= page.red
<1> DEFINE page == Team!ResourceTriage(rows)
           H == {i \in DOMAIN rows : rows[i].head}
           rag(color) == {i \in H : Team!ResourceRag(rows[i]) = color}
           S == H \ rag("Green")
           theme(i) == Team!ResourceTheme(rows[i])
           of(t) == {i \in S : theme(i) = t}
           red == rag("Red")
           amber == rag("Amber")
           green == rag("Green")
           severe == {i \in H : Team!OverAllocated(rows[i])}
           cluster(t) == [theme |-> t, members |-> of(t), red |-> Cardinality(of(t) \cap red),
                          amber |-> Cardinality(of(t) \cap amber)]
           cl == [i \in S |-> cluster(theme(i))]
           C == {cl[i] : i \in S}
           u == [c \in C |-> c.red + c.amber]
<1>1. /\ page.red = Cardinality(red) /\ page.amber = Cardinality(amber) /\ page.optimal = Cardinality(green)
      /\ page.severe = Cardinality(severe)
  BY CountsAlike DEF Team!ResourceTriage
<1>2. page.clusters = C
  <2>1. page.clusters = {cluster(theme(i)) : i \in S}
    BY CountsAlike DEF Team!ResourceTriage
  <2> HIDE DEF page, S, cluster, theme
  <2> QED BY <2>1
<1>3. /\ red \cup amber = S /\ red \cap amber = {} /\ S \cup green = H /\ S \cap green = {}
      /\ severe \subseteq red
  BY DEF Team!ResourceRag
<1>4. H \in SUBSET DOMAIN rows /\ IsFiniteSet(H) /\ S \in SUBSET H /\ red \in SUBSET H /\ severe \in SUBSET red
  <2>1. H \in SUBSET DOMAIN rows /\ S \in SUBSET H /\ red \in SUBSET H
    OBVIOUS
  <2> HIDE DEF H, S, red, severe
  <2> QED BY <1>3, <2>1, FS_Subset
<1>5. IsFiniteSet(S) /\ IsFiniteSet(red)
  <2> HIDE DEF H, S, red
  <2> QED BY <1>4, FS_Subset
<1>6. ASSUME NEW c \in C
      PROVE  /\ c.members \in SUBSET S /\ \A x \in S : x \in c.members <=> cl[x] = c
             /\ c.red = Cardinality(c.members \cap red)
             /\ c.amber = Cardinality(c.members \cap amber)
  <2>1. PICK j \in S : c = cl[j]
    OBVIOUS
  <2>2. c = cluster(theme(j))
    BY <2>1
  <2> HIDE DEF S, red, amber, theme
  <2>3. c.theme = theme(j) /\ c.members = of(theme(j))
    BY <2>2
  <2>4. \A x \in S : cl[x] = c <=> theme(x) = theme(j)
    <3>1. \A x \in S : cl[x] = cluster(theme(x)) /\ cl[x].theme = theme(x)
      OBVIOUS
    <3> HIDE DEF cl, cluster
    <3> QED BY <2>2, <2>3, <3>1
  <2> QED BY <2>2, <2>3, <2>4
<1>7. \A c \in C : u[c] = c.red + c.amber
  OBVIOUS
<1>8. DOMAIN u = C
  OBVIOUS
<1> HIDE DEF page, H, S, red, amber, green, severe, C, cl
<1>9. (\A i \in S : cl[i] \in C) /\ (\A c \in C : \E i \in S : c = cl[i])
  BY DEF C
<1> HIDE DEF u
<1>10. SumFunctionOnSet(u, C) = Cardinality(S)
  <2>1. ASSUME NEW c \in C PROVE u[c] = Cardinality(c.members)
    <3>1. c.members \in SUBSET S
      BY <1>6
    <3>2. IsFiniteSet(c.members) /\ c.members \subseteq red \cup amber
      BY <1>3, <1>5, <3>1, FS_Subset
    <3>3. Cardinality(c.members \cap red) + Cardinality(c.members \cap amber) = Cardinality(c.members)
      BY <1>3, <3>2, TwoColours
    <3> QED BY <1>6, <1>7, <3>3
  <2>2. \A c \in C : c.members \in SUBSET S /\ \A x \in S : x \in c.members <=> cl[x] = c
    BY <1>6
  <2> QED BY <1>5, <1>9, <2>1, <2>2, ClustersCount
<1>11. SumFunction(u) = Cardinality(S)
  BY <1>8, <1>10, SumsAlike
<1>12. Cardinality(red) + Cardinality(amber) = Cardinality(S)
  BY <1>3, <1>5, CountOfParts
<1>13. Cardinality(S) + Cardinality(green) = Cardinality(H)
  BY <1>3, <1>4, CountOfParts
<1>14. Cardinality(severe) <= Cardinality(red)
  BY <1>4, <1>5, FS_Subset
<1>15. page.red + page.amber = SumFunction([c \in page.clusters |-> c.red + c.amber])
  <2>1. [c \in page.clusters |-> c.red + c.amber] = u
    BY <1>2 DEF u
  <2> QED BY <1>1, <1>11, <1>12, <2>1
<1>16. page.red + page.amber + page.optimal = Cardinality(H) /\ page.severe <= page.red
  BY <1>1, <1>12, <1>13, <1>14
<1> QED BY <1>15, <1>16 DEF page, H

\* The resource triage and the capacity page count the same heads and hours.
LEMMA HeadlinesHold == TowerTypeOK => HeadlinesAgree
<1> SUFFICES ASSUME TowerTypeOK PROVE HeadlinesAgree
  OBVIOUS
<1>1. PICK rows : rows = TeamRows
  OBVIOUS
<1>2. Team!ResourceTriage(rows).headline = Team!BlendedSummary(rows, DOMAIN rows)
  BY DEF Team!ResourceTriage, Team!BlendedSummary
<1>3. /\ IsFiniteSet(DOMAIN rows)
      /\ \A i \in DOMAIN rows : rows[i].available \in Nat /\ rows[i].billable \in Nat
  BY <1>1, TeamRowsTyped
<1> QED BY <1>1, <1>2, <1>3, PracticesAddUp, ResourceTriageCounts DEF HeadlinesAgree

(***************************************************************************)
(* The money pages: every row once, by model, by colour and by theme.      *)
(***************************************************************************)

\* What a page says of its rows, whose colours are rag.
SplitsUp(page, rows, rag) ==
  /\ page.atRisk = {p \in DOMAIN rows : rag[p] # "Green"}
  /\ page.red = Cardinality({p \in DOMAIN rows : rag[p] = "Red"})
  /\ page.split["ff"].bac + page.split["tm"].bac = page.bac
  /\ page.split["ff"].count + page.split["tm"].count = Cardinality(DOMAIN rows)
  /\ SumFunction([c \in page.clusters |-> c.red + c.amber]) = Cardinality(page.atRisk)

\* A page splits all its rows by model and the ones at risk by theme.
LEMMA MoneyPageSplits ==
  ASSUME NEW rows, IsFiniteSet(DOMAIN rows),
         \A p \in DOMAIN rows : rows[p].bac \in Nat /\ rows[p].model \in {"ff", "tm"},
         NEW rag, \A p \in DOMAIN rows : rag[p] \in Rags, NEW theme
  PROVE  SplitsUp(Causes!MoneyPage(rows, rag, theme), rows, rag)
<1> DEFINE page == Causes!MoneyPage(rows, rag, theme)
           P == DOMAIN rows
           S == {p \in P : rag[p] # "Green"}
           red == {p \in S : rag[p] = "Red"}
           amber == {p \in S : rag[p] = "Amber"}
           sold(m) == {p \in P : rows[p].model = m}
           ff == sold("ff")
           tm == sold("tm")
           bac == [p \in P |-> rows[p].bac]
           of(t) == {p \in S : theme[p] = t}
           variance(t) == Causes!SumFunction([p \in of(t) |-> Causes!Variance(rows[p])])
           cluster(t) == [theme |-> t, members |-> of(t), red |-> Cardinality(of(t) \cap red),
                          amber |-> Cardinality(of(t) \cap amber), variance |-> variance(t)]
           cl == [p \in S |-> cluster(theme[p])]
           C == {cl[p] : p \in S}
           u == [c \in C |-> c.red + c.amber]
<1>1. /\ page.atRisk = S /\ page.red = Cardinality(red)
      /\ page.split["ff"].count = Cardinality(ff) /\ page.split["tm"].count = Cardinality(tm)
  BY CountsAlike DEF Causes!MoneyPage
<1>2. ASSUME NEW T \in SUBSET P
      PROVE  Causes!SumFunction([p \in T |-> rows[p].bac]) = SumFunctionOnSet(bac, T)
  <2> DEFINE b == [p \in T |-> rows[p].bac]
  <2>1. DOMAIN b = T /\ \A p \in T : b[p] = bac[p]
    OBVIOUS
  <2>2. IsFiniteSet(T)
    BY FS_Subset
  <2> HIDE DEF b, bac
  <2>3. Causes!SumFunction(b) = SumFunctionOnSet(b, T)
    BY <2>1, SumsAlike
  <2>4. SumFunctionOnSet(b, T) = SumFunctionOnSet(bac, T)
    BY <2>1, <2>2, SumsOfEquals
  <2> QED BY <2>3, <2>4 DEF b
<1>3. ff \cup tm = P /\ ff \cap tm = {} /\ ff \in SUBSET P /\ tm \in SUBSET P /\ P \in SUBSET P
  OBVIOUS
<1>4. /\ page.bac = SumFunctionOnSet(bac, P)
      /\ page.split["ff"].bac = SumFunctionOnSet(bac, ff)
      /\ page.split["tm"].bac = SumFunctionOnSet(bac, tm)
  <2>1. /\ page.bac = Causes!SumFunction([p \in P |-> rows[p].bac])
        /\ page.split["ff"].bac = Causes!SumFunction([p \in ff |-> rows[p].bac])
        /\ page.split["tm"].bac = Causes!SumFunction([p \in tm |-> rows[p].bac])
    BY DEF Causes!MoneyPage
  <2> HIDE DEF page, bac, ff, tm, P
  <2> QED BY <1>2, <1>3, <2>1
<1>5. page.clusters = C
  <2> DEFINE listed(t) == [theme |-> t, members |-> of(t), red |-> Causes!Cardinality(of(t) \cap red),
                           amber |-> Causes!Cardinality(of(t) \cap amber), variance |-> variance(t)]
  <2>1. page.clusters = {listed(theme[p]) : p \in S}
    BY DEF Causes!MoneyPage
  <2>2. ASSUME NEW t PROVE listed(t) = cluster(t)
    <3> HIDE DEF of, red, amber, variance
    <3> QED BY CountsAlike
  <2> HIDE DEF page, S, cluster, listed
  <2> QED BY <2>1, <2>2
<1>6. red \cup amber = S /\ red \cap amber = {} /\ red = {p \in P : rag[p] = "Red"} /\ S \in SUBSET P
  BY DEF Rags
<1>7. ASSUME NEW c \in C
      PROVE  /\ c.members \in SUBSET S /\ \A x \in S : x \in c.members <=> cl[x] = c
             /\ c.red = Cardinality(c.members \cap red)
             /\ c.amber = Cardinality(c.members \cap amber)
  <2>1. PICK j \in S : c = cl[j]
    OBVIOUS
  <2>2. c = cluster(theme[j])
    BY <2>1
  <2> HIDE DEF S, red, amber, variance
  <2>3. c.theme = theme[j] /\ c.members = of(theme[j])
    BY <2>2
  <2>4. \A x \in S : cl[x] = c <=> theme[x] = theme[j]
    <3>1. \A x \in S : cl[x] = cluster(theme[x]) /\ cl[x].theme = theme[x]
      OBVIOUS
    <3> HIDE DEF cl, cluster
    <3> QED BY <2>2, <2>3, <3>1
  <2> QED BY <2>2, <2>3, <2>4
<1>8. \A c \in C : u[c] = c.red + c.amber
  OBVIOUS
<1>9. DOMAIN u = C
  OBVIOUS
<1> HIDE DEF page, P, S, red, amber, ff, tm, bac, C, cl
<1>10. (\A p \in S : cl[p] \in C) /\ (\A c \in C : \E p \in S : c = cl[p])
  BY DEF C
<1> HIDE DEF u
<1>11. IsFiniteSet(P)
  BY DEF P
<1>12. IsFiniteSet(S)
  BY <1>6, <1>11, FS_Subset
<1>13. SumFunctionOnSet(u, C) = Cardinality(S)
  <2>1. ASSUME NEW c \in C PROVE u[c] = Cardinality(c.members)
    <3>1. c.members \in SUBSET S
      BY <1>7
    <3>2. IsFiniteSet(c.members) /\ c.members \subseteq red \cup amber
      BY <1>6, <1>12, <3>1, FS_Subset
    <3>3. Cardinality(c.members \cap red) + Cardinality(c.members \cap amber) = Cardinality(c.members)
      BY <1>6, <3>2, TwoColours
    <3> QED BY <1>7, <1>8, <3>3
  <2>2. \A c \in C : c.members \in SUBSET S /\ \A x \in S : x \in c.members <=> cl[x] = c
    BY <1>7
  <2> QED BY <1>10, <1>12, <2>1, <2>2, ClustersCount
<1>14. SumFunction([c \in page.clusters |-> c.red + c.amber]) = Cardinality(page.atRisk)
  <2>1. [c \in page.clusters |-> c.red + c.amber] = u
    BY <1>5 DEF u
  <2>2. SumFunction(u) = Cardinality(S)
    BY <1>9, <1>13, SumsAlike
  <2> QED BY <1>1, <2>1, <2>2
<1>15. Cardinality(ff) + Cardinality(tm) = Cardinality(P)
  BY <1>3, <1>11, CountOfParts
<1>16. SumFunctionOnSet(bac, P) = SumFunctionOnSet(bac, ff) + SumFunctionOnSet(bac, tm)
  <2>1. \A p \in ff \cup tm : bac[p] \in Nat
    BY <1>3 DEF bac, P
  <2>2. IsFiniteSet(ff) /\ IsFiniteSet(tm)
    BY <1>3, <1>11, FS_Subset
  <2>3. SumFunctionOnSet(bac, ff \cup tm) = SumFunctionOnSet(bac, ff) + SumFunctionOnSet(bac, tm)
    BY <1>3, <2>1, <2>2, SumOfParts
  <2>4. SumFunctionOnSet(bac, ff \cup tm) = SumFunctionOnSet(bac, P)
    BY <1>3, Zenon
  <2> QED BY <2>3, <2>4
<1>17. page.split["ff"].bac + page.split["tm"].bac = page.bac
  BY <1>4, <1>16
<1>18. /\ page.atRisk = {p \in P : rag[p] # "Green"}
       /\ page.red = Cardinality({p \in P : rag[p] = "Red"})
       /\ page.split["ff"].count + page.split["tm"].count = Cardinality(P)
  <2>1. S = {p \in P : rag[p] # "Green"}
    BY DEF S
  <2> QED BY <1>1, <1>6, <1>15, <2>1
<1> QED BY <1>14, <1>17, <1>18 DEF SplitsUp, page, P

\* What the pages read of a project.
LEMMA EngagementTyped ==
  ASSUME TowerTypeOK
  PROVE  /\ DOMAIN Engagements = Projects
         /\ \A p \in Projects :
              LET row == Engagements[p]
              IN  /\ row = Engagement(p)
                  /\ row.cost = Published[p].cost /\ row.cost \in Rags
                  /\ row.bac \in Nat /\ row.model \in {"ff", "tm"}
                  /\ row.order = (p \in orders)
<1>1. Engagements = [p \in Projects |-> Engagement(p)]
  BY TabulatedIs DEF Engagements
<1>2. ASSUME NEW p \in Projects
      PROVE  LET row == Engagement(p)
             IN  /\ row.cost = Published[p].cost /\ row.cost \in Rags
                 /\ row.bac \in Nat /\ row.model \in {"ff", "tm"}
                 /\ row.order = (p \in orders)
  <2>1. Published[p] \in Stored
    BY TowerAssumption
  <2>2. ws.deals[p].model \in {"ff", "tm"}
    BY DEF TowerTypeOK, Workspace, Deal
  <2>3. /\ Engagement(p).cost = Published[p].cost /\ Engagement(p).bac = Published[p].bac
        /\ Engagement(p).model = ws.deals[p].model
        /\ Engagement(p).order = (p \in orders)
    BY DEF Engagement
  <2> QED BY <2>1, <2>2, <2>3 DEF Stored
<1>3. DOMAIN Engagements = Projects /\ \A p \in Projects : Engagements[p] = Engagement(p)
  BY <1>1
<1> QED BY <1>2, <1>3

\* The two money pages count the same projects, each once.
LEMMA MoneyPagesHold == TowerTypeOK => MoneyPagesAgree
<1> SUFFICES ASSUME TowerTypeOK PROVE MoneyPagesAgree
  OBVIOUS
<1> DEFINE rows == Engagements
           financial == Causes!FinancialTriage(rows)
           commercial == Causes!CommercialTriage(rows)
           over == {p \in Projects : "Over Budget" \in Drivers(Health(p), Published[p])}
           F == [p \in DOMAIN rows |-> Causes!FinancialRag(rows[p])]
           FT == [p \in DOMAIN rows |-> Causes!FinancialTheme(rows[p])]
           K == [p \in DOMAIN rows |-> Causes!CommercialRag(rows[p])]
           KT == [p \in DOMAIN rows |-> Causes!CommercialTheme(rows[p])]
           agrees(page) ==
             /\ page.split["ff"].bac + page.split["tm"].bac = page.bac
             /\ page.split["ff"].count + page.split["tm"].count = Cardinality(DOMAIN rows)
             /\ SumFunction([c \in page.clusters |-> c.red + c.amber]) = Cardinality(page.atRisk)
<1>1. financial = Causes!MoneyPage(rows, F, FT) /\ commercial = Causes!MoneyPage(rows, K, KT)
  BY DEF Causes!FinancialTriage, Causes!CommercialTriage
<1>2. /\ DOMAIN rows = Projects /\ IsFiniteSet(Projects)
      /\ \A p \in Projects : /\ rows[p].bac \in Nat /\ rows[p].model \in {"ff", "tm"}
                             /\ rows[p].cost = Published[p].cost /\ rows[p].cost \in Rags
                             /\ rows[p].order = (p \in orders)
  BY EngagementTyped, TowerAssumption
<1> HIDE DEF rows
<1>3. \A p \in Projects : F[p] = rows[p].cost /\ F[p] \in Rags
  BY <1>2 DEF Causes!FinancialRag
<1>4. \A p \in Projects : /\ K[p] \in Rags /\ (K[p] = "Red" <=> rows[p].cost = "Red")
                          /\ (rows[p].cost # "Green" \/ rows[p].order) => K[p] # "Green"
  BY <1>2 DEF Causes!CommercialRag, Rags
<1> HIDE DEF F, FT, K, KT, financial, commercial
<1>5. /\ financial.atRisk = {p \in DOMAIN rows : F[p] # "Green"}
      /\ financial.red = Cardinality({p \in DOMAIN rows : F[p] = "Red"}) /\ agrees(financial)
  <2>1. SplitsUp(financial, rows, F)
    BY <1>1, <1>2, <1>3, MoneyPageSplits
  <2> QED BY <2>1 DEF SplitsUp
<1>6. /\ commercial.atRisk = {p \in DOMAIN rows : K[p] # "Green"}
      /\ commercial.red = Cardinality({p \in DOMAIN rows : K[p] = "Red"}) /\ agrees(commercial)
  <2>1. SplitsUp(commercial, rows, K)
    BY <1>1, <1>2, <1>4, MoneyPageSplits
  <2> QED BY <2>1 DEF SplitsUp
<1>7. {p \in DOMAIN rows : F[p] = "Red"} = over /\ {p \in DOMAIN rows : K[p] = "Red"} = over
  BY <1>2, <1>3, <1>4 DEF Drivers
<1>8. financial.atRisk \cup orders \subseteq commercial.atRisk
  <2>1. orders \subseteq Projects
    BY DEF TowerTypeOK
  <2> QED BY <1>2, <1>3, <1>4, <1>5, <1>6, <2>1
<1>9. financial.red = Cardinality(over) /\ commercial.red = financial.red
  <2> HIDE DEF over
  <2> QED BY <1>5, <1>6, <1>7
<1>10. \A page \in {financial, commercial} : agrees(page)
  BY <1>5, <1>6
<1> QED BY <1>2, <1>8, <1>9, <1>10 DEF MoneyPagesAgree, financial, commercial, rows

(***************************************************************************)
(* The two tiles of the schedule page, and the options of a project.       *)
(***************************************************************************)

\* A project is as bad as the worst of its phases in flight.
LEMMA ProjectRagIs ==
  ASSUME NEW rows, NEW now
  PROVE  LET rag == ProjectRag(rows, now)
         IN  /\ rag \in Rags
             /\ rag = "Red" <=> \E k \in Active(rows) : PhaseRag(rows[k], now) = "Red"
             /\ rag # "Green" <=> \E k \in Active(rows) : PhaseRag(rows[k], now) \in {"Red", "Amber"}
<1> DEFINE S == {"Green"} \cup {PhaseRag(rows[k], now) : k \in Active(rows)}
<1>1. S \in SUBSET Rags /\ "Green" \in S
  BY PhaseRagColour DEF Rags
<1>2. PICK y : y = WorstOf(S)
  OBVIOUS
<1>3. ProjectRag(rows, now) = y
  BY <1>2 DEF ProjectRag
<1>4. \A z \in Rags \ {"Green"} : z \in S <=> \E k \in Active(rows) : PhaseRag(rows[k], now) = z
  BY DEF Rags
<1> HIDE DEF S
<1>5. y \in S /\ \A z \in S : RagRank[z] <= RagRank[y]
  BY <1>1, <1>2, WorstIsWorst
<1>6. y \in Rags /\ (y = "Red" <=> "Red" \in S) /\ (y # "Green" <=> "Red" \in S \/ "Amber" \in S)
  BY <1>1, <1>5, Ranks DEF Rags
<1> QED BY <1>3, <1>4, <1>6 DEF Rags

\* The milestones of the first tile: one colour each, and a colour is on it when a phase in
\* flight has it.
LEMMA MilestonesAddUp ==
  ASSUME NEW phases, IsFiniteSet(DOMAIN phases), NEW published, NEW dependencies, NEW now
  PROVE  LET page == ScheduleTriage(phases, published, dependencies, now)
             some(color) == \E p \in DOMAIN phases : \E k \in Active(phases[p]) : PhaseRag(phases[p][k], now) = color
         IN  /\ page.red + page.amber + page.onTrack = page.active
             /\ page.red > 0 <=> some("Red")
             /\ page.red + page.amber > 0 <=> some("Red") \/ some("Amber")
<1> DEFINE page == ScheduleTriage(phases, published, dependencies, now)
           P == DOMAIN phases
           in(p, color) == {k \in Active(phases[p]) : PhaseRag(phases[p][k], now) = color}
           R == [p \in P |-> Cardinality(in(p, "Red"))]
           A == [p \in P |-> Cardinality(in(p, "Amber"))]
           G == [p \in P |-> Cardinality(in(p, "Green"))]
           B == [p \in P |-> R[p] + A[p]]
           T == [p \in P |-> Cardinality(Active(phases[p]))]
           some(color) == \E p \in P : \E k \in Active(phases[p]) : PhaseRag(phases[p][k], now) = color
<1>1. /\ page.red = SumFunction(R) /\ page.amber = SumFunction(A)
      /\ page.onTrack = SumFunction(G) /\ page.active = SumFunction(T)
  BY DEF ScheduleTriage
<1>2. ASSUME NEW p \in P
      PROVE  /\ R[p] \in Nat /\ A[p] \in Nat /\ G[p] \in Nat
             /\ B[p] = R[p] + A[p] /\ T[p] = B[p] + G[p] /\ B[p] \in Nat
             /\ R[p] > 0 <=> in(p, "Red") # {}
             /\ A[p] > 0 <=> in(p, "Amber") # {}
  <2> DEFINE K == Active(phases[p])
             r == in(p, "Red")
             a == in(p, "Amber")
             g == in(p, "Green")
             b == r \cup a
  <2>1. K \in SUBSET PhaseKeys
    BY DEF Active
  <2>2. /\ b \cup g = K /\ b \cap g = {} /\ r \cup a = b /\ r \cap a = {}
        /\ b \in SUBSET K /\ r \in SUBSET K /\ a \in SUBSET K
    BY PhaseRagColour DEF Rags
  <2>3. R[p] = Cardinality(r) /\ A[p] = Cardinality(a) /\ G[p] = Cardinality(g) /\ T[p] = Cardinality(K)
    OBVIOUS
  <2>4. B[p] = R[p] + A[p]
    OBVIOUS
  <2> HIDE DEF K, r, a, g, b, R, A, G, T, B
  <2>5. IsFiniteSet(K)
    BY <2>1, TowerAssumption, FS_Subset
  <2>6. IsFiniteSet(b) /\ IsFiniteSet(r) /\ IsFiniteSet(a)
    BY <2>2, <2>5, FS_Subset
  <2>7. Cardinality(b) + Cardinality(g) = Cardinality(K) /\ Cardinality(g) \in Nat
    BY <2>2, <2>5, CountOfParts
  <2>8. Cardinality(r) + Cardinality(a) = Cardinality(b) /\ Cardinality(r) \in Nat /\ Cardinality(a) \in Nat
    BY <2>2, <2>6, CountOfParts
  <2>9. (Cardinality(r) = 0 <=> r = {}) /\ (Cardinality(a) = 0 <=> a = {})
    BY <2>6, FS_EmptySet
  <2>10. (R[p] > 0 <=> r # {}) /\ (A[p] > 0 <=> a # {})
    BY <2>3, <2>8, <2>9
  <2> QED BY <2>3, <2>4, <2>7, <2>8, <2>10 DEF r, a
<1>3. DOMAIN R = P /\ DOMAIN A = P /\ DOMAIN G = P /\ DOMAIN T = P
  OBVIOUS
<1>4. (\E p \in P : in(p, "Red") # {}) <=> some("Red")
  OBVIOUS
<1>5. (\E p \in P : in(p, "Amber") # {}) <=> some("Amber")
  OBVIOUS
<1> HIDE DEF page, R, A, G, B, T, in, some
<1>6. /\ page.red = SumFunctionOnSet(R, P) /\ page.amber = SumFunctionOnSet(A, P)
      /\ page.onTrack = SumFunctionOnSet(G, P) /\ page.active = SumFunctionOnSet(T, P)
  BY <1>1, <1>3, SumsAlike
<1>7. IsFiniteSet(P)
  OBVIOUS
<1> HIDE DEF P
<1>8. SumFunctionOnSet(B, P) = SumFunctionOnSet(R, P) + SumFunctionOnSet(A, P)
  BY <1>2, <1>7, SumOfSums
<1>9. SumFunctionOnSet(T, P) = SumFunctionOnSet(B, P) + SumFunctionOnSet(G, P)
  BY <1>2, <1>7, SumOfSums
<1>10. /\ SumFunctionOnSet(R, P) \in Nat /\ SumFunctionOnSet(A, P) \in Nat /\ SumFunctionOnSet(G, P) \in Nat
  BY <1>2, <1>7, SumIsNat
<1>11. /\ SumFunctionOnSet(R, P) > 0 <=> \E p \in P : R[p] > 0
       /\ SumFunctionOnSet(A, P) > 0 <=> \E p \in P : A[p] > 0
  BY <1>2, <1>7, SumIsPositive
<1>12. (\E p \in P : R[p] > 0) <=> some("Red")
  BY <1>2, <1>4
<1>13. (\E p \in P : A[p] > 0) <=> some("Amber")
  BY <1>2, <1>5
<1>14. page.red + page.amber + page.onTrack = page.active
  BY <1>6, <1>8, <1>9, <1>10
<1>15. page.red > 0 <=> some("Red")
  BY <1>6, <1>11, <1>12
<1>16. page.red + page.amber > 0 <=> some("Red") \/ some("Amber")
  BY <1>6, <1>10, <1>11, <1>12, <1>13
<1> QED BY <1>14, <1>15, <1>16 DEF page, some, P

\* The second tile: its clusters share out the projects at risk.
LEMMA ScheduleClustersCount ==
  ASSUME NEW phases, IsFiniteSet(DOMAIN phases), NEW published, NEW dependencies, NEW now
  PROVE  LET page == ScheduleTriage(phases, published, dependencies, now)
             atRisk == {p \in DOMAIN phases : ProjectRag(phases[p], now) # "Green"}
         IN  /\ SumFunction([c \in page.clusters |-> c.red + c.amber]) = Cardinality(atRisk)
             /\ UNION {c.members : c \in page.clusters} = atRisk
             /\ page.clusters # {} <=> atRisk # {}
             /\ (\E c \in page.clusters : c.red > 0) <=> \E p \in DOMAIN phases : ProjectRag(phases[p], now) = "Red"
<1> DEFINE page == ScheduleTriage(phases, published, dependencies, now)
           P == DOMAIN phases
           rag == Tabulated([p \in P |-> ProjectRag(phases[p], now)])
           S == {p \in P : rag[p] # "Green"}
           red == {p \in S : rag[p] = "Red"}
           amber == {p \in S : rag[p] = "Amber"}
           theme == Tabulated([p \in S |-> ScheduleTheme(phases[p], published[p], p \in dependencies)])
           of(t) == {p \in S : theme[p] = t}
           slip(t) == SumFunction([p \in of(t) |-> ScheduleSummary(phases[p], DefaultPolicy, now).worstSlipDays])
           cluster(t) == [theme |-> t, members |-> of(t), red |-> Cardinality(of(t) \cap red),
                          amber |-> Cardinality(of(t) \cap amber), slip |-> slip(t)]
           cl == [p \in S |-> cluster(theme[p])]
           C == {cl[p] : p \in S}
           u == [c \in C |-> c.red + c.amber]
<1>0. \A p \in P : rag[p] = ProjectRag(phases[p], now) /\ rag[p] \in Rags
  <2>1. rag = [p \in P |-> ProjectRag(phases[p], now)]
    BY TabulatedIs
  <2> HIDE DEF rag
  <2> QED BY <2>1, ProjectRagIs
<1>1. page.clusters = C
  <2> DEFINE listed(t) == [theme |-> t, members |-> of(t), red |-> Cardinality({p \in of(t) : rag[p] = "Red"}),
                           amber |-> Cardinality({p \in of(t) : rag[p] = "Amber"}), slip |-> slip(t)]
  <2>1. page.clusters = {listed(theme[p]) : p \in S}
    BY DEF ScheduleTriage
  <2>2. ASSUME NEW t PROVE listed(t) = cluster(t)
    <3>1. {p \in of(t) : rag[p] = "Red"} = of(t) \cap red /\ {p \in of(t) : rag[p] = "Amber"} = of(t) \cap amber
      OBVIOUS
    <3> HIDE DEF of, red, amber, slip, rag
    <3> QED BY <3>1
  <2> HIDE DEF page, S, cluster, listed, theme
  <2> QED BY <2>1, <2>2
<1> HIDE DEF rag, theme
<1>2. /\ red \cup amber = S /\ red \cap amber = {} /\ red = {p \in P : rag[p] = "Red"} /\ S \in SUBSET P
      /\ S = {p \in P : ProjectRag(phases[p], now) # "Green"}
  BY <1>0 DEF Rags
<1>3. ASSUME NEW c \in C
      PROVE  /\ c.members \in SUBSET S /\ \A x \in S : x \in c.members <=> cl[x] = c
             /\ c.red = Cardinality(c.members \cap red)
             /\ c.amber = Cardinality(c.members \cap amber)
  <2>1. PICK j \in S : c = cl[j]
    OBVIOUS
  <2>2. c = cluster(theme[j])
    BY <2>1
  <2> HIDE DEF S, red, amber, slip
  <2>3. c.theme = theme[j] /\ c.members = of(theme[j])
    BY <2>2
  <2>4. \A x \in S : cl[x] = c <=> theme[x] = theme[j]
    <3>1. \A x \in S : cl[x] = cluster(theme[x]) /\ cl[x].theme = theme[x]
      OBVIOUS
    <3> HIDE DEF cl, cluster
    <3> QED BY <2>2, <2>3, <3>1
  <2> QED BY <2>2, <2>3, <2>4
<1>4. \A c \in C : u[c] = c.red + c.amber
  OBVIOUS
<1>5. DOMAIN u = C
  OBVIOUS
<1>6. (\E p \in P : ProjectRag(phases[p], now) = "Red") <=> red # {}
  BY <1>0, <1>2
<1> HIDE DEF page, P, S, red, amber, C, cl
<1>7. (\A p \in S : cl[p] \in C) /\ (\A c \in C : \E p \in S : c = cl[p])
  BY DEF C
<1> HIDE DEF u
<1>8. IsFiniteSet(S)
  <2>1. IsFiniteSet(P)
    BY DEF P
  <2> QED BY <1>2, <2>1, FS_Subset
<1>9. ASSUME NEW c \in C
      PROVE  u[c] = Cardinality(c.members) /\ (c.red > 0 <=> c.members \cap red # {})
  <2>1. c.members \in SUBSET S
    BY <1>3
  <2>2. IsFiniteSet(c.members) /\ c.members \subseteq red \cup amber
    BY <1>2, <1>8, <2>1, FS_Subset
  <2>3. /\ Cardinality(c.members \cap red) + Cardinality(c.members \cap amber) = Cardinality(c.members)
        /\ Cardinality(c.members \cap red) > 0 <=> c.members \cap red # {}
    BY <1>2, <2>2, TwoColours
  <2> QED BY <1>3, <1>4, <2>3
<1>10. SumFunctionOnSet(u, C) = Cardinality(S)
  <2>1. \A c \in C : c.members \in SUBSET S /\ \A x \in S : x \in c.members <=> cl[x] = c
    BY <1>3
  <2> QED BY <1>7, <1>8, <1>9, <2>1, ClustersCount
<1>11. UNION {c.members : c \in C} = S /\ ((\E c \in C : c.red > 0) <=> red # {})
  <2>1. \A c \in C : c.members \in SUBSET S /\ \A x \in S : x \in c.members <=> cl[x] = c
    BY <1>3
  <2>2. UNION {c.members : c \in C} = S
    BY <1>7, <2>1
  <2>3. (\E c \in C : c.members \cap red # {}) <=> red # {}
    BY <1>2, <1>7, <2>1
  <2> QED BY <1>9, <2>2, <2>3
<1>12. C # {} <=> S # {}
  BY <1>7
<1>13. SumFunction([c \in page.clusters |-> c.red + c.amber]) = Cardinality(S)
  <2>1. [c \in page.clusters |-> c.red + c.amber] = u
    BY <1>1 DEF u
  <2>2. SumFunction(u) = Cardinality(S)
    BY <1>5, <1>10, SumsAlike
  <2> QED BY <2>1, <2>2
<1>14. /\ UNION {c.members : c \in page.clusters} = S
       /\ page.clusters # {} <=> S # {}
       /\ (\E c \in page.clusters : c.red > 0) <=> \E p \in P : ProjectRag(phases[p], now) = "Red"
  BY <1>1, <1>6, <1>11, <1>12
<1>15. S = {p \in P : ProjectRag(phases[p], now) # "Green"}
  BY <1>2
<1> HIDE DEF page
<1> QED BY <1>13, <1>14, <1>15 DEF page, P

\* Whatever goes live within the nearer horizon does so within the farther one.
LEMMA GoLiveGrows ==
  ASSUME NEW phases \in [Projects -> [PhaseKeys -> Phase]], NEW now \in Int, NEW published, NEW dependencies
  PROVE  LET page == ScheduleTriage(phases, published, dependencies, now)
         IN  page.goLive[1] <= page.goLive[2]
<1> DEFINE page == ScheduleTriage(phases, published, dependencies, now)
           days(p) == phases[p]["deploy"].plannedEnd * TicksPerDay - now
           planned == {p \in DOMAIN phases : /\ "deploy" \in Active(phases[p])
                                             /\ phases[p]["deploy"].plannedEnd # None}
           live(h) == {p \in DOMAIN phases : /\ "deploy" \in Active(phases[p])
                                             /\ phases[p]["deploy"].plannedEnd # None
                                             /\ days(p) >= 0 /\ days(p) <= h * TicksPerDay}
           near == live(GoLiveHorizon[1])
           far == live(GoLiveHorizon[2])
<1>1. page.goLive[1] = Cardinality(near) /\ page.goLive[2] = Cardinality(far)
  BY DEF ScheduleTriage
<1>2. PICK m \in Nat, n \in Nat, t \in Nat : m = GoLiveHorizon[1] /\ n = GoLiveHorizon[2] /\ t = TicksPerDay /\ m <= n
  BY TowerAssumption
<1>3. m * t \in Nat /\ n * t \in Nat /\ m * t <= n * t
  <2>1. CASE m = n
    BY <2>1
  <2>2. CASE n > m
    BY <2>2, MoreWeighsMore
  <2> QED BY <1>2, <2>1, <2>2
<1>4. \A p \in planned : days(p) \in Int
  <2> SUFFICES ASSUME NEW p \in planned PROVE days(p) \in Int
    OBVIOUS
  <2>1. p \in Projects /\ "deploy" \in PhaseKeys
    BY DEF Active
  <2>2. phases[p]["deploy"].plannedEnd \in Int
    BY <2>1 DEF Phase
  <2> QED BY <1>2, <2>2
<1>5. near \subseteq far
  <2> SUFFICES ASSUME NEW p \in near PROVE days(p) <= GoLiveHorizon[2] * TicksPerDay
    OBVIOUS
  <2>1. PICK d \in Int : d = days(p)
    BY <1>4
  <2>2. d <= m * t
    BY <1>2, <2>1
  <2>3. d <= n * t
    BY <1>3, <2>2
  <2> QED BY <1>2, <2>1, <2>3
<1>6. far \in SUBSET Projects /\ near \in SUBSET far
  BY <1>5
<1> HIDE DEF near, far
<1>7. IsFiniteSet(far) /\ Cardinality(near) <= Cardinality(far)
  BY <1>6, TowerAssumption, FS_Subset
<1> QED BY <1>1, <1>7

\* The two tiles of the schedule page count the same projects.
LEMMA TilesHold == TowerTypeOK => TilesAgree
<1> SUFFICES ASSUME TowerTypeOK PROVE TilesAgree
  OBVIOUS
<1>1. PICK phases : phases = ws.phases
  OBVIOUS
<1>2. phases \in [Projects -> [PhaseKeys -> Phase]] /\ clock \in Int
  BY <1>1, TowerAssumption DEF TowerTypeOK, Workspace
<1>3. DOMAIN phases = Projects /\ IsFiniteSet(DOMAIN phases)
  BY <1>2, TowerAssumption
<1> DEFINE page == ScheduleTriage(phases, Published, Dependent, clock)
           rag(p) == ProjectRag(phases[p], clock)
           some(color) == \E p \in DOMAIN phases : \E k \in Active(phases[p]) : PhaseRag(phases[p][k], clock) = color
           atRisk == {p \in DOMAIN phases : rag(p) # "Green"}
           held == UNION {c.members : c \in page.clusters}
           counted == SumFunction([c \in page.clusters |-> c.red + c.amber])
<1>4. Triage = page
  BY <1>1 DEF Triage
<1>5. /\ page.red + page.amber + page.onTrack = page.active
      /\ page.red > 0 <=> some("Red")
      /\ page.red + page.amber > 0 <=> some("Red") \/ some("Amber")
  BY <1>3, MilestonesAddUp
<1>6. /\ counted = Cardinality(atRisk) /\ held = atRisk /\ (page.clusters # {} <=> atRisk # {})
      /\ (\E c \in page.clusters : c.red > 0) <=> \E p \in DOMAIN phases : rag(p) = "Red"
  BY <1>3, ScheduleClustersCount, Zenon
<1>7. /\ some("Red") <=> \E p \in DOMAIN phases : rag(p) = "Red"
      /\ some("Red") \/ some("Amber") <=> atRisk # {}
  BY ProjectRagIs
<1>8. page.goLive[1] <= page.goLive[2]
  BY <1>2, GoLiveGrows
<1> HIDE DEF page, atRisk, rag, some
<1>9. /\ page.red > 0 <=> \E c \in page.clusters : c.red > 0
      /\ page.red + page.amber > 0 <=> page.clusters # {}
      /\ counted = Cardinality(held)
  BY <1>5, <1>6, <1>7
<1>10. (page.red > 0) = (\E c \in page.clusters : c.red > 0)
  <2> DEFINE shown == \E c \in page.clusters : c.red > 0
  <2>1. shown \in BOOLEAN /\ (page.red > 0 <=> shown)
    BY <1>9
  <2> HIDE DEF shown
  <2>2. (page.red > 0) = shown
    BY <2>1
  <2> QED BY <2>2 DEF shown
<1>11. (page.red + page.amber > 0) = (page.clusters # {})
  BY <1>9
<1> QED BY <1>4, <1>5, <1>8, <1>9, <1>10, <1>11 DEF TilesAgree

\* Two things and perhaps one more.
LEMMA TwoOrThree ==
  ASSUME NEW x, NEW y, x # y, NEW T, T = {} \/ \E z : T = {z} /\ z # x /\ z # y
  PROVE  Cardinality({x, y} \cup T) \in 2..3
<1>1. IsFiniteSet({x}) /\ Cardinality({x}) = 1
  BY FS_Singleton
<1>2. {x} \cup {y} = {x, y} /\ y \notin {x}
  OBVIOUS
<1>3. IsFiniteSet({x} \cup {y}) /\ Cardinality({x} \cup {y}) = 2
  BY <1>1, <1>2, FS_AddElement
<1>4. IsFiniteSet({x, y}) /\ Cardinality({x, y}) = 2
  BY <1>2, <1>3
<1>5. CASE T = {}
  <2>1. {x, y} \cup T = {x, y}
    BY <1>5
  <2> QED BY <1>4, <2>1
<1>6. ASSUME NEW z, T = {z}, z # x, z # y PROVE Cardinality({x, y} \cup {z}) = 3
  BY <1>4, <1>6, FS_AddElement
<1> QED BY <1>5, <1>6

\* A flagged project has an option, and whom it is offered has hours to spare.
LEMMA OptionsHold == TowerTypeOK => OptionsFit
<1> SUFFICES ASSUME TowerTypeOK, NEW p \in Projects, FlagsOf[p] # {}
             PROVE  LET candidates == Candidates(p, TeamRows)
                        options == Causes!Options(FlagsOf[p], candidates)
                        may(u, o) == Causes!CanExecute(o, Engagement(p), RoleOf[u] \in Approvers)
                    IN /\ Cardinality(options) \in 2..3
                       /\ \A i \in candidates : ~Team!OverAllocated(TeamRows[i])
                       /\ \A u \in Users : Team!CanEdit(Who(u), ws.leads[p]) =>
                            \/ \E o \in options : may(u, o)
                            \/ RoleOf[u] = "PROJECT_MANAGER" /\ Causes!Variance(Published[p]) > ApprovalThreshold
  BY DEF OptionsFit
<1> DEFINE candidates == Candidates(p, TeamRows)
           options == Causes!Options(FlagsOf[p], candidates)
<1>1. ASSUME NEW i \in candidates PROVE ~Team!OverAllocated(TeamRows[i])
  <2>1. PICK rows : rows = TeamRows
    OBVIOUS
  <2>2. i \in DOMAIN rows /\ rows[i].available - 100 * rows[i].billable > 0
    BY <2>1 DEF Candidates, Causes!SwapCandidates
  <2>3. PICK a \in Nat, b \in Nat : a = rows[i].available /\ b = rows[i].billable
    BY <2>1, <2>2, TeamRowsTyped
  <2>4. ~(10 * 100 * b > 11 * a)
    BY <2>2, <2>3
  <2> QED BY <2>1, <2>3, <2>4 DEF Team!OverAllocated
<1>2. Cardinality(options) \in 2..3
  <2> DEFINE swap == IF candidates = {} THEN {} ELSE {"resource_releveling"}
  <2>1. \/ options = {"change_order", "margin_absorption"} \cup swap
        \/ options = {"timeline_extension", "scope_descope"} \cup swap
        \/ options = {"governance_remediation", "escalate_governance"} \cup {}
    BY DEF Causes!Options, FlagsOf, Drivers
  <2>2. swap = {} \/ \E z : swap = {z} /\ z = "resource_releveling"
    OBVIOUS
  <2> HIDE DEF swap
  <2> QED BY <2>1, <2>2, TwoOrThree
<1>3. ASSUME NEW u \in Users, Team!CanEdit(Who(u), ws.leads[p])
      PROVE  \/ \E o \in options : Causes!CanExecute(o, Engagement(p), RoleOf[u] \in Approvers)
             \/ RoleOf[u] = "PROJECT_MANAGER" /\ Causes!Variance(Published[p]) > ApprovalThreshold
  <2>1. RoleOf[u] \in Approvers \/ RoleOf[u] = "PROJECT_MANAGER"
    BY <1>3 DEF Team!CanEdit, Who, Approvers
  <2>2. Causes!Variance(Engagement(p)) = Causes!Variance(Published[p])
    BY DEF Causes!Variance, Engagement
  <2>3. \/ "margin_absorption" \in options
        \/ "timeline_extension" \in options
        \/ "governance_remediation" \in options
    BY DEF Causes!Options, FlagsOf, Drivers
  <2>4. CASE "margin_absorption" \in options
    <3>1. \/ Causes!CanExecute("margin_absorption", Engagement(p), RoleOf[u] \in Approvers)
          \/ RoleOf[u] \notin Approvers /\ Causes!Variance(Engagement(p)) > ApprovalThreshold
      BY DEF Causes!CanExecute, Causes!Guardrail, Causes!RequiresApproval
    <3> QED BY <2>1, <2>2, <2>4, <3>1
  <2>5. CASE "timeline_extension" \in options
    <3>1. Causes!CanExecute("timeline_extension", Engagement(p), RoleOf[u] \in Approvers)
      BY DEF Causes!CanExecute, Causes!Guardrail, Causes!RequiresApproval
    <3> QED BY <2>5, <3>1
  <2>6. CASE "governance_remediation" \in options
    <3>1. Causes!CanExecute("governance_remediation", Engagement(p), RoleOf[u] \in Approvers)
      BY DEF Causes!CanExecute, Causes!Guardrail, Causes!RequiresApproval
    <3> QED BY <2>6, <3>1
  <2> QED BY <2>3, <2>4, <2>5, <2>6
<1> QED BY <1>1, <1>2, <1>3

(***************************************************************************)
(* The causes: what one page names another one shows.                      *)
(***************************************************************************)

\* The members of a cluster of a money page are rows of its theme.
LEMMA MoneyThemes ==
  ASSUME NEW rows, NEW rag, NEW theme, NEW c \in Causes!MoneyPage(rows, rag, theme).clusters, NEW p \in c.members
  PROVE  p \in DOMAIN rows /\ theme[p] = c.theme
<1> DEFINE P == DOMAIN rows
           S == {q \in P : rag[q] # "Green"}
           of(t) == {q \in S : theme[q] = t}
           red == {q \in S : rag[q] = "Red"}
           amber == {q \in S : rag[q] = "Amber"}
           variance(t) == Causes!SumFunction([q \in of(t) |-> Causes!Variance(rows[q])])
           listed(t) == [theme |-> t, members |-> of(t), red |-> Causes!Cardinality(of(t) \cap red),
                         amber |-> Causes!Cardinality(of(t) \cap amber), variance |-> variance(t)]
           C == {listed(theme[q]) : q \in S}
<1>1. Causes!MoneyPage(rows, rag, theme).clusters = C
  BY DEF Causes!MoneyPage
<1>2. PICK q \in S : c = listed(theme[q])
  <2> HIDE DEF listed, S
  <2> QED BY <1>1
<1> HIDE DEF red, amber, variance
<1>3. c.theme = theme[q] /\ c.members = of(theme[q])
  BY <1>2
<1> QED BY <1>3

\* The members of a theme's clusters are the projects with that theme.
LEMMA FinancialThemes ==
  ASSUME NEW rows, NEW t, NEW c \in Causes!FinancialTriage(rows).clusters, c.theme = t, NEW p \in c.members
  PROVE  p \in DOMAIN rows /\ Causes!FinancialTheme(rows[p]) = t
<1> DEFINE rag == [q \in DOMAIN rows |-> Causes!FinancialRag(rows[q])]
           theme == [q \in DOMAIN rows |-> Causes!FinancialTheme(rows[q])]
<1>1. Causes!FinancialTriage(rows) = Causes!MoneyPage(rows, rag, theme)
  BY DEF Causes!FinancialTriage
<1> HIDE DEF rag, theme
<1>2. p \in DOMAIN rows /\ theme[p] = t
  BY <1>1, MoneyThemes
<1> QED BY <1>2 DEF theme

\* The members of the cluster of third parties have an open severe dependency.
LEMMA ScheduleThemes ==
  ASSUME NEW phases, NEW published, NEW dependencies, NEW now,
         NEW c \in ScheduleTriage(phases, published, dependencies, now).clusters, NEW p \in c.members,
         c.theme = "THIRD_PARTY_DEPENDENCY"
  PROVE  p \in dependencies
<1> DEFINE P == DOMAIN phases
           rag == Tabulated([q \in P |-> ProjectRag(phases[q], now)])
           S == {q \in P : rag[q] # "Green"}
           theme == Tabulated([q \in S |-> ScheduleTheme(phases[q], published[q], q \in dependencies)])
           of(t) == {q \in S : theme[q] = t}
           slip(t) == SumFunction([q \in of(t) |-> ScheduleSummary(phases[q], DefaultPolicy, now).worstSlipDays])
           listed(t) == [theme |-> t, members |-> of(t), red |-> Cardinality({q \in of(t) : rag[q] = "Red"}),
                         amber |-> Cardinality({q \in of(t) : rag[q] = "Amber"}), slip |-> slip(t)]
           C == {listed(theme[q]) : q \in S}
<1>1. ScheduleTriage(phases, published, dependencies, now).clusters = C
  BY DEF ScheduleTriage
<1>2. theme = [x \in S |-> ScheduleTheme(phases[x], published[x], x \in dependencies)]
  BY TabulatedIs
<1> HIDE DEF theme, rag
<1>3. PICK q \in S : c = listed(theme[q])
  <2> HIDE DEF listed, S
  <2> QED BY <1>1
<1> HIDE DEF slip
<1>4. c.theme = theme[q] /\ c.members = of(theme[q])
  BY <1>3
<1>5. p \in S /\ theme[p] = "THIRD_PARTY_DEPENDENCY"
  BY <1>4
<1> HIDE DEF S
<1>6. ScheduleTheme(phases[p], published[p], p \in dependencies) = "THIRD_PARTY_DEPENDENCY"
  BY <1>2, <1>5
<1> QED BY <1>6 DEF ScheduleTheme

\* A milestone that is delayed puts its project on the schedule page.
LEMMA DelayShows ==
  ASSUME NEW p \in Projects, Engagement(p).delayed PROVE RagOf(p) = "Red"
<1>1. PICK k \in PhaseKeys : ws.phases[p][k].status = "delayed"
  BY DEF Engagement
<1>2. k \in Active(ws.phases[p]) /\ PhaseRag(ws.phases[p][k], clock) = "Red"
  BY <1>1 DEF Active, PhaseRag
<1> QED BY <1>2, ProjectRagIs DEF RagOf

\* What contractors were paid on a project is in the estimate of a matrix deal.
LEMMA VendorsShow ==
  ASSUME TowerTypeOK, NEW p \in Projects, ws.deals[p].mode # "direct",
         Engagement(p).logged > 0, 100 * Engagement(p).vendor >= 40 * Engagement(p).logged
  PROVE  Money!ContractorExposure(ws.deals[p], ws.card, ws.actuals[p]).cost > 0
<1> DEFINE deal == ws.deals[p]
           actuals == ws.actuals[p]
           logged == {k \in Keys : actuals[k] # None}
           vendor == {k \in logged \cap Money!OnCard(ws.card) : ws.card[k].type = "contractor"}
           A == [k \in logged |-> actuals[k].cost]
           V == [k \in vendor |-> actuals[k].cost]
           row(k) == Money!EacRow(k, deal, ws.card, actuals)
           K == {k \in Money!EacKeys(deal, ws.card) : row(k).contractor}
           E == [k \in K |-> row(k).eac]
<1>1. deal \in Deal /\ ws.card \in [Roles -> {None} \cup Rate] /\ actuals \in [Keys -> {None} \cup Report]
  BY MoneyTyped DEF TowerTypeOK
<1>2. Engagement(p).logged = SumFunction(A) /\ Engagement(p).vendor = SumFunction(V)
  BY DEF Engagement
<1>3. IsFiniteSet(Keys) /\ logged \in SUBSET Keys /\ vendor \in SUBSET logged
  <2>1. IsFiniteSet({"_direct"})
    BY FS_Singleton
  <2> QED BY <2>1, TowerAssumption, FS_Union DEF Keys
<1>4. IsFiniteSet(logged) /\ IsFiniteSet(vendor)
  <2> HIDE DEF logged, vendor
  <2> QED BY <1>3, FS_Subset
<1>5. \A k \in logged : actuals[k] \in Report /\ A[k] \in Nat
  BY <1>1 DEF Report
<1>6. \A k \in vendor : V[k] = A[k] /\ V[k] \in Nat
  BY <1>3, <1>5
<1>7. \A k \in vendor : k \in K /\ V[k] = actuals[k].cost /\ actuals[k] # None
  <2> SUFFICES ASSUME NEW k \in vendor PROVE k \in K
    OBVIOUS
  <2>1. k \in Money!OnCard(ws.card) /\ ws.card[k].type = "contractor" /\ k # "_direct"
    BY TowerAssumption DEF Money!OnCard
  <2>2. Money!EacKeys(deal, ws.card) = Money!OnCard(ws.card)
    BY DEF Money!EacKeys
  <2>3. row(k).contractor
    BY <2>1 DEF Money!EacRow
  <2> QED BY <2>1, <2>2, <2>3
<1>8. ASSUME NEW k \in K PROVE E[k] \in Nat /\ (actuals[k] # None => E[k] >= actuals[k].cost)
  <2>1. row(k).eac \in Nat /\ row(k).spent <= row(k).eac
    BY <1>1, EacRowTyped
  <2>2. actuals[k] # None => row(k).spent = actuals[k].cost
    BY DEF Money!EacRow
  <2>3. E[k] = row(k).eac
    OBVIOUS
  <2> HIDE DEF row, E, actuals
  <2> QED BY <2>1, <2>2, <2>3
<1>9. DOMAIN A = logged /\ DOMAIN V = vendor /\ DOMAIN E = K
  OBVIOUS
<1>10. IsFiniteSet(K)
  <2>1. IsFiniteSet(Money!EacKeys(deal, ws.card)) /\ K \in SUBSET Money!EacKeys(deal, ws.card)
    BY <1>1, EacIsSum
  <2> HIDE DEF K
  <2> QED BY <2>1, FS_Subset
<1>11. Money!ContractorExposure(deal, ws.card, actuals).cost = Money!SumFunction(E)
  BY DEF Money!ContractorExposure
<1> HIDE DEF deal, logged, vendor, A, V, K, E, row
<1>12. PICK a \in Nat, v \in Nat : a = SumFunctionOnSet(A, logged) /\ v = SumFunctionOnSet(V, vendor)
  BY <1>4, <1>5, <1>6, SumIsNat
<1>13. v > 0
  <2>1. a > 0 /\ 100 * v >= 40 * a
    BY <1>2, <1>9, <1>12, SumsAlike
  <2> QED BY <2>1
<1>14. PICK k \in vendor : V[k] > 0
  BY <1>4, <1>6, <1>12, <1>13, SumIsPositive
<1>15. k \in K /\ E[k] > 0
  <2>1. V[k] = actuals[k].cost /\ actuals[k] # None /\ k \in K /\ V[k] \in Nat
    BY <1>6, <1>7
  <2> QED BY <1>8, <1>14, <2>1
<1>16. SumFunctionOnSet(E, K) > 0
  BY <1>8, <1>10, <1>15, SumIsPositive
<1>17. Money!SumFunction(E) > 0
  BY <1>9, <1>16, SumsAlike
<1> QED BY <1>11, <1>17 DEF deal

\* Every open entry the RAID page shows is in one cluster.
LEMMA RaidCounts ==
  ASSUME NEW raid \in [Projects -> SUBSET Entries]
  PROVE  LET page == Causes!RaidTriage(raid)
         IN  page.red + page.amber = SumFunction([c \in page.clusters |-> Cardinality(c.members)])
<1> DEFINE page == Causes!RaidTriage(raid)
           items == UNION {{[project |-> p, entry |-> e] : e \in raid[p]} : p \in DOMAIN raid}
           S == {i \in items : i.entry.severity # "low"}
           theme(i) == Causes!RaidTheme(i.entry)
           of(t) == {i \in S : theme(i) = t}
           red == {i \in S : Causes!RaidRag(i.entry) = "Red"}
           amber == {i \in S : Causes!RaidRag(i.entry) = "Amber"}
           cluster(t) == [theme |-> t, members |-> of(t), red |-> Causes!Cardinality(of(t) \cap red),
                          amber |-> Causes!Cardinality(of(t) \cap amber),
                          projects |-> {i.project : i \in of(t)}]
           cl == [i \in S |-> cluster(theme(i))]
           C == {cl[i] : i \in S}
           u == [c \in C |-> Cardinality(c.members)]
<1>1. page.red = Cardinality(red) /\ page.amber = Cardinality(amber)
  BY CountsAlike DEF Causes!RaidTriage
<1>2. page.clusters = C
  <2>1. page.clusters = {cluster(theme(i)) : i \in S}
    BY DEF Causes!RaidTriage
  <2> HIDE DEF page, S, cluster, theme
  <2> QED BY <2>1
<1>3. IsFiniteSet(S)
  <2> DEFINE PE == Projects \X Entries
             f == [x \in PE |-> [project |-> x[1], entry |-> x[2]]]
             I == {f[x] : x \in PE}
  <2>1. IsFiniteSet(PE)
    BY TowerAssumption, FS_Product
  <2>2. items \subseteq I
    <3>1. ASSUME NEW p \in Projects, NEW e \in raid[p] PROVE [project |-> p, entry |-> e] \in I
      <4>1. <<p, e>> \in PE /\ f[<<p, e>>] = [project |-> p, entry |-> e]
        OBVIOUS
      <4> QED BY <4>1
    <3>2. ASSUME NEW i \in items
          PROVE  \E p \in Projects, e \in Entries : e \in raid[p] /\ i = [project |-> p, entry |-> e]
      OBVIOUS
    <3> HIDE DEF items, I
    <3> QED BY <3>1, <3>2
  <2>3. S \subseteq I
    BY <2>2
  <2> HIDE DEF f, PE, S
  <2>4. IsFiniteSet(I)
    BY <2>1, ValuesAreFinite
  <2> HIDE DEF I
  <2> QED BY <2>3, <2>4, FS_Subset
<1>4. red \cup amber = S /\ red \cap amber = {}
  BY DEF Causes!RaidRag
<1>5. ASSUME NEW c \in C
      PROVE  c.members \in SUBSET S /\ \A x \in S : x \in c.members <=> cl[x] = c
  <2>1. PICK j \in S : c = cl[j]
    OBVIOUS
  <2>2. c = cluster(theme(j))
    BY <2>1
  <2> HIDE DEF S, red, amber, theme
  <2>3. c.theme = theme(j) /\ c.members = of(theme(j))
    BY <2>2
  <2>4. \A x \in S : cl[x] = c <=> theme(x) = theme(j)
    <3>1. \A x \in S : cl[x] = cluster(theme(x)) /\ cl[x].theme = theme(x)
      OBVIOUS
    <3> HIDE DEF cl, cluster
    <3> QED BY <2>2, <2>3, <3>1
  <2> QED BY <2>3, <2>4
<1>6. (\A c \in C : u[c] = Cardinality(c.members)) /\ DOMAIN u = C
  OBVIOUS
<1>7. (\A i \in S : cl[i] \in C) /\ (\A c \in C : \E i \in S : c = cl[i])
  OBVIOUS
<1> HIDE DEF page, S, red, amber, cl, C, u
<1>8. SumFunctionOnSet(u, C) = Cardinality(S)
  BY <1>3, <1>5, <1>6, <1>7, ClustersCount
<1>9. SumFunction(u) = Cardinality(S)
  BY <1>6, <1>8, SumsAlike
<1>10. Cardinality(red) + Cardinality(amber) = Cardinality(S)
  BY <1>3, <1>4, CountOfParts
<1>11. [c \in page.clusters |-> Cardinality(c.members)] = u
  BY <1>2 DEF u
<1>12. page.red + page.amber = SumFunction([c \in page.clusters |-> Cardinality(c.members)])
  BY <1>1, <1>9, <1>10, <1>11
<1> QED BY <1>12 DEF page

\* An open severe dependency is a red entry on the RAID page.
LEMMA DependencyShows ==
  ASSUME TowerTypeOK, NEW p \in Dependent
  PROVE  \E i \in Causes!RaidTriage(ws.raid).items : i.project = p /\ Causes!RaidRag(i.entry) = "Red"
<1>1. p \in Projects /\ p \in DOMAIN ws.raid
  BY DEF Dependent, TowerTypeOK, Workspace
<1>2. PICK e \in ws.raid[p] : Causes!RaidRag(e) = "Red"
  BY DEF Dependent
<1>3. e.severity # "low"
  BY <1>2 DEF Causes!RaidRag
<1> DEFINE i == [project |-> p, entry |-> e]
<1>4. i \in Causes!RaidTriage(ws.raid).items
  BY <1>1, <1>3 DEF Causes!RaidTriage
<1> QED BY <1>2, <1>4

\* Each cause a page names is to be seen on another.
LEMMA CausesHold == TowerTypeOK => CausesShow
<1> SUFFICES ASSUME TowerTypeOK PROVE CausesShow
  OBVIOUS
<1> DEFINE rows == Engagements
           with(page, t) == UNION {c.members : c \in {d \in page.clusters : d.theme = t}}
           financial == Causes!FinancialTriage(rows)
           exposure(p) == Money!ContractorExposure(ws.deals[p], ws.card, ws.actuals[p])
           raid == Causes!RaidTriage(ws.raid)
<1>1. \A t : \A p \in with(financial, t) :
        p \in Projects /\ Causes!FinancialTheme(Engagement(p)) = t
  <2> SUFFICES ASSUME NEW t, NEW c \in financial.clusters, c.theme = t, NEW p \in c.members
               PROVE  p \in Projects /\ Causes!FinancialTheme(Engagement(p)) = t
    OBVIOUS
  <2>1. p \in DOMAIN rows /\ Causes!FinancialTheme(rows[p]) = t
    BY FinancialThemes
  <2> QED BY <2>1, EngagementTyped
<1>2. ASSUME NEW p \in with(financial, "UNBILLED_MILESTONE_DELAY") PROVE RagOf(p) = "Red"
  <2>1. p \in Projects /\ Causes!FinancialTheme(Engagement(p)) = "UNBILLED_MILESTONE_DELAY"
    BY <1>1
  <2>2. Engagement(p).delayed
    BY <2>1 DEF Causes!FinancialTheme
  <2> QED BY <2>1, <2>2, DelayShows
<1>3. ASSUME NEW p \in with(financial, "SUBCONTRACTOR_RATE_VARIANCE")
      PROVE  ws.deals[p].mode = "direct" \/ exposure(p).cost > 0
  <2>1. p \in Projects /\ Causes!FinancialTheme(Engagement(p)) = "SUBCONTRACTOR_RATE_VARIANCE"
    BY <1>1
  <2>2. Engagement(p).logged > 0 /\ 100 * Engagement(p).vendor >= 40 * Engagement(p).logged
    BY <2>1 DEF Causes!FinancialTheme
  <2> QED BY <2>1, <2>2, VendorsShow
<1>4. ASSUME NEW p \in with(Triage, "THIRD_PARTY_DEPENDENCY")
      PROVE  \E i \in raid.items : i.project = p /\ Causes!RaidRag(i.entry) = "Red"
  <2>1. p \in Dependent
    BY ScheduleThemes DEF Triage
  <2> QED BY <2>1, DependencyShows
<1>5. raid.red + raid.amber = SumFunction([c \in raid.clusters |-> Cardinality(c.members)])
  <2>1. ws.raid \in [Projects -> SUBSET Entries]
    BY DEF TowerTypeOK, Workspace
  <2> QED BY <2>1, RaidCounts
<1> QED BY <1>2, <1>3, <1>4, <1>5 DEF CausesShow

\* The surfaces agree in every typed state of the workspace.
LEMMA SurfacesHold == TowerTypeOK => SurfacesAgree
BY TilesHold, SchedulePagesHold, HeadlinesHold, FeedHolds, RedHolds, MoneyPagesHold, CausesHold, OptionsHold
   DEF SurfacesAgree

\* The surfaces of one workspace agree (schedule-, resource-, executive-, financial-,
\* commercial- and raid-triage.ts, capacity-engine.ts, decision-options.ts): the tiles
\* of a page count the same rows, two pages that judge the same projects judge them alike,
\* the feed keeps the worst, and what one page names as a cause another one shows.
THEOREM SurfacesAlwaysAgree == TowerSpec => []SurfacesAgree
BY SurfacesHold, TowerTypeCorrect, PTL
=============================================================================
