---------------------------- MODULE StaffElevation ----------------------------
(***************************************************************************)
(* Just-in-time elevation of one operator of the /ops console: the step-up *)
(* of src/lib/ops/staff-elevation.ts, the second factor it consumes        *)
(* (src/lib/ops/operator-mfa.ts), the gate of every mutating action        *)
(* (src/lib/ops-auth.ts), run by concurrent requests of that operator.     *)
(* Operators share none of these rows, so one is enough.                   *)
(*                                                                         *)
(* What only has to be unique is named after the request that made it: the *)
(* elevation token minted by r, the secret and the mfa row begun by r, the *)
(* recovery code issued by r's activation (one stands for the ten); Seed   *)
(* and Earlier name those that were there before.                          *)
(***************************************************************************)
EXTENDS Integers, FiniteSets

CONSTANTS
  Requests,  \* requests of the operator, each runs one flow
  Seed,      \* what was there at the start
  Earlier,   \* an enrollment begun before it and not confirmed
  TTL,       \* lifetime of an elevation, in time steps
  MaxClock,  \* bound on the clock, in TOTP time steps of 30 s
  MaxEpoch,  \* bound on users.sessionVersion
  None       \* null

Names == Requests \cup {Seed, Earlier}

\* A factor an elevation consumed: a TOTP code - the mfa row it was counted on, the
\* secret and the time step it belongs to, and whether the next step had begun when it
\* was counted - or a recovery code.
Totp == Names \X Names \X Nat \X {0, 1}

Factor == Totp \cup Names

\* proved is the epoch of the password it was asked for; after holds the elevations
\* that were there when it was requested.
Elevation == [epoch : 0 .. MaxEpoch, expires : Nat, ended : BOOLEAN, proved : 0 .. MaxEpoch,
              by : Factor, after : SUBSET Names]

\* lastStep 0 is null: the clock starts at 1, after the steps of any earlier code.
Mfa == [row : Names \cup {None}, active : Names \cup {None}, key : {"old", "new"},
        pending : Names \cup {None}, lastStep : 0 .. MaxClock + 1, codes : SUBSET Names]

ASSUME ElevationAssumption ==
  /\ Seed # Earlier /\ {Seed, Earlier} \cap Requests = {}
  /\ None \notin Names
  /\ None \notin Elevation
  /\ Names \cap Totp = {}
  /\ TTL \in Nat
  /\ MaxClock \in Nat \ {0}
  /\ MaxEpoch \in Nat

VARIABLES
  granted,    \* the operator holds a live staff_grants row
  epoch,      \* users.sessionVersion
  clock,      \* stepCounter()
  mfa,        \* the operator_mfa row; NoMfa when there is none
  rowLock,    \* the request whose transaction locks that row
  elevation,  \* elevation[r]: the staff_elevations row minted by r, or None
  req         \* the requests

vars == <<granted, epoch, clock, mfa, rowLock, elevation, req>>

NoMfa == [row |-> None, active |-> None, key |-> "new", pending |-> None,
          lastStep |-> 0, codes |-> {}]

\* The requests: where each is, in which flow, and what it has read.
Request == [pc : {"idle", "session", "granted", "proved", "matched", "recovering", "locked",
                  "factored", "superseded", "confirmed", "allowed", "done", "rejected"},
            flow : {"none", "elevate", "operate", "end", "enroll", "rotate", "activate"},
            epoch : 0 .. MaxEpoch, proved : 0 .. MaxEpoch, after : SUBSET Names,
            secret : Names \cup {None}, key : {"old", "new"}, step : Nat, late : {0, 1}, seen : SUBSET Names,
            by : Factor \cup {None}, token : Names \cup {None}]

Idle == [pc |-> "idle", flow |-> "none", epoch |-> 0, proved |-> 0, after |-> {},
         secret |-> None, key |-> "new", step |-> 0, late |-> 0, seen |-> {}, by |-> None, token |-> None]

\* A live elevation minted before the start, by one code of the seed.
EarlierElevation == [epoch |-> 0, expires |-> 1 + TTL, ended |-> FALSE, proved |-> 0,
                     by |-> Seed, after |-> {}]

Init ==
  /\ granted \in BOOLEAN
  /\ epoch = 0
  /\ clock = 1
  /\ mfa \in {NoMfa} \cup
       {[NoMfa EXCEPT !.row = Seed, !.active = Seed, !.key = k, !.pending = p, !.codes = {Seed}] :
          k \in {"old", "new"}, p \in {None, Earlier}} \cup
       {[NoMfa EXCEPT !.row = Seed, !.pending = Earlier]}
  /\ rowLock = None
  /\ \E e \in {None, EarlierElevation} :
       elevation = [n \in Names |-> IF n = Seed THEN e ELSE None]
  /\ req = [r \in Requests |-> Idle]

(***************************************************************************)
(* Helpers                                                                 *)
(***************************************************************************)
At(r, flow, pc) == req[r].flow = flow /\ req[r].pc = pc

Continue(r, x) == req' = [req EXCEPT ![r] = x]

Goto(r, pc) == Continue(r, [req[r] EXCEPT !.pc = pc])

\* The request is answered with an error, or dies; nothing of it is kept.
Reject(r) == Continue(r, [Idle EXCEPT !.pc = "rejected"])

Minted == {n \in Names : elevation[n] # None}

\* resolveActiveElevation, for a session of epoch v.
Resolves(e, v) ==
  e # None /\ ~e.ended /\ e.expires > clock /\ e.epoch = v

Live == {n \in Minted : ~elevation[n].ended /\ elevation[n].expires > clock}

HasActivatedMfa == mfa.active # None

(***************************************************************************)
(* The guard every flow starts with                                        *)
(***************************************************************************)
\* getServerSession: a session that is not revoked carries the current epoch.
Start(r, flow) ==
  /\ req[r].pc = "idle"
  /\ Continue(r, [Idle EXCEPT !.pc = "session", !.flow = flow,
                              !.epoch = epoch, !.after = Minted])
  /\ UNCHANGED <<granted, epoch, clock, mfa, rowLock, elevation>>

\* hasActiveStaffGrant
CheckGrant(r) ==
  /\ req[r].pc = "session" /\ req[r].flow # "end"
  /\ IF granted THEN Goto(r, "granted") ELSE Reject(r)
  /\ UNCHANGED <<granted, epoch, clock, mfa, rowLock, elevation>>

\* toOpsContext and requireElevatedOps, for the token in the cookie.
PassGate(r, n) ==
  /\ req[r].pc = "granted" /\ req[r].flow \in {"operate", "rotate"}
  /\ IF n \in Minted /\ Resolves(elevation[n], req[r].epoch)
     THEN Continue(r, [req[r] EXCEPT !.pc = "allowed", !.token = n])
     ELSE Reject(r)
  /\ UNCHANGED <<granted, epoch, clock, mfa, rowLock, elevation>>

(***************************************************************************)
(* requestElevation                                                        *)
(***************************************************************************)
\* bcrypt.compare with the hash as it is now; a wrong password is Abandon.
ProvePassword(r) ==
  /\ At(r, "elevate", "granted")
  /\ Continue(r, [req[r] EXCEPT !.pc = "proved", !.proved = epoch])
  /\ UNCHANGED <<granted, epoch, clock, mfa, rowLock, elevation>>

\* verifySecondFactor, up to its first write: the row is read; a code of the active
\* secret for a step of the window is matched against the clock, which is then read
\* once more for the counter (late: a time step has begun in between).
ReadTotp(r, step, late) ==
  /\ At(r, "elevate", "proved")
  /\ step \in clock - 1 .. clock + 1 /\ step >= 1
  /\ clock + late <= MaxClock
  /\ clock' = clock + late
  /\ IF HasActivatedMfa
     THEN Continue(r, [req[r] EXCEPT !.pc = "matched", !.secret = mfa.active,
                             !.key = mfa.key, !.step = step, !.late = late])
     ELSE Reject(r)
  /\ UNCHANGED <<granted, epoch, mfa, rowLock, elevation>>

\* matchedCounter
Counter(r) == req[r].step + req[r].late

ReadForRecovery(r, code) ==
  /\ At(r, "elevate", "proved")
  /\ IF HasActivatedMfa
     THEN Continue(r, [req[r] EXCEPT !.pc = "recovering", !.by = code])
     ELSE Reject(r)
  /\ UNCHANGED <<granted, epoch, clock, mfa, rowLock, elevation>>

\* Mutant: a counter that is not lower will do.
AdvanceToSameCounter(r, sealed) ==
  /\ At(r, "elevate", "matched")
  /\ rowLock = None
  /\ IF mfa.row # None /\ mfa.lastStep <= Counter(r)
     THEN /\ mfa' = [mfa EXCEPT !.lastStep = Counter(r)]
          /\ Continue(r, [req[r] EXCEPT !.pc = "factored",
                                !.by = <<mfa.row, req[r].secret, req[r].step, req[r].late>>])
     ELSE Reject(r) /\ UNCHANGED mfa
  /\ UNCHANGED <<granted, epoch, clock, rowLock, elevation>>

\* The one conditional UPDATE: it waits for the row and looks at it again.  A secret
\* read under an old key is written back under the new one, unless sealing fails.
AdvanceCounter(r, sealed) ==
  /\ At(r, "elevate", "matched")
  /\ rowLock = None
  /\ IF mfa.row # None /\ mfa.lastStep < Counter(r)
     THEN /\ mfa' = IF req[r].key = "old" /\ sealed
                    THEN [mfa EXCEPT !.lastStep = Counter(r), !.active = req[r].secret, !.key = "new"]
                    ELSE [mfa EXCEPT !.lastStep = Counter(r)]
          /\ Continue(r, [req[r] EXCEPT !.pc = "factored",
                                !.by = <<mfa.row, req[r].secret, req[r].step, req[r].late>>])
     ELSE Reject(r) /\ UNCHANGED mfa
  /\ UNCHANGED <<granted, epoch, clock, rowLock, elevation>>

\* Mutant: a plain SELECT.
ReadCodes(r) ==
  /\ At(r, "elevate", "recovering")
  /\ Continue(r, [req[r] EXCEPT !.pc = "locked", !.seen = mfa.codes])
  /\ UNCHANGED <<granted, epoch, clock, mfa, rowLock, elevation>>

\* SELECT ... FOR UPDATE; a deleted row yields no codes and no lock.
LockCodes(r) ==
  /\ At(r, "elevate", "recovering")
  /\ rowLock = None
  /\ rowLock' = IF mfa.row # None THEN r ELSE None
  /\ Continue(r, [req[r] EXCEPT !.pc = "locked", !.seen = mfa.codes])
  /\ UNCHANGED <<granted, epoch, clock, mfa, elevation>>

SpendCode(r) ==
  /\ At(r, "elevate", "locked")
  /\ IF req[r].by \in req[r].seen
     THEN /\ mfa' = [mfa EXCEPT !.codes = req[r].seen \ {req[r].by}]
          /\ Goto(r, "factored")
     ELSE Reject(r) /\ UNCHANGED mfa
  /\ rowLock' = IF rowLock = r THEN None ELSE rowLock
  /\ UNCHANGED <<granted, epoch, clock, elevation>>

\* Mutant: only the elevations of the request's own epoch are ended.
SupersedeOwnEpoch(r) ==
  /\ At(r, "elevate", "factored")
  /\ elevation' = [n \in Names |-> IF n \in Minted /\ elevation[n].epoch = req[r].epoch
                                   THEN [elevation[n] EXCEPT !.ended = TRUE] ELSE elevation[n]]
  /\ Continue(r, [req[r] EXCEPT !.pc = "superseded", !.step = clock + TTL])
  /\ UNCHANGED <<granted, epoch, clock, mfa, rowLock>>

\* Every elevation not ended is, then the new row is written: two statements, no
\* transaction.  The time is taken before the first.
Supersede(r) ==
  /\ At(r, "elevate", "factored")
  /\ elevation' = [n \in Names |-> IF n \in Minted THEN [elevation[n] EXCEPT !.ended = TRUE] ELSE None]
  /\ Continue(r, [req[r] EXCEPT !.pc = "superseded", !.step = clock + TTL])
  /\ UNCHANGED <<granted, epoch, clock, mfa, rowLock>>

\* Mutant: sessionVersion is read again for the row.
MintAtCurrentEpoch(r) ==
  /\ At(r, "elevate", "superseded")
  /\ elevation' = [elevation EXCEPT ![r] =
       [epoch |-> epoch, expires |-> req[r].step, ended |-> FALSE,
        proved |-> req[r].proved, by |-> req[r].by, after |-> req[r].after]]
  /\ Goto(r, "done")
  /\ UNCHANGED <<granted, epoch, clock, mfa, rowLock>>

Mint(r) ==
  /\ At(r, "elevate", "superseded")
  /\ elevation' = [elevation EXCEPT ![r] =
       [epoch |-> req[r].epoch, expires |-> req[r].step, ended |-> FALSE,
        proved |-> req[r].proved, by |-> req[r].by, after |-> req[r].after]]
  /\ Goto(r, "done")
  /\ UNCHANGED <<granted, epoch, clock, mfa, rowLock>>

\* endOpsElevationAction: a session is enough; there is no other check.
EndElevation(r, n) ==
  /\ At(r, "end", "session")
  /\ elevation' = IF n \in Minted THEN [elevation EXCEPT ![n].ended = TRUE] ELSE elevation
  /\ Goto(r, "done")
  /\ UNCHANGED <<granted, epoch, clock, mfa, rowLock>>

(***************************************************************************)
(* Enrolling and rotating the second factor                                *)
(***************************************************************************)
\* beginOperatorMfaEnrollmentAction: with a factor in place the whole gate is
\* passed again, this time for an elevation.
CheckRotation(r) ==
  /\ At(r, "enroll", "granted")
  /\ IF ~HasActivatedMfa THEN Goto(r, "allowed")
     ELSE IF req[r].epoch = epoch
     THEN Continue(r, [req[r] EXCEPT !.flow = "rotate", !.pc = "session"])
     ELSE Reject(r)
  /\ UNCHANGED <<granted, epoch, clock, mfa, rowLock, elevation>>

BeginEnrollment(r) ==
  /\ req[r].pc = "allowed" /\ req[r].flow \in {"enroll", "rotate"}
  /\ rowLock = None
  /\ mfa' = [mfa EXCEPT !.row = IF @ = None THEN r ELSE @, !.pending = r]
  /\ Goto(r, "done")
  /\ UNCHANGED <<granted, epoch, clock, rowLock, elevation>>

\* activateEnrollment: the pending secret is read and a code of it proved ...
ReadPending(r) ==
  /\ At(r, "activate", "granted")
  /\ IF mfa.pending # None
     THEN Continue(r, [req[r] EXCEPT !.pc = "confirmed", !.secret = mfa.pending])
     ELSE Reject(r)
  /\ UNCHANGED <<granted, epoch, clock, mfa, rowLock, elevation>>

\* Mutant: the row is not looked for.
PromoteBlindly(r) ==
  /\ At(r, "activate", "confirmed")
  /\ rowLock = None
  /\ mfa' = [mfa EXCEPT !.active = req[r].secret, !.key = "new", !.pending = None, !.codes = {r}]
  /\ Goto(r, "done")
  /\ UNCHANGED <<granted, epoch, clock, rowLock, elevation>>

\* ... then that one, whatever is pending by now, becomes the active secret.
Promote(r) ==
  /\ At(r, "activate", "confirmed")
  /\ rowLock = None
  /\ IF mfa.row # None
     THEN /\ mfa' = [mfa EXCEPT !.active = req[r].secret, !.key = "new",
                                !.pending = None, !.codes = {r}]
          /\ Goto(r, "done")
     ELSE Reject(r) /\ UNCHANGED mfa
  /\ UNCHANGED <<granted, epoch, clock, rowLock, elevation>>

(***************************************************************************)
(* The surroundings                                                        *)
(***************************************************************************)
\* A rate limit, bad input, a wrong password or code, or the server dies.
Abandon(r) ==
  /\ req[r].pc \notin {"idle", "allowed", "done", "rejected"}
  /\ Reject(r)
  /\ rowLock' = IF rowLock = r THEN None ELSE rowLock
  /\ UNCHANGED <<granted, epoch, clock, mfa, elevation>>

\* A password change or sign-out everywhere.
RotateSession ==
  /\ epoch < MaxEpoch
  /\ epoch' = epoch + 1
  /\ UNCHANGED <<granted, clock, mfa, rowLock, elevation, req>>

\* Another operator grants or revokes.
ChangeGrant ==
  /\ granted' = ~granted
  /\ UNCHANGED <<epoch, clock, mfa, rowLock, elevation, req>>

\* disableMfa, from the command line.
DisableMfa ==
  /\ rowLock = None /\ mfa.row # None
  /\ mfa' = NoMfa
  /\ UNCHANGED <<granted, epoch, clock, rowLock, elevation, req>>

Tick ==
  /\ clock < MaxClock
  /\ clock' = clock + 1
  /\ UNCHANGED <<granted, epoch, mfa, rowLock, elevation, req>>

Elevate(r) ==
  \/ ProvePassword(r)
  \/ \E step \in 1 .. MaxClock, late \in {0, 1} : ReadTotp(r, step, late)
  \/ \E code \in Names : ReadForRecovery(r, code)
  \/ \E sealed \in BOOLEAN : AdvanceCounter(r, sealed)
  \/ LockCodes(r) \/ SpendCode(r) \/ Supersede(r) \/ Mint(r)

Enroll(r) == CheckRotation(r) \/ BeginEnrollment(r) \/ ReadPending(r) \/ Promote(r)

Next ==
  \/ \E r \in Requests :
       \/ \E flow \in {"elevate", "operate", "end", "enroll", "activate"} : Start(r, flow)
       \/ CheckGrant(r)
       \/ \E n \in Names : PassGate(r, n) \/ EndElevation(r, n)
       \/ Elevate(r) \/ Enroll(r) \/ Abandon(r)
  \/ RotateSession \/ ChangeGrant \/ DisableMfa \/ Tick

Spec == Init /\ [][Next]_vars

(***************************************************************************)
(* Properties                                                              *)
(***************************************************************************)
TypeOK ==
  /\ granted \in BOOLEAN
  /\ epoch \in 0 .. MaxEpoch
  /\ clock \in 1 .. MaxClock
  /\ mfa \in Mfa
  /\ mfa.row = None => mfa = NoMfa
  /\ rowLock \in Requests \cup {None}
  /\ elevation \in [Names -> Elevation \cup {None}]
  /\ req \in [Requests -> Request]
  /\ \A r \in Requests : rowLock = r => req[r].pc = "locked"

\* Two factors are one and the same code that the operator typed.
SameCode(f, g) ==
  \/ f \in Names /\ f = g
  \/ f \in Totp /\ g \in Totp /\ f[2] = g[2] /\ f[3] = g[3]

\* A second factor authorises one elevation, whatever requests, rotations and re-seals
\* run side by side.  No recovery code is spent on two; a TOTP code is only if it was
\* counted on two rows, or once under its own time step and once under the next: the
\* clock is read twice, and its row keeps only a counter.
FactorsAuthoriseOnce ==
  \A m, n \in Minted \ {Seed} :
    LET f == elevation[m].by  g == elevation[n].by IN
      m # n /\ SameCode(f, g) => f \in Totp /\ (f[1] # g[1] \/ f[4] # g[4])

\* Of the elevations requested one after the other only the last is live: two live
\* ones were requested at the same time.
LiveOnesOverlapped ==
  \A m, n \in Live : m \notin elevation[n].after

\* An operation the gate lets through rests on a password proved no earlier than
\* the epoch of the session that asks: nothing proved before the last rotation counts.
OperationsFollowAFreshProof ==
  \A r \in Requests :
    req[r].token # None => elevation[req[r].token].proved >= req[r].epoch

\* As documented: "both paths consume the credential ATOMICALLY at the database so two
\* concurrent requests presenting the same valid code cannot both succeed".
CodesAuthoriseOnce ==
  \A m, n \in Minted \ {Seed} : m # n => ~SameCode(elevation[m].by, elevation[n].by)

\* As documented: "at most one live elevation per operator at a time (requesting a
\* new one supersedes the old)".
AtMostOneLive == Cardinality(Live) <= 1

\* As documented: "A secret on an older key version is re-sealed on the next
\* successful verification": a verification never changes which secret is active.
ResealKeepsTheSecret ==
  [][\A r \in Requests :
       At(r, "elevate", "matched") /\ req'[r].pc = "factored" => mfa'.active = mfa.active]_vars
=============================================================================
