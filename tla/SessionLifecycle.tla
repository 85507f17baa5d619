-------------------------- MODULE SessionLifecycle --------------------------
(***************************************************************************)
(* The sessions of one account: JWT cookies on several devices, checked on *)
(* every request against the account row (src/lib/auth.ts,                 *)
(* src/lib/auth/session-state.ts), and the two actions that end them all   *)
(* (src/server/actions/auth.ts).  Accounts share nothing, so one is enough.*)
(*                                                                         *)
(* NextAuth is external: a login runs authorize(), then the jwt callback;  *)
(* GET /api/auth/session runs the jwt callback and sends its token back as *)
(* the new cookie; getServerSession in an action runs the callback and     *)
(* drops the token it returns.                                             *)
(***************************************************************************)
EXTENDS Naturals, FiniteSets

CONSTANTS
  Devices,     \* browsers, each with one cookie jar
  Passwords,   \* passwords that satisfy the policy
  MaxVersion,  \* bound on sessionVersion
  MaxClock,    \* bound on the clock, in whole seconds
  MaxInFlight, \* bound on the requests in flight at a time
  None         \* no cookie, no value

ASSUME SessionAssumption ==
  /\ MaxVersion \in Nat
  /\ MaxClock \in Nat
  /\ MaxInFlight \in Nat
  /\ None \notin Passwords
  /\ None \notin Nat

VARIABLES
  \* The account row
  password,    \* the password passwordHash was made from
  version,     \* sessionVersion
  mustChange,  \* mustChangePassword
  changedAt,   \* passwordChangedAt in seconds (0: null, or before every token)
  clock,
  \* The devices
  jar,         \* jar[d]: the session cookie, or None
  \* Requests in flight, at most one of a kind per device
  login,       \* the password authorize() has accepted, or None
  refresh,     \* the cookie on its way back from /api/auth/session, or None
  change,      \* changePasswordAction
  signOut      \* signOutEverywhereAction: "idle", "guarded"

account == <<password, version, mustChange, changedAt>>
vars == <<account, clock, jar, login, refresh, change, signOut>>

States == {"ACTIVE", "PENDING_PASSWORD_CHANGE", "REVOKED"}
SignedIn == States \ {"REVOKED"}

\* The claims of a cookie.  ver is None in a token older than the version claim;
\* by is the route that pinned it.
Token == [state : States, ver : (0 .. MaxVersion) \cup {None}, iat : 0 .. MaxClock,
          by : {"login", "mint", "dead"}]

\* { revoked: true, state: 'REVOKED' }: nothing else survives.
DeadToken == [state |-> "REVOKED", ver |-> None, iat |-> 0, by |-> "dead"]
LegacyToken == [state |-> "ACTIVE", ver |-> None, iat |-> 0, by |-> "login"]

IdleChange == [pc |-> "idle", new |-> None, at |-> 0, ver |-> 0]

Init ==
  /\ password \in Passwords
  /\ version = 0
  /\ mustChange \in BOOLEAN
  /\ changedAt = 0
  /\ clock = 0
  /\ jar \in [Devices -> {None, LegacyToken}]
  /\ login = [d \in Devices |-> None]
  /\ refresh = [d \in Devices |-> None]
  /\ change = [d \in Devices |-> IdleChange]
  /\ signOut = [d \in Devices |-> "idle"]

(***************************************************************************)
(* The state check                                                         *)
(***************************************************************************)
\* Mutant: the comparison is not strict.
RevokedInTheSameSecond(iat) == iat <= changedAt

RevokedByPasswordChange(iat) == iat < changedAt

VersionMatches(ver) == (IF ver = None THEN 0 ELSE ver) = version

\* deriveSessionState, over the row as it is now or a lookup that failed.
Derive(t, lookupFailed) ==
  IF \/ lookupFailed
     \/ t.state = "REVOKED"
     \/ ~VersionMatches(t.ver)
     \/ RevokedByPasswordChange(t.iat)
  THEN "REVOKED"
  ELSE IF mustChange THEN "PENDING_PASSWORD_CHANGE" ELSE "ACTIVE"

\* Mutant: every token, not only a login's, is pinned before the check.
PinnedFirst(t, lookupFailed) ==
  LET u == [t EXCEPT !.ver = version]
      s == Derive(u, lookupFailed) IN
  IF s = "REVOKED" THEN DeadToken ELSE [u EXCEPT !.state = s, !.iat = clock]

\* The token the jwt callback returns; a token without a version is pinned once.
Refreshed(t, lookupFailed) ==
  LET s == Derive(t, lookupFailed) IN
  IF s = "REVOKED" THEN DeadToken
  ELSE [t EXCEPT !.state = s, !.ver = IF @ = None THEN version ELSE @, !.iat = clock]

\* getServerSession at the head of an action: a session with a user, whatever its
\* flag says.  A lookup that fails, like a dead cookie, refuses the request and
\* leaves everything as it was.
HasUser(d) == jar[d] # None /\ Derive(jar[d], FALSE) \in SignedIn

\* A browser stores a Set-Cookie.
Store(d, t) == jar' = [jar EXCEPT ![d] = t]

\* The requests that have started and not been answered.
InFlight ==
  {<<d, "login">> : d \in {e \in Devices : login[e] # None}}
    \cup {<<d, "refresh">> : d \in {e \in Devices : refresh[e] # None}}
    \cup {<<d, "change">> : d \in {e \in Devices : change[e].pc # "idle"}}
    \cup {<<d, "signOut">> : d \in {e \in Devices : signOut[e] # "idle"}}

CanStart == Cardinality(InFlight) < MaxInFlight

(***************************************************************************)
(* Signing in and out                                                      *)
(***************************************************************************)
\* authorize(): bcrypt.compare with the hash it read.
Authorize(d, p) ==
  /\ login[d] = None /\ CanStart
  /\ p = password
  /\ login' = [login EXCEPT ![d] = p]
  /\ UNCHANGED <<account, clock, jar, refresh, change, signOut>>

\* The jwt callback of a login reads the row again and pins its version; iat is
\* not set yet, so only the lookup and the flag count.
CompleteLogin(d, lookupFailed) ==
  /\ login[d] # None
  /\ login' = [login EXCEPT ![d] = None]
  /\ Store(d, IF lookupFailed THEN DeadToken
              ELSE [state |-> IF mustChange THEN "PENDING_PASSWORD_CHANGE" ELSE "ACTIVE",
                    ver |-> version, iat |-> clock, by |-> "login"])
  /\ UNCHANGED <<account, clock, refresh, change, signOut>>

\* GET /api/auth/session: the one route that persists what the callback returns.
RequestSession(d, lookupFailed) ==
  /\ jar[d] # None /\ refresh[d] = None /\ CanStart
  /\ refresh' = [refresh EXCEPT ![d] = Refreshed(jar[d], lookupFailed)]
  /\ UNCHANGED <<account, clock, jar, login, change, signOut>>

ReceiveSession(d) ==
  /\ refresh[d] # None
  /\ Store(d, refresh[d])
  /\ refresh' = [refresh EXCEPT ![d] = None]
  /\ UNCHANGED <<account, clock, login, change, signOut>>

\* The client's signOut() clears the cookie.
ClearCookie(d) ==
  /\ jar[d] # None
  /\ Store(d, None)
  /\ UNCHANGED <<account, clock, login, refresh, change, signOut>>

(***************************************************************************)
(* signOutEverywhereAction                                                 *)
(***************************************************************************)
GuardSignOut(d) ==
  /\ signOut[d] = "idle" /\ CanStart
  /\ HasUser(d)
  /\ signOut' = [signOut EXCEPT ![d] = "guarded"]
  /\ UNCHANGED <<account, clock, jar, login, refresh, change>>

BumpVersion(d) ==
  /\ signOut[d] = "guarded" /\ version < MaxVersion
  /\ version' = version + 1
  /\ signOut' = [signOut EXCEPT ![d] = "idle"]
  /\ UNCHANGED <<password, mustChange, changedAt, clock, jar, login, refresh, change>>

(***************************************************************************)
(* changePasswordAction                                                    *)
(***************************************************************************)
GuardChange(d) ==
  /\ change[d].pc = "idle" /\ CanStart
  /\ HasUser(d)
  /\ change' = [change EXCEPT ![d].pc = "guarded"]
  /\ UNCHANGED <<account, clock, jar, login, refresh, signOut>>

\* The row is read, the current password compared, the new one hashed; then the
\* time is taken.  Any mismatch ends the action without a change.
VerifyCurrent(d, current, new) ==
  /\ change[d].pc = "guarded"
  /\ change' = [change EXCEPT ![d] =
       IF current = password /\ new # password
       THEN [pc |-> "verified", new |-> new, at |-> clock, ver |-> 0]
       ELSE IdleChange]
  /\ UNCHANGED <<account, clock, jar, login, refresh, signOut>>

\* Mutant: the version is not bumped.
CommitWithoutBump(d) ==
  /\ change[d].pc = "verified" /\ version < MaxVersion
  /\ password' = change[d].new
  /\ mustChange' = FALSE
  /\ changedAt' = change[d].at
  /\ change' = [change EXCEPT ![d].pc = "committed", ![d].ver = version]
  /\ UNCHANGED <<version, clock, jar, login, refresh, signOut>>

\* One transaction; the update returns the version it wrote.
CommitChange(d) ==
  /\ change[d].pc = "verified" /\ version < MaxVersion
  /\ password' = change[d].new
  /\ mustChange' = FALSE
  /\ changedAt' = change[d].at
  /\ version' = version + 1
  /\ change' = [change EXCEPT ![d].pc = "committed", ![d].ver = version + 1]
  /\ UNCHANGED <<clock, jar, login, refresh, signOut>>

\* Mutants: the mint pins the version it finds; it increments the version once more.
MintAt(d, hasSecret, ver) ==
  /\ change[d].pc = "committed"
  /\ IF hasSecret
     THEN Store(d, [state |-> "ACTIVE", ver |-> ver, iat |-> clock, by |-> "mint"])
     ELSE UNCHANGED jar
  /\ change' = [change EXCEPT ![d] = IdleChange]
  /\ UNCHANGED <<account, clock, login, refresh, signOut>>

MintFromTheRow(d, hasSecret) == MintAt(d, hasSecret, version)
MintPastTheVersion(d, hasSecret) == MintAt(d, hasSecret, change[d].ver + 1)

\* establishFreshSession; without NEXTAUTH_SECRET no cookie is set.
MintSession(d, hasSecret) ==
  /\ change[d].pc = "committed"
  /\ IF hasSecret
     THEN Store(d, [state |-> "ACTIVE", ver |-> change[d].ver, iat |-> clock, by |-> "mint"])
     ELSE UNCHANGED jar
  /\ change' = [change EXCEPT ![d] = IdleChange]
  /\ UNCHANGED <<account, clock, login, refresh, signOut>>

\* The server dies under a request.
Crash(d) ==
  /\ \/ change[d].pc # "idle" /\ change' = [change EXCEPT ![d] = IdleChange] /\ UNCHANGED signOut
     \/ signOut[d] # "idle" /\ signOut' = [signOut EXCEPT ![d] = "idle"] /\ UNCHANGED change
  /\ UNCHANGED <<account, clock, jar, login, refresh>>

Tick ==
  /\ clock < MaxClock
  /\ clock' = clock + 1
  /\ UNCHANGED <<account, jar, login, refresh, change, signOut>>

Next ==
  \/ Tick
  \/ \E d \in Devices :
       \/ \E p \in Passwords : Authorize(d, p)
       \/ \E failed \in BOOLEAN : CompleteLogin(d, failed) \/ RequestSession(d, failed)
       \/ ReceiveSession(d) \/ ClearCookie(d)
       \/ GuardSignOut(d) \/ BumpVersion(d)
       \/ GuardChange(d)
       \/ \E current, new \in Passwords : VerifyCurrent(d, current, new)
       \/ CommitChange(d)
       \/ \E hasSecret \in BOOLEAN : MintSession(d, hasSecret)
       \/ Crash(d)

Spec == Init /\ [][Next]_vars

(***************************************************************************)
(* Properties                                                              *)
(***************************************************************************)
TypeOK ==
  /\ password \in Passwords
  /\ version \in 0 .. MaxVersion
  /\ mustChange \in BOOLEAN
  /\ changedAt \in 0 .. MaxClock
  /\ clock \in 0 .. MaxClock
  /\ jar \in [Devices -> Token \cup {None}]
  /\ login \in [Devices -> Passwords \cup {None}]
  /\ refresh \in [Devices -> Token \cup {None}]
  /\ change \in [Devices -> [pc : {"idle", "guarded", "verified", "committed"},
                             new : Passwords \cup {None}, at : 0 .. MaxClock,
                             ver : 0 .. MaxVersion]]
  /\ signOut \in [Devices -> {"idle", "guarded"}]

\* The cookies that exist: in a browser, or on their way to one.
Cookies(d) == {jar[d], refresh[d]} \ {None}

Live(t) == Derive(t, FALSE) # "REVOKED"

AllDead(d) == \A t \in Cookies(d) : ~Live(t)

\* A request that has proved a password and will be answered with a new cookie.
Credentialed(d) == login[d] # None \/ change[d].pc = "committed"

\* A device all of whose cookies have fallen behind the account gets back in only
\* with a password: no number of requests and refreshes, in any order with version
\* bumps, brings a stale cookie back to life.
StaleCookiesStayDead ==
  [][\A d \in Devices : AllDead(d) /\ ~Credentialed(d) => AllDead(d)']_vars

\* Of the cookies minted by password changes at most one device's is alive, however
\* many changes run side by side; the sessions of logins live beside it.
OneSurvivor ==
  \A d, e \in Devices : \A t \in Cookies(d), u \in Cookies(e) :
    /\ Live(t) /\ t.by = "mint"
    /\ Live(u) /\ u.by = "mint"
    => d = e

\* The device about to be given the surviving session is the one whose new password
\* is in force.
SurvivorHoldsThePassword ==
  \A d \in Devices :
    change[d].pc = "committed" /\ change[d].ver = version => password = change[d].new

\* The comparison of issue times never kills a cookie of the current version: a
\* fresh one survives a change made in the same second.
CurrentCookiesSurviveTheClock ==
  \A d \in Devices : \A t \in Cookies(d) :
    t.state # "REVOKED" /\ VersionMatches(t.ver) => Live(t)

\* As commented where a login pins its version: "A login is authoritative - the
\* password was just verified, there is no stale token to catch".
LoginIsAuthoritative ==
  [][\A d \in Devices :
       login[d] # None /\ login'[d] = None /\ jar'[d].state # "REVOKED" => login[d] = password]_vars
=============================================================================
