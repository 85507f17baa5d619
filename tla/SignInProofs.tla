----------------------------- MODULE SignInProofs -----------------------------
(***************************************************************************)
(* Theorems about the two ways to be signed in.  SessionLifecycle: one     *)
(* device survives a password change, and a stale cookie never comes back. *)
(* FederatedLogin: who is let in twice, what a login leaves of memberships *)
(* and roles, which ones fail, and what federation may be switched to.     *)
(***************************************************************************)
EXTENDS SessionLifecycle, FederatedLogin, TLAPS

(***************************************************************************)
(* SessionLifecycle, for any number of devices, passwords and requests in  *)
(* flight, and any bounds on versions and time.                            *)
(***************************************************************************)

\* Of a cookie: no version but one that has been; one that was minted has its version;
\* one that is of the current version was issued after the last password change.
CookieOK(t) ==
  /\ t \in Token
  /\ t.ver # None => t.ver <= version
  /\ t.by = "mint" => t.ver # None
  /\ t.state # "REVOKED" /\ VersionMatches(t.ver) => t.iat >= changedAt

\* Of a password change: it was timed before now, and the version it wrote is a past
\* one, or the password it wrote is in force.
ChangeOK(d) ==
  LET x == change[d]
  IN /\ x.at <= clock
     /\ x.pc = "verified" => x.new \in Passwords
     /\ x.pc = "committed" => x.ver <= version /\ (x.ver = version => password = x.new)

\* Version v was minted on device d, or is about to be.
Holds(d, v) ==
  \/ change[d].pc = "committed" /\ change[d].ver = v
  \/ \E t \in Cookies(d) : t.by = "mint" /\ t.ver = v

\* Two password changes never mint one version.
OneMinter ==
  \A d, e \in Devices : \A v \in 0 .. MaxVersion : Holds(d, v) /\ Holds(e, v) => d = e

IInv ==
  /\ TypeOK
  /\ changedAt <= clock
  /\ \A d \in Devices : ChangeOK(d) /\ (\A t \in Cookies(d) : CookieOK(t))
  /\ OneMinter

\* The inductive invariant implies the invariants the runs check.
LEMMA Implied ==
  IInv => OneSurvivor /\ SurvivorHoldsThePassword /\ CurrentCookiesSurviveTheClock
<1> SUFFICES ASSUME IInv
             PROVE  OneSurvivor /\ SurvivorHoldsThePassword /\ CurrentCookiesSurviveTheClock
  OBVIOUS
<1>1. OneSurvivor
  <2> SUFFICES ASSUME NEW d \in Devices, NEW e \in Devices, NEW t \in Cookies(d), NEW u \in Cookies(e),
                      Live(t), t.by = "mint", Live(u), u.by = "mint"
               PROVE  d = e
    BY DEF OneSurvivor
  <2>1. CookieOK(t) /\ CookieOK(u)
    BY DEF IInv
  <2>2. t.ver = version /\ u.ver = version
    BY <2>1 DEF CookieOK, Live, Derive, VersionMatches
  <2>3. Holds(d, version) /\ Holds(e, version)
    BY <2>2 DEF Holds
  <2>4. version \in 0 .. MaxVersion
    BY DEF IInv, TypeOK
  <2> QED BY <2>3, <2>4 DEF IInv, OneMinter
<1>2. SurvivorHoldsThePassword
  BY DEF IInv, ChangeOK, SurvivorHoldsThePassword
<1>3. CurrentCookiesSurviveTheClock
  <2> SUFFICES ASSUME NEW d \in Devices, NEW t \in Cookies(d), t.state # "REVOKED", VersionMatches(t.ver)
               PROVE  Live(t)
    BY DEF CurrentCookiesSurviveTheClock
  <2>1. t.iat >= changedAt /\ t.iat \in Nat /\ changedAt \in Nat
    BY SessionAssumption DEF IInv, CookieOK, Token, TypeOK
  <2>2. ~RevokedByPasswordChange(t.iat)
    BY <2>1 DEF RevokedByPasswordChange
  <2> QED BY <2>2 DEF Live, Derive
<1> QED BY <1>1, <1>2, <1>3

\* A step of one device that leaves the account and the clock alone keeps the
\* invariant if that device's cookies and password change are as they should be.
LEMMA OneDevice ==
  ASSUME IInv, NEW d \in Devices, TypeOK', UNCHANGED <<account, clock>>,
         \A e \in Devices \ {d} : UNCHANGED <<jar[e], refresh[e], change[e]>>,
         \A t \in Cookies(d)' : CookieOK(t), ChangeOK(d)',
         \A v \in 0 .. MaxVersion : Holds(d, v)' => Holds(d, v)
  PROVE  IInv'
<1>1. UNCHANGED <<password, version, mustChange, changedAt>>
  BY DEF account
<1>2. \A e \in Devices \ {d} : UNCHANGED Cookies(e)
  BY DEF Cookies
<1>3. ASSUME NEW e \in Devices PROVE ChangeOK(e)' /\ (\A t \in Cookies(e) : CookieOK(t))'
  <2>1. ASSUME NEW t, CookieOK(t) PROVE CookieOK(t)'
    BY <1>1, <2>1 DEF CookieOK, VersionMatches
  <2>2. CASE e = d
    BY <2>1, <2>2
  <2>3. CASE e # d
    <3>1. ChangeOK(e) /\ \A t \in Cookies(e) : CookieOK(t)
      BY DEF IInv
    <3>2. ChangeOK(e)'
      BY <1>1, <2>3, <3>1 DEF ChangeOK
    <3> QED BY <1>2, <2>1, <2>3, <3>1, <3>2
  <2> QED BY <2>2, <2>3
<1>4. OneMinter'
  <2>1. \A e \in Devices : \A v \in 0 .. MaxVersion : Holds(e, v)' => Holds(e, v)
    BY <1>2 DEF Holds
  <2> QED BY <2>1 DEF IInv, OneMinter
<1>5. (changedAt <= clock)'
  BY <1>1 DEF IInv
<1> QED BY <1>3, <1>4, <1>5 DEF IInv

\* What the jwt callback returns for a cookie keeps its version and its origin, or is
\* the dead token; of a cookie that is not alive it is the dead token.
LEMMA RefreshedKeeps ==
  ASSUME IInv, NEW t, CookieOK(t), NEW failed \in BOOLEAN
  PROVE  LET u == Refreshed(t, failed)
         IN /\ CookieOK(u)
            /\ u.by = "mint" => t.by = "mint" /\ u.ver = t.ver
            /\ ~Live(t) => u = DeadToken
<1> DEFINE u == Refreshed(t, failed)
<1>1. clock \in 0 .. MaxClock /\ version \in 0 .. MaxVersion /\ changedAt <= clock
  BY DEF IInv, TypeOK
<1>2. CookieOK(DeadToken) /\ DeadToken.by = "dead"
  BY SessionAssumption DEF CookieOK, DeadToken, Token, States
<1>3. CASE Derive(t, failed) = "REVOKED"
  BY <1>2, <1>3 DEF Refreshed
<1>4. CASE Derive(t, failed) # "REVOKED"
  <2>1. u = [t EXCEPT !.state = Derive(t, failed),
                      !.ver = IF t.ver = None THEN version ELSE t.ver, !.iat = clock]
    BY <1>4 DEF Refreshed
  <2>2. Derive(t, failed) \in States
    BY DEF Derive, States
  <2>3. u \in Token /\ u.by = t.by /\ u.iat = clock
        /\ u.ver = IF t.ver = None THEN version ELSE t.ver
    BY <1>1, <2>1, <2>2 DEF CookieOK, Token
  <2>4. u.ver # None => u.ver <= version
    BY <1>1, <2>3 DEF CookieOK
  <2>5. CookieOK(u)
    BY <1>1, <2>3, <2>4, SessionAssumption DEF CookieOK, Token
  <2>6. Live(t)
    BY <1>4 DEF Live, Derive
  <2> QED BY <2>3, <2>5, <2>6 DEF CookieOK
<1> QED BY <1>3, <1>4

\* Logins, session requests and sign-outs keep the invariant: a new cookie is of the
\* current version and time, or dead, and none of them mints a version.
LEMMA CookiesKeepInv ==
  ASSUME IInv, NEW d \in Devices,
         \/ \E p \in Passwords : Authorize(d, p)
         \/ \E failed \in BOOLEAN : CompleteLogin(d, failed) \/ RequestSession(d, failed)
         \/ ReceiveSession(d) \/ ClearCookie(d) \/ GuardSignOut(d)
  PROVE  IInv'
<1>1. TypeOK /\ ChangeOK(d) /\ \A t \in Cookies(d) : CookieOK(t)
  BY DEF IInv
<1>2. UNCHANGED <<account, clock, change>>
  BY DEF Authorize, CompleteLogin, RequestSession, ReceiveSession, ClearCookie, GuardSignOut
<1>3. UNCHANGED <<password, version, mustChange, changedAt>>
  BY <1>2 DEF account
<1>4. ChangeOK(d)'
  BY <1>1, <1>2, <1>3 DEF ChangeOK
<1>5. CASE (\E p \in Passwords : Authorize(d, p)) \/ GuardSignOut(d)
  <2>1. TypeOK'
    BY <1>1, <1>2, <1>3, <1>5 DEF TypeOK, Authorize, GuardSignOut
  <2>2. UNCHANGED <<jar, refresh>>
    BY <1>5 DEF Authorize, GuardSignOut
  <2> QED BY <1>1, <1>2, <1>4, <2>1, <2>2, OneDevice DEF Cookies, Holds
<1>6. ASSUME NEW failed \in BOOLEAN, CompleteLogin(d, failed) PROVE IInv'
  <2> DEFINE t == IF failed THEN DeadToken
                  ELSE [state |-> IF mustChange THEN "PENDING_PASSWORD_CHANGE" ELSE "ACTIVE",
                        ver |-> version, iat |-> clock, by |-> "login"]
  <2>1. jar' = [jar EXCEPT ![d] = t] /\ UNCHANGED <<refresh, signOut>>
    BY <1>6 DEF CompleteLogin, Store
  <2>2. CookieOK(t) /\ t.by # "mint"
    BY SessionAssumption DEF CookieOK, DeadToken, Token, States, IInv, TypeOK
  <2>3. t \in Token
    BY <2>2 DEF CookieOK
  <2> HIDE DEF t
  <2>4. TypeOK'
    BY <1>1, <1>2, <1>3, <1>6, <2>1, <2>3 DEF TypeOK, CompleteLogin
  <2>5. Cookies(d)' \subseteq Cookies(d) \cup {t}
    BY <1>1, <2>1 DEF Cookies, TypeOK
  <2>6. \A e \in Devices \ {d} : UNCHANGED <<jar[e], refresh[e], change[e]>>
    BY <1>1, <1>2, <2>1 DEF TypeOK
  <2>7. \A v \in 0 .. MaxVersion : Holds(d, v)' => Holds(d, v)
    BY <1>2, <2>2, <2>5 DEF Holds
  <2> QED BY <1>1, <1>2, <1>4, <2>2, <2>4, <2>5, <2>6, <2>7, OneDevice
<1>7. ASSUME NEW failed \in BOOLEAN, RequestSession(d, failed) PROVE IInv'
  <2> DEFINE u == Refreshed(jar[d], failed)
  <2>1. refresh' = [refresh EXCEPT ![d] = u] /\ UNCHANGED <<jar, login, signOut>> /\ jar[d] # None
    BY <1>7 DEF RequestSession
  <2>2. jar[d] \in Cookies(d) /\ CookieOK(jar[d])
    BY <1>1, <2>1 DEF Cookies
  <2>3. CookieOK(u) /\ (u.by = "mint" => jar[d].by = "mint" /\ u.ver = jar[d].ver)
    BY <2>2, RefreshedKeeps
  <2>4. u \in Token
    BY <2>3 DEF CookieOK
  <2> HIDE DEF u
  <2>5. TypeOK'
    BY <1>1, <1>2, <1>3, <2>1, <2>4 DEF TypeOK
  <2>6. Cookies(d)' \subseteq Cookies(d) \cup {u}
    BY <1>1, <2>1 DEF Cookies, TypeOK
  <2>7. \A e \in Devices \ {d} : UNCHANGED <<jar[e], refresh[e], change[e]>>
    BY <1>1, <1>2, <2>1 DEF TypeOK
  <2>8. \A v \in 0 .. MaxVersion : Holds(d, v)' => Holds(d, v)
    BY <1>2, <2>2, <2>3, <2>6 DEF Holds
  <2> QED BY <1>1, <1>2, <1>4, <2>3, <2>5, <2>6, <2>7, <2>8, OneDevice
<1>8. CASE ReceiveSession(d) \/ ClearCookie(d)
  <2>1. TypeOK'
    BY <1>1, <1>2, <1>3, <1>8 DEF TypeOK, ReceiveSession, ClearCookie, Store
  <2>2. Cookies(d)' \subseteq Cookies(d)
    BY <1>1, <1>8 DEF Cookies, TypeOK, ReceiveSession, ClearCookie, Store
  <2>3. \A e \in Devices \ {d} : UNCHANGED <<jar[e], refresh[e], change[e]>>
    BY <1>1, <1>2, <1>8 DEF TypeOK, ReceiveSession, ClearCookie, Store
  <2>4. \A v \in 0 .. MaxVersion : Holds(d, v)' => Holds(d, v)
    BY <1>2, <2>2 DEF Holds
  <2> QED BY <1>1, <1>2, <1>4, <2>1, <2>2, <2>3, <2>4, OneDevice
<1> QED BY <1>5, <1>6, <1>7, <1>8

\* A password change keeps the invariant up to its commit, after it, and when the
\* server dies: it mints the version its own update wrote.
LEMMA ChangeKeepsInv ==
  ASSUME IInv, NEW d \in Devices,
         \/ GuardChange(d) \/ (\E current, new \in Passwords : VerifyCurrent(d, current, new))
         \/ (\E hasSecret \in BOOLEAN : MintSession(d, hasSecret)) \/ Crash(d)
  PROVE  IInv'
<1>1. TypeOK /\ ChangeOK(d) /\ \A t \in Cookies(d) : CookieOK(t)
  BY DEF IInv
<1>2. UNCHANGED <<account, clock, refresh, login>>
  BY DEF GuardChange, VerifyCurrent, MintSession, Crash
<1>3. UNCHANGED <<password, version, mustChange, changedAt>>
  BY <1>2 DEF account
<1>4. IdleChange \in [pc : {"idle", "guarded", "verified", "committed"},
                      new : Passwords \cup {None}, at : 0 .. MaxClock, ver : 0 .. MaxVersion]
  BY SessionAssumption DEF IdleChange
<1>5. CASE GuardChange(d) \/ (\E current, new \in Passwords : VerifyCurrent(d, current, new))
  <2>1. PICK x \in [pc : {"idle", "guarded", "verified"},
                    new : Passwords \cup {None}, at : 0 .. MaxClock, ver : 0 .. MaxVersion] :
          /\ change' = [change EXCEPT ![d] = x] /\ x.at <= clock
          /\ x.pc = "verified" => x.new \in Passwords
    <3>1. CASE GuardChange(d)
      <4> DEFINE x == [change[d] EXCEPT !.pc = "guarded"]
      <4>1. change' = [change EXCEPT ![d] = x]
        BY <3>1 DEF GuardChange
      <4>2. change[d] \in [pc : {"idle", "guarded", "verified", "committed"},
                           new : Passwords \cup {None}, at : 0 .. MaxClock, ver : 0 .. MaxVersion]
        BY <1>1 DEF TypeOK
      <4>3. x \in [pc : {"idle", "guarded", "verified"},
                   new : Passwords \cup {None}, at : 0 .. MaxClock, ver : 0 .. MaxVersion]
            /\ x.at = change[d].at /\ x.pc = "guarded"
        BY <4>2
      <4> QED BY <1>1, <4>1, <4>3 DEF ChangeOK
    <3>2. ASSUME NEW current \in Passwords, NEW new \in Passwords, VerifyCurrent(d, current, new)
          PROVE  \E x \in [pc : {"idle", "guarded", "verified"},
                            new : Passwords \cup {None}, at : 0 .. MaxClock, ver : 0 .. MaxVersion] :
                   /\ change' = [change EXCEPT ![d] = x] /\ x.at <= clock
                   /\ x.pc = "verified" => x.new \in Passwords
      <4> DEFINE y == [pc |-> "verified", new |-> new, at |-> clock, ver |-> 0]
      <4>1. change' = [change EXCEPT ![d] = y] \/ change' = [change EXCEPT ![d] = IdleChange]
        BY <3>2 DEF VerifyCurrent
      <4>2. clock \in 0 .. MaxClock /\ clock <= clock /\ 0 <= clock
        BY <1>1, SessionAssumption DEF TypeOK
      <4>3. y \in [pc : {"idle", "guarded", "verified"},
                   new : Passwords \cup {None}, at : 0 .. MaxClock, ver : 0 .. MaxVersion]
        BY <4>2, SessionAssumption
      <4>4. IdleChange \in [pc : {"idle", "guarded", "verified"},
                            new : Passwords \cup {None}, at : 0 .. MaxClock, ver : 0 .. MaxVersion]
            /\ IdleChange.at = 0 /\ IdleChange.pc = "idle"
        BY SessionAssumption DEF IdleChange
      <4> QED BY <4>1, <4>2, <4>3, <4>4
    <3> QED BY <1>5, <3>1, <3>2
  <2>2. UNCHANGED <<jar, signOut>>
    BY <1>5 DEF GuardChange, VerifyCurrent
  <2>3. TypeOK'
    BY <1>1, <1>2, <1>3, <2>1, <2>2 DEF TypeOK
  <2>4. ChangeOK(d)'
    BY <1>1, <1>2, <2>1 DEF ChangeOK, TypeOK
  <2>5. \A v \in 0 .. MaxVersion : Holds(d, v)' => Holds(d, v)
    BY <1>1, <1>2, <2>1, <2>2 DEF Holds, Cookies, TypeOK
  <2>6. \A e \in Devices \ {d} : UNCHANGED <<jar[e], refresh[e], change[e]>>
    BY <1>1, <1>2, <2>1, <2>2 DEF TypeOK
  <2>7. Cookies(d)' = Cookies(d)
    BY <1>2, <2>2 DEF Cookies
  <2> QED BY <1>1, <1>2, <2>3, <2>4, <2>5, <2>6, <2>7, OneDevice
<1>6. ASSUME NEW hasSecret \in BOOLEAN, MintSession(d, hasSecret) PROVE IInv'
  <2> DEFINE t == [state |-> "ACTIVE", ver |-> change[d].ver, iat |-> clock, by |-> "mint"]
  <2>1. change[d].pc = "committed" /\ change' = [change EXCEPT ![d] = IdleChange] /\ signOut' = signOut
        /\ jar' \in {jar, [jar EXCEPT ![d] = t]}
    BY <1>6 DEF MintSession, Store
  <2>2. CookieOK(t)
    BY <1>1, <2>1, SessionAssumption DEF CookieOK, ChangeOK, Token, States, IInv, TypeOK
  <2>3. t \in Token /\ t.ver = change[d].ver
    BY <2>2 DEF CookieOK
  <2> HIDE DEF t
  <2>4. TypeOK'
    BY <1>1, <1>2, <1>3, <1>4, <2>1, <2>3 DEF TypeOK
  <2>5. Cookies(d)' \subseteq Cookies(d) \cup {t}
    BY <1>1, <1>2, <2>1 DEF Cookies, TypeOK
  <2>6. ChangeOK(d)'
    BY <1>1, <1>2, <2>1, SessionAssumption DEF ChangeOK, IdleChange, TypeOK
  <2>7. \A v \in 0 .. MaxVersion : Holds(d, v)' => Holds(d, v)
    BY <1>1, <2>1, <2>3, <2>5 DEF Holds, TypeOK, IdleChange
  <2>8. \A e \in Devices \ {d} : UNCHANGED <<jar[e], refresh[e], change[e]>>
    BY <1>1, <1>2, <2>1 DEF TypeOK
  <2> QED BY <1>1, <1>2, <2>2, <2>4, <2>5, <2>6, <2>7, <2>8, OneDevice
<1>7. CASE Crash(d)
  <2>1. UNCHANGED jar /\ change' \in {change, [change EXCEPT ![d] = IdleChange]}
    BY <1>7 DEF Crash
  <2>2. TypeOK'
    BY <1>1, <1>2, <1>3, <1>4, <1>7, <2>1 DEF Crash, TypeOK
  <2>3. ChangeOK(d)'
    BY <1>1, <1>2, <1>3, <2>1, SessionAssumption DEF ChangeOK, IdleChange, TypeOK
  <2>4. \A v \in 0 .. MaxVersion : Holds(d, v)' => Holds(d, v)
    BY <1>1, <1>2, <2>1 DEF Holds, Cookies, TypeOK, IdleChange
  <2>5. \A e \in Devices \ {d} : UNCHANGED <<jar[e], refresh[e], change[e]>>
    BY <1>1, <1>2, <2>1 DEF TypeOK
  <2>6. Cookies(d)' = Cookies(d)
    BY <1>2, <2>1 DEF Cookies
  <2> QED BY <1>1, <1>2, <2>2, <2>3, <2>4, <2>5, <2>6, OneDevice
<1> QED BY <1>5, <1>6, <1>7

\* A new version of the account, with another password or without, keeps the
\* invariant: no cookie and no other change is of it.
LEMMA BumpKeepsInv ==
  ASSUME IInv, NEW d \in Devices, BumpVersion(d) \/ CommitChange(d)
  PROVE  IInv'
<1>1. TypeOK /\ ChangeOK(d)
  BY DEF IInv
<1>2. version' = version + 1 /\ version' \in 0 .. MaxVersion /\ UNCHANGED <<clock, jar, login, refresh>>
  BY <1>1, SessionAssumption DEF BumpVersion, CommitChange, TypeOK
<1>3. changedAt' \in {changedAt, change[d].at} /\ (changedAt <= clock)'
  BY <1>1, <1>2 DEF BumpVersion, CommitChange, IInv, ChangeOK
<1>4. change' = change \/ (CommitChange(d) /\ change' =
        [change EXCEPT ![d] = [change[d] EXCEPT !.pc = "committed", !.ver = version + 1]])
  BY <1>1 DEF BumpVersion, CommitChange, TypeOK
<1>5. TypeOK'
  <2>1. CASE BumpVersion(d)
    BY <1>1, <1>2, <2>1 DEF BumpVersion, TypeOK
  <2>2. CASE CommitChange(d)
    <3>1. change[d].new \in Passwords /\ change[d].at \in 0 .. MaxClock
      BY <1>1, <2>2 DEF CommitChange, ChangeOK, TypeOK
    <3>2. change' \in [Devices -> [pc : {"idle", "guarded", "verified", "committed"},
                                   new : Passwords \cup {None}, at : 0 .. MaxClock,
                                   ver : 0 .. MaxVersion]]
      <4> DEFINE x == [change[d] EXCEPT !.pc = "committed", !.ver = version + 1]
      <4>1. change' = [change EXCEPT ![d] = x]
        BY <2>2 DEF CommitChange
      <4>2. x \in [pc : {"idle", "guarded", "verified", "committed"},
                   new : Passwords \cup {None}, at : 0 .. MaxClock, ver : 0 .. MaxVersion]
        BY <1>1, <1>2 DEF TypeOK
      <4> QED BY <1>1, <4>1, <4>2 DEF TypeOK
    <3> QED BY <1>1, <1>2, <2>2, <3>1, <3>2 DEF CommitChange, TypeOK
  <2> QED BY <2>1, <2>2
<1>6. ASSUME NEW e \in Devices PROVE ChangeOK(e)' /\ (\A t \in Cookies(e) : CookieOK(t))'
  <2>1. ChangeOK(e) /\ \A t \in Cookies(e) : CookieOK(t)
    BY DEF IInv
  <2>2. Cookies(e)' = Cookies(e)
    BY <1>2 DEF Cookies
  <2>3. ASSUME NEW t, CookieOK(t) PROVE CookieOK(t)'
    <3>1. t.ver \in (0 .. MaxVersion) \cup {None} /\ version \in Nat
      BY <1>1, <2>3 DEF CookieOK, Token, TypeOK
    <3>2. ~VersionMatches(t.ver)'
      BY <1>2, <2>3, <3>1 DEF CookieOK, VersionMatches
    <3> QED BY <1>2, <2>3, <3>1, <3>2 DEF CookieOK
  <2>4. ChangeOK(e)'
    <3>1. CASE CommitChange(d) /\ e = d
      BY <1>1, <1>2, <3>1 DEF CommitChange, ChangeOK, TypeOK
    <3>2. CASE ~(CommitChange(d) /\ e = d)
      <4>1. change'[e] = change[e] /\ change[e].ver \in Nat /\ version \in Nat
        BY <1>1, <1>4, <3>2 DEF TypeOK
      <4> QED BY <1>2, <2>1, <4>1 DEF ChangeOK
    <3> QED BY <3>1, <3>2
  <2> QED BY <2>1, <2>2, <2>3, <2>4
<1>7. OneMinter'
  <2>1. ASSUME NEW e \in Devices, NEW v \in 0 .. MaxVersion, Holds(e, v)'
        PROVE  (Holds(e, v) /\ v <= version) \/ (e = d /\ v = version + 1)
    <3>1. ChangeOK(e) /\ (\A t \in Cookies(e) : CookieOK(t)) /\ Cookies(e)' = Cookies(e)
      BY <1>2 DEF IInv, Cookies
    <3>2. CASE \E t \in Cookies(e) : t.by = "mint" /\ t.ver = v
      BY <3>1, <3>2 DEF Holds, CookieOK
    <3>3. CASE change'[e].pc = "committed" /\ change'[e].ver = v
      <4>1. CASE change'[e] = change[e]
        BY <3>1, <3>3, <4>1 DEF Holds, ChangeOK
      <4>2. CASE change'[e] # change[e]
        BY <1>1, <1>4, <3>3, <4>2 DEF TypeOK
      <4> QED BY <4>1, <4>2
    <3> QED BY <2>1, <3>1, <3>2, <3>3 DEF Holds
  <2>2. version \in Nat
    BY <1>1 DEF TypeOK
  <2> QED BY <2>1, <2>2 DEF IInv, OneMinter
<1> QED BY <1>3, <1>5, <1>6, <1>7 DEF IInv

\* Time keeps the invariant.
LEMMA TickKeepsInv == IInv /\ Tick => IInv'
<1> SUFFICES ASSUME IInv, Tick PROVE IInv'
  OBVIOUS
<1>1. UNCHANGED <<password, version, mustChange, changedAt, jar, login, refresh, change, signOut>>
      /\ clock' = clock + 1 /\ clock \in Nat /\ clock' \in 0 .. MaxClock
  BY SessionAssumption DEF Tick, account, IInv, TypeOK
<1>2. TypeOK'
  BY <1>1 DEF IInv, TypeOK
<1>3. (changedAt <= clock)'
  BY <1>1 DEF IInv, TypeOK
<1>4. ASSUME NEW d \in Devices PROVE ChangeOK(d)' /\ (\A t \in Cookies(d) : CookieOK(t))'
  <2>1. ChangeOK(d) /\ (\A t \in Cookies(d) : CookieOK(t)) /\ change[d].at \in Nat
    BY DEF IInv, TypeOK
  <2> QED BY <1>1, <2>1 DEF ChangeOK, Cookies, CookieOK, VersionMatches
<1>5. OneMinter'
  BY <1>1 DEF IInv, OneMinter, Holds, Cookies
<1> QED BY <1>2, <1>3, <1>4, <1>5 DEF IInv

\* The invariant holds initially: the cookies of before have no version.
LEMMA InitIInv == Init => IInv
<1> SUFFICES ASSUME Init PROVE IInv
  OBVIOUS
<1>1. LegacyToken \in Token /\ LegacyToken.by = "login" /\ LegacyToken.ver = None /\ LegacyToken.iat = 0
  BY SessionAssumption DEF LegacyToken, Token, States
<1>2. IdleChange \in [pc : {"idle", "guarded", "verified", "committed"},
                      new : Passwords \cup {None}, at : 0 .. MaxClock, ver : 0 .. MaxVersion]
      /\ IdleChange.pc = "idle" /\ IdleChange.at = 0
  BY SessionAssumption DEF IdleChange
<1>3. TypeOK
  BY <1>1, <1>2, SessionAssumption DEF Init, TypeOK
<1>4. \A d \in Devices : ChangeOK(d)
  BY <1>2 DEF Init, ChangeOK
<1>5. \A d \in Devices : \A t \in Cookies(d) : t = LegacyToken
  BY DEF Init, Cookies
<1>6. CookieOK(LegacyToken)
  BY <1>1 DEF Init, CookieOK
<1>7. OneMinter
  BY <1>1, <1>2, <1>5 DEF Init, OneMinter, Holds
<1>8. changedAt <= clock
  BY DEF Init
<1> QED BY <1>3, <1>4, <1>5, <1>6, <1>7, <1>8 DEF IInv

\* Every step keeps the invariant.
LEMMA NextIInv == IInv /\ [Next]_vars => IInv'
<1> SUFFICES ASSUME IInv, [Next]_vars PROVE IInv'
  OBVIOUS
<1>1. CASE UNCHANGED vars
  BY <1>1 DEF vars, account, IInv, TypeOK, ChangeOK, Cookies, CookieOK, VersionMatches, OneMinter, Holds
<1>2. CASE Tick
  BY <1>2, TickKeepsInv
<1>3. CASE \E d \in Devices : BumpVersion(d) \/ CommitChange(d)
  BY <1>3, BumpKeepsInv
<1>4. ASSUME NEW d \in Devices,
             \/ \E p \in Passwords : Authorize(d, p)
             \/ \E failed \in BOOLEAN : CompleteLogin(d, failed) \/ RequestSession(d, failed)
             \/ ReceiveSession(d) \/ ClearCookie(d) \/ GuardSignOut(d)
      PROVE  IInv'
  BY <1>4, CookiesKeepInv
<1>5. ASSUME NEW d \in Devices,
             \/ GuardChange(d) \/ (\E current, new \in Passwords : VerifyCurrent(d, current, new))
             \/ (\E hasSecret \in BOOLEAN : MintSession(d, hasSecret)) \/ Crash(d)
      PROVE  IInv'
  BY <1>5, ChangeKeepsInv
<1> QED BY <1>1, <1>2, <1>3, <1>4, <1>5 DEF Next

\* The inductive invariant holds in every reachable state.
THEOREM Invariant == Spec => []IInv
<1> QED BY InitIInv, NextIInv, PTL DEF Spec

\* Cookies, requests in flight and the account have their types.
THEOREM TypeCorrect == Spec => []TypeOK
<1>1. IInv => TypeOK
  BY DEF IInv
<1> QED BY <1>1, Invariant, PTL

\* Of the sessions established by changePasswordAction at most one device's is alive,
\* whatever ran side by side.  Nothing is said of the sessions of logins.
THEOREM OneSurvives == Spec => []OneSurvivor
<1> QED BY Implied, Invariant, PTL

\* The session a password change is about to establish, if it is alive at all, is of
\* the password in force.
THEOREM SurvivorIsRight == Spec => []SurvivorHoldsThePassword
<1> QED BY Implied, Invariant, PTL

\* tokenRevokedByPasswordChange never revokes a cookie of the current version.
THEOREM ClockIsHarmless == Spec => []CurrentCookiesSurviveTheClock
<1> QED BY Implied, Invariant, PTL

\* A dead cookie stays dead: versions only grow, and a change of time comes with one.
LEMMA DeadStaysDead ==
  ASSUME IInv, [Next]_vars, NEW t, CookieOK(t), ~Live(t)
  PROVE  ~Live(t)'
<1>1. UNCHANGED account \/ version' = version + 1
  BY DEF Next, vars, Tick, Authorize, CompleteLogin, RequestSession, ReceiveSession, ClearCookie,
         GuardSignOut, BumpVersion, GuardChange, VerifyCurrent, CommitChange, MintSession, Crash
<1>2. CASE UNCHANGED account
  BY <1>2 DEF account, Live, Derive, VersionMatches, RevokedByPasswordChange
<1>3. CASE version' = version + 1
  <2>1. t.ver \in (0 .. MaxVersion) \cup {None} /\ version \in Nat
    BY DEF CookieOK, Token, IInv, TypeOK
  <2>2. ~VersionMatches(t.ver)'
    BY <1>3, <2>1 DEF CookieOK, VersionMatches
  <2> QED BY <2>2 DEF Live, Derive
<1> QED BY <1>1, <1>2, <1>3

\* A device without a credential gets a new cookie from its old ones only.
LEMMA WhereCookiesComeFrom ==
  ASSUME IInv, [Next]_vars, NEW d \in Devices, ~Credentialed(d), NEW t \in Cookies(d)'
  PROVE  \/ t \in Cookies(d)
         \/ jar[d] \in Cookies(d) /\ \E failed \in BOOLEAN : t = Refreshed(jar[d], failed)
<1>1. TypeOK
  BY DEF IInv
<1>2. CASE UNCHANGED <<jar, refresh>>
  BY <1>2 DEF Cookies
<1>3. ASSUME NEW e \in Devices, NEW failed \in BOOLEAN, CompleteLogin(e, failed) PROVE t \in Cookies(d)
  BY <1>1, <1>3 DEF CompleteLogin, Store, Credentialed, Cookies, TypeOK
<1>4. ASSUME NEW e \in Devices, NEW failed \in BOOLEAN, RequestSession(e, failed)
      PROVE  \/ t \in Cookies(d)
             \/ jar[d] \in Cookies(d) /\ t = Refreshed(jar[d], failed)
  BY <1>1, <1>4 DEF RequestSession, Cookies, TypeOK
<1>5. ASSUME NEW e \in Devices, ReceiveSession(e) \/ ClearCookie(e) PROVE t \in Cookies(d)
  BY <1>1, <1>5 DEF ReceiveSession, ClearCookie, Store, Cookies, TypeOK
<1>6. ASSUME NEW e \in Devices, NEW hasSecret \in BOOLEAN, MintSession(e, hasSecret) PROVE t \in Cookies(d)
  BY <1>1, <1>6 DEF MintSession, Store, Credentialed, Cookies, TypeOK
<1>7. \/ UNCHANGED <<jar, refresh>>
      \/ \E e \in Devices : \/ \E b \in BOOLEAN : CompleteLogin(e, b) \/ RequestSession(e, b) \/ MintSession(e, b)
                            \/ ReceiveSession(e) \/ ClearCookie(e)
  BY DEF Next, vars, Tick, Authorize, GuardSignOut, BumpVersion, GuardChange, VerifyCurrent, CommitChange, Crash
<1> QED BY <1>2, <1>3, <1>4, <1>5, <1>6, <1>7

\* A stale cookie never comes back to life: a device whose cookies are dead gets in
\* again with a password only.
THEOREM StaleStaysDead == Spec => StaleCookiesStayDead
<1>1. IInv /\ [Next]_vars => \A d \in Devices : AllDead(d) /\ ~Credentialed(d) => AllDead(d)'
  <2> SUFFICES ASSUME IInv, [Next]_vars, NEW d \in Devices, AllDead(d), ~Credentialed(d),
                      NEW t \in Cookies(d)'
               PROVE  ~Live(t)'
    BY DEF AllDead
  <2>1. CASE t \in Cookies(d)
    BY <2>1, DeadStaysDead DEF AllDead, IInv
  <2>2. ASSUME jar[d] \in Cookies(d), NEW failed \in BOOLEAN, t = Refreshed(jar[d], failed)
        PROVE  ~Live(t)'
    <3>1. CookieOK(jar[d]) /\ ~Live(jar[d])
      BY <2>2 DEF AllDead, IInv
    <3>2. t = DeadToken
      BY <2>2, <3>1, RefreshedKeeps
    <3> QED BY <3>2 DEF Live, Derive, DeadToken
  <2> QED BY <2>1, <2>2, WhereCookiesComeFrom
<1> QED BY <1>1, Invariant, PTL DEF Spec, StaleCookiesStayDead

(***************************************************************************)
(* FederatedLogin, for any number of requests, posts, operators, claims,   *)
(* roles and keys.  A post owns what it has read, and anything that        *)
(* changes it marks the post as raced: until then, what it writes is what  *)
(* the rows say.                                                           *)
(***************************************************************************)
\* Where a call has been accepted.
AcceptedPc == {"resolve", "account", "in", "failed"}

\* What a post found still holds, as long as nothing it reads was changed since.
Fresh(x) ==
  /\ idp # Null
  /\ x.jit = idp.jit
  /\ x.role \in Resolved(answer[x.on].groups, rule, idp.default)
  /\ x.account \in {Unread, user}
  /\ x.member \in {Unread, member}

\* What holds of a call of the assertion consumer service between its steps: it answers a
\* request; once accepted, or if another was before it came, that request is gone, and of
\* two such it is the first; what it read is fresh unless it was raced; a membership it has
\* read is there, made by whom it was.
PostOK(x) ==
  /\ x.pc = "idle" => x = IdlePost
  /\ x.pc # "idle" => x.on \in Requests /\ answer[x.on] \in Answers
  /\ x.pc \in AcceptedPc \/ x.late # {} => request[x.on] = "gone"
  /\ x.pc \in AcceptedPc \cup {"consume"} => x.late = {}
  /\ x.pc \in {"find", "consume", "resolve"} => x.account = Unread /\ x.member = Unread
  /\ x.pc = "account" => x.role \in Roles
  /\ x.pc = "account" /\ ~x.raced => Fresh(x)
  /\ x.member \notin {Null, Unread} => member # Null /\ member.via = x.member.via
  /\ x.pc = "failed" => x.raced

\* A call of an operator goes on with a row that allowed it.
CallOK(x) == x.kind # "none" => x.read \in Provider /\ Allows(x.kind, x.read)

SignOnInv ==
  /\ LoginTypeOK
  /\ \A p \in Posts : PostOK(post[p])
  /\ \A o \in Operators : CallOK(op[o])
  /\ SwitchesInOrder

\* The role of a login is one of the roles: what maps to nothing falls to the default.
LEMMA ResolvedRoles ==
  ASSUME NEW rules \in [Claims -> Roles \cup {Null}], NEW groups \in SUBSET Claims,
         NEW default \in Roles
  PROVE  Resolved(groups, rules, default) \subseteq Roles
BY DEF Resolved

\* What marks the calls that a change raced: nothing but that mark, on pending calls.
LEMMA RacedCalls ==
  ASSUME NEW posts \in [Posts -> Post], NEW done \in SUBSET Posts, NEW changed \in BOOLEAN
  PROVE  /\ Raced(posts, done, changed) \in [Posts -> Post]
         /\ \A p \in Posts :
              LET x == posts[p]
                  y == Raced(posts, done, changed)[p]
              IN /\ y = [x EXCEPT !.raced = y.raced]
                 /\ x.raced => y.raced
                 /\ changed /\ p \notin done /\ x.pc \in Pending => y.raced
                 /\ (~changed \/ p \in done) => y = x
<1> DEFINE R == Raced(posts, done, changed)
<1>1. ASSUME NEW p \in Posts
      PROVE  /\ R[p] \in Post
             /\ R[p] = [posts[p] EXCEPT !.raced = R[p].raced]
             /\ posts[p].raced => R[p].raced
             /\ changed /\ p \notin done /\ posts[p].pc \in Pending => R[p].raced
             /\ (~changed \/ p \in done) => R[p] = posts[p]
  <2> DEFINE b == posts[p].raced \/ (changed /\ p \notin done /\ posts[p].pc \in Pending)
  <2>1. R[p] = [posts[p] EXCEPT !.raced = b]
    BY DEF Raced
  <2>2. posts[p] \in Post /\ b \in BOOLEAN /\ posts[p].raced \in BOOLEAN
    BY DEF Post
  <2>3. R[p] \in Post /\ R[p].raced = b
    BY <2>1, <2>2 DEF Post
  <2>4. (~changed \/ p \in done) => R[p] = posts[p]
    <3>1. (~changed \/ p \in done) => b = posts[p].raced
      BY <2>2
    <3> QED BY <2>1, <2>2, <3>1 DEF Post
  <2> QED BY <2>1, <2>3, <2>4
<1>2. R \in [Posts -> Post]
  BY <1>1 DEF Raced
<1> QED BY <1>1, <1>2

\* A step of one call keeps the invariant if that call is left as it should be and no
\* more than a request is used up.
LEMMA OnePost ==
  ASSUME SignOnInv, NEW p \in Posts, post' = [post EXCEPT ![p] = post'[p]],
         post'[p] \in Post, PostOK(post[p])',
         UNCHANGED <<idp, rule, answer, user, member, op, edits>>,
         request' \in [Requests -> {"none", "open", "gone"}],
         \A r \in Requests : request[r] = "gone" => request'[r] = "gone"
  PROVE  SignOnInv'
<1>1. LoginTypeOK'
  BY DEF SignOnInv, LoginTypeOK
<1>2. ASSUME NEW q \in Posts PROVE PostOK(post[q])'
  <2>1. CASE q = p
    BY <2>1
  <2>2. CASE q # p
    <3>1. post'[q] = post[q] /\ PostOK(post[q]) /\ post[q] \in Post
      BY <2>2 DEF SignOnInv, LoginTypeOK
    <3> QED BY <3>1 DEF PostOK, Fresh, AcceptedPc, IdlePost
  <2> QED BY <2>1, <2>2
<1>3. \A o \in Operators : CallOK(op[o])'
  BY DEF SignOnInv, CallOK
<1>4. SwitchesInOrder'
  BY DEF SignOnInv, SwitchesInOrder
<1> QED BY <1>1, <1>2, <1>3, <1>4 DEF SignOnInv

\* A change of what the calls read leaves them as they should be once the pending ones
\* are marked, and as long as the membership stays, made by whom it was.
LEMMA RacedStayOK ==
  ASSUME SignOnInv, NEW done \in SUBSET Posts, NEW changed \in BOOLEAN, NEW posts \in [Posts -> Post],
         post' = Raced(posts, done, changed), UNCHANGED <<request, answer>>,
         ~changed => UNCHANGED <<idp, rule, user, member>>,
         member # Null => member' # Null /\ member'.via = member.via
  PROVE  \A q \in Posts \ done : posts[q] = post[q] => PostOK(post[q])'
<1> SUFFICES ASSUME NEW q \in Posts \ done, posts[q] = post[q] PROVE PostOK(post[q])'
  OBVIOUS
<1>1. PICK x : x = post[q]
  OBVIOUS
<1>2. PICK y : y = post'[q]
  OBVIOUS
<1>3. /\ x \in Post /\ y = [x EXCEPT !.raced = y.raced] /\ y \in Post
      /\ x.raced => y.raced
      /\ changed /\ x.pc \in Pending => y.raced
      /\ ~changed => y = x
  BY <1>1, <1>2, RacedCalls
<1>4. /\ y.pc = x.pc /\ y.on = x.on /\ y.role = x.role /\ y.jit = x.jit /\ y.account = x.account
      /\ y.member = x.member /\ y.late = x.late
  BY <1>3 DEF Post
<1>5. PostOK(x)
  BY <1>1 DEF SignOnInv
<1>6. PostOK(y)'
  <2>1. CASE ~changed
    <3>1. y = x /\ UNCHANGED <<request, answer, idp, rule, user, member>>
      BY <1>3, <2>1
    <3> QED BY <1>5, <3>1 DEF PostOK, Fresh
  <2>2. CASE changed
    <3>1. y.pc # "idle"
      => y.on \in Requests /\ answer'[y.on] \in Answers
      BY <1>4, <1>5 DEF PostOK
    <3>2. y.pc \in AcceptedPc \/ y.late # {} => request'[y.on] = "gone"
      BY <1>4, <1>5 DEF PostOK
    <3>3. y.pc = "idle" => y = IdlePost
      <4>1. ASSUME y.pc = "idle" PROVE y = x
        <5>1. x = IdlePost /\ x.pc \notin Pending
          BY <1>4, <1>5, <4>1 DEF PostOK, Pending
        <5>2. post'[q].raced = posts[q].raced
          BY <1>1, <1>3, <5>1 DEF Raced, Post
        <5> QED BY <1>1, <1>2, <1>3, <5>2 DEF Post
      <4> QED BY <1>4, <1>5, <4>1 DEF PostOK
    <3>4. /\ y.pc \in AcceptedPc \cup {"consume"} => y.late = {}
          /\ y.pc \in {"find", "consume", "resolve"} => y.account = Unread /\ y.member = Unread
          /\ y.pc = "account" => y.role \in Roles
          /\ y.pc = "failed" => y.raced
      BY <1>3, <1>4, <1>5 DEF PostOK
    <3>5. ~(y.pc = "account" /\ ~y.raced)
      BY <1>3, <1>4, <2>2 DEF Pending
    <3>6. y.member \notin {Null, Unread} => member' # Null /\ member'.via = y.member.via
      BY <1>4, <1>5 DEF PostOK
    <3> QED BY <3>1, <3>2, <3>3, <3>4, <3>5, <3>6 DEF PostOK
  <2> QED BY <2>1, <2>2
<1> QED BY <1>2, <1>6 DEF PostOK, Fresh

\* What the steps that change only requests and answers keep: a request that is gone
\* stays gone, and an answer that was given stays.
LEMMA OnlyRequests ==
  ASSUME SignOnInv, UNCHANGED <<idp, rule, user, member, post, op, edits>>,
         request' \in [Requests -> {"none", "open", "gone"}],
         answer' \in [Requests -> Answers \cup {Null}],
         \A r \in Requests : request[r] = "gone" => request'[r] = "gone",
         \A r \in Requests : answer[r] # Null => answer'[r] = answer[r]
  PROVE  SignOnInv'
<1>1. LoginTypeOK'
  BY DEF SignOnInv, LoginTypeOK
<1>2. ASSUME NEW q \in Posts PROVE PostOK(post[q])'
  <2>1. PICK x : x = post[q]
    OBVIOUS
  <2>2. PostOK(x) /\ x \in Post /\ post'[q] = x
    BY <2>1 DEF SignOnInv, LoginTypeOK
  <2>3. CASE x.pc = "idle"
    <3>1. x = IdlePost
      BY <2>2, <2>3 DEF PostOK
    <3> QED BY <2>2, <3>1 DEF PostOK, IdlePost, AcceptedPc
  <2>4. CASE x.pc # "idle"
    <3>1. x.on \in Requests /\ answer[x.on] \in Answers
      BY <2>2, <2>4 DEF PostOK
    <3>2. answer'[x.on] = answer[x.on]
      BY <3>1, FederationAssumption
    <3>3. Fresh(x) => Fresh(x)'
      BY <3>2 DEF Fresh
    <3>4. request[x.on] = "gone" => request'[x.on] = "gone"
      BY <3>1
    <3> QED BY <2>2, <2>4, <3>1, <3>2, <3>3, <3>4 DEF PostOK
  <2> QED BY <2>3, <2>4
<1>3. \A o \in Operators : CallOK(op[o])'
  BY DEF SignOnInv, CallOK
<1>4. SwitchesInOrder'
  BY DEF SignOnInv, SwitchesInOrder
<1> QED BY <1>1, <1>2, <1>3, <1>4 DEF SignOnInv

\* The steps of the round trip keep the invariant: a request is sent,
LEMMA InitiateKeepsSignOn ==
  ASSUME SignOnInv, NEW r \in Requests, Initiate(r) PROVE SignOnInv'
BY OnlyRequests DEF Initiate, SignOnInv, LoginTypeOK

\* ... expires,
LEMMA ExpireKeepsSignOn ==
  ASSUME SignOnInv, NEW r \in Requests, Expire(r) PROVE SignOnInv'
BY OnlyRequests DEF Expire, SignOnInv, LoginTypeOK

\* ... is answered;
LEMMA AnswerKeepsSignOn ==
  ASSUME SignOnInv, NEW r \in Requests, Answer(r) PROVE SignOnInv'
BY OnlyRequests DEF Answer, SignOnInv, LoginTypeOK

\* A call that arrives after another was accepted for its request finds the request gone.
LEMMA ArriveKeepsSignOn ==
  ASSUME SignOnInv, NEW p \in Posts, NEW r \in Requests, Arrive(p, r) PROVE SignOnInv'
<1> DEFINE late == {q \in Posts : post[q].on = r /\ Accepted(q)}
<1>1. PICK y : y = post'[p]
  OBVIOUS
<1>2. y.pc \in {"find", "refused"} /\ y.on = r /\ y.late = late /\ ~y.raced
      /\ y.account = Unread /\ y.member = Unread
  BY <1>1 DEF Arrive, SignOnInv, LoginTypeOK, IdlePost
<1>3. y \in Post
  BY <1>1, FederationAssumption DEF Arrive, SignOnInv, LoginTypeOK, IdlePost, Post, Provider
<1>4. late # {} => request[r] = "gone"
  BY DEF SignOnInv, PostOK, Accepted, AcceptedPc
<1>5. answer[r] \in Answers
  BY DEF Arrive, SignOnInv, LoginTypeOK
<1>6. UNCHANGED <<idp, rule, request, answer, user, member, op, edits>>
      /\ post' = [post EXCEPT ![p] = post'[p]]
  BY DEF Arrive, SignOnInv, LoginTypeOK
<1>7. PostOK(y)'
  BY <1>2, <1>4, <1>5, <1>6 DEF PostOK, AcceptedPc
<1>8. PostOK(post[p])'
  BY <1>1, <1>7 DEF PostOK, Fresh
<1>9. request \in [Requests -> {"none", "open", "gone"}]
  BY DEF SignOnInv, LoginTypeOK
<1> QED BY <1>1, <1>3, <1>6, <1>8, <1>9, OnePost

\* A call that finds its request open has nobody accepted before it.
LEMMA FindKeepsSignOn ==
  ASSUME SignOnInv, NEW p \in Posts, Find(p) PROVE SignOnInv'
<1>1. PICK x : x = post[p]
  OBVIOUS
<1>2. x \in Post /\ PostOK(x) /\ x.pc = "find"
  BY <1>1 DEF SignOnInv, LoginTypeOK, Find
<1>3. PICK y : y = post'[p]
  OBVIOUS
<1>4. /\ y = [x EXCEPT !.pc = IF request[x.on] = "open" THEN "consume" ELSE "refused"]
      /\ post' = [post EXCEPT ![p] = post'[p]]
  BY <1>1, <1>3 DEF SignOnInv, LoginTypeOK, Find
<1>5. y \in Post /\ y.pc \in {"consume", "refused"} /\ y.on = x.on /\ y.late = x.late
      /\ y.account = x.account /\ y.member = x.member
      /\ (y.pc = "consume" => request[x.on] = "open")
  BY <1>2, <1>4 DEF Post
<1>6. UNCHANGED <<idp, rule, request, answer, user, member, op, edits>>
  BY DEF Find
<1>7. /\ x.on \in Requests /\ answer[x.on] \in Answers
      /\ x.late # {} => request[x.on] = "gone"
      /\ x.account = Unread /\ x.member = Unread
  BY <1>2 DEF PostOK
<1>8. PostOK(y)'
  <2>1. y.pc = "consume" => y.late = {}
    BY <1>5, <1>7
  <2>2. y.late # {} => request'[y.on] = "gone"
    BY <1>5, <1>6, <1>7
  <2>3. y.on \in Requests /\ answer'[y.on] \in Answers
    BY <1>5, <1>6, <1>7
  <2> QED BY <1>5, <1>7, <2>1, <2>2, <2>3 DEF PostOK, AcceptedPc
<1>9. PostOK(post[p])'
  BY <1>3, <1>8 DEF PostOK, Fresh
<1>10. request \in [Requests -> {"none", "open", "gone"}]
  BY DEF SignOnInv, LoginTypeOK
<1> QED BY <1>3, <1>4, <1>5, <1>6, <1>9, <1>10, OnePost

\* Whoever passes the check has used the request up.
LEMMA ConsumeKeepsSignOn ==
  ASSUME SignOnInv, NEW p \in Posts, Consume(p) PROVE SignOnInv'
<1>1. PICK x : x = post[p]
  OBVIOUS
<1>2. x \in Post /\ PostOK(x) /\ x.pc = "consume"
  BY <1>1 DEF SignOnInv, LoginTypeOK, Consume
<1>3. PICK y : y = post'[p]
  OBVIOUS
<1>4. /\ y = [x EXCEPT !.pc = IF answer[x.on].key = x.key THEN "resolve" ELSE "refused"]
      /\ post' = [post EXCEPT ![p] = post'[p]]
  BY <1>1, <1>3 DEF SignOnInv, LoginTypeOK, Consume
<1>5. y \in Post /\ y.pc \in {"resolve", "refused"} /\ y.on = x.on /\ y.late = x.late
      /\ y.account = x.account /\ y.member = x.member
  BY <1>2, <1>4 DEF Post
<1>6. x.on \in Requests /\ x.late = {}
  BY <1>2 DEF PostOK
<1>7. request' = [request EXCEPT ![x.on] = "gone"]
  BY <1>1 DEF Consume
<1>8. request' \in [Requests -> {"none", "open", "gone"}] /\ request'[x.on] = "gone"
      /\ \A r \in Requests : request[r] = "gone" => request'[r] = "gone"
  BY <1>6, <1>7 DEF SignOnInv, LoginTypeOK
<1>9. PostOK(y)'
  BY <1>2, <1>5, <1>6, <1>8 DEF PostOK, AcceptedPc, Consume
<1>10. PostOK(post[p])'
  BY <1>3, <1>9 DEF PostOK, Fresh
<1> QED BY <1>3, <1>4, <1>5, <1>8, <1>10, OnePost DEF Consume

\* What is resolved is fresh: the provider and its mappings were just read.
LEMMA ResolveKeepsSignOn ==
  ASSUME SignOnInv, NEW p \in Posts, Resolve(p) PROVE SignOnInv'
<1>1. PICK x : x = post[p]
  OBVIOUS
<1>2. x \in Post /\ PostOK(x) /\ x.pc = "resolve"
  BY <1>1 DEF SignOnInv, LoginTypeOK, Resolve
<1>3. PICK y : y = post'[p]
  OBVIOUS
<1>4. post' = [post EXCEPT ![p] = post'[p]]
  BY DEF SignOnInv, LoginTypeOK, Resolve
<1>5. x.on \in Requests /\ answer[x.on] \in Answers /\ x.account = Unread /\ x.member = Unread
      /\ request[x.on] = "gone" /\ x.late = {}
  BY <1>2 DEF PostOK, AcceptedPc
<1>6. ASSUME idp # Null /\ idp.enabled PROVE y \in Post /\ PostOK(y)'
  <2>1. PICK role \in Resolved(answer[x.on].groups, rule, idp.default) :
          y = [x EXCEPT !.pc = "account", !.role = role, !.jit = idp.jit]
    BY <1>1, <1>3, <1>6 DEF Resolve, SignOnInv, LoginTypeOK
  <2>2. idp \in Provider /\ rule \in [Claims -> Roles \cup {Null}]
    BY <1>6 DEF SignOnInv, LoginTypeOK
  <2>3. answer[x.on].groups \in SUBSET Claims /\ idp.default \in Roles /\ idp.jit \in BOOLEAN
    BY <1>5, <2>2, FederationAssumption DEF Provider
  <2>4. PICK groups : groups = answer[x.on].groups
    OBVIOUS
  <2>5. PICK default : default = idp.default
    OBVIOUS
  <2>6. role \in Roles
    BY <2>1, <2>2, <2>3, <2>4, <2>5, ResolvedRoles
  <2>7. y \in Post /\ y.pc = "account" /\ y.role = role /\ y.jit = idp.jit /\ y.on = x.on
        /\ y.account = Unread /\ y.member = Unread /\ y.late = x.late
    BY <1>2, <1>5, <2>1, <2>3, <2>6 DEF Post
  <2>8. Fresh(y)'
    BY <1>6, <2>1, <2>7 DEF Fresh, Resolve
  <2>9. PostOK(y)'
    BY <1>5, <2>6, <2>7, <2>8 DEF PostOK, AcceptedPc, Resolve
  <2> QED BY <2>7, <2>9
<1>7. ASSUME ~(idp # Null /\ idp.enabled) PROVE y \in Post /\ PostOK(y)'
  <2>1. y = [x EXCEPT !.pc = "refused"]
    BY <1>1, <1>3, <1>7 DEF Resolve, SignOnInv, LoginTypeOK
  <2>2. y \in Post /\ y.pc = "refused" /\ y.on = x.on /\ y.late = x.late
        /\ y.account = x.account /\ y.member = x.member
    BY <1>2, <2>1 DEF Post
  <2>3. PostOK(y)'
    BY <1>5, <2>2 DEF PostOK, AcceptedPc, Resolve
  <2> QED BY <2>2, <2>3
<1>8. y \in Post /\ PostOK(y)'
  BY <1>6, <1>7
<1>9. PostOK(post[p])'
  BY <1>3, <1>8 DEF PostOK, Fresh
<1> QED BY <1>3, <1>4, <1>8, <1>9, OnePost DEF Resolve, SignOnInv, LoginTypeOK

\* So is the account,
LEMMA ReadUserKeepsSignOn ==
  ASSUME SignOnInv, NEW p \in Posts, ReadUser(p) PROVE SignOnInv'
<1>1. PICK x : x = post[p]
  OBVIOUS
<1>2. x \in Post /\ PostOK(x) /\ x.pc = "account"
  BY <1>1 DEF SignOnInv, LoginTypeOK, ReadUser
<1>3. PICK y : y = post'[p]
  OBVIOUS
<1>4. y = [x EXCEPT !.account = user] /\ post' = [post EXCEPT ![p] = post'[p]]
  BY <1>1, <1>3 DEF SignOnInv, LoginTypeOK, ReadUser
<1>5. y \in Post /\ y.account = user /\ y.pc = x.pc /\ y.on = x.on /\ y.late = x.late
      /\ y.role = x.role /\ y.jit = x.jit /\ y.member = x.member /\ y.raced = x.raced
  BY <1>2, <1>4 DEF Post, SignOnInv, LoginTypeOK
<1>6. PostOK(y)'
  BY <1>2, <1>5 DEF PostOK, Fresh, AcceptedPc, ReadUser
<1>7. PostOK(post[p])'
  BY <1>3, <1>6 DEF PostOK, Fresh
<1> QED BY <1>3, <1>4, <1>5, <1>7, OnePost DEF ReadUser, SignOnInv, LoginTypeOK

\* ... and the membership.
LEMMA ReadMemberKeepsSignOn ==
  ASSUME SignOnInv, NEW p \in Posts, ReadMember(p) PROVE SignOnInv'
<1>1. PICK x : x = post[p]
  OBVIOUS
<1>2. x \in Post /\ PostOK(x) /\ x.pc = "account"
  BY <1>1 DEF SignOnInv, LoginTypeOK, ReadMember
<1>3. PICK y : y = post'[p]
  OBVIOUS
<1>4. y = [x EXCEPT !.member = member] /\ post' = [post EXCEPT ![p] = post'[p]]
  BY <1>1, <1>3 DEF SignOnInv, LoginTypeOK, ReadMember
<1>5. y \in Post /\ y.member = member /\ y.pc = x.pc /\ y.on = x.on /\ y.late = x.late
      /\ y.role = x.role /\ y.jit = x.jit /\ y.account = x.account /\ y.raced = x.raced
  BY <1>2, <1>4 DEF Post, SignOnInv, LoginTypeOK
<1>6. PostOK(y)'
  BY <1>2, <1>5 DEF PostOK, Fresh, AcceptedPc, ReadMember
<1>7. PostOK(post[p])'
  BY <1>3, <1>6 DEF PostOK, Fresh
<1> QED BY <1>3, <1>4, <1>5, <1>7, OnePost DEF ReadMember, SignOnInv, LoginTypeOK

\* What the transaction of a login does with what it read, x: it writes nothing, and
\* breaks on an index only if it was raced ...
Refuses(p, x) ==
  /\ UNCHANGED <<user, member>>
  /\ \E pc \in {"refused", "failed"} :
       /\ post' = [post EXCEPT ![p] = [x EXCEPT !.pc = pc]]
       /\ pc = "failed" => x.raced

\* ... or it leaves the membership, re-syncs one that sign-on made, or makes one where
\* there is none.
Provisioned(x) == [role |-> x.role, via |-> "SSO_JIT"]

Accepts(p, x) ==
  /\ user'
  /\ post' = Raced([post EXCEPT ![p] = [x EXCEPT !.pc = "in"]], {p},
                   user' # user \/ member' # member)
  /\ \/ /\ member' = member /\ x.member \notin {Null, Unread}
        /\ ~(x.jit /\ x.member.via = "SSO_JIT" /\ x.member.role # x.role)
     \/ /\ x.member \notin {Null, Unread} /\ x.member.via = "SSO_JIT"
        /\ member' = Provisioned(x)
     \/ x.member = Null /\ member = Null /\ member' = Provisioned(x)

\* A transaction does one or the other.
LEMMA WriteOutcome ==
  ASSUME SignOnInv, NEW p \in Posts, Write(p), NEW x, x = post[p]
  PROVE  x.pc = "account" /\ (Refuses(p, x) \/ Accepts(p, x))
<1> DEFINE outcome == Outcome(x.member, x.role, x.jit)
           clash == Clashes(x.account, outcome)
           ends(pc) == [post EXCEPT ![p] = [x EXCEPT !.pc = pc]]
<1>1. x \in Post /\ PostOK(x)
  BY DEF SignOnInv, LoginTypeOK
<1>2. /\ x.pc = "account" /\ x.account # Unread /\ x.member # Unread
      /\ IF outcome = "deny" \/ clash
         THEN /\ post' = ends(IF outcome = "deny" THEN "refused" ELSE "failed")
              /\ UNCHANGED <<user, member>>
         ELSE /\ user' = TRUE
              /\ member' = IF outcome = "touch" THEN member
                           ELSE [role |-> x.role, via |-> "SSO_JIT"]
              /\ post' = Raced(ends("in"), {p}, user' # user \/ member' # member)
  BY DEF Write
<1>3. /\ outcome = "create" => x.member = Null
      /\ outcome = "touch" =>
           x.member # Null
             /\ ~(x.jit /\ x.member.via = "SSO_JIT" /\ x.member.role # x.role)
      /\ outcome = "update" => x.member # Null /\ x.member.via = "SSO_JIT"
      /\ outcome \in {"create", "deny", "touch", "update"}
  BY DEF Outcome
<1>4. clash => x.raced
  <2> SUFFICES ASSUME clash, ~x.raced PROVE FALSE
    OBVIOUS
  <2>1. x.account = user /\ x.member = member
    BY <1>1, <1>2 DEF PostOK, Fresh
  <2> QED BY <1>3, <2>1 DEF Clashes, SignOnInv, LoginTypeOK
<1>5. CASE outcome = "deny" \/ clash
  <2>1. PICK pc : pc = IF outcome = "deny" THEN "refused" ELSE "failed"
    OBVIOUS
  <2>2. pc \in {"refused", "failed"} /\ (pc = "failed" => x.raced)
    BY <1>4, <1>5, <2>1
  <2>3. post' = ends(pc) /\ UNCHANGED <<user, member>>
    BY <1>2, <1>5, <2>1
  <2> QED BY <1>2, <2>2, <2>3 DEF Refuses
<1>6. CASE ~(outcome = "deny" \/ clash)
  <2>1. outcome = "create" => member = Null
    BY <1>6 DEF Clashes
  <2>2. \/ outcome = "touch" /\ member' = member
        \/ outcome = "update" /\ member' = [role |-> x.role, via |-> "SSO_JIT"]
        \/ outcome = "create" /\ member' = [role |-> x.role, via |-> "SSO_JIT"]
    BY <1>2, <1>3, <1>6
  <2>3. user' /\ post' = Raced(ends("in"), {p}, user' # user \/ member' # member)
    BY <1>2, <1>6
  <2> HIDE DEF outcome
  <2> QED BY <1>2, <1>3, <2>1, <2>2, <2>3 DEF Accepts, Provisioned
<1> QED BY <1>5, <1>6

\* No login takes a membership away or changes who made it, nor one made by hand.
LEMMA WriteKeepsMembership ==
  ASSUME SignOnInv, NEW p \in Posts, Write(p), member # Null
  PROVE  /\ member' # Null /\ member'.via = member.via
         /\ member.via = "MANUAL" => member' = member
<1>1. PICK x : x = post[p]
  OBVIOUS
<1>2. x.member \notin {Null, Unread} => member.via = x.member.via
  BY <1>1 DEF SignOnInv, PostOK
<1>3. CASE member' = member
  BY <1>3
<1>4. CASE member' # member
  <2>1. x.member \notin {Null, Unread} /\ x.member.via = "SSO_JIT"
        /\ member' = Provisioned(x)
    BY <1>1, <1>4, WriteOutcome DEF Refuses, Accepts
  <2>2. member' \in Membership
    BY <1>1, <2>1, WriteOutcome DEF SignOnInv, PostOK, Membership, Provisioned
  <2> QED BY <1>2, <2>1, <2>2, FederationAssumption DEF Provisioned
<1> QED BY <1>3, <1>4

\* A step that changes what the calls read keeps the invariant, once they are marked.
LEMMA ConfiguredKeepsSignOn ==
  ASSUME SignOnInv, NEW row \in Provider \cup {Null}, NEW rules \in [Claims -> Roles \cup {Null}],
         Configured(row, rules), SwitchesInOrder', op' \in [Operators -> Call],
         \A o \in Operators : CallOK(op[o])', edits' \in 0..MaxEdits
  PROVE  SignOnInv'
<1>1. post \in [Posts -> Post]
  BY DEF SignOnInv, LoginTypeOK
<1>2. post' \in [Posts -> Post]
  BY <1>1, RacedCalls DEF Configured
<1>3. LoginTypeOK'
  BY <1>2 DEF Configured, SignOnInv, LoginTypeOK
<1>4. \A q \in Posts \ {} : post[q] = post[q] => PostOK(post[q])'
  <2>1. PICK posts : posts = post
    OBVIOUS
  <2>2. post' = Raced(posts, {}, TRUE) /\ UNCHANGED <<request, answer>> /\ posts \in [Posts -> Post]
        /\ (member # Null => member' # Null /\ member'.via = member.via)
    BY <1>1, <2>1 DEF Configured
  <2>3. \A q \in Posts \ {} : posts[q] = post[q] => PostOK(post[q])'
    BY <2>2, RacedStayOK
  <2> QED BY <2>1, <2>3
<1> QED BY <1>3, <1>4 DEF SignOnInv

\* A registration adds the account, and races the calls in flight.
LEMMA RegisterKeepsSignOn ==
  ASSUME SignOnInv, Register PROVE SignOnInv'
<1>1. post \in [Posts -> Post]
  BY DEF SignOnInv, LoginTypeOK
<1>2. post' \in [Posts -> Post]
  BY <1>1, RacedCalls DEF Register
<1>3. LoginTypeOK'
  BY <1>2 DEF Register, SignOnInv, LoginTypeOK
<1>4. \A q \in Posts : PostOK(post[q])'
  <2>1. PICK posts : posts = post
    OBVIOUS
  <2>2. post' = Raced(posts, {}, TRUE) /\ UNCHANGED <<request, answer>> /\ posts \in [Posts -> Post]
        /\ (member # Null => member' # Null /\ member'.via = member.via)
    BY <1>1, <2>1 DEF Register
  <2>3. \A q \in Posts \ {} : posts[q] = post[q] => PostOK(post[q])'
    BY <2>2, RacedStayOK
  <2> QED BY <2>1, <2>3
<1>5. \A o \in Operators : CallOK(op[o])'
  BY DEF Register, SignOnInv, CallOK
<1> QED BY <1>3, <1>4, <1>5 DEF SignOnInv, SwitchesInOrder, Register

\* The transaction of a login keeps the invariant.
LEMMA WriteKeepsSignOn ==
  ASSUME SignOnInv, NEW p \in Posts, Write(p) PROVE SignOnInv'
<1>1. PICK x : x = post[p]
  OBVIOUS
<1>2. x \in Post /\ PostOK(x) /\ x.pc = "account"
  BY <1>1, WriteOutcome DEF SignOnInv, LoginTypeOK
<1>3. UNCHANGED <<idp, rule, request, answer, op, edits>>
  BY DEF Write
<1>4. x.role \in Roles /\ x.on \in Requests /\ answer[x.on] \in Answers
      /\ request[x.on] = "gone" /\ x.late = {}
  BY <1>2 DEF PostOK, AcceptedPc
<1>5. request \in [Requests -> {"none", "open", "gone"}] /\ post \in [Posts -> Post]
  BY DEF SignOnInv, LoginTypeOK
<1>6. ASSUME Refuses(p, x) PROVE SignOnInv'
  <2> PICK pc \in {"refused", "failed"} :
        post' = [post EXCEPT ![p] = [x EXCEPT !.pc = pc]] /\ (pc = "failed" => x.raced)
    BY <1>6 DEF Refuses
  <2>1. PICK y : y = [x EXCEPT !.pc = pc]
    OBVIOUS
  <2>2. y \in Post /\ y.pc = pc /\ y.on = x.on /\ y.late = x.late
        /\ y.account = x.account /\ y.member = x.member /\ y.raced = x.raced
    BY <1>2, <2>1 DEF Post
  <2>3. PostOK(y)'
    BY <1>2, <1>3, <1>4, <1>6, <2>2 DEF PostOK, AcceptedPc, Refuses
  <2>4. post'[p] = y
    BY <1>5, <2>1
  <2>5. PostOK(post[p])'
    BY <2>3, <2>4 DEF PostOK, Fresh
  <2>6. post' = [post EXCEPT ![p] = post'[p]]
    BY <2>1, <2>4
  <2> QED BY <1>3, <1>5, <1>6, <2>2, <2>4, <2>5, <2>6, OnePost DEF Refuses
<1>7. ASSUME Accepts(p, x) PROVE SignOnInv'
  <2>1. PICK y : y = [x EXCEPT !.pc = "in"]
    OBVIOUS
  <2>2. y \in Post /\ y.pc = "in" /\ y.on = x.on /\ y.late = x.late
        /\ y.account = x.account /\ y.member = x.member /\ y.raced = x.raced
    BY <1>2, <2>1 DEF Post
  <2>3. PICK posts : posts = [post EXCEPT ![p] = y]
    OBVIOUS
  <2>4. PICK changed : changed = (user' # user \/ member' # member)
    OBVIOUS
  <2>5. posts \in [Posts -> Post] /\ posts[p] = y /\ changed \in BOOLEAN
        /\ \A q \in Posts \ {p} : posts[q] = post[q]
    BY <1>5, <2>2, <2>3, <2>4
  <2>6. post' = Raced(posts, {p}, changed)
    BY <1>7, <2>1, <2>3, <2>4 DEF Accepts
  <2>7. post' \in [Posts -> Post] /\ post'[p] = y
    <3>1. PICK done \in SUBSET Posts : done = {p}
      OBVIOUS
    <3>2. Raced(posts, done, changed) \in [Posts -> Post]
      BY <2>5, RacedCalls, Zenon
    <3>3. Raced(posts, done, changed)[p] = posts[p]
      <4>1. Raced(posts, done, changed)[p] = [y EXCEPT !.raced = @ \/ FALSE]
        BY <2>5, <3>1 DEF Raced
      <4> QED BY <2>2, <2>5, <4>1 DEF Post
    <3> QED BY <2>5, <2>6, <3>1, <3>2, <3>3
  <2>8. member' \in Membership \cup {Null}
    BY <1>4, <1>7 DEF Accepts, Provisioned, SignOnInv, LoginTypeOK, Membership
  <2>9. LoginTypeOK'
    BY <1>3, <1>7, <2>7, <2>8 DEF Accepts, SignOnInv, LoginTypeOK
  <2>10. member # Null => member' # Null /\ member'.via = member.via
    BY WriteKeepsMembership
  <2>11. \A q \in Posts \ {p} : PostOK(post[q])'
    <3>1. ~changed => UNCHANGED <<idp, rule, user, member>>
      BY <1>3, <2>4
    <3>2. \A q \in Posts \ {p} : posts[q] = post[q] => PostOK(post[q])'
      BY <1>3, <2>5, <2>6, <2>10, <3>1, RacedStayOK
    <3> QED BY <2>5, <3>2
  <2>12. PostOK(post[p])'
    <3>1. y.member \notin {Null, Unread} => member' # Null /\ member'.via = y.member.via
      BY <1>2, <2>2, <2>10 DEF PostOK
    <3>2. PostOK(y)'
      BY <1>3, <1>4, <2>2, <3>1 DEF PostOK, AcceptedPc
    <3> QED BY <2>7, <3>2 DEF PostOK, Fresh
  <2>13. \A o \in Operators : CallOK(op[o])'
    BY <1>3 DEF SignOnInv, CallOK
  <2>14. SwitchesInOrder'
    BY <1>3 DEF SignOnInv, SwitchesInOrder
  <2> QED BY <2>9, <2>11, <2>12, <2>13, <2>14 DEF SignOnInv
<1> QED BY <1>1, <1>6, <1>7, WriteOutcome, Zenon

\* A saved configuration keeps the switches, or starts with both off.
LEMMA SaveKeepsSignOn ==
  ASSUME SignOnInv, Save PROVE SignOnInv'
<1>1. PICK c \in Configs :
        Configured(IF idp = Null THEN Saved(c)
                   ELSE [idp EXCEPT !.protocol = c.protocol, !.key = c.key, !.domain = c.domain,
                                    !.jit = c.jit, !.default = c.default], rule)
  BY DEF Save
<1>2. /\ c.protocol \in {"SAML", "OIDC"} /\ c.key \in Keys \cup {Null} /\ c.domain \in BOOLEAN
      /\ c.jit \in BOOLEAN /\ c.default \in Roles
  BY FederationAssumption
<1>3. PICK row : row = IF idp = Null THEN Saved(c)
                   ELSE [idp EXCEPT !.protocol = c.protocol, !.key = c.key, !.domain = c.domain,
                                    !.jit = c.jit, !.default = c.default]
  OBVIOUS
<1>4. row \in Provider /\ (idp = Null => ~row.enabled /\ ~row.enforced)
      /\ (idp # Null => row.enabled = idp.enabled /\ row.enforced = idp.enforced
                          /\ row.pinned = idp.pinned /\ row.raced = idp.raced)
  <2>1. CASE idp = Null
    BY <1>2, <1>3, <2>1 DEF Saved, Provider
  <2>2. CASE idp # Null
    <3>1. idp \in Provider
      BY <2>2 DEF SignOnInv, LoginTypeOK
    <3> QED BY <1>2, <1>3, <2>2, <3>1 DEF Provider
  <2> QED BY <2>1, <2>2
<1>5. SwitchesInOrder'
  BY <1>1, <1>3, <1>4 DEF SignOnInv, SwitchesInOrder, Configured
<1>6. op' = op /\ edits' \in 0..MaxEdits
  BY FederationAssumption DEF Save, Edit, SignOnInv, LoginTypeOK
<1>7. op' \in [Operators -> Call] /\ (\A o \in Operators : CallOK(op[o])')
      /\ rule \in [Claims -> Roles \cup {Null}]
  BY <1>6 DEF SignOnInv, LoginTypeOK, CallOK
<1>8. PICK rules : rules = rule
  OBVIOUS
<1>9. Configured(row, rules)
  BY <1>1, <1>3, <1>8
<1> QED BY <1>4, <1>5, <1>6, <1>7, <1>8, <1>9, ConfiguredKeepsSignOn

\* A provider that is gone has no switches.
LEMMA DeleteKeepsSignOn ==
  ASSUME SignOnInv, Delete PROVE SignOnInv'
<1>1. Configured(Null, Unmapped) /\ Unmapped \in [Claims -> Roles \cup {Null}]
  BY DEF Delete, Unmapped
<1>2. SwitchesInOrder'
  BY <1>1 DEF SwitchesInOrder, Configured
<1>3. op' = op /\ edits' \in 0..MaxEdits
  BY FederationAssumption DEF Delete, Edit, SignOnInv, LoginTypeOK
<1>4. op' \in [Operators -> Call] /\ (\A o \in Operators : CallOK(op[o])')
  BY <1>3 DEF SignOnInv, LoginTypeOK, CallOK
<1> QED BY <1>1, <1>2, <1>3, <1>4, ConfiguredKeepsSignOn

\* A mapping touches no switch.
LEMMA SaveRuleKeepsSignOn ==
  ASSUME SignOnInv, SaveRule PROVE SignOnInv'
<1>1. PICK to \in Mappings : Configured(idp, to)
  BY DEF SaveRule
<1>2. to \in [Claims -> Roles \cup {Null}]
  BY FederationAssumption
<1>3. SwitchesInOrder'
  BY <1>1 DEF SignOnInv, SwitchesInOrder, Configured
<1>4. op' = op /\ edits' \in 0..MaxEdits
  BY FederationAssumption DEF SaveRule, Edit, SignOnInv, LoginTypeOK
<1>5. op' \in [Operators -> Call] /\ (\A o \in Operators : CallOK(op[o])')
  BY <1>4 DEF SignOnInv, LoginTypeOK, CallOK
<1>6. PICK row : row = idp
  OBVIOUS
<1>7. Configured(row, to) /\ row \in Provider \cup {Null}
  BY <1>1, <1>6 DEF SignOnInv, LoginTypeOK
<1> QED BY <1>2, <1>3, <1>4, <1>5, <1>7, ConfiguredKeepsSignOn

\* A switch has read a row that allowed it.
LEMMA ReadKeepsSignOn ==
  ASSUME SignOnInv, NEW o \in Operators, Read(o) PROVE SignOnInv'
<1>1. PICK kind \in {"verify", "enable", "disable", "enforce", "release"} :
        Allows(kind, idp) /\ op' = [op EXCEPT ![o] = [kind |-> kind, read |-> idp]]
  BY DEF Read
<1>2. idp \in Provider /\ UNCHANGED <<idp, rule, request, answer, user, member, post>>
  BY DEF Read, SignOnInv, LoginTypeOK
<1>3. op' \in [Operators -> Call]
  BY <1>1, <1>2 DEF SignOnInv, LoginTypeOK, Call
<1>4. edits' \in 0..MaxEdits
  BY FederationAssumption DEF Read, Edit, SignOnInv, LoginTypeOK
<1>5. \A o2 \in Operators : CallOK(op[o2])'
  BY <1>1, <1>2 DEF SignOnInv, LoginTypeOK, CallOK, Allows
<1>6. \A q \in Posts : PostOK(post[q])'
  BY <1>2 DEF SignOnInv, PostOK, Fresh
<1> QED BY <1>2, <1>3, <1>4, <1>5, <1>6 DEF SignOnInv, LoginTypeOK, SwitchesInOrder

\* A switch of a row that is as the switch read it leaves the switches in order: what it
\* asked for when it read still holds.
LEMMA SwitchedInOrder ==
  ASSUME NEW kind \in {"verify", "enable", "disable", "enforce", "release"},
         NEW read \in Provider, NEW row \in Provider, NEW key \in Keys, Allows(kind, read)
  PROVE  LET new == Switched(kind, read, row, key)
         IN /\ new \in Provider /\ new.raced = row.raced
            /\ (read = row /\ (row.enabled => row.pinned # Null) /\ (row.enforced => row.enabled))
                 => (new.enabled => new.pinned # Null) /\ (new.enforced => new.enabled)
<1> DEFINE new == Switched(kind, read, row, key)
<1> key # Null /\ Null # "issuer"
  BY FederationAssumption
<1>1. CASE kind = "verify"
  <2>1. CASE read.protocol = "SAML"
    <3>1. new = [row EXCEPT !.key = key, !.pinned = key]
      BY <1>1, <2>1 DEF Switched
    <3> QED BY <3>1 DEF Provider
  <2>2. CASE read.protocol = "OIDC"
    <3>1. new = [row EXCEPT !.pinned = "issuer"]
      BY <1>1, <2>2 DEF Switched
    <3> QED BY <3>1 DEF Provider
  <2> QED BY <2>1, <2>2 DEF Provider
<1>2. CASE kind = "enable"
  <2>1. new = [row EXCEPT !.enabled = TRUE]
    BY <1>2 DEF Switched
  <2>2. read.pinned # Null
    BY <1>2 DEF Allows
  <2> QED BY <2>1, <2>2 DEF Provider
<1>3. CASE kind = "disable"
  <2>1. new = [row EXCEPT !.enabled = FALSE, !.enforced = FALSE]
    BY <1>3 DEF Switched
  <2> QED BY <2>1 DEF Provider
<1>4. CASE kind = "enforce"
  <2>1. new = [row EXCEPT !.enforced = TRUE]
    BY <1>4 DEF Switched
  <2>2. read.enabled
    BY <1>4 DEF Allows
  <2> QED BY <2>1, <2>2 DEF Provider
<1>5. CASE kind = "release"
  <2>1. new = [row EXCEPT !.enforced = FALSE]
    BY <1>5 DEF Switched
  <2> QED BY <2>1 DEF Provider
<1> QED BY <1>1, <1>2, <1>3, <1>4, <1>5

\* The update of a switch: in order if the row is as it was read, else marked.
LEMMA UpdateKeepsSignOn ==
  ASSUME SignOnInv, NEW o \in Operators, Update(o) PROVE SignOnInv'
<1>1. PICK call : call = op[o]
  OBVIOUS
<1>2. /\ call \in Call /\ call.kind # "none" /\ CallOK(call) /\ op' = [op EXCEPT ![o] = NoCall]
      /\ op \in [Operators -> Call] /\ UNCHANGED edits
  BY <1>1 DEF Update, SignOnInv, LoginTypeOK
<1>3. NoCall \in Call /\ NoCall.kind = "none"
  BY DEF NoCall, Call
<1>4. op' \in [Operators -> Call] /\ \A o2 \in Operators : op'[o2] \in {op[o2], NoCall}
  BY <1>2, <1>3
<1>5. \A o2 \in Operators : CallOK(op[o2])'
  BY <1>3, <1>4 DEF SignOnInv, CallOK
<1>6. CASE idp = Null
  <2>1. UNCHANGED <<idp, rule, request, answer, user, member, post>>
    BY <1>6 DEF Update
  <2>2. \A q \in Posts : PostOK(post[q])'
    BY <2>1 DEF SignOnInv, PostOK, Fresh
  <2> QED BY <1>2, <1>4, <1>5, <2>1, <2>2 DEF SignOnInv, LoginTypeOK, SwitchesInOrder
<1>7. CASE idp # Null
  <2>1. PICK key \in Keys :
          Configured([Switched(call.kind, call.read, idp, key) EXCEPT
                        !.raced = @ \/ call.read # idp], rule)
    BY <1>1, <1>7 DEF Update
  <2>2. PICK row : row = idp
    OBVIOUS
  <2>3. row \in Provider /\ call.read \in Provider /\ Allows(call.kind, call.read)
        /\ call.kind \in {"verify", "enable", "disable", "enforce", "release"}
    BY <1>2, <1>7, <2>2 DEF CallOK, Call, SignOnInv, LoginTypeOK
  <2>4. PICK new : new = Switched(call.kind, call.read, row, key)
    OBVIOUS
  <2>5. /\ new \in Provider /\ new.raced = row.raced
        /\ (call.read = row /\ (row.enabled => row.pinned # Null)
              /\ (row.enforced => row.enabled))
             => (new.enabled => new.pinned # Null) /\ (new.enforced => new.enabled)
    BY <2>3, <2>4, SwitchedInOrder
  <2>6. PICK raced : raced = (new.raced \/ call.read # row)
    OBVIOUS
  <2>7. PICK final : final = [new EXCEPT !.raced = raced]
    OBVIOUS
  <2>8. /\ final \in Provider /\ final.raced = raced /\ final.enabled = new.enabled
        /\ final.pinned = new.pinned /\ final.enforced = new.enforced
    BY <2>5, <2>6, <2>7 DEF Provider
  <2>9. PICK rules : rules = rule
    OBVIOUS
  <2>10. Configured(final, rules) /\ rules \in [Claims -> Roles \cup {Null}]
    BY <2>1, <2>2, <2>4, <2>6, <2>7, <2>9 DEF SignOnInv, LoginTypeOK
  <2>11. idp' = final
    BY <2>10 DEF Configured
  <2>12. row.raced \/ ((row.enabled => row.pinned # Null) /\ (row.enforced => row.enabled))
    BY <1>7, <2>2 DEF SignOnInv, SwitchesInOrder
  <2>13. SwitchesInOrder'
    BY <2>5, <2>6, <2>8, <2>11, <2>12 DEF SwitchesInOrder
  <2>14. edits' \in 0..MaxEdits
    BY <1>2 DEF SignOnInv, LoginTypeOK
  <2> QED BY <1>4, <1>5, <2>8, <2>10, <2>13, <2>14, ConfiguredKeepsSignOn
<1> QED BY <1>6, <1>7

\* The initial states are in the invariant,
LEMMA SignOnInit == LoginInit => SignOnInv
<1> SUFFICES ASSUME LoginInit PROVE SignOnInv
  OBVIOUS
<1>1. idp \in Provider \cup {Null} /\ SwitchesInOrder
  <2>1. CASE idp = Null
    BY <2>1 DEF SwitchesInOrder
  <2>2. CASE idp # Null
    <3>1. PICK c \in Configs :
            c.key # Null /\ idp = [Saved(c) EXCEPT !.pinned = c.key, !.enabled = TRUE]
      BY <2>2 DEF LoginInit
    <3>2. /\ c.protocol \in {"SAML", "OIDC"} /\ c.key \in Keys /\ c.domain \in BOOLEAN
          /\ c.jit \in BOOLEAN /\ c.default \in Roles
      BY <3>1, FederationAssumption
    <3> QED BY <3>1, <3>2 DEF Saved, Provider, SwitchesInOrder
  <2> QED BY <2>1, <2>2
<1>2. rule \in [Claims -> Roles \cup {Null}]
  BY FederationAssumption DEF LoginInit, Unmapped
<1>3. IdlePost \in Post
  BY DEF IdlePost, Post
<1>4. \A p \in Posts : PostOK(post[p])
  BY DEF LoginInit, PostOK, IdlePost, AcceptedPc
<1>5. op \in [Operators -> Call] /\ \A o \in Operators : CallOK(op[o])
  BY DEF LoginInit, NoCall, Call, CallOK
<1>6. LoginTypeOK
  <2>1. /\ request \in [Requests -> {"none", "open", "gone"}]
        /\ answer \in [Requests -> Answers \cup {Null}]
        /\ user \in BOOLEAN
        /\ post \in [Posts -> Post]
    BY <1>3 DEF LoginInit
  <2>2. member \in Membership \cup {Null}
    BY DEF LoginInit
  <2>3. edits = 0 /\ MaxEdits \in Nat
    BY FederationAssumption, Zenon DEF LoginInit
  <2>4. edits \in 0..MaxEdits
    BY <2>3
  <2> QED BY <1>1, <1>2, <1>5, <2>1, <2>2, <2>4 DEF LoginTypeOK
<1> QED BY <1>1, <1>4, <1>5, <1>6 DEF SignOnInv

\* ... every step stays in it,
LEMMA SignOnStep == SignOnInv /\ [LoginNext]_loginVars => SignOnInv'
<1> SUFFICES ASSUME SignOnInv, [LoginNext]_loginVars PROVE SignOnInv'
  OBVIOUS
<1>1. CASE \E r \in Requests : Initiate(r) \/ Expire(r) \/ Answer(r)
  BY <1>1, InitiateKeepsSignOn, ExpireKeepsSignOn, AnswerKeepsSignOn
<1>2. CASE \E p \in Posts, r \in Requests : Arrive(p, r)
  BY <1>2, ArriveKeepsSignOn
<1>3. CASE \E p \in Posts : Find(p) \/ Consume(p) \/ Resolve(p)
  BY <1>3, FindKeepsSignOn, ConsumeKeepsSignOn, ResolveKeepsSignOn
<1>4. CASE \E p \in Posts : ReadUser(p) \/ ReadMember(p) \/ Write(p)
  BY <1>4, ReadUserKeepsSignOn, ReadMemberKeepsSignOn, WriteKeepsSignOn
<1>5. CASE Register
  BY <1>5, RegisterKeepsSignOn
<1>6. CASE Save \/ Delete \/ SaveRule
  BY <1>6, SaveKeepsSignOn, DeleteKeepsSignOn, SaveRuleKeepsSignOn
<1>7. CASE \E o \in Operators : Read(o) \/ Update(o)
  BY <1>7, ReadKeepsSignOn, UpdateKeepsSignOn
<1>8. CASE UNCHANGED loginVars
  <2>1. \A q \in Posts : PostOK(post[q])'
    BY <1>8 DEF SignOnInv, PostOK, Fresh, loginVars
  <2> QED BY <1>8, <2>1 DEF SignOnInv, LoginTypeOK, SwitchesInOrder, CallOK, loginVars
<1> QED BY <1>1, <1>2, <1>3, <1>4, <1>5, <1>6, <1>7, <1>8 DEF LoginNext

\* ... and so every state is.
LEMMA SignOnInvariant == LoginSpec => []SignOnInv
BY SignOnInit, SignOnStep, PTL DEF LoginSpec

\* Every value of the sign-on model is of its type.
THEOREM LoginTypeCorrect == LoginSpec => []LoginTypeOK
<1>1. SignOnInv => LoginTypeOK
  BY DEF SignOnInv
<1> QED BY <1>1, SignOnInvariant, PTL

\* A response is accepted from two posts only if they overlapped (saml-sso.ts,
\* saml-cache.ts): whoever comes after an accepted one finds the request gone.
THEOREM AcceptedOnceUnlessOverlapped == LoginSpec => []AcceptedTwiceOverlapped
<1>1. SignOnInv => AcceptedTwiceOverlapped
  BY DEF SignOnInv, PostOK, AcceptedTwiceOverlapped, Accepted, AcceptedPc
<1> QED BY <1>1, SignOnInvariant, PTL

\* A provider is on only once verified and enforced only while it is on, unless a switch
\* was written over a row that had changed under it (server/actions/identity).
THEOREM SwitchesStayInOrder == LoginSpec => []SwitchesInOrder
<1>1. SignOnInv => SwitchesInOrder
  BY DEF SignOnInv
<1> QED BY <1>1, SignOnInvariant, PTL

\* A login breaks on the unique indexes only if something came in between.
THEOREM OnlyRacedLoginsFail == LoginSpec => []FailedLoginsRaced
<1>1. SignOnInv => FailedLoginsRaced
  BY DEF SignOnInv, PostOK, FailedLoginsRaced
<1> QED BY <1>1, SignOnInvariant, PTL

\* No step takes a membership away, or changes one that an administrator made
\* (identity-jit.ts, computeJitOutcome).
THEOREM LoginsLeaveManualAssignments == LoginSpec => ManualAssignmentsStand
<1> DEFINE A == member # Null =>
                  (member' # Null /\ (member.via = "MANUAL" => member' = member))
<1>1. SignOnInv /\ [LoginNext]_loginVars => [A]_loginVars
  <2> SUFFICES ASSUME SignOnInv, [LoginNext]_loginVars PROVE A
    OBVIOUS
  <2>1. CASE \E p \in Posts : Write(p)
    BY <2>1, WriteKeepsMembership
  <2>2. CASE ~(\E p \in Posts : Write(p))
    <3>1. member' = member
      BY <2>2 DEF LoginNext, loginVars, Initiate, Expire, Answer, Arrive, Find, Consume,
                  Resolve, ReadUser, ReadMember, Register, Save, Delete, SaveRule, Read,
                  Update, Configured
    <3> QED BY <3>1
  <2> QED BY <2>1, <2>2
<1>2. ManualAssignmentsStand <=> [][A]_loginVars
  BY DEF ManualAssignmentsStand
<1> QED BY <1>1, <1>2, SignOnInvariant, PTL DEF LoginSpec

\* Only the transaction of a login lets it in.
LEMMA OnlyWriteLetsIn ==
  ASSUME SignOnInv, LoginNext, NEW p \in Posts, post[p].pc = "account", post'[p].pc = "in"
  PROVE  Write(p)
<1>1. post \in [Posts -> Post]
  BY DEF SignOnInv, LoginTypeOK
<1>2. ASSUME NEW done \in SUBSET Posts, NEW changed \in BOOLEAN, NEW posts \in [Posts -> Post],
             posts[p].pc # "in", post' = Raced(posts, done, changed)
      PROVE  FALSE
  <2>1. PICK y : y = post'[p]
    OBVIOUS
  <2>2. y = [posts[p] EXCEPT !.raced = y.raced]
    BY <1>2, <2>1, RacedCalls
  <2>3. posts[p] \in Post
    BY <1>2
  <2> QED BY <1>2, <2>1, <2>2, <2>3 DEF Post
<1>3. ~(\E r \in Requests : Initiate(r) \/ Expire(r) \/ Answer(r))
  BY DEF Initiate, Expire, Answer
<1>4. ~(\E q \in Posts, r \in Requests : Arrive(q, r))
  BY <1>1 DEF Arrive
<1>5. ~(\E q \in Posts : Find(q) \/ Consume(q) \/ Resolve(q))
  BY <1>1 DEF Find, Consume, Resolve
<1>6. ~(\E q \in Posts : ReadUser(q) \/ ReadMember(q))
  <2> SUFFICES ASSUME NEW q \in Posts, ReadUser(q) \/ ReadMember(q) PROVE FALSE
    OBVIOUS
  <2>1. q # p => post'[p] = post[p]
    BY <1>1 DEF ReadUser, ReadMember
  <2>2. q = p => post'[p].pc = post[p].pc
    BY <1>1 DEF ReadUser, ReadMember, Post
  <2> QED BY <2>1, <2>2
<1>7. ~(\E q \in Posts : q # p /\ Write(q))
  <2> SUFFICES ASSUME NEW q \in Posts, q # p, Write(q) PROVE FALSE
    OBVIOUS
  <2>1. PICK x : x = post[q]
    OBVIOUS
  <2>2. x \in Post
    BY <1>1, <2>1
  <2>3. Refuses(q, x) \/ Accepts(q, x)
    BY <2>1, WriteOutcome
  <2>4. CASE Refuses(q, x)
    BY <1>1, <2>4 DEF Refuses
  <2>5. CASE Accepts(q, x)
    <3>1. PICK posts : posts = [post EXCEPT ![q] = [x EXCEPT !.pc = "in"]]
      OBVIOUS
    <3>2. PICK done : done = {q}
      OBVIOUS
    <3>3. PICK changed : changed = (user' # user \/ member' # member)
      OBVIOUS
    <3>4. posts[p] = post[p] /\ posts \in [Posts -> Post]
      BY <1>1, <2>2, <3>1 DEF Post
    <3>5. post' = Raced(posts, done, changed)
      BY <2>5, <3>1, <3>2, <3>3 DEF Accepts
    <3>6. done \in SUBSET Posts /\ changed \in BOOLEAN
      BY <3>2, <3>3
    <3> QED BY <1>2, <3>4, <3>5, <3>6
  <2> QED BY <2>3, <2>4, <2>5
<1>8. post' # Raced(post, {}, TRUE)
  <2>1. PICK posts : posts = post
    OBVIOUS
  <2>2. post' # Raced(posts, {}, TRUE)
    BY <1>1, <1>2, <2>1
  <2> QED BY <2>1, <2>2
<1>9. ~Register /\ ~Save /\ ~Delete /\ ~SaveRule
  BY <1>8 DEF Register, Save, Delete, SaveRule, Configured
<1>10. ~(\E o \in Operators : Read(o) \/ Update(o))
  BY <1>8 DEF Read, Update, Configured
<1> QED BY <1>3, <1>4, <1>5, <1>6, <1>7, <1>9, <1>10 DEF LoginNext

\* A login that nothing came in between leaves a membership that sign-on made with the
\* role its groups map to now (applyFederatedLogin, computeJitOutcome, mapping.ts).
THEOREM LoginsLeaveTheMappedRole == LoginSpec => LoginsSyncTheRole
<1> DEFINE A == \A p \in Posts :
       (post[p].pc = "account" /\ post'[p].pc = "in" /\ ~post[p].raced /\ idp.jit
          /\ member'.via = "SSO_JIT")
       => member'.role \in Resolved(answer[post[p].on].groups, rule, idp.default)
<1>1. SignOnInv /\ [LoginNext]_loginVars => [A]_loginVars
  <2> SUFFICES ASSUME SignOnInv, LoginNext, NEW p \in Posts,
                      post[p].pc = "account", post'[p].pc = "in", ~post[p].raced, idp.jit,
                      member'.via = "SSO_JIT"
               PROVE  member'.role \in Resolved(answer[post[p].on].groups, rule, idp.default)
    OBVIOUS
  <2>1. Write(p)
    BY OnlyWriteLetsIn
  <2>2. PICK x : x = post[p]
    OBVIOUS
  <2>3. x.pc = "account" /\ ~x.raced /\ PostOK(x) /\ x \in Post
    BY <2>2 DEF SignOnInv, LoginTypeOK
  <2>4. x.jit = idp.jit /\ x.member \in {Unread, member}
        /\ x.role \in Resolved(answer[x.on].groups, rule, idp.default)
    BY <2>3 DEF PostOK, Fresh
  <2>5. CASE member' = Provisioned(x)
    BY <2>2, <2>4, <2>5 DEF Provisioned
  <2>6. CASE member' # Provisioned(x)
    <3>1. post \in [Posts -> Post]
      BY DEF SignOnInv, LoginTypeOK
    <3>2. ~Refuses(p, x)
      BY <2>3, <3>1 DEF Refuses, Post
    <3>3. Accepts(p, x)
      BY <2>1, <2>2, <3>2, WriteOutcome
    <3>4. /\ member' = member /\ x.member \notin {Null, Unread}
          /\ ~(x.jit /\ x.member.via = "SSO_JIT" /\ x.member.role # x.role)
      BY <2>6, <3>3 DEF Accepts
    <3>5. x.member = member /\ x.member.role = x.role
      BY <2>4, <3>4
    <3> QED BY <2>2, <2>4, <3>4, <3>5
  <2> QED BY <2>5, <2>6
<1>2. LoginsSyncTheRole <=> [][A]_loginVars
  BY DEF LoginsSyncTheRole
<1> QED BY <1>1, <1>2, SignOnInvariant, PTL DEF LoginSpec
=============================================================================
