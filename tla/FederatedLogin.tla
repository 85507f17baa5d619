--------------------------- MODULE FederatedLogin ---------------------------
(***************************************************************************)
(* Single sign-on into one tenant: the identity provider operators set up  *)
(* (server/actions/identity), the SAML round trip of one person's logins   *)
(* (server/services/saml-sso, lib/identity) and the account and membership *)
(* that a login makes or re-syncs (server/services/identity-jit).          *)
(*                                                                         *)
(* A login reads the provider when its response is posted, again when the  *)
(* account is resolved, then the person, and writes in one transaction; a  *)
(* switch of the provider reads its row and then updates it.  Anything     *)
(* else may run in between.                                                *)
(*                                                                         *)
(* node-saml is external: it looks the request of a response up, checks    *)
(* the signature, and removes the request, which it also does when the     *)
(* check fails.  The issuer, SSO URL and certificate of a provider are one *)
(* value, the key its responses are signed with.  The assertion's own      *)
(* times, the ledger entry after a login and the cookie are left out, and  *)
(* an expired request row counts as gone.                                  *)
(***************************************************************************)
EXTENDS Integers, FiniteSets

CONSTANTS
  Requests,   \* ids of the AuthnRequests that may be sent
  Posts,      \* calls of the assertion consumer service
  Operators,  \* calls of the switches of server/actions/identity
  Claims,     \* group claims
  Roles,      \* membership and delivery role as one value
  Keys,       \* what a SAML provider is known by: issuer, SSO URL and certificate
  Priority,   \* Priority[c]: the priority of the mapping of claim c
  Configs,    \* what an operator may save
  Mappings,   \* what the group mappings may be
  Answers,    \* responses of the identity provider
  MaxEdits,   \* bound: operator calls
  Null,       \* no provider, key, role, answer, membership
  Unread      \* what a post has yet to read

VARIABLES
  idp,      \* the IdentityProvider row of the tenant
  rule,     \* rule[c]: the role of the SsoGroupMapping of claim c, or Null
  request,  \* request[r]: whether the SamlAuthRequest row of r is there
  answer,   \* answer[r]: what the identity provider answered
  user,     \* whether the person has a User row
  member,   \* the person's Membership of the tenant
  post,     \* the calls of the assertion consumer service
  op,       \* the operators' calls
  edits     \* calls of operators so far

loginVars == <<idp, rule, request, answer, user, member, post, op, edits>>

\* pinned stands for lastVerifiedAt and metadataFingerprint, which are written together:
\* the key verified, or that it was an OIDC issuer.  raced is history: a switch was
\* written over a row that was no longer as the switch had read it.
Provider ==
  [protocol : {"SAML", "OIDC"}, key : Keys \cup {Null}, domain : BOOLEAN, jit : BOOLEAN,
   default : Roles, pinned : Keys \cup {"issuer", Null}, enabled : BOOLEAN,
   enforced : BOOLEAN, raced : BOOLEAN]

Membership == [role : Roles, via : {"MANUAL", "SSO_JIT"}]

ASSUME FederationAssumption ==
  /\ Priority \in [Claims -> Nat]
  /\ Configs \subseteq [protocol : {"SAML", "OIDC"}, key : Keys \cup {Null},
                        domain : BOOLEAN, jit : BOOLEAN, default : Roles]
  /\ Mappings \subseteq [Claims -> Roles \cup {Null}]
  /\ Answers \subseteq [key : Keys, groups : SUBSET Claims]
  /\ MaxEdits \in Nat
  /\ Null \notin Roles \cup Keys /\ Null # "issuer"
  /\ Null \notin Answers /\ Null \notin Provider /\ Null \notin Membership
  /\ Unread # Null /\ Unread \notin BOOLEAN /\ Unread \notin Membership

\* raced and late are history: what the post reads was changed since it arrived; who had
\* been accepted for the same request before it arrived.
Post ==
  [pc : {"idle", "find", "consume", "resolve", "account", "in", "refused", "failed"},
   on : Requests \cup {Null}, key : Keys \cup {Null}, role : Roles \cup {Null}, jit : BOOLEAN,
   account : BOOLEAN \cup {Unread}, member : Membership \cup {Null, Unread},
   raced : BOOLEAN, late : SUBSET Posts]

Call == [kind : {"none", "verify", "enable", "disable", "enforce", "release"},
         read : Provider \cup {Null}]

IdlePost == [pc |-> "idle", on |-> Null, key |-> Null, role |-> Null, jit |-> FALSE,
             account |-> Unread, member |-> Unread, raced |-> FALSE, late |-> {}]

NoCall == [kind |-> "none", read |-> Null]

Saved(c) == [protocol |-> c.protocol, key |-> c.key, domain |-> c.domain, jit |-> c.jit,
             default |-> c.default, pinned |-> Null, enabled |-> FALSE, enforced |-> FALSE,
             raced |-> FALSE]

Unmapped == [c \in Claims |-> Null]

\* Before federation, or with a verified SAML provider switched on; the person is new, or
\* has an account elsewhere or a membership, which sign-on may have provisioned before.
LoginInit ==
  /\ idp \in {Null} \cup
       {[Saved(c) EXCEPT !.pinned = c.key, !.enabled = TRUE] :
          c \in {d \in Configs : d.protocol = "SAML" /\ d.key # Null}}
  /\ rule \in IF idp = Null THEN {Unmapped} ELSE Mappings
  /\ request = [r \in Requests |-> "none"]
  /\ answer = [r \in Requests |-> Null]
  /\ user \in BOOLEAN
  /\ member \in {Null} \cup (IF user THEN Membership ELSE {})
  /\ post = [p \in Posts |-> IdlePost]
  /\ op = [o \in Operators |-> NoCall]
  /\ edits = 0

Pending == {"find", "consume", "resolve", "account"}

Accepted(p) == post[p].pc \in {"resolve", "account", "in", "failed"}

\* The posts, all but those of done marked as raced if the change concerns them.
Raced(posts, done, changed) ==
  [p \in Posts |-> [posts[p] EXCEPT !.raced =
                 @ \/ (changed /\ p \notin done /\ posts[p].pc \in Pending)]]

(***************************************************************************)
(* mapping.ts, jit.ts, lookup.ts                                           *)
(***************************************************************************)
\* Mutant of Resolved: no default.
ResolvedOrNothing(groups, rules, default) ==
  IF \A c \in groups : rules[c] = Null THEN {Null} ELSE {rules[c] : c \in groups} \ {Null}

\* resolveFederatedRole: the mapping of lowest priority among those of the groups, any of
\* them when equal (nothing orders the rows), else the provider's default.
Resolved(groups, rules, default) ==
  LET hit == {c \in groups : rules[c] # Null}
  IN IF hit = {}
     THEN {default}
     ELSE {rules[c] : c \in {d \in hit : \A e \in hit : Priority[d] <= Priority[e]}}

\* Mutants of Outcome: a membership is never re-synced; a manual one is, too.
OutcomeOnce(seen, role, jit) ==
  IF seen = Null THEN IF jit THEN "create" ELSE "deny" ELSE "touch"

OutcomeForAll(seen, role, jit) ==
  IF seen = Null
  THEN IF jit THEN "create" ELSE "deny"
  ELSE IF jit /\ seen.role # role THEN "update" ELSE "touch"

\* computeJitOutcome
Outcome(seen, role, jit) ==
  IF seen = Null
  THEN IF jit THEN "create" ELSE "deny"
  ELSE IF jit /\ seen.via = "SSO_JIT" /\ seen.role # role THEN "update" ELSE "touch"

\* findSamlIdpForEmail
SignOnOffered ==
  /\ idp # Null
  /\ idp.protocol = "SAML" /\ idp.enabled /\ idp.domain /\ idp.key # Null

\* isSsoEnforcedForEmail
PasswordRefused == idp # Null /\ idp.enabled /\ idp.enforced /\ idp.domain

(***************************************************************************)
(* The round trip                                                          *)
(***************************************************************************)
\* initiateSamlLogin, saveAsync
Initiate(r) ==
  /\ request[r] = "none"
  /\ SignOnOffered
  /\ request' = [request EXCEPT ![r] = "open"]
  /\ UNCHANGED <<idp, rule, answer, user, member, post, op, edits>>

\* The row is pruned once it has expired (pruneExpired, getAsync).
Expire(r) ==
  /\ request[r] = "open"
  /\ request' = [request EXCEPT ![r] = "gone"]
  /\ UNCHANGED <<idp, rule, answer, user, member, post, op, edits>>

\* The identity provider signs a response; it may be posted any number of times.
Answer(r) ==
  /\ request[r] # "none" /\ answer[r] = Null
  /\ \E a \in Answers : answer' = [answer EXCEPT ![r] = a]
  /\ UNCHANGED <<idp, rule, request, user, member, post, op, edits>>

\* handleSamlAcsPost up to the client it builds
Arrive(p, r) ==
  /\ post[p].pc = "idle" /\ answer[r] # Null
  /\ LET open == idp # Null /\ idp.protocol = "SAML" /\ idp.enabled /\ idp.key # Null
     IN post' = [post EXCEPT ![p] =
          [IdlePost EXCEPT !.pc = IF open THEN "find" ELSE "refused",
                           !.on = r, !.key = IF open THEN idp.key ELSE Null,
                           !.late = {q \in Posts : post[q].on = r /\ Accepted(q)}]]
  /\ UNCHANGED <<idp, rule, request, answer, user, member, op, edits>>

\* validatePostResponseAsync looks the request up: getAsync.
Find(p) ==
  /\ post[p].pc = "find"
  /\ post' = [post EXCEPT ![p].pc =
                IF request[post[p].on] = "open" THEN "consume" ELSE "refused"]
  /\ UNCHANGED <<idp, rule, request, answer, user, member, op, edits>>

\* Mutant of Consume: only a response that is refused uses its request up.
ConsumeRefused(p) ==
  /\ post[p].pc = "consume"
  /\ IF answer[post[p].on].key = post[p].key
     THEN /\ post' = [post EXCEPT ![p].pc = "resolve"]
          /\ UNCHANGED request
     ELSE /\ post' = [post EXCEPT ![p].pc = "refused"]
          /\ request' = [request EXCEPT ![post[p].on] = "gone"]
  /\ UNCHANGED <<idp, rule, answer, user, member, op, edits>>

\* ... checks signature and issuer, and removes the request: removeAsync, whose result
\* it does not look at.
Consume(p) ==
  /\ post[p].pc = "consume"
  /\ request' = [request EXCEPT ![post[p].on] = "gone"]
  /\ post' = [post EXCEPT ![p].pc =
                IF answer[post[p].on].key = post[p].key THEN "resolve" ELSE "refused"]
  /\ UNCHANGED <<idp, rule, answer, user, member, op, edits>>

\* applyFederatedLogin reads the provider again, with its mappings.
Resolve(p) ==
  /\ post[p].pc = "resolve"
  /\ IF idp # Null /\ idp.enabled
     THEN \E role \in Resolved(answer[post[p].on].groups, rule, idp.default) :
            post' = [post EXCEPT ![p].pc = "account", ![p].role = role, ![p].jit = idp.jit]
     ELSE post' = [post EXCEPT ![p].pc = "refused"]
  /\ UNCHANGED <<idp, rule, request, answer, user, member, op, edits>>

\* ... and, side by side, the account and the membership.
ReadUser(p) ==
  /\ post[p].pc = "account" /\ post[p].account = Unread
  /\ post' = [post EXCEPT ![p].account = user]
  /\ UNCHANGED <<idp, rule, request, answer, user, member, op, edits>>

ReadMember(p) ==
  /\ post[p].pc = "account" /\ post[p].member = Unread
  /\ post' = [post EXCEPT ![p].member = member]
  /\ UNCHANGED <<idp, rule, request, answer, user, member, op, edits>>

\* Whether the transaction meets a user or a membership it is about to create.  Mutant: a
\* membership is always created together with its user.
ClashesWithAnyUser(seen, outcome) == outcome = "create" /\ (user \/ member # Null)

Clashes(seen, outcome) ==
  \/ seen = FALSE /\ user
  \/ outcome = "create" /\ member # Null

\* The transaction: a user or membership that is there by now breaks the unique index,
\* and nothing is written.
Write(p) ==
  LET seen == post[p].member
      outcome == Outcome(seen, post[p].role, post[p].jit)
      clash == Clashes(post[p].account, outcome)
      ends(pc) == [post EXCEPT ![p].pc = pc]
  IN /\ post[p].pc = "account" /\ Unread \notin {post[p].account, seen}
     /\ IF outcome = "deny" \/ clash
        THEN /\ post' = ends(IF outcome = "deny" THEN "refused" ELSE "failed")
             /\ UNCHANGED <<user, member>>
        ELSE /\ user' = TRUE
             /\ member' = IF outcome = "touch" THEN member
                          ELSE [role |-> post[p].role, via |-> "SSO_JIT"]
             /\ post' = Raced(ends("in"), {p}, user' # user \/ member' # member)
     /\ UNCHANGED <<idp, rule, request, answer, op, edits>>

\* The person registers a workspace of his own: registerOrganization.
Register ==
  /\ ~user
  /\ user' = TRUE
  /\ post' = Raced(post, {}, TRUE)
  /\ UNCHANGED <<idp, rule, request, answer, member, op, edits>>

(***************************************************************************)
(* The operators                                                           *)
(***************************************************************************)
Edit ==
  /\ edits < MaxEdits
  /\ edits' = edits + 1

\* Whatever an operator changes races the posts in flight.
Configured(row, rules) ==
  /\ idp' = row /\ rule' = rules
  /\ post' = Raced(post, {}, TRUE)
  /\ UNCHANGED <<request, answer, user, member>>

\* upsertIdentityProvider: a row that is there keeps its switches and its verification.
Save ==
  /\ Edit
  /\ \E c \in Configs :
       Configured(IF idp = Null THEN Saved(c)
                  ELSE [idp EXCEPT !.protocol = c.protocol, !.key = c.key, !.domain = c.domain,
                                   !.jit = c.jit, !.default = c.default], rule)
  /\ UNCHANGED op

\* deleteIdentityProvider; its mappings go with it.
Delete ==
  /\ Edit /\ idp # Null
  /\ Configured(Null, Unmapped)
  /\ UNCHANGED op

\* upsertGroupMapping, deleteGroupMapping: one claim at a time.
SaveRule ==
  /\ Edit /\ idp # Null
  /\ \E to \in Mappings :
       /\ Cardinality({c \in Claims : to[c] # rule[c]}) = 1
       /\ Configured(idp, to)
  /\ UNCHANGED op

\* verifyIdpMetadata, setIdpEnabled, setIdpEnforced read the row ...
Allows(kind, row) ==
  CASE kind = "enable" -> row.pinned # Null
    [] kind = "enforce" -> row.enabled /\ row.domain
    [] OTHER -> TRUE

Read(o) ==
  /\ Edit /\ op[o].kind = "none" /\ idp # Null
  /\ \E kind \in {"verify", "enable", "disable", "enforce", "release"} :
       /\ Allows(kind, idp)
       /\ op' = [op EXCEPT ![o] = [kind |-> kind, read |-> idp]]
  /\ UNCHANGED <<idp, rule, request, answer, user, member, post>>

\* Mutant of Switched: switching federation off leaves it enforced.
SwitchedOnly(kind, read, row, key) ==
  CASE kind = "verify" /\ read.protocol = "SAML" -> [row EXCEPT !.key = key, !.pinned = key]
    [] kind = "verify" /\ read.protocol = "OIDC" -> [row EXCEPT !.pinned = "issuer"]
    [] kind \in {"enable", "disable"} -> [row EXCEPT !.enabled = (kind = "enable")]
    [] kind \in {"enforce", "release"} -> [row EXCEPT !.enforced = (kind = "enforce")]

\* ... and update it, as it may be by now.
Switched(kind, read, row, key) ==
  CASE kind = "verify" /\ read.protocol = "SAML" -> [row EXCEPT !.key = key, !.pinned = key]
    [] kind = "verify" /\ read.protocol = "OIDC" -> [row EXCEPT !.pinned = "issuer"]
    [] kind = "enable"  -> [row EXCEPT !.enabled = TRUE]
    [] kind = "disable" -> [row EXCEPT !.enabled = FALSE, !.enforced = FALSE]
    [] kind = "enforce" -> [row EXCEPT !.enforced = TRUE]
    [] kind = "release" -> [row EXCEPT !.enforced = FALSE]

Update(o) ==
  /\ op[o].kind # "none"
  /\ IF idp = Null
     THEN UNCHANGED <<idp, rule, request, answer, user, member, post>>
     ELSE \E key \in Keys :
            Configured([Switched(op[o].kind, op[o].read, idp, key) EXCEPT
                          !.raced = @ \/ op[o].read # idp], rule)
  /\ op' = [op EXCEPT ![o] = NoCall]
  /\ UNCHANGED edits

LoginNext ==
  \/ \E r \in Requests : Initiate(r) \/ Expire(r) \/ Answer(r)
  \/ \E p \in Posts, r \in Requests : Arrive(p, r)
  \/ \E p \in Posts :
       \/ Find(p) \/ Consume(p) \/ Resolve(p)
       \/ ReadUser(p) \/ ReadMember(p) \/ Write(p)
  \/ Register
  \/ Save \/ Delete \/ SaveRule
  \/ \E o \in Operators : Read(o) \/ Update(o)

LoginSpec == LoginInit /\ [][LoginNext]_loginVars

(***************************************************************************)
(* Properties                                                              *)
(***************************************************************************)
\* Every value is of its type.
LoginTypeOK ==
  /\ idp \in Provider \cup {Null}
  /\ rule \in [Claims -> Roles \cup {Null}]
  /\ request \in [Requests -> {"none", "open", "gone"}]
  /\ answer \in [Requests -> Answers \cup {Null}]
  /\ user \in BOOLEAN
  /\ member \in Membership \cup {Null}
  /\ post \in [Posts -> Post]
  /\ op \in [Operators -> Call]
  /\ edits \in 0..MaxEdits

\* A response that was accepted is not accepted again from a later post: only posts that
\* overlap, both having found the request before either removed it, both log in.
AcceptedTwiceOverlapped ==
  \A p \in Posts : Accepted(p) => post[p].late = {}

\* A provider is switched on only once verified, and enforced only while it is on, as long
\* as no switch was written over a row that had changed since the switch read it.
SwitchesInOrder ==
  idp # Null =>
    \/ idp.raced
    \/ /\ idp.enabled => idp.pinned # Null
       /\ idp.enforced => idp.enabled

\* A login breaks on the unique indexes only if another login, a registration or an
\* operator came in between; a person's first login, alone, always gets through.
FailedLoginsRaced ==
  \A p \in Posts : post[p].pc = "failed" => post[p].raced

\* A login that nothing came in between leaves a membership that sign-on provisioned with
\* the role its groups map to now, unless provisioning is off.
LoginsSyncTheRole ==
  [][\A p \in Posts :
       (post[p].pc = "account" /\ post'[p].pc = "in" /\ ~post[p].raced /\ idp.jit
          /\ member'.via = "SSO_JIT")
       => member'.role \in Resolved(answer[post[p].on].groups, rule, idp.default)]_loginVars

\* No login takes away a membership or changes one an administrator made.
ManualAssignmentsStand ==
  [][member # Null => (member' # Null /\ (member.via = "MANUAL" => member' = member))]_loginVars

\* What schema.prisma says of a provider, that a saved configuration is not live until an
\* administrator has verified it: the key in use is the verified one.
LiveIsVerified ==
  (idp # Null /\ idp.enabled /\ idp.protocol = "SAML") => idp.key = idp.pinned

\* What docs/USER_MANUAL.md says of enforcement, "those users must come through the
\* identity provider": whom the password form turns away, single sign-on takes.
EnforcedCanSignOn == PasswordRefused => SignOnOffered
=============================================================================
