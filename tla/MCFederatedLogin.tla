--------------------------- MODULE MCFederatedLogin ---------------------------
(* FederatedLogin for TLC: two group claims, the second of higher priority; *)
(* a provider with provisioning, one without, and one over OIDC.            *)
EXTENDS FederatedLogin, TLC

CONSTANTS c1, c2, k1, k2, boss, hand

MCPriority == [c \in {c1, c2} |-> IF c = c1 THEN 2 ELSE 1]

Config(protocol, key, domain, jit) ==
  [protocol |-> protocol, key |-> key, domain |-> domain, jit |-> jit, default |-> hand]

MCConfigs == {Config("SAML", k1, TRUE, TRUE), Config("SAML", k2, TRUE, FALSE),
              Config("OIDC", Null, FALSE, TRUE)}

MCMappings == {[c \in {c1, c2} |-> IF c = c1 THEN hand ELSE boss],
               [c \in {c1, c2} |-> IF c = c1 THEN hand ELSE Null]}

MCAnswers == {[key |-> k1, groups |-> {c1, c2}], [key |-> k2, groups |-> {}]}

Symmetry == Permutations(Posts)
===============================================================================
