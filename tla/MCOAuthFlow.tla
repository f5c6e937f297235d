----------------------------- MODULE MCOAuthFlow -----------------------------
(* OAuthFlow with model values for TLC.                                    *)
EXTENDS OAuthFlow, TLC

CONSTANTS c1, c2, u1, u2, a1, a2, s1, s2

OneClient  == {c1}
TwoClients == {c1, c2}
OneURI     == {u1}
TwoURIs    == {u1, u2}
OneToken   == {a1}
TwoTokens  == {a1, a2}
OneSubmit  == {s1}
TwoSubmits == {s1, s2}

Symmetric == Permutations(Clients) \cup Permutations(URIs) \cup Permutations(ApiTokens)
             \cup Permutations(Submits)
=============================================================================
