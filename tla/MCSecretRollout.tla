--------------------------- MODULE MCSecretRollout -----------------------------
(* SecretRollout for two specs over two Secrets and a persona ConfigMap. *)
EXTENDS SecretRollout

CONSTANTS s1, s2, p1

\* The GitHub Secret is shared with the web search.
Proxied ==
    [NoRefs EXCEPT !["credential"] = s1, !["webSearch"] = s2, !["github"] = s2]

\* A channel is used by both Deployments.
Mixed ==
    [NoRefs EXCEPT !["channel"] = s2, !["git"] = s1, !["password"] = s1,
                   !["persona"] = p1]

MCSpecs == {Proxied, Mixed}
=============================================================================
