------------------------------ MODULE MCProxy ------------------------------
(* Instances of Proxy for TLC. *)
EXTENDS Proxy, TLC

CONSTANTS n1, n2, n3, r1, r2, r3

Symmetry == Permutations(Reqs)

(* The same resource, spelled in two ways. *)
Url(raw, params) == [path |-> "/a", rawPath |-> raw, query |-> params]
Plain == Url("", {})
Signed == Url("/%61", {<<"token", "1">>})

OneUrl == {Plain}
TwoUrls == {Plain, Signed}

Rule(urls, ignoreAuth, direct) ==
  [matches |-> urls, ignoreAuthorizationHeader |-> ignoreAuth,
   ignoredParameters |-> {"token"}, directConnect |-> direct]

CachingRule == <<Rule({Plain}, FALSE, FALSE)>>
DirectRule == <<Rule({Plain}, FALSE, TRUE)>>
(* The two URLs share a key, and each has a rule of its own; the last rule *)
(* is hidden by the others.                                                *)
RulePerUrl == <<Rule({Signed}, TRUE, FALSE), Rule({Plain}, FALSE, FALSE),
                Rule({Plain, Signed}, TRUE, TRUE)>>

(* n3 is nearest to every key, then n1, then n2. *)
NearestIsThird ==
  [k \in Keys |-> [n \in Nodes |-> ((n1 :> 1) @@ (n2 :> 2) @@ (n3 :> 0))[n]]]

Asks(cc, pragma, auth) ==
  [cacheControl |-> cc, pragmaNoCache |-> pragma, authorization |-> auth]
PlainRequests == {Asks({}, FALSE, FALSE)}
SomeRequests == {Asks({}, FALSE, TRUE), Asks({"no-store"}, TRUE, FALSE)}

Says(cc, vary) == [cacheControl |-> cc, vary |-> vary]
StorableAnswers == {Says({}, FALSE)}
PlainAnswers == {Says({}, FALSE), Says({"no-store"}, FALSE)}
SomeAnswers == {Says({"max-age"}, FALSE), Says({"private"}, FALSE), Says({"s-maxage"}, FALSE)}
=============================================================================
