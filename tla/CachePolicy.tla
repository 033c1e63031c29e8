---------------------------- MODULE CachePolicy ----------------------------
(***************************************************************************)
(* What is cached and under which key: the configured rules                *)
(* (internal/server/rule) and the header conditions of shouldCache and     *)
(* cacheKey (internal/server/handle_proxy_default.go).                     *)
(*                                                                         *)
(* A URL is [path, rawPath, query]: path stands for scheme, host and the   *)
(* decoded path, rawPath for the path's spelling where it is not the usual *)
(* one (/a%2Fb for /a/b), query is a set of <<name, value>> pairs.  A      *)
(* Cache-Control field is the set of its directives' names.                *)
(***************************************************************************)
EXTENDS Naturals, Sequences

CONSTANTS
  Rules,   \* the configured rules, in order
  None

Directives == {"no-store", "private", "must-revalidate", "public", "s-maxage", "max-age"}

RequestHeader == [cacheControl : SUBSET Directives, pragmaNoCache : BOOLEAN,
                  authorization : BOOLEAN]
AnswerHeader == [cacheControl : SUBSET Directives, vary : BOOLEAN]

(* matches: the URLs that the rule's regular expression matches. *)
ASSUME RulesType ==
  /\ Len(Rules) \in Nat /\ DOMAIN Rules = 1 .. Len(Rules)
  /\ \A i \in DOMAIN Rules : /\ Rules[i].ignoreAuthorizationHeader \in BOOLEAN
                             /\ Rules[i].directConnect \in BOOLEAN
                             /\ None # Rules[i]

(* Rules.Get: the first rule that matches. *)
RuleFor(url) ==
  LET hits == {i \in DOMAIN Rules : url \in Rules[i].matches}
  IN  IF hits = {} THEN None
      ELSE Rules[CHOOSE i \in hits : \A j \in hits : i <= j]

(* The key keeps neither the spelling of the path nor the parameters that  *)
(* the rule ignores.                                                       *)
CacheKey(url) ==
  LET rule == RuleFor(url)
      ignored == IF rule = None THEN {} ELSE rule.ignoredParameters
  IN  [path |-> url.path, query |-> {p \in url.query : p[1] \notin ignored}]

IsDirectConnect(rule) == rule # None /\ rule.directConnect

IsCacheableCacheControl(cc) == "no-store" \notin cc /\ "private" \notin cc

CacheControlExplicitlyAllows(cc) == cc \cap {"must-revalidate", "public", "s-maxage"} # {}

(* Mutant: the client's Authorization header is not looked at. *)
ShouldCacheAnyone(method, q, status, h, rule) ==
  /\ rule # None
  /\ method = "GET"
  /\ IsCacheableCacheControl(q.cacheControl)
  /\ ~ q.pragmaNoCache
  /\ IsCacheableCacheControl(h.cacheControl)
  /\ ~ h.vary
  /\ status = 200

(* q: the client's headers, h: the upstream's. *)
ShouldCache(method, q, status, h, rule) ==
  /\ rule # None
  /\ method = "GET"
  /\ IsCacheableCacheControl(q.cacheControl)
  /\ ~ q.pragmaNoCache
  /\ IsCacheableCacheControl(h.cacheControl)
  /\ q.authorization => \/ CacheControlExplicitlyAllows(h.cacheControl)
                        \/ rule.ignoreAuthorizationHeader
  /\ ~ h.vary
  /\ status = 200

(* RFC 9111, sections 3 and 3.5: what a shared cache may store.  The       *)
(* operator's rule may lift the condition on requests with credentials.    *)
MayStore(method, q, status, h, rule) ==
  /\ method = "GET" /\ status = 200
  /\ "no-store" \notin q.cacheControl \cup h.cacheControl
  /\ "private" \notin h.cacheControl
  /\ \/ ~ q.authorization
     \/ \E d \in h.cacheControl : d \in {"must-revalidate", "public", "s-maxage"}
     \/ rule.ignoreAuthorizationHeader
=============================================================================
