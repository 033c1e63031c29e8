------------------------- MODULE CachePolicyProofs --------------------------
(***************************************************************************)
(* The caching decision, for all rules and headers.                        *)
(***************************************************************************)
EXTENDS CachePolicy, TLAPS

(* Whatever shouldCache lets into the cache, RFC 9111 lets a shared cache  *)
(* store, or the rule exempts it.                                          *)
THEOREM CachedIsPermitted ==
  ASSUME NEW method, NEW q \in RequestHeader, NEW status, NEW h \in AnswerHeader, NEW rule,
         ShouldCache(method, q, status, h, rule)
  PROVE  MayStore(method, q, status, h, rule)
<1>1. /\ "no-store" \notin q.cacheControl \cup h.cacheControl
      /\ "private" \notin h.cacheControl
  BY DEF ShouldCache, IsCacheableCacheControl
<1>2. \/ ~ q.authorization
      \/ \E d \in h.cacheControl : d \in {"must-revalidate", "public", "s-maxage"}
      \/ rule.ignoreAuthorizationHeader
  BY DEF ShouldCache, CacheControlExplicitlyAllows
<1> QED BY <1>1, <1>2 DEF ShouldCache, MayStore
=============================================================================
