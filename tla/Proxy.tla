------------------------------- MODULE Proxy -------------------------------
(***************************************************************************)
(* Request handling of a Chacha cluster (internal/server).  A request      *)
(* reaches some node; handleProxyDefault there takes the node's mutex of   *)
(* the cache key, looks the key up on the node that TargetNode names (the  *)
(* local disk, or another node's disk through kv.KV), always asks the      *)
(* upstream, conditionally when it can, and then stores and forwards the   *)
(* answer, serves the cached entry, redirects the client to the target     *)
(* node (direct connect), or passes the answer on.                         *)
(*                                                                         *)
(* Every node reads its list of the cluster's nodes from its own           *)
(* configuration when it starts, so lists may differ while a new           *)
(* configuration is rolled out.                                            *)
(*                                                                         *)
(* A cache is what module Cache promises: Puts are atomic, an entry may    *)
(* vanish at any time.  An upstream resource has a current version; the    *)
(* ETag of a version is the version itself, and Untagged versions are sent *)
(* without one.  Its Last-Modified date is the version too.                *)
(***************************************************************************)
EXTENDS CachePolicy, Rendezvous

CONSTANTS
  Urls,            \* URLs that are requested
  Entrances,       \* nodes that clients use as their proxy
  Configs,         \* lists of nodes that a node may be configured with
  Reqs,            \* client requests, each made once
  MaxVersion,      \* bound on the versions of a resource
  Untagged,        \* versions that the upstream sends without an ETag
  Conditions,      \* If-None-Match values that clients send themselves
  Dates,           \* If-Modified-Since values that clients send themselves
  Methods,         \* subset of {"GET", "POST"}
  RequestHeaders,  \* the other headers that clients send
  AnswerHeaders    \* the headers that the upstream sends

Versions == 1 .. MaxVersion

(* A resource is known by its key: the parameters that a rule ignores and  *)
(* the spelling of the path do not select what the upstream serves.        *)
Keys == {CacheKey(u) : u \in Urls}

ASSUME RankDomain == DOMAIN Rank = Keys
ASSUME EntrancesType == Entrances \subseteq Nodes
ASSUME ConfigsType == Configs \subseteq (SUBSET Nodes) \ {{}}
ASSUME VersionType == MaxVersion \in Nat \ {0}
ASSUME SubsetTypes == /\ Untagged \subseteq Versions
                      /\ Conditions \subseteq Versions
                      /\ Dates \subseteq Versions
                      /\ Methods \subseteq {"GET", "POST"}
                      /\ RequestHeaders \subseteq RequestHeader
                      /\ AnswerHeaders \subseteq AnswerHeader

Tag(v) == IF v \in Untagged THEN None ELSE v

Request == [node : Entrances, url : Urls, method : Methods,
            header : RequestHeaders, cond : Conditions \cup {None},
            since : Dates \cup {None}]
Entry == [ver : Versions, tag : Versions \cup {None}]
Statuses == {200, 304, 307, 401, 403, 404, 412, 500, 502}
Answer == [status : Statuses, ver : Versions \cup {None}, header : AnswerHeaders]

(* A Put that a node has received and not done yet. *)
LatePut == [node : Nodes, entry : Entry]

ASSUME NoneApart == None \notin Nat \cup Nodes \cup Reqs \cup Entry \cup LatePut

(* What the client gets: the status line on the wire, the status code that *)
(* CapturingResponseWriter remembers, the version of the body, whether all *)
(* of that body arrives, and the node that a redirect names; and, of a     *)
(* body that the target node broke off, the status code that was captured  *)
(* there.                                                                  *)
Reply == [wire : Statuses \cup {None}, captured : Statuses \cup {0},
          ver : Versions \cup {None}, whole : BOOLEAN,
          location : Nodes \cup {None}, peer : Statuses \cup {0}]

VARIABLES
  version,   \* version[k]: what the upstream serves now
  nodes,     \* nodes[n]: the list of nodes in n's configuration
  store,     \* store[n][k]: the entry on n's disk, or None
  late,      \* late[r]: the remote Put that outlives r's handler, or None
  lock,      \* lock[n][k]: the request that holds n's kmutex for k, or None
  pc,        \* pc[r]: where the handler of r is
  req,       \* req[r]: the request, once it has arrived
  entry,     \* entry[r]: what cache.Get returned
  answer,    \* answer[r]: the upstream's answer
  current,   \* history: the version the upstream had when it granted r access
  reply      \* reply[r]: what was written to the client

vars == <<version, nodes, store, late, lock, pc, req, entry, answer, current, reply>>

Labels == {"new", "lock", "get", "upstream", "respond", "follow", "done"}

NoReply == [wire |-> None, captured |-> 0, ver |-> None, whole |-> FALSE,
            location |-> None, peer |-> 0]

(* Earlier requests may have left entries of the first version. *)
Init == /\ version = [k \in Keys |-> 1]
        /\ nodes \in [Entrances -> Configs]
        /\ store \in [Nodes -> [Keys -> {None, [ver |-> 1, tag |-> Tag(1)]}]]
        /\ late = [r \in Reqs |-> None]
        /\ lock = [n \in Entrances |-> [k \in Keys |-> None]]
        /\ pc = [r \in Reqs |-> "new"]
        /\ req = [r \in Reqs |-> None]
        /\ entry = [r \in Reqs |-> None]
        /\ answer = [r \in Reqs |-> None]
        /\ current = [r \in Reqs |-> None]
        /\ reply = [r \in Reqs |-> NoReply]
-----------------------------------------------------------------------------
Key(r) == CacheKey(req[r].url)

(* The node that the handler of r takes for the key's target. *)
Target(r) == TargetNode(nodes[req[r].node], Key(r))

Remote(r) == Target(r) # req[r].node
-----------------------------------------------------------------------------
(* Mutant: only the first code is captured. *)
WriteHeaderFirst(w, code) == [w EXCEPT !.captured = IF @ = 0 THEN code ELSE @,
                                       !.wire = IF @ = None THEN code ELSE @]

(* Mutant: what was on the wire before is captured. *)
WriteHeaderLate(w, code) == [w EXCEPT !.captured = w.wire,
                                      !.wire = IF @ = None THEN code ELSE @]

(* http.ResponseWriter behind CapturingResponseWriter: the first           *)
(* WriteHeader, or else the first Write with 200, goes to the wire; only   *)
(* WriteHeader is captured.                                                *)
WriteHeader(w, code) == [w EXCEPT !.captured = code,
                                  !.wire = IF @ = None THEN code ELSE @]

Write(w, v, all) == [w EXCEPT !.wire = IF @ = None THEN 200 ELSE @,
                              !.ver = v, !.whole = all]

(* responder.Code *)
Respond(code) == WriteHeader(NoReply, code)

(* The handler returns, its deferred Unlock runs and the reply is out.     *)
(* What it had looked up and was answered is gone with it.                 *)
Return(r, w, label) ==
  /\ pc' = [pc EXCEPT ![r] = label]
  /\ lock' = [lock EXCEPT ![req[r].node][Key(r)] = None]
  /\ reply' = [reply EXCEPT ![r] = w]
  /\ entry' = [entry EXCEPT ![r] = None]
  /\ answer' = [answer EXCEPT ![r] = None]

Finish(r, w) == Return(r, w, "done")

-----------------------------------------------------------------------------
Arrive(r, q) == /\ pc[r] = "new"
                /\ pc' = [pc EXCEPT ![r] = "lock"]
                /\ req' = [req EXCEPT ![r] = q]
                /\ UNCHANGED <<version, nodes, store, late, lock, entry, answer, current, reply>>

(* Mutant: the kmutex does not exclude. *)
LockShared(r) == /\ pc[r] = "lock"
                 /\ lock' = [lock EXCEPT ![req[r].node][Key(r)] = r]
                 /\ pc' = [pc EXCEPT ![r] = "get"]
                 /\ UNCHANGED <<version, nodes, store, late, req, entry, answer, current, reply>>

Lock(r) == /\ pc[r] = "lock"
           /\ lock[req[r].node][Key(r)] = None
           /\ lock' = [lock EXCEPT ![req[r].node][Key(r)] = r]
           /\ pc' = [pc EXCEPT ![r] = "get"]
           /\ UNCHANGED <<version, nodes, store, late, req, entry, answer, current, reply>>

(* What a node answers to KV.Get: its disk's entry, or 404. *)
ClusterGet(n, k) == store[n][k]

(* cache.Get on the local disk, or KV.Get; a miss is not an error. *)
Lookup(r) == IF Remote(r) THEN ClusterGet(Target(r), Key(r)) ELSE store[req[r].node][Key(r)]

CacheGet(r) == /\ pc[r] = "get"
               /\ entry' = [entry EXCEPT ![r] = Lookup(r)]
               /\ pc' = [pc EXCEPT ![r] = "upstream"]
               /\ UNCHANGED <<version, nodes, store, late, lock, req, answer, current, reply>>

(* Mutant: this path returns without Unlock. *)
CacheFailLocked(r) == /\ pc[r] = "get"
                      /\ pc' = [pc EXCEPT ![r] = "done"]
                      /\ reply' = [reply EXCEPT ![r] = Respond(500)]
                      /\ UNCHANGED <<version, nodes, store, late, lock, req, entry, answer, current>>

(* An I/O error or a broken entry; or the target node cannot be reached. *)
CacheFail(r) == /\ pc[r] = "get"
                /\ Finish(r, Respond(IF Remote(r) THEN 502 ELSE 500))
                /\ UNCHANGED <<version, nodes, store, late, req, current>>
-----------------------------------------------------------------------------
(* Mutant: the cached ETag is not used. *)
ConditionUnused(r) == req[r].cond

(* The If-None-Match that is sent: the cached ETag, over which the         *)
(* client's own headers are then copied.                                   *)
Condition(r) == IF req[r].cond # None THEN req[r].cond
                ELSE IF entry[r] # None THEN entry[r].tag ELSE None

(* Whether the upstream finds the client's, or the cache's, copy current   *)
(* (RFC 9110 13.2.2): If-Modified-Since, which the proxy copies too, does  *)
(* not count beside an If-None-Match or with a method other than GET.      *)
Matches(r) ==
  IF Condition(r) # None THEN Condition(r) = Tag(version[Key(r)])
  ELSE req[r].since # None /\ req[r].method = "GET" /\ version[Key(r)] <= req[r].since

(* Mutant: the kmutex covers only the lookup. *)
UpstreamUnlocks(r, status, h) ==
  /\ pc[r] = "upstream"
  /\ status = 304 => Matches(r) /\ req[r].method = "GET"
  /\ status = 412 => Matches(r) /\ req[r].method # "GET"
  /\ status = 200 => ~ Matches(r)
  /\ answer' = [answer EXCEPT ![r] =
       [status |-> status,
        ver |-> IF status = 200 THEN version[Key(r)] ELSE None,
        header |-> h]]
  /\ current' = [current EXCEPT ![r] = IF status \in {200, 304} THEN version[Key(r)] ELSE None]
  /\ pc' = [pc EXCEPT ![r] = "respond"]
  /\ lock' = [lock EXCEPT ![req[r].node][Key(r)] = None]
  /\ UNCHANGED <<version, nodes, store, late, req, entry, reply>>

(* The upstream, by RFC 9110 13.2.1: access first, preconditions next.     *)
Upstream(r, status, h) ==
  /\ pc[r] = "upstream"
  /\ status = 304 => Matches(r) /\ req[r].method = "GET"
  /\ status = 412 => Matches(r) /\ req[r].method # "GET"
  /\ status = 200 => ~ Matches(r)
  /\ answer' = [answer EXCEPT ![r] =
       [status |-> status,
        ver |-> IF status = 200 THEN version[Key(r)] ELSE None,
        header |-> h]]
  /\ current' = [current EXCEPT ![r] = IF status \in {200, 304} THEN version[Key(r)] ELSE None]
  /\ pc' = [pc EXCEPT ![r] = "respond"]
  /\ UNCHANGED <<version, nodes, store, late, lock, req, entry, reply>>

UpstreamFail(r) == /\ pc[r] = "upstream"
                   /\ Finish(r, Respond(500))
                   /\ UNCHANGED <<version, nodes, store, late, req, current>>
-----------------------------------------------------------------------------
IsFetch(r) == /\ answer[r].status = 200
              /\ ShouldCache(req[r].method, req[r].header, answer[r].status,
                             answer[r].header, RuleFor(req[r].url))

(* Mutant: the entry is served whenever the upstream has nothing better. *)
IsHitOnError(r) == answer[r].status # 200 /\ entry[r] # None

IsHit(r) == answer[r].status = 304 /\ entry[r] # None

(* cache.Put (or KV.Put and handleClusterPut) of the body, which a         *)
(* TeeReader copies to the client meanwhile.                               *)
Stored(r) == [ver |-> answer[r].ver, tag |-> Tag(answer[r].ver)]

Store(r) == store' = [store EXCEPT ![Target(r)][Key(r)] = Stored(r)]

PutOK(r) == /\ pc[r] = "respond"
            /\ IsFetch(r)
            /\ Store(r)
            /\ Finish(r, Write(NoReply, answer[r].ver, TRUE))
            /\ UNCHANGED <<version, nodes, late, req, current>>

(* The Put fails before it read any of the body. *)
PutRefused(r) == /\ pc[r] = "respond"
                 /\ IsFetch(r)
                 /\ Finish(r, Respond(500))
                 /\ UNCHANGED <<version, nodes, store, late, req, current>>

(* The target has all of the body: its disk.Put goes on by itself. *)
Sendable(r) == pc[r] = "respond" /\ IsFetch(r) /\ Remote(r)
Sent(r) == [node |-> Target(r), entry |-> Stored(r)]

(* The Put fails later: all of the body may have been read.  When only the *)
(* answer to a remote Put is lost, the target still does it.               *)
PutFail(r, all, sent) ==
  /\ pc[r] = "respond"
  /\ IsFetch(r)
  /\ sent => all /\ Sendable(r)
  /\ late' = [late EXCEPT ![r] = IF sent THEN Sent(r) ELSE None]
  /\ Finish(r, WriteHeader(Write(NoReply, answer[r].ver, all), 500))
  /\ UNCHANGED <<version, nodes, store, req, current>>

(* The target node does what it was sent, after the handler that sent it   *)
(* has released its kmutex.                                                *)
Land(r) == /\ late[r] # None
           /\ store' = [store EXCEPT ![late[r].node][Key(r)] = late[r].entry]
           /\ late' = [late EXCEPT ![r] = None]
           /\ UNCHANGED <<version, nodes, lock, pc, req, entry, answer, current, reply>>

(* 307 to the target node with a token for the key. *)
Redirect(r) == /\ pc[r] = "respond"
               /\ IsHit(r)
               /\ IsDirectConnect(RuleFor(req[r].url))
               /\ Return(r, [Respond(307) EXCEPT !.location = Target(r)], "follow")
               /\ UNCHANGED <<version, nodes, store, late, req, current>>

(* Mutant: the entry is looked up again. *)
ServeHitReopened(r, all) ==
  /\ pc[r] = "respond"
  /\ IsHit(r)
  /\ ~ IsDirectConnect(RuleFor(req[r].url))
  /\ store[Target(r)][Key(r)] # None
  /\ LET w == Write(Respond(200), store[Target(r)][Key(r)].ver, all)
     IN  Finish(r, IF all THEN w ELSE WriteHeader(w, 500))
  /\ UNCHANGED <<version, nodes, store, late, req, current>>

(* The entry that was opened by CacheGet is copied to the client; the copy *)
(* fails, for one, at the end of a torn entry.                             *)
ServeHit(r, all) ==
  /\ pc[r] = "respond"
  /\ IsHit(r)
  /\ ~ IsDirectConnect(RuleFor(req[r].url))
  /\ LET w == Write(Respond(200), entry[r].ver, all)
     IN  Finish(r, IF all THEN w ELSE WriteHeader(w, 500))
  /\ UNCHANGED <<version, nodes, store, late, req, current>>

(* A body of the target's is copied to the client as far as it gets, and   *)
(* its end taken for the end: what the target captured is not seen here.   *)
Relay(there) == [Write(Respond(200), there.ver, there.whole) EXCEPT !.peer = there.captured]

(* Mutant: handleClusterGet does not report that its copy failed. *)
CutOffUnlogged(v) == Relay(Write(NoReply, v, FALSE))

(* The target node cannot read the entry to its end.  handleClusterGet     *)
(* returns 500 there, too late for the wire, and its body ends as if it    *)
(* were complete: the copy here succeeds.                                  *)
CutOff(v) == Relay(WriteHeader(Write(NoReply, v, FALSE), 500))

ServeCutOff(r) ==
  /\ pc[r] = "respond"
  /\ IsHit(r)
  /\ ~ IsDirectConnect(RuleFor(req[r].url))
  /\ Remote(r)
  /\ Finish(r, CutOff(entry[r].ver))
  /\ UNCHANGED <<version, nodes, store, late, req, current>>

PassThrough(r, all) ==
  /\ pc[r] = "respond"
  /\ ~ IsFetch(r) /\ ~ IsHit(r)
  /\ LET w == Write(Respond(answer[r].status), answer[r].ver, all)
     IN  Finish(r, IF all THEN w ELSE WriteHeader(w, 500))
  /\ UNCHANGED <<version, nodes, store, late, req, current>>
-----------------------------------------------------------------------------
(* The client follows the redirect: handleDirectConnectGet on the target   *)
(* node, without any kmutex.                                               *)
Follow(r, w) == /\ pc' = [pc EXCEPT ![r] = "done"]
                /\ reply' = [reply EXCEPT ![r] = [w EXCEPT !.location = reply[r].location]]
                /\ UNCHANGED <<version, nodes, store, late, lock, req, entry, answer, current>>

DirectHit(r, all) ==
  /\ pc[r] = "follow"
  /\ store[reply[r].location][Key(r)] # None
  /\ LET w == Write(NoReply, store[reply[r].location][Key(r)].ver, all)
     IN  Follow(r, IF all THEN w ELSE WriteHeader(w, 500))

(* No entry any more, the token has expired, or the disk fails. *)
DirectFail(r, status) == /\ pc[r] = "follow"
                         /\ status = 404 => store[reply[r].location][Key(r)] = None
                         /\ Follow(r, Respond(status))
-----------------------------------------------------------------------------
(* The upstream's resource changes. *)
Change(k) == /\ version[k] < MaxVersion
             /\ version' = [version EXCEPT ![k] = @ + 1]
             /\ UNCHANGED <<nodes, store, late, lock, pc, req, entry, answer, current, reply>>

Evict(n, k) == /\ store[n][k] # None
               /\ store' = [store EXCEPT ![n][k] = None]
               /\ UNCHANGED <<version, nodes, late, lock, pc, req, entry, answer, current, reply>>

Active == {"lock", "get", "upstream", "respond"}

(* Node n dies and restarts, perhaps with another list of nodes: its       *)
(* handlers and its kmutex are gone, its disk is not.  What it has sent to *)
(* other nodes they still do, what it was sent it does not.                *)
Crash(n, list, sent) ==
  LET dead == {r \in Reqs : pc[r] \in Active /\ req[r].node = n}
      Here(r) == late[r] # None /\ late[r].node = n
      Reset(f) == [r \in Reqs |-> IF r \in dead THEN None ELSE f[r]]
  IN  /\ dead # {} \/ list # nodes[n] \/ \E r \in Reqs : Here(r)
      /\ sent \subseteq dead
      /\ late' = [r \in Reqs |-> IF r \in sent THEN Sent(r)
                                 ELSE IF Here(r) THEN None ELSE late[r]]
      /\ pc' = [r \in Reqs |-> IF r \in dead THEN "done" ELSE pc[r]]
      /\ lock' = [lock EXCEPT ![n] = [k \in Keys |-> None]]
      /\ nodes' = [nodes EXCEPT ![n] = list]
      /\ entry' = Reset(entry) /\ answer' = Reset(answer)
      /\ UNCHANGED <<version, store, req, current, reply>>

Step(r) == \/ Lock(r) \/ CacheGet(r) \/ CacheFail(r) \/ UpstreamFail(r)
           \/ \E status \in {200, 304, 403, 412}, h \in AnswerHeaders : Upstream(r, status, h)
           \/ PutOK(r) \/ PutRefused(r) \/ Redirect(r) \/ ServeCutOff(r)
           \/ \E all, sent \in BOOLEAN : PutFail(r, all, sent)
           \/ \E all \in BOOLEAN : ServeHit(r, all) \/ PassThrough(r, all)

Client(r) == \/ \E q \in Request : Arrive(r, q)
             \/ \E all \in BOOLEAN : DirectHit(r, all)
             \/ \E status \in {401, 404, 500} : DirectFail(r, status)

Next == \/ \E r \in Reqs : Step(r) \/ Client(r) \/ Land(r)
        \/ \E k \in Keys : Change(k)
        \/ \E n \in Nodes, k \in Keys : Evict(n, k)
        \/ \E n \in Entrances, list \in Configs, sent \in SUBSET {r \in Reqs : Sendable(r)} :
             Crash(n, list, sent)

Spec == Init /\ [][Next]_vars

(* The handlers run, the upstream and the target node answer or fail, and  *)
(* bodies end.  kmutex is not fair, so a waiter is sure to get the lock    *)
(* only once the other requests are served.                                *)
FairSpec == Spec /\ \A r \in Reqs : WF_vars(Step(r))
-----------------------------------------------------------------------------
(* Type correctness of the state. *)
TypeOK == /\ version \in [Keys -> Versions]
          /\ nodes \in [Entrances -> Configs]
          /\ store \in [Nodes -> [Keys -> Entry \cup {None}]]
          /\ late \in [Reqs -> LatePut \cup {None}]
          /\ lock \in [Entrances -> [Keys -> Reqs \cup {None}]]
          /\ pc \in [Reqs -> Labels]
          /\ req \in [Reqs -> Request \cup {None}]
          /\ entry \in [Reqs -> Entry \cup {None}]
          /\ answer \in [Reqs -> Answer \cup {None}]
          /\ current \in [Reqs -> Versions \cup {None}]
          /\ reply \in [Reqs -> Reply]

Done(r) == pc[r] = "done"

(* Every body that the proxy gives a client is the version that the        *)
(* upstream had when the proxy asked it for this very request, whether it  *)
(* came from the upstream or from the cache of whatever node.              *)
ServedIsCurrent ==
  \A r \in Reqs : Done(r) /\ reply[r].ver # None /\ reply[r].location = None
                      => reply[r].ver = current[r]

(* What a client reads by direct connect, a moment later and without a     *)
(* lock, is not older than what the upstream confirmed.  (On one node.)    *)
DirectServesNoOlder ==
  \A r \in Reqs : Done(r) /\ reply[r].ver # None /\ reply[r].location # None
                      => reply[r].ver >= current[r]

(* A client gets a body, or a redirect to one, only after the upstream     *)
(* granted it access in this very request.                                 *)
BodyNeedsAccess ==
  \A r \in Reqs : reply[r].ver # None \/ reply[r].wire = 307 =>
                    current[r] # None

(* A GET does not fetch a body from the upstream while the cache holds     *)
(* that very version with its ETag.  (On one node: nodes do not share      *)
(* their kmutex.)                                                          *)
NoNeedlessFetch ==
  [][\A r \in Reqs :
       /\ pc[r] = "upstream" /\ pc'[r] = "respond"
       /\ req[r].method = "GET" /\ answer'[r].status = 200
       => LET e == store[Target(r)][Key(r)]
          IN  e = None \/ e.tag = None \/ e.ver # answer'[r].ver]_vars

(* An entry is never replaced by an older version.  (On one node.) *)
StoreNeverRegresses ==
  [][\A n \in Nodes, k \in Keys : store[n][k] # None /\ store'[n][k] # None
                                     => store'[n][k].ver >= store[n][k].ver]_vars

(* Whatever is put on a disk comes from an exchange that RFC 9111 lets a   *)
(* shared cache store, or that the key's rule exempts; in particular the   *)
(* answer to a client with credentials is not kept for others unless the   *)
(* upstream or the operator says so.  A Put that a node does after the     *)
(* handler that sent it has ended was permitted when it was sent.          *)
PermittedEnd(r) ==
  /\ pc[r] = "respond" /\ pc'[r] # "respond"
  /\ MayStore(req[r].method, req[r].header, answer[r].status,
              answer[r].header, RuleFor(req[r].url))
StoredIsPermitted ==
  [][/\ \A n \in Nodes, k \in Keys :
          store'[n][k] \notin {store[n][k], None} =>
            \E r \in Reqs : /\ \/ PermittedEnd(r)
                               \/ late[r] = [node |-> n, entry |-> store'[n][k]]
                            /\ Key(r) = k
     /\ \A r \in Reqs : late'[r] \notin {late[r], None} => PermittedEnd(r)]_vars

(* Restarting a node with another list of nodes moves a key only to a node *)
(* that the list gained or away from one that it lost: all other entries   *)
(* are still found.                                                        *)
ReconfigurationMovesLittle ==
  [][\A n \in Entrances, k \in Keys :
       LET old == TargetNode(nodes[n], k)
           new == TargetNode(nodes'[n], k)
       IN  \/ new = old
           \/ new \in nodes'[n] \ nodes[n]
           \/ old \in nodes[n] \ nodes'[n]]_vars

(* Every request is answered, whatever fails in it or in the requests that *)
(* it waits for: every path of the handler releases the kmutex.            *)
RequestsReturn == \A r \in Reqs : pc[r] \in Active ~> pc[r] \in {"follow", "done"}

(* "this should be safe even when making conditional requests": a client   *)
(* that sent no condition is never told that a precondition failed.        *)
NoForeignPrecondition ==
  \A r \in Reqs : reply[r].wire = 412 => req[r].cond # None

(* ServeHTTP logs what it served at a level that it takes from the         *)
(* captured status code.                                                   *)
LogLevel(code) == IF code \in 400 .. 499 THEN "warn"
                  ELSE IF code \in 500 .. 599 THEN "error" ELSE "info"

(* A request that got a 5xx, or whose body broke off after the header went *)
(* out, is logged as an error by the node whose handler met the failure:   *)
(* the client's own, or the target when it is the target that cannot read  *)
(* its entry to the end, which the client's node does not notice.          *)
FailuresAreLogged ==
  \A r \in Reqs :
    /\ Done(r)
    /\ reply[r].wire \in 500 .. 599 \/ (reply[r].ver # None /\ ~ reply[r].whole)
    => "error" \in {LogLevel(reply[r].captured), LogLevel(reply[r].peer)}
=============================================================================
