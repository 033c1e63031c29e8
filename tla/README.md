# Chacha in TLA+

Chacha is an HTTP caching proxy that can spread its cache over a cluster. This
directory holds a TLA+ model of it, the TLC runs that check the model on small
instances, and TLAPS proofs of its central promises. `PROJECT.json` lists the
parts, the runs, the mutants, the source lines behind every definition, the
findings and the hazards; this file explains them.

## 1. The system

| Part | State it keeps | Operations | Hard because |
|---|---|---|---|
| Disk cache (`internal/cache/disk`) | a directory of ZIP files, a limit, one mutex; temporary files and open readers per call | `Get`, `Put` (copy without the mutex, `accept`/`evict` with it), `Delete`, `Reader.Read`, `Reader.Close`, `New` | overlapping Puts, eviction in several system calls any of which may fail, crashes, power loss without fsync, readers that outlive their entry |
| Cache interface (`internal/cache/cache.go`) | a map from keys to objects | `Get`, `Put` | what callers may rely on is written nowhere |
| Request routing (`server.go`) | none | `ServeHTTP`: own request, CONNECT, or proxied | a node that does not recognise its own name calls itself; handlers wait for handlers of other nodes while they hold locks |
| Proxy handler (`handle_proxy_default.go`) | a per-key lock per node; per request: entry, upstream answer, reply | lock, look up, ask the upstream, then fetch and store / serve / redirect / pass through | two requests of one key, on one node and on two; upstream changes, failures between any two steps |
| Cache policy (`shouldCache`, `cacheKey`, `rule`) | the configured rules | `Rules.Get`, cache key, `shouldCache` | many header conditions; URLs with different rules may share a key |
| Rendezvous hashing (`server/cluster`) | each node's list of nodes | `TargetNode` | nodes with different lists while a list is rolled out |
| Cluster protocol (`cache/kv`, `handle_kv.go`) | none of its own | remote `Get`, `Put` | a Put may be done although its answer is lost, and after its sender gave up; a body that the target breaks off looks complete |
| Direct connect (`handle_direct_connect.go`) | none (signed tokens) | redirect, check of the token, fetch without a lock | the entry changes in between; two clocks; a changed secret |
| Cluster health (`cluster_health.go`) | results channel, wait group | fan out, time out, collect, observe | bounded channel, checks that end in any order |
| CONNECT (`handle_proxy_connect.go`, `singleconnlistener`) | hijacked connection, one-connection listener | hijack, handshake, hand over to an ephemeral server | the handler returns while the connection is still served |
| Status capture (`capturingresponsewriter`) | last status code | `WriteHeader`, `Write` | implicit and superfluous headers |
| Local network helper (`pkg/localnetworkhelper`) | request channel, map of outstanding tokens, two stream sockets, a child process with a goroutine per request | `PrivilegedDialContext`, `handleRequests`, `handleResponses`, `Serve`, `handleRequest`, `Close` | unframed messages, descriptors bound to segments, replies out of order, cancellation, child's death |
| Start-up (`run.go`, `privdrop`) | configuration | start helper, drop privileges, serve | (sequential) |

A client's request enters `ServeHTTP` on some node, directly or through a TLS
tunnel that a CONNECT opened. `handleProxyDefault` uses the node's own disk or,
through `kv.KV`, the disk of `TargetNode(key)`; both are `cache.Cache`. A hit
may be answered by a redirect to that node with a signed token. Requests to
other nodes are dialed through the local network helper when privileges were
dropped. A metrics callback checks the health of all nodes.

What makes each part correct:

* disk cache: it is an atomic map whatever overlaps, fails or crashes, and what
  is read from it to the end is a whole object; it never grows above its limit; it evicts only when it must and the
  least recently used first; no call hangs;
* proxy: a body is the version that the upstream confirmed for that very
  request, and the upstream granted that request access; nothing is stored that
  a shared cache must not store; the per-key lock saves needless fetches and
  keeps the entry from going back; every request ends, and a failed one is
  logged as an error somewhere;
* routing: a request to a recognised host needs at most one lock at a time and
  is answered; any other ends when its client leaves;
* hashing: all handlers with one list agree, and another list moves few keys;
* tokens: they work as long as they should, and not much longer;
* health: the callback returns, reports every node once, and truthfully;
* helper: every call gets its own connection or an error, is never forgotten,
  and returns when its context ends.

## 2. Modules

    Cache               abstract cache      <--- implemented by DiskCache,
                                                 assumed by Proxy
    Sums                lo.SumBy
    DiskCache           the disk cache                 EXTENDS Sums, INSTANCE Cache
    CachePolicy         rules, keys, shouldCache       (operators)
    Rendezvous          TargetNode                     (operators)
    Proxy               proxied requests in a cluster  EXTENDS CachePolicy, Rendezvous
    Server              routing, CONNECT, cluster health
    DirectConnect       tokens and clocks
    LocalNetworkHelper  parent and child process
    SumTheorems, DiskCacheProofs, RendezvousProofs, CachePolicyProofs,
    DirectConnectProofs, ProxyProofs, HelperProofs, ServerProofs
                                            proofs
    MCDiskCache, MCProxy, MCServer, MCDirectConnect, MCLocalNetworkHelper
                                            instances for TLC

Operators whose comment starts with "Mutant:" are wrong variants of the
definition behind them. No specification uses them: each run is repeated with
one of them in place of the original, and must then fail.

### DiskCache

`dir[k]` is the file at `disk.path(k)` (hashing is injective), with its object,
length, modification time and how much of its content is there. A goroutine's `pc` is where it may
be interrupted: `get`, `delete` and `accept` wait for `disk.mtx`; `copy` streams
the blob; `evict` is between two system calls of `accept`, with the mutex held;
`cleanup` is before `os.Remove` of the temporary file; `read` has an open
reader, and `eof` has read it to the end. `Get` and `Delete` hold the mutex throughout and do one thing to the
directory, so each is one action per outcome; `GetReadFail` keeps the order of
the code, times first, parsing second. `evict` lists the directory in
`AcceptBegin` and removes one entry per `EvictRemove`; equal times may be sorted
either way. Every system call may fail (`GetNothing`, `GetReadFail`,
`DeleteFail`, `PutAbort`, `AcceptFail`, `EvictFail`). `Restart` ends all calls
and may bring another limit; after a power loss any entry may be torn
(`AfterLoss`). Directory operations (rename, remove, times) are assumed to
survive a power loss in order, as a journaling file system gives; the contents
of files are not.

A file is `whole`, has a torn blob, or is `unreadable`. `getInner` reads the ZIP
directory, `info.json` and the header of the blob, but none of its data. So Get
hands out an entry with a torn blob (`GetHit`) and fails only on an unreadable
one (`GetReadFail`). It is the reader that finds out: archive/zip compares length
and checksum when it reaches the end of the blob and then returns an error in
place of `io.EOF`, so `ReadEOF` is enabled only for a whole blob. A caller that
stops before the end, or that has already passed the bytes on, is not protected.
`Cache` says exactly this: a broken entry may be opened, and is never
`delivered`.

`accessed` is a history variable: the time of the last read, or else of the
write, of each entry, kept apart from the file's own time.

### CachePolicy and Rendezvous

Pure operators. A URL is a path, the path's spelling (Go's `RawPath`) and a set of
query parameters, a rule a record with the URLs its expression matches.
`RuleFor` is the first match, `CacheKey` drops the spelling, so that `/a%2Fb` and
`/a/b` share a key, and the rule's ignored parameters, `ShouldCache` has the conditions of
`shouldCache` in the code's order. `MayStore` is the reference: what RFC 9111
(3 and 3.5) lets a shared cache store. `Rank[k][n]` is the distance of node to
key; `TargetNode` is the nearest node of a list. The module assumes that no two
nodes have the same distance to a key, that is, no collision of 64-bit hashes.

### Proxy

One request handler is a sequence `lock`, `get`, `upstream`, `respond`
(`follow` after a redirect), `done`. The cache is used as `Cache` promises:
Puts are atomic, so `store[n][k]` changes in one step, and `Evict` may drop an
entry at any time; an entry that was looked up can be read to its end, or the
copy fails. A resource has a version, its ETag is the version, and `Untagged`
versions have none; old entries of version 1 may be on any disk at the start.
The upstream is external and follows RFC 9110 13.2.1, which the code cites:
access first, then If-None-Match (304 for GET, 412 for other methods) or, where
there is none, If-Modified-Since for GET (`Matches`); the date of a version is
the version. The proxy sets the cached ETag and then copies the client's headers
over it (`Condition`): a client's If-None-Match replaces it, an
If-Modified-Since goes along and counts when the entry has no ETag. 403 stands
for all refusals. `current[r]` is a history variable: the upstream's version
when it granted `r` access. A resource is identified with its key: the upstream
is taken to serve the same under both spellings of a path and whatever the
ignored parameters are.

A remote entry comes over HTTP. When the asking node sees the copy fail it is
`ServeHit(r, FALSE)`, captured as 500. When the target fails to read its entry to
the end, `handleClusterGet` returns 500 after the header went out; its body ends
like a complete one, and `ServeCutOff` is what the asking node makes of that: a
truncated 200, logged as info and counted as a hit. Only the target captured the
failure (`reply[r].peer`).

A remote Put may fail for its sender and still be done: the target has the whole
body and only the answer is lost, or the sender dies. `late[r]` is such a Put;
`Land` does it at any later time, when the sender's kmutex is free again and
other requests may have stored newer versions. The target's crash ends it.

`nodes[n]` is the list in the configuration of the node `n`; every handler
computes `Target` from its own node's list. Locks are per node. `Crash` ends the
requests of a node, frees its locks, leaves its disk alone and may bring another
list. A node without a `cluster` section behaves like one whose
list is only itself and whose rules have no direct connect.

### Server

The same requests seen as a stack of handlers: `frames[r]` are the handlers that
work for `r` on whatever nodes, each called by the one before. `Serve` is the
dispatch of `ServeHTTP` by Host: "own" requests take no lock; all others take
the kmutex (`held`), then ask the target node (`get`), the host (`upstream`) and
the target node again (`put`). `Call` starts a handler on another node, or on
the same one; `Answered`, `CallFail`, `Break` and `Canceled` are the ways to get
on. `Orphan` is the context: it ends with the caller, but a handler that waits
in `Lock` looks at it only afterwards. What is stored and served is Proxy's
subject and is left out here; a request is answered 200 or otherwise.

A node has an address (`Addr`, `Server.Addr()`) and may be reached by other
names (`Resolve`), which it takes for foreign hosts. `Hijack` to `Accept` follow
`handleProxyConnect` and `SingleConnListener`; the refusals before the hijacking
change no state. `StartChecks` to `CallbackReturn` follow
`clusterHealthCallback`; a check is a request to `/health` under the name by
which the node is listed, and `Leave` of it is its timeout.

### DirectConnect

Tokens with their times in ticks, a fraction of a second, cut to whole seconds
as `jwt.NumericDate` does; a true time `now`, clocks that deviate from it
(`skew`) and are set, secrets that change with a restart. `Generate` is
`generateDirectConnectToken`, `Auth` is `performDirectConnectAuth`; `verdict` is
what the last use led to. Signatures are taken to be unforgeable: a token is
good for exactly the secret it was signed with.

### LocalNetworkHelper

A dial is named like its token. `requests` and `responses` are the two
directions of the socket pair, with a capacity; a read takes everything up to
the buffer. `OOBFirst` says where a descriptor sits: TRUE for POSIX and macOS,
the platform the helper is for, and FALSE for Linux. `batch`, `oob`, `first` and
`torn` are the local variables of `handleResponses` inside its inner loop.
`ServeTorn` and `HandleTorn` are the decoder's error on a message cut off by the
buffer. When `Serve` returns, because of that or of EOF (`serving`), the
goroutines that it has started go on, and may still answer, until the process
ends (`ServeExit`). `Close` is enabled when no call is in progress: a later dial would send
on a closed channel, and only tests call it. JSON and UUIDs are abstracted to
the tokens.

## 3. Runs

| Run | Instance | Shows |
|---|---|---|
| `DiskCache` | 2 goroutines, 2 keys, entries of size 1, 2, 4, limits 2 and 3, 2 times, 1 restart | `TypeOK`, `PlanIsCurrent`, `GrowsOnlyWithinLimit`, `EvictsLeastRecentWhenFull`, `ImplementsCache` |
| `DiskCacheLive` | 2 goroutines, 2 keys, sizes 1, 2, limit 2, 1 restart | `CallsReturn` |
| `ProxyNode` | 1 node, 1 URL, 3 requests, GET and POST, with and without If-Modified-Since, 3 versions (one untagged), direct connect | `TypeOK`, `DirectServesNoOlder`, `BodyNeedsAccess`, `FailuresAreLogged`, `NoNeedlessFetch`, `StoreNeverRegresses` |
| `ProxyCluster` | 3 nodes, 2 of them with clients, lists with and without the third node, 2 requests, 3 versions (one untagged) | `ServedIsCurrent`, `BodyNeedsAccess`, `FailuresAreLogged`, `ReconfigurationMovesLittle` |
| `ProxyLive` | 2 nodes, clients at the one that stores nothing, 2 URLs (spelled differently, one with an ignored parameter) with one key and different rules, 2 kinds of request headers, 3 of answer headers, 2 versions (one untagged) | `RequestsReturn`, `StoredIsPermitted` |
| `Server` | 2 nodes, one with an alias, an origin; 2 clients or a health callback over an address and the alias | `TypeOK`, `OneLockPerRequest`, `EachNodeReported`, `HealthyIsRecognised`, `TunnelHandedOver`, `SoundRequestsReturn`, `LeavingEndsAll`, `CallbackReturns` |
| `DirectConnect` | 2 nodes, 2 keys, 2 secrets, 2 tokens, 2 ticks a second, validity 4, leeway 2, skew 1, 11 ticks | `TypeOK`, `InTimeIsAccepted`, `GrantIsRecent` |
| `Helper` | 3 dials, capacity and buffer 2, the child may die | `TypeOK`, `RightConnection`, `DialedIsDelivered`, `NoCallForgotten`, `ReaderEndsWithChild` |
| `HelperLive` | 3 dials, capacity 2, buffer 1 | `DialsEnd`, `CancelEndsDial` |

Why these bounds are enough.

* Disk cache: the limits 2 and 3 make an entry fit exactly, fit after one
  eviction, after two, and never; 2 keys with 2 times give a strict order and a
  tie; 2 goroutines give every pair of overlapping calls, and one restart with
  either limit lowers or raises it; the theorems below remove the bounds.
* Proxy: two requests collide, and what a third would find is either on a disk
  at the start (`Init`) or, in `ProxyNode`, left by them. Three versions let a
  resource change both while a request is under way and between two. Keys are
  independent (locks, entries and versions are per key), so one is enough; two
  URLs matter only where they share it. The third node is nearest to the key, so
  adding it to or removing it from a list moves the target, at each node at its
  own time. In `ProxyNode` the client's date is that of the untagged version, the
  latest that does no harm (see Findings). `ProxyNode` has no remote entries;
  `FailuresAreLogged` is therefore checked in `ProxyCluster` too, where bodies
  break off at the target.
* Server: two clients suffice for two requests to wait for each other, on the
  same or on different nodes. A request to the alias passes through three
  handlers. Health checks and clients have no key in common, so a behaviour has
  one or the other (`Init`).
* DirectConnect: validity plus twice the leeway, the longest life of a token,
  passes within the 11 ticks from every issuing time up to 3; two ticks a second
  make the truncation visible; the skew is the largest that the leeway allows.
* Helper: three dials let one reply overtake another while a third is cancelled.

The largest instance, `ProxyNode`, has about 600,000 states.

`CHECK_DEADLOCK FALSE` in the Proxy, Server and helper runs: each request or
dial is made once, and when all are done the system rests; and in `Server` a
request that the cluster forwards to itself waits until its client leaves. The
disk cache and the clocks of `DirectConnect` never rest.

### Findings (runs that TLC must refute)

* `ProxyClientCondition`: the client's own `If-None-Match` is copied over the
  cached ETag; the upstream's 304 is then about the client's version, and the
  proxy serves its (older) entry as 200. The client's `If-Modified-Since` does
  the same to an entry without an ETag: with `Conditions = {}`, `Dates = {2}` and
  `Untagged = {1}` an entry of version 1 is served when the upstream has
  version 2.
* `ProxyPost`: the cached ETag is attached to a POST; a compliant origin answers
  412 to a client that set no precondition.
* `HelperStalled`: a caller blocked in its channel send ignores its context. It
  needs a child that has stopped and a full socket; under the child's fairness
  `HelperLive` shows that a cancelled call does return.

Five more behaviours are limits of the passing runs, the first three each one
constant away:

* with a second node in `ProxyNode`, direct connect may hand out an older version
  than the one just validated: after the redirect the client reads what is
  stored by then, and a slower Put from another node may have put an older
  version back (locks are per node). `DirectServesNoOlder`,
  `StoreNeverRegresses` and `NoNeedlessFetch` hold where all requests of a key
  reach one node;
* with `OOBFirst = FALSE` (Linux) `DialedIsDelivered` fails in `Helper`: a
  response with a descriptor that follows an error response in the same read is
  reported as failed;
* with a buffer smaller than the socket's capacity a burst ends the child or the
  reader, and calls in progress are answered only by their contexts. That is why
  `DialsEnd` says "while the child lives and its responses are read", and
  `ReaderEndsWithChild` is checked with a buffer that holds what the socket
  holds;
* a miss is captured as status 0: `Write` sends the implicit 200 and does not
  record it. The level of the log entry is right all the same, which is what
  `FailuresAreLogged` states; the code in it is not;
* a body that the target node breaks off is logged as an error there, and as a
  success by the node whose client got it. `FailuresAreLogged` is about the two
  logs together; with the asking node's alone TLC refutes it in `ProxyCluster`.

### Fairness

* Disk mutex: strong fairness of the steps that take it. Go's `sync.Mutex` hands
  the lock to a waiter that starves. Steps that need nobody else get weak
  fairness. Nothing makes a copy end or a reader be closed: clients decide.
* Proxy: weak fairness of every step of a handler. The code sets no timeout on
  the upstream or on peers, so `RequestsReturn` assumes that they answer or
  fail; kmutex is not fair, and since each request is made once a waiter gets
  the lock when the others are done.
* Server: weak fairness of each request's handlers, which includes that the
  origin and the disks answer or fail; of each health check and its timeout,
  which the code sets; and of the callback. Clients need not leave, connections
  need not break, nodes need not die, and a client in a tunnel need not shake
  hands: `SoundRequestsReturn` and `CallbackReturns` hold without their help.
  `LeavingEndsAll` assumes that the clients leave, as its statement says.
* Helper: goroutines run (weak fairness); senders of an unbuffered channel are
  served in turn (strong fairness of `Receive`). `ChildFairness` says that the
  child is scheduled and each `net.Dial` ends; `ServerFairSpec` leaves it out.

## 4. Proofs

### The disk cache

`DiskCacheProofs` proves, for every finite set of keys, every set of objects,
goroutines and limits, and all sizes:

| Theorem | Statement |
|---|---|
| `Invariance` | `Spec => []Inv` |
| `TypeCorrect` | `Spec => []TypeOK` |
| `PlanStaysCurrent` | `Spec => []PlanIsCurrent` |
| `GrowthIsLimited` | `Spec => GrowsOnlyWithinLimit` |
| `EvictionIsLRU` | `Spec => EvictsLeastRecentWhenFull` |
| `Refinement` | `Spec => ImplementsCache` |

Assumed are only the types of the constants, that `Keys` is finite, and that the
values standing for "nothing" differ from the others.

`Inv` is `TypeOK`, `PlanIsCurrent` and two parts that make them inductive.
`CallsAreSound` ties a call's position to what it holds: in particular only an
evicting Put holds the mutex over several steps, and a file that reaches
`accept` is complete. Without it the listing of one Put could be outdated by
another Put or Delete in the same step. `MtimeIsLastUse` says that a file's time
is its last use; the order of eviction is by the file's time and the property is
about uses.

Each action has a lemma that it preserves `Inv` (`GetCallInv` to `TickInv`);
`DirStep` sorts the actions by what they do to the directory, for `GrowStep`;
and `QuietSteps` to `RestartBreaks` map each to a step of `Cache` or to none.
The arithmetic is in `SumTheorems`: `SumBy` of a non-negative function is a
natural number, is changed by updating one argument by the difference, and is
monotone. From that `used - size` stays the size of the directory, when the loop
has run out of entries the sum is zero, and `Rename` either found room or an
empty directory and an entry not larger than the limit. The sum is defined by
recursion over finite sets and tlapm cannot unfold such a definition for every
input, so `SumTheorems` derives its equation from the existence of an additive
function, by taking a minimal finite set for which there is none.

### Hashing, policy, tokens

* `RendezvousProofs`, for all distances and all lists, finite or not:
  `TargetIsNearest` (a nonempty list has exactly one nearest node, and
  `TargetNode` is it) and `MinimalDisruption` (another list moves a key only to a
  node gained or away from a node lost), from `RankType` and `RankInjective`. The
  only induction is that a nonempty set of naturals has a least element.
* `CachePolicyProofs`: `CachedIsPermitted`, `ShouldCache` implies `MayStore` for
  all rules, methods and headers.
* `DirectConnectProofs`: `TypeCorrect`, `TokensWorkInTime`
  (`Spec => []InTimeIsAccepted`) and `GrantsAreRecent` (`Spec => []GrantIsRecent`)
  for all nodes, validities, leeways and resolutions, assuming
  `SkewWithinLeeway`: two clocks differ by no more than the leeway. The two
  properties speak of the true age of a token, the code compares clocks; what
  connects them is the inductive part `TokensFit`: a token's times lie within
  the skew, and one second for the truncation, of the true time of its issue.
  `NumericDateBounds`, `NewToken` and `AuthSound` are the three facts about the
  operators that the proof rests on.

### The proxy

`ProxyProofs`, for every cluster, every number of requests, keys and versions,
all rules, headers and lists of nodes:

| Theorem | Statement | assuming |
|---|---|---|
| `Invariance`, `TypeCorrect` | `Spec => []Inv`, `Spec => []TypeOK` | |
| `BodiesNeedAccess` | `Spec => []BodyNeedsAccess` | |
| `FailuresReachTheLog` | `Spec => []FailuresAreLogged` | |
| `StoresAreLawful` | `Spec => StoredIsPermitted` | |
| `ReconfigurationIsLocal` | `Spec => ReconfigurationMovesLittle` | |
| `BodiesAreCurrent` | `Spec => []ServedIsCurrent` | `HarmlessConditions` |
| `EntriesNeverRegress` | `Spec => StoreNeverRegresses` | `OneNode` |
| `FetchesAreNeeded` | `Spec => NoNeedlessFetch` | `OneNode`, `Conditions = {}` |
| `DirectIsNoOlder` | `Spec => []DirectServesNoOlder` | `OneNode`, `HarmlessConditions` |

`HarmlessConditions` says that clients send no `If-None-Match` of their own
(`Conditions = {}`) and no `If-Modified-Since` later than a version without an
ETag. Neither half can be left out: `ProxyClientCondition` and its variant under
Findings are the counterexamples. `OneNode` says that the cluster has one node;
with two the properties are false (see the limits under Findings), since a
kmutex is per node. One entrance to a larger cluster would not do either: a Put
to another node whose answer was lost may `Land` after its handler has released
the kmutex.

`Inv` is `TypeOK` and the `Shape` of each request: a handler between lock and
answer holds the kmutex of its key, one that has been answered has an answer
whose status, version and grant agree, a redirected one has a place to go and was
granted access. Without it the types of what `answer[r]` and `entry[r]` hold
when they are used could not be kept, nor mutual exclusion be derived.
`ReplyStep` sorts the steps by what they do to replies (refuse, deliver,
redirect, follow), `StoreStep` by what they do to disks, and `Stays`/`Asks` by
what they do to a request that has looked up its entry; each property is then a
few cases instead of one per action.

The stronger properties need one further invariant each. `Tagged`: the ETag of
every entry, on a disk, looked up or on its way in a late Put, is that of its
version, so that a 304 to it is about that version. `NoneNewer`: no entry, in any
of these places, is newer than the upstream's version, so that a 304 to a
client's harmless date is about an untagged entry too. `NoLate`: on one node
there are no late Puts. `Confirmed`: an answered handler has a body of the
version confirmed. `Ordered`: no stored or answered version is newer than the
upstream's, and what a handler is about to store is not older than what is
stored. `Kept`: what a handler has looked up is all that may be on the disk
until it is done; this is what the kmutex is for. `Awaited`: since a redirect
everything stored, or about to be, is at least the version confirmed before it.

### The local network helper

`HelperProofs`, for any number of calls, any capacity of the sockets and any
buffer:

| Theorem | Statement | assuming |
|---|---|---|
| `Invariance`, `TypeCorrect` | `Spec => []Inv`, `Spec => []TypeOK` | |
| `ConnectionsAreRight` | `Spec => []RightConnection` | |
| `ConnectionsAreDelivered` | `Spec => []DialedIsDelivered` | `OOBFirst` |
| `ReaderOutlivesResponses` | `Spec => []ReaderEndsWithChild` | `Roomy` |
| `CallsAreRemembered` | `Spec => []NoCallForgotten` | `Roomy` |

`RightConnection` holds on both kinds of platform and with messages cut off by a
small buffer: the descriptor of a read is given to its first response or to
none. `DialedIsDelivered` needs that a descriptor begins a segment (on Linux it
fails, see Findings), and the last two need `Roomy`: what the socket holds fits
into the read buffer, otherwise a burst ends the reader or the child.

`Inv` follows a token on its way: it is in the sender, in the socket, with a
handler of the child, in the other socket or in the batch just read, never twice
(`Once`); from before it is written until it is answered it is in
`requestsProcessed` (`Registered`), which is why no response has an unknown
token; before that nothing is known of it (`Unsent`); and the descriptor of a
read is that of its first response (`Described`). `Leads` adds that with
`OOBFirst` no later response of a read has one; `Whole` that nothing is torn and
no waiting call is lost.

### Routing, tunnels and health

`ServerProofs`, for every set of nodes, names, clients and listed nodes:

| Theorem | Statement |
|---|---|
| `Invariance`, `TypeCorrect` | `Spec => []Inv`, `Spec => []TypeOK` |
| `OneLockEach` | `Spec => []OneLockPerRequest` |
| `NodesReportedOnce` | `Spec => []EachNodeReported` |
| `HealthyAreRecognised` | `Spec => []HealthyIsRecognised` |
| `TunnelsAreHandedOver` | `Spec => []TunnelHandedOver` |

Assumed are the types of the constants and that a listed name leads to a node.

The heart of `Inv` is `Stack`, about the handlers of one request. `Forwarded`: a
handler that asks the upstream waits for a handler of the same host at the node
that the name leads to. `NeverOK`: a handler at the node to which a name leads,
but which does not take that name for itself, is never answered 200: it could be
only by a handler in the same situation, one further up. `Shallow`: a request to
a sound host has at most one handler more than the first, and that one takes no
lock. `Checks` says that the first handler of a health check is at the checked
node under the checked name, so `NeverOK` applies to it; locks are not needed
for that argument, and it holds without bound on the depth of the stack.
`Handed` says for each phase of a tunnel who reads its connection, and `Reports`
that a check that has reported has exactly one result, in the channel or
observed.

`SetStack`, `CutStack`, `CallStack` and `CrashStack` treat the four things that
can happen to a stack (a handler gets on, is answered, calls another, dies);
`HandlerMoves` reduces the handlers' actions to the first three.

### What proving found in the model

Two assumptions that TLC's instances satisfied were not written down:
`ListedResolve` in `Server` (a name listed as a node that leads to an origin
would give a health check no node to run on) and, in `Proxy`, that there is a
version and that `None` is none of the values it stands beside. They are now
named assumptions. In `Proxy` the assumption about the lists of nodes was parsed
differently from how it was meant, and has its parentheses now.

### Only model-checked

Liveness (`CallsReturn`, `RequestsReturn`, `SoundRequestsReturn`,
`LeavingEndsAll`, `CallbackReturns`, `DialsEnd`, `CancelEndsDial`), which is out
of tlapm's reach. Every invariant and every action property of the passing runs
is proved.

## 5. Not modelled

* Start-up, privilege dropping and the assembly of the server: a sequence of
  calls each of which ends the program on failure.
* Configuration (YAML decoding), telemetry and logging output, the version, the
  stubs for other platforms: no state that a property could be about.
* The no-op cache: it behaves as `Proxy` with an `Evict` after every Put.
* `Disk.Walk`: reads only, and has no caller in the server.
* Certificates of the TLS interceptor, signatures of tokens, credentials of the
  key-value protocol: cryptography without state. A refused credential is, to
  its caller, a failed call.
* The base64 and JSON encodings of key and metadata in key-value requests.
* Headers that are only passed on, and how a response is framed (Content-Length
  or chunked), which is inside net/http. The consequences, none of which the
  repository speaks of: a repeated field keeps its last value only, a hit has the
  headers of the 304 (the metadata keeps the ETag alone), and a truncated chunked
  body looks whole.
* Of the conditional headers that a client may send, `If-Match`,
  `If-Unmodified-Since`, `Range` and `If-Range`: the proxy copies them like any
  other, and an upstream answers them with 412, 206 or as if they were absent,
  none of which is stored or leads to the entry. Beside the cached ETag a 304
  still is about that ETag, and the entry is then served whole.
* Redirects that `http.Client` follows inside `Do`: to the handler they are one
  answer of the upstream.
* What the garbage collector closes: readers of entries whose transfer broke,
  hijacked connections after an error, the connection in the late reply to a
  cancelled dial; and temporary files that a crash leaves behind. The code
  promises nothing about them. Nor does it about a client that opens a tunnel and
  never shakes hands: the handshake has no timeout.

## 6. Plan

The state of the code that can be modelled is modelled, and the safety
properties that the runs check are proved. What is left:

1. Safety consequences of the liveness properties, which are in tlapm's reach:
   a kmutex is held exactly by the handlers that are between lock and answer, so
   that no path keeps it (`Proxy`, `Server`), and the same for `disk.mtx`.
2. A weaker form of `DirectServesNoOlder` and `StoreNeverRegresses` that holds in
   clusters of several nodes.
