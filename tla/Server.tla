------------------------------- MODULE Server -------------------------------
(***************************************************************************)
(* Routing of requests through a cluster (internal/server: ServeHTTP,      *)
(* handleProxyConnect, clusterHealthCallback).                             *)
(*                                                                         *)
(* ServeHTTP performs a request whose Host is the server's own address     *)
(* itself, without a lock: key-value requests, health checks, direct       *)
(* connects.  Every other request is proxied under the kmutex of its key,  *)
(* and while it is, the handler makes requests of its own: to the key's    *)
(* target node, and to the upstream, which may be a node of the cluster    *)
(* too.  A client's request is thus a stack of handlers, each waiting for  *)
(* the next.  Contexts carry the end of a caller up the stack, but a       *)
(* handler that waits for a kmutex does not notice.                        *)
(*                                                                         *)
(* A client may first open a TLS tunnel (CONNECT) and send its request     *)
(* through that; and one node, the observer, checks the health of all the  *)
(* nodes it is configured with.                                            *)
(***************************************************************************)
EXTENDS Naturals, Sequences, FiniteSets

CONSTANTS
  Nodes,
  Names,      \* host names and addresses
  Addr,       \* Addr[n]: what Server.Addr() of node n returns
  Resolve,    \* Resolve[h]: the node that name h leads to, or Origin
  Listed,     \* names by which the configuration lists the nodes
  Target,     \* Target[h]: TargetNode of the keys with host h
  Observer,   \* the node whose health callback runs
  Clients,    \* requests of clients, each made once
  Origin,
  None

Roots == Clients \cup Listed      \* a health check goes by the name it checks
Paths == {"/", "/health", "kv"}   \* a client's path, /health, a key-value request

ASSUME NamesType == /\ Addr \in [Nodes -> Names]
                    /\ Resolve \in [Names -> Nodes \cup {Origin}]
                    /\ Listed \subseteq Names
                    /\ Target \in [Names -> Listed]
                    /\ Observer \in Nodes
ASSUME AddrResolves == \A n \in Nodes : Resolve[Addr[n]] = n
ASSUME ListedResolve == \A h \in Listed : Resolve[h] \in Nodes
ASSUME Apart == /\ Origin \notin Nodes
                /\ Clients \cap Listed = {}

Ended == {"ok", "failed", "dead"}   \* answered 200, answered otherwise, not answered

Frame == [node : Nodes, host : Names, path : Paths,
          pc : {"own", "lock", "get", "upstream", "put"} \cup Ended]

Tunnel == [node : Nodes, phase : {"hijacked", "handshake", "serve", "left", "dropped"},
           done : BOOLEAN, serving : Nat]

VARIABLES
  frames,    \* frames[r]: the handlers that work for r, each called by the one before
  held,      \* held[n]: the keys that are locked in n's kmutex
  gone,      \* gone[r]: whoever sent r has left, or the check has timed out
  tunnel,    \* tunnel[r]: the CONNECT that r comes through, or None
  callback,  \* where the observer's clusterHealthCallback is
  reported,  \* checks that have sent their result
  results,   \* the results in the channel
  observed   \* what the callback has told the meter

vars == <<frames, held, gone, tunnel, callback, reported, results, observed>>

(* To bound the states, a behaviour has clients or a health callback: the  *)
(* two have no key in common.                                              *)
Init == /\ frames = [r \in Roots |-> <<>>]
        /\ held = [n \in Nodes |-> {}]
        /\ callback \in {"off", "idle"}
        /\ gone = [r \in Roots |-> r \in Clients /\ callback = "idle"]
        /\ tunnel = [r \in Clients |-> None]
        /\ reported = {}
        /\ results = {}
        /\ observed = {}
-----------------------------------------------------------------------------
(* Mutant: the Host is not compared with the server's address. *)
ServeAll(n, host, path) == [node |-> n, host |-> host, path |-> path, pc |-> "lock"]

(* ServeHTTP: which handler a request that reaches n is given to. *)
Serve(n, host, path) == [node |-> n, host |-> host, path |-> path,
                         pc |-> IF host = Addr[n] THEN "own" ELSE "lock"]

Key(f) == <<f.host, f.path>>

(* Whether the sender of the i-th handler's request no longer waits for it. *)
Orphan(r, i) == IF i = 1 THEN gone[r] ELSE frames[r][i - 1].pc \in Ended

Sole(r, i) == Len(frames[r]) = i   \* the handler has not called another

Goto(r, i, label) == frames' = [frames EXCEPT ![r][i].pc = label]

Unlock(r, i) == held' = [held EXCEPT ![frames[r][i].node] = @ \ {Key(frames[r][i])}]

UnchangedRest == UNCHANGED <<gone, tunnel, callback, reported, results, observed>>

(* The deferred Unlock, and the answer. *)
Finish(r, i, label) == Goto(r, i, label) /\ Unlock(r, i)

(* handleClusterGet, handleClusterPut, handleDirectConnectGet, /health. *)
Own(r, i) == /\ frames[r][i].pc = "own"
             /\ \/ Goto(r, i, "ok")
                \/ Goto(r, i, "failed") /\ frames[r][i].path # "/health"
             /\ UNCHANGED held

Lock(r, i) == LET f == frames[r][i]
              IN  /\ f.pc = "lock"
                  /\ Key(f) \notin held[f.node]
                  /\ held' = [held EXCEPT ![f.node] = @ \cup {Key(f)}]
                  /\ Goto(r, i, "get")

(* Whom the handler asks next: the target node for the cache's Get and     *)
(* Put, unless that is the local disk, and the request's host in between.  *)
Peer(f) == IF f.pc = "upstream" THEN f.host ELSE Target[f.host]

InsideCluster(f) == IF f.pc = "upstream" THEN Resolve[f.host] # Origin
                    ELSE Target[f.host] # Addr[f.node]

Asking(r, i) == frames[r][i].pc \in {"get", "upstream", "put"}

(* What the handler does once it has the answer that it waits for; who     *)
(* gave it is done.                                                        *)
Advance(r, i) ==
  LET label == frames[r][i].pc
      Return(l) == frames' = [frames EXCEPT ![r] = [SubSeq(@, 1, i) EXCEPT ![i].pc = l]]
  IN  \/ label = "get" /\ Return("upstream") /\ UNCHANGED held
      \/ label = "upstream" /\ Return("put") /\ UNCHANGED held
      \/ label = "upstream" /\ Return("ok") /\ Unlock(r, i)   \* a hit, or not cacheable
      \/ label = "put" /\ Return("ok") /\ Unlock(r, i)

(* The local disk, or the origin, answers.  A request to the origin ends   *)
(* with the handler's own context.                                         *)
Outside(r, i) == /\ Asking(r, i) /\ ~ InsideCluster(frames[r][i])
                 /\ \/ Advance(r, i) /\ (frames[r][i].pc = "upstream" => ~ Orphan(r, i))
                    \/ Finish(r, i, "failed")

Call(r, i) == LET f == frames[r][i]
                  path == IF f.pc = "upstream" THEN f.path ELSE "kv"
              IN  /\ Asking(r, i) /\ InsideCluster(f) /\ Sole(r, i) /\ ~ Orphan(r, i)
                  /\ frames' = [frames EXCEPT ![r] =
                       Append(@, Serve(Resolve[Peer(f)], Peer(f), path))]
                  /\ UNCHANGED held

(* Mutant: this path returns without Unlock. *)
CallFailLocked(r, i) == /\ Asking(r, i) /\ InsideCluster(frames[r][i]) /\ Sole(r, i)
                        /\ Goto(r, i, "failed")
                        /\ UNCHANGED held

(* The node that is asked cannot be reached, or the context has ended. *)
CallFail(r, i) == /\ Asking(r, i) /\ InsideCluster(frames[r][i]) /\ Sole(r, i)
                  /\ Finish(r, i, "failed")

Answered(r, i) == /\ Asking(r, i) /\ ~ Sole(r, i)
                  /\ \/ frames[r][i + 1].pc = "ok" /\ Advance(r, i)
                     \/ frames[r][i + 1].pc \in {"failed", "dead"} /\ Finish(r, i, "failed")

(* Mutant: requests are made without the context. *)
CanceledNever(r, i) == FALSE /\ Finish(r, i, "failed")

(* The context of the handler ends while it waits for another one. *)
Canceled(r, i) == /\ Asking(r, i) /\ ~ Sole(r, i)
                  /\ Orphan(r, i)
                  /\ Finish(r, i, "failed")

(* The connection between a handler and the one that it waits for breaks. *)
Break(r, i) == /\ Asking(r, i) /\ ~ Sole(r, i)
               /\ Finish(r, i, "failed")

Handler(r) == /\ \E i \in 1 .. Len(frames[r]) :
                   \/ Own(r, i) \/ Lock(r, i) \/ Outside(r, i) \/ Call(r, i)
                   \/ CallFail(r, i) \/ Answered(r, i) \/ Canceled(r, i)
              /\ UnchangedRest

BreakOff(r) == /\ \E i \in 1 .. Len(frames[r]) : Break(r, i)
               /\ UnchangedRest
-----------------------------------------------------------------------------
(* A client sends its request to node n, directly or through its tunnel;   *)
(* what comes through a tunnel is for an HTTPS port, which no node has.    *)
Arrive(r, n, host) ==
  /\ frames[r] = <<>> /\ ~ gone[r]
  /\ tunnel[r] # None => /\ tunnel[r].serving > 0 /\ tunnel[r].node = n
                         /\ Resolve[host] = Origin
  /\ frames' = [frames EXCEPT ![r] = <<Serve(n, host, "/")>>]
  /\ UNCHANGED <<held, gone, tunnel, callback, reported, results, observed>>

Over(r) == \A i \in 1 .. Len(frames[r]) : frames[r][i].pc \in Ended

(* A client hangs up before it is answered, and its connection is closed;  *)
(* a health check has taken clusterHealthCheckTimeout.                     *)
Leave(r) ==
  /\ ~ gone[r]
  /\ IF r \in Listed THEN frames[r] # <<>> /\ r \notin reported
     ELSE ~ Over(r) \/ tunnel[r] # None
  /\ gone' = [gone EXCEPT ![r] = TRUE]
  /\ tunnel' = [c \in Clients |-> IF c = r THEN None ELSE tunnel[c]]
  /\ UNCHANGED <<frames, held, callback, reported, results, observed>>

(* A client is done with: nothing is left of its request. *)
Close(r) ==
  /\ frames[r] # <<>> /\ Over(r)
  /\ frames' = [frames EXCEPT ![r] = <<>>]
  /\ gone' = [gone EXCEPT ![r] = TRUE]
  /\ tunnel' = [tunnel EXCEPT ![r] = None]
  /\ UNCHANGED <<held, callback, reported, results, observed>>

(* A node other than the observer dies and restarts. *)
Crash(n) ==
  LET Live(f) == f.node = n /\ f.pc \notin Ended
  IN  /\ n # Observer
      /\ \E r \in Roots : \E i \in 1 .. Len(frames[r]) : Live(frames[r][i])
      /\ frames' = [r \in Roots |-> [i \in 1 .. Len(frames[r]) |->
                      IF Live(frames[r][i]) THEN [frames[r][i] EXCEPT !.pc = "dead"]
                      ELSE frames[r][i]]]
      /\ held' = [held EXCEPT ![n] = {}]
      /\ tunnel' = [r \in Clients |->
                      IF tunnel[r] # None /\ tunnel[r].node = n
                      THEN [tunnel[r] EXCEPT !.phase = "dropped", !.serving = 0] ELSE tunnel[r]]
      /\ UNCHANGED <<gone, callback, reported, results, observed>>
-----------------------------------------------------------------------------
UnchangedByTunnel == UNCHANGED <<frames, held, gone, callback, reported, results, observed>>

(* handleProxyConnect: hijack the client's connection, ... *)
Hijack(r, n) ==
  /\ tunnel[r] = None /\ frames[r] = <<>> /\ ~ gone[r]
  /\ tunnel' = [tunnel EXCEPT ![r] = [node |-> n, phase |-> "hijacked",
                                      done |-> FALSE, serving |-> 0]]
  /\ UnchangedByTunnel

(* ... say that it is established and make a certificate, ... *)
Establish(r) == /\ tunnel[r] # None /\ tunnel[r].phase = "hijacked"
                /\ tunnel' = [tunnel EXCEPT ![r].phase = "handshake"]
                /\ UnchangedByTunnel

(* ... shake hands, ... *)
Handshake(r) == /\ tunnel[r] # None /\ tunnel[r].phase = "handshake"
                /\ tunnel' = [tunnel EXCEPT ![r].phase = "serve"]
                /\ UnchangedByTunnel

(* ... any of which may fail: the handler returns and nobody serves the    *)
(* connection.                                                             *)
Drop(r) == /\ tunnel[r] # None /\ tunnel[r].phase \in {"hijacked", "handshake"}
           /\ tunnel' = [tunnel EXCEPT ![r].phase = "dropped"]
           /\ UnchangedByTunnel

(* Mutant: the listener does not remember that it gave its connection away. *)
AcceptAlways(r) == /\ tunnel[r] # None /\ tunnel[r].phase = "serve" /\ tunnel[r].serving < 2
                   /\ tunnel' = [tunnel EXCEPT ![r].serving = @ + 1]
                   /\ UnchangedByTunnel

(* The accept loop of the ephemeral server on a SingleConnListener: the    *)
(* first Accept returns the connection, which a new goroutine then serves; *)
(* the second returns net.ErrClosed, and the handler returns.              *)
Accept(r) == /\ tunnel[r] # None /\ tunnel[r].phase = "serve"
             /\ tunnel' = [tunnel EXCEPT ![r] =
                  IF ~ @.done THEN [@ EXCEPT !.done = TRUE, !.serving = tunnel[r].serving + 1]
                  ELSE [@ EXCEPT !.phase = "left"]]
             /\ UnchangedByTunnel
-----------------------------------------------------------------------------
(* Mutant: an unbuffered channel. *)
ResultsCapacityNone == 0

ResultsCapacity == Cardinality(Listed)

(* clusterHealthCallback starts one goroutine per listed node. *)
StartChecks == /\ callback = "idle"
               /\ callback' = "wait"
               /\ UNCHANGED <<frames, held, gone, tunnel, reported, results, observed>>

Check(c) == /\ callback = "wait" /\ c \notin reported /\ frames[c] = <<>>
            /\ frames' = [frames EXCEPT ![c] = <<Serve(Resolve[c], c, "/health")>>]
            /\ UNCHANGED <<held, gone, tunnel, callback, reported, results, observed>>

(* Mutant: any answer counts. *)
IsHealthyAny(c) == ~ gone[c] /\ frames[c] # <<>> /\ frames[c][1].pc \in {"ok", "failed"}

(* clusterNodeIsHealthy, when Do has returned: with 200, or otherwise. *)
IsHealthy(c) == ~ gone[c] /\ frames[c] # <<>> /\ frames[c][1].pc = "ok"

(* Mutant: the goroutines share the loop variable. *)
ReportShared(c) ==
  /\ callback = "wait" /\ c \notin reported
  /\ frames[c] # <<>> => gone[c] \/ frames[c][1].pc \in Ended
  /\ Cardinality(results) < ResultsCapacity
  /\ \E any \in Listed : results' = results \cup {[node |-> any, healthy |-> IsHealthy(c)]}
  /\ reported' = reported \cup {c}
  /\ UNCHANGED <<frames, held, gone, tunnel, callback, observed>>

(* Mutant: the result does not say which node it is about. *)
ReportNameless(c) ==
  /\ callback = "wait" /\ c \notin reported
  /\ frames[c] # <<>> => gone[c] \/ frames[c][1].pc \in Ended
  /\ Cardinality(results) < ResultsCapacity
  /\ results' = results \cup {[node |-> None, healthy |-> IsHealthy(c)]}
  /\ reported' = reported \cup {c}
  /\ UNCHANGED <<frames, held, gone, tunnel, callback, observed>>

(* The check's result is sent, then wg.Done.  A check that has not been    *)
(* answered either timed out or could not reach the node.                  *)
Report(c) ==
  /\ callback = "wait" /\ c \notin reported
  /\ frames[c] # <<>> => gone[c] \/ frames[c][1].pc \in Ended
  /\ Cardinality(results) < ResultsCapacity
  /\ results' = results \cup {[node |-> c, healthy |-> IsHealthy(c)]}
  /\ reported' = reported \cup {c}
  /\ UNCHANGED <<frames, held, gone, tunnel, callback, observed>>

(* wg.Wait and close. *)
Collect == /\ callback = "wait" /\ reported = Listed
           /\ callback' = "read"
           /\ UNCHANGED <<frames, held, gone, tunnel, reported, results, observed>>

Observe == /\ callback = "read"
           /\ \E x \in results : /\ results' = results \ {x}
                                 /\ observed' = observed \cup {x}
           /\ UNCHANGED <<frames, held, gone, tunnel, callback, reported>>

CallbackReturn == /\ callback = "read" /\ results = {}
                  /\ callback' = "done"
                  /\ UNCHANGED <<frames, held, gone, tunnel, reported, results, observed>>

Callback == \/ StartChecks \/ Collect \/ Observe \/ CallbackReturn
            \/ \E c \in Listed : Check(c) \/ Report(c)
-----------------------------------------------------------------------------
Next == \/ \E r \in Roots : Handler(r) \/ BreakOff(r) \/ Leave(r)
        \/ \E r \in Clients, n \in Nodes, h \in Names : Arrive(r, n, h)
        \/ \E n \in Nodes : Crash(n)
        \/ \E r \in Clients, n \in Nodes : Hijack(r, n)
        \/ \E r \in Clients : Close(r) \/ Establish(r) \/ Handshake(r) \/ Drop(r) \/ Accept(r)
        \/ Callback

Spec == Init /\ [][Next]_vars

(* Handlers run, the origin and the disks answer or fail, health checks    *)
(* time out.  Clients need not leave, connections need not break, and a    *)
(* client need not shake hands.                                            *)
FairSpec == /\ Spec
            /\ \A r \in Roots : WF_vars(Handler(r))
            /\ \A r \in Clients : WF_vars(Close(r))
            /\ \A c \in Listed : WF_vars(Leave(c)) /\ WF_vars(Check(c) \/ Report(c))
            /\ WF_vars(Collect) /\ WF_vars(Observe) /\ WF_vars(CallbackReturn)
-----------------------------------------------------------------------------
(* Type correctness of the state. *)
TypeOK == /\ frames \in [Roots -> Seq(Frame)]
          /\ held \in [Nodes -> SUBSET (Names \X Paths)]
          /\ gone \in [Roots -> BOOLEAN]
          /\ tunnel \in [Clients -> Tunnel \cup {None}]
          /\ callback \in {"off", "idle", "wait", "read", "done"}
          /\ reported \subseteq Listed
          /\ results \subseteq [node : Listed, healthy : BOOLEAN]
          /\ observed \subseteq [node : Listed, healthy : BOOLEAN]

(* A name is recognised if the node that it leads to takes it for itself.  *)
Recognised(h) == Resolve[h] = Origin \/ Addr[Resolve[h]] = h

Sound(h) == Recognised(h) /\ Recognised(Target[h])

UsesKmutex(f) == f.pc \in {"lock", "get", "upstream", "put"}

(* A request to a recognised host never needs a second kmutex while it     *)
(* holds one, on whatever nodes it is worked on: no cycle of waiting.      *)
OneLockPerRequest ==
  \A r \in Roots : frames[r] # <<>> /\ Sound(frames[r][1].host) =>
    Cardinality({i \in 1 .. Len(frames[r]) : UsesKmutex(frames[r][i])}) <= 1

(* Every request to a recognised host is answered, or its node dies,       *)
(* whatever breaks on the way and whatever other requests are stuck.       *)
SoundRequestsReturn ==
  \A r \in Roots :
    (frames[r] # <<>> /\ Sound(frames[r][1].host)) ~> (frames[r] # <<>> => frames[r][1].pc \in Ended)

Quiet == \A r \in Roots : Over(r)

(* Also a request that the cluster forwards to itself, and that waits for  *)
(* the kmutex it holds, ends on all nodes once all clients have left.      *)
LeavingEndsAll == (\A r \in Clients : gone[r]) ~> Quiet

(* The health callback returns, even if a node does not answer. *)
CallbackReturns == callback = "wait" ~> callback = "done"

(* The callback reports every listed node, and each of them once. *)
EachNodeReported ==
  callback = "done" => \A c \in Listed : Cardinality({x \in observed : x.node = c}) = 1

(* A node is reported healthy only under an address that it recognises:    *)
(* under another one it forwards the check to itself, and never answers    *)
(* it with 200.                                                            *)
HealthyIsRecognised == \A x \in observed : x.healthy => Recognised(x.node)

(* The connection of a tunnel is read by at most one server, and when the  *)
(* handler returns without an error, by one.                               *)
TunnelHandedOver ==
  \A r \in Clients : tunnel[r] # None => /\ tunnel[r].serving <= 1
                                         /\ tunnel[r].phase = "left" => tunnel[r].serving = 1
=============================================================================
