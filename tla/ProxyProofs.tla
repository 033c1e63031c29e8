----------------------------- MODULE ProxyProofs -----------------------------
(***************************************************************************)
(* The promises of module Proxy for every cluster, every number of         *)
(* requests and versions, all rules and all lists of nodes.                *)
(***************************************************************************)
EXTENDS Proxy, RendezvousProofs, CachePolicyProofs, TLAPS

(* Where a handler holds the kmutex of its key. *)
Holding == {"get", "upstream", "respond"}

(* What the upstream may have answered. *)
Answered(r) == /\ answer[r] \in Answer
               /\ answer[r].status \in {200, 304, 403, 412}
               /\ answer[r].ver # None <=> answer[r].status = 200
               /\ answer[r].status \in {200, 304} => current[r] # None

(* What a request has at its position. *)
Shape(r) == /\ pc[r] # "new" => req[r] \in Request
            /\ pc[r] \in Active \cup {"new"} => reply[r] = NoReply
            /\ pc[r] \in Holding => lock[req[r].node][Key(r)] = r
            /\ pc[r] = "respond" => Answered(r)
            /\ pc[r] = "follow" => /\ reply[r].location \in Nodes
                                   /\ reply[r].ver = None
                                   /\ current[r] # None
            /\ late[r] # None => pc[r] = "done"

Shapes == \A r \in Reqs : Shape(r)

Inv == TypeOK /\ Shapes

(* Some node dies and restarts. *)
Crashes == \E n \in Entrances, list \in Configs, sent \in SUBSET {r \in Reqs : Sendable(r)} :
             Crash(n, list, sent)
-----------------------------------------------------------------------------
(* A key is on some node, and the handler of a request knows which. *)
LEMMA Places ==
  ASSUME TypeOK, NEW r \in Reqs, req[r] \in Request
  PROVE  /\ req[r].node \in Entrances /\ req[r].node \in Nodes
         /\ req[r].url \in Urls /\ req[r].method \in Methods
         /\ req[r].header \in RequestHeaders
         /\ req[r].cond \in Conditions \cup {None}
         /\ req[r].since \in Dates \cup {None}
         /\ Key(r) \in Keys
         /\ nodes[req[r].node] \in Configs
         /\ Target(r) \in Nodes
<1>1. /\ req[r].node \in Entrances /\ req[r].url \in Urls /\ req[r].method \in Methods
      /\ req[r].header \in RequestHeaders /\ req[r].cond \in Conditions \cup {None}
      /\ req[r].since \in Dates \cup {None}
  BY DEF Request
<1>2. req[r].node \in Nodes
  BY <1>1, EntrancesType
<1>3. Key(r) \in Keys
  BY <1>1 DEF Key, Keys
<1>4. nodes[req[r].node] \in Configs
  BY <1>1 DEF TypeOK
<1>5. nodes[req[r].node] \in SUBSET Nodes /\ nodes[req[r].node] # {}
  BY <1>4, ConfigsType
<1>6. Target(r) \in nodes[req[r].node]
  BY <1>3, <1>5, TargetIsNearest, RankDomain DEF Target
<1> QED BY <1>1, <1>2, <1>3, <1>4, <1>5, <1>6

-----------------------------------------------------------------------------
LEMMA InitInv == Init => Inv
<1> SUFFICES ASSUME Init PROVE Inv
  OBVIOUS
<1>1. TypeOK
  <2>1. version \in [Keys -> Versions]
    BY VersionType DEF Init, Versions
  <2>2. store \in [Nodes -> [Keys -> Entry \cup {None}]]
    BY VersionType DEF Init, Entry, Tag, Versions
  <2>3. reply \in [Reqs -> Reply]
    BY DEF Init, NoReply, Reply
  <2> QED BY <2>1, <2>2, <2>3 DEF Init, TypeOK, Labels
<1>2. Shapes
  BY DEF Init, Shapes, Shape, Active, Holding
<1> QED BY <1>1, <1>2 DEF Inv
-----------------------------------------------------------------------------
(* What is written to a client is a reply: a body, *)
LEMMA Writes ==
  ASSUME NEW w \in Reply, NEW v \in Versions \cup {None}, NEW all \in BOOLEAN
  PROVE  /\ Write(w, v, all) \in Reply
         /\ Write(w, v, all).wire = (IF w.wire = None THEN 200 ELSE w.wire)
         /\ Write(w, v, all).captured = w.captured
         /\ Write(w, v, all).ver = v
         /\ Write(w, v, all).whole = all
         /\ Write(w, v, all).location = w.location
<1>1. 200 \in Statuses
  BY DEF Statuses
<1>2. PICK a \in Statuses \cup {None} : a = IF w.wire = None THEN 200 ELSE w.wire
  BY <1>1 DEF Reply
<1>3. Write(w, v, all) = [w EXCEPT !.wire = a, !.ver = v, !.whole = all]
  BY <1>2 DEF Write
<1>4. Write(w, v, all) \in Reply
  BY <1>3 DEF Reply
<1>5. /\ Write(w, v, all).wire = a /\ Write(w, v, all).captured = w.captured
      /\ Write(w, v, all).ver = v /\ Write(w, v, all).location = w.location
      /\ Write(w, v, all).whole = all
  BY <1>3 DEF Reply
<1> QED BY <1>2, <1>4, <1>5

(* a status code, *)
LEMMA WritesHeader ==
  ASSUME NEW w \in Reply, NEW code \in Statuses
  PROVE  /\ WriteHeader(w, code) \in Reply
         /\ WriteHeader(w, code).wire = (IF w.wire = None THEN code ELSE w.wire)
         /\ WriteHeader(w, code).captured = code
         /\ WriteHeader(w, code).ver = w.ver
         /\ WriteHeader(w, code).whole = w.whole
         /\ WriteHeader(w, code).location = w.location
<1>1. PICK b \in Statuses \cup {None} : b = IF w.wire = None THEN code ELSE w.wire
  BY DEF Reply
<1>2. WriteHeader(w, code) = [w EXCEPT !.captured = code, !.wire = b]
  BY <1>1 DEF WriteHeader
<1>3. WriteHeader(w, code) \in Reply
  BY <1>2 DEF Reply
<1>4. /\ WriteHeader(w, code).wire = b /\ WriteHeader(w, code).captured = code
      /\ WriteHeader(w, code).ver = w.ver /\ WriteHeader(w, code).whole = w.whole
      /\ WriteHeader(w, code).location = w.location
  BY <1>2 DEF Reply
<1> QED BY <1>1, <1>3, <1>4

(* or nothing yet. *)
LEMMA NoReplyFields == /\ NoReply \in Reply /\ NoReply.wire = None /\ NoReply.captured = 0
                       /\ NoReply.ver = None /\ NoReply.location = None
BY DEF NoReply, Reply

(* responder.Code, alone, *)
LEMMA Responds ==
  ASSUME NEW code \in Statuses
  PROVE  /\ Respond(code) \in Reply
         /\ Respond(code).wire = code /\ Respond(code).captured = code
         /\ Respond(code).ver = None /\ Respond(code).location = None
BY NoReplyFields, WritesHeader DEF Respond

(* or with a body behind it, of which perhaps not all arrives. *)
LEMMA RespondsWith ==
  ASSUME NEW code \in Statuses, NEW v \in Versions \cup {None}, NEW all \in BOOLEAN
  PROVE  LET body == Write(Respond(code), v, all)
             w == IF all THEN body ELSE WriteHeader(body, 500)
         IN  /\ w \in Reply
             /\ w.wire = code /\ w.captured = (IF all THEN code ELSE 500)
             /\ w.ver = v /\ w.whole = all /\ w.location = None
<1> DEFINE body == Write(Respond(code), v, all)
<1>1. 500 \in Statuses /\ None \notin Statuses
  BY NoneApart DEF Statuses
<1>2. /\ body \in Reply /\ body.wire = code /\ body.captured = code
      /\ body.ver = v /\ body.whole = all /\ body.location = None
  BY <1>1, Responds, Writes
<1>3. LET w == WriteHeader(body, 500)
      IN  /\ w \in Reply /\ w.wire = code /\ w.captured = 500
          /\ w.ver = v /\ w.whole = all /\ w.location = None
  BY <1>1, <1>2, WritesHeader
<1> HIDE DEF body
<1> QED BY <1>2, <1>3 DEF body

(* A body without WriteHeader before it; a failure behind it. *)
LEMMA WritesBody ==
  ASSUME NEW v \in Versions \cup {None}, NEW all \in BOOLEAN
  PROVE  /\ LET w == Write(NoReply, v, all)
            IN  /\ w \in Reply /\ w.wire = 200 /\ w.captured = 0
                /\ w.ver = v /\ w.whole = all /\ w.location = None
         /\ LET w == WriteHeader(Write(NoReply, v, all), 500)
            IN  /\ w \in Reply /\ w.wire = 200 /\ w.captured = 500
                /\ w.ver = v /\ w.whole = all /\ w.location = None
<1> DEFINE body == Write(NoReply, v, all)
<1>1. 500 \in Statuses /\ 200 # None
  BY NoneApart DEF Statuses
<1>2. /\ body \in Reply /\ body.wire = 200 /\ body.captured = 0
      /\ body.ver = v /\ body.whole = all /\ body.location = None
  <2>1. NoReply \in Reply
    BY NoReplyFields
  <2>2. /\ body \in Reply /\ body.wire = (IF NoReply.wire = None THEN 200 ELSE NoReply.wire)
        /\ body.captured = NoReply.captured /\ body.ver = v /\ body.whole = all
        /\ body.location = NoReply.location
    BY <2>1, Writes
  <2> QED BY <2>2, NoReplyFields
<1> HIDE DEF body
<1>3. LET w == WriteHeader(body, 500)
      IN  /\ w \in Reply /\ w.wire = 200 /\ w.captured = 500
          /\ w.ver = v /\ w.whole = all /\ w.location = None
  BY <1>1, <1>2, WritesHeader
<1> QED BY <1>2, <1>3 DEF body

(* A body that the target breaks off: only the target captures the failure. *)
LEMMA Relays ==
  ASSUME NEW there \in Reply, there.ver \in Versions, there.captured = 500
  PROVE  /\ Relay(there) \in Reply
         /\ Relay(there).wire = 200 /\ Relay(there).peer = 500
         /\ Relay(there).ver = there.ver /\ Relay(there).location = None
<1> DEFINE body == Write(Respond(200), there.ver, there.whole)
<1>1. /\ 200 \in Statuses /\ 500 \in Statuses /\ None \notin Statuses
  BY NoneApart DEF Statuses
<1>2. there.whole \in BOOLEAN
  BY DEF Reply
<1>3. /\ Respond(200) \in Reply /\ Respond(200).wire = 200 /\ Respond(200).location = None
  BY <1>1, Responds
<1>4. /\ body \in Reply /\ body.wire = 200 /\ body.ver = there.ver /\ body.location = None
  BY <1>1, <1>2, <1>3, Writes
<1>5. Relay(there) = [body EXCEPT !.peer = 500]
  BY DEF Relay
<1> HIDE DEF body
<1> QED BY <1>1, <1>4, <1>5 DEF Reply

LEMMA CutsOff ==
  ASSUME NEW v \in Versions
  PROVE  /\ CutOff(v) \in Reply
         /\ CutOff(v).wire = 200 /\ CutOff(v).peer = 500
         /\ CutOff(v).ver = v /\ CutOff(v).location = None
<1> DEFINE there(all) == WriteHeader(Write(NoReply, v, all), 500)
<1>1. \A all \in BOOLEAN : there(all) \in Reply /\ there(all).ver = v /\ there(all).captured = 500
  BY WritesBody
<1>2. CutOff(v) = Relay(there(FALSE))
  BY DEF CutOff
<1> HIDE DEF there
<1>3. there(FALSE) \in Reply /\ there(FALSE).ver = v /\ there(FALSE).captured = 500
  BY <1>1
<1>4. PICK w \in Reply : w = there(FALSE)
  BY <1>3
<1>5. CutOff(v) = Relay(w) /\ w.ver = v /\ w.captured = 500
  BY <1>2, <1>3, <1>4
<1> QED BY <1>5, Relays

(* A handler that returns releases its kmutex and no other. *)
LEMMA ReturnInv ==
  ASSUME Inv, NEW r \in Reqs, pc[r] \in Holding, NEW w \in Reply,
         NEW label \in {"done", "follow"},
         label = "follow" => w.location \in Nodes /\ w.ver = None /\ current[r] # None,
         Return(r, w, label),
         store' \in [Nodes -> [Keys -> Entry \cup {None}]],
         late' \in [Reqs -> LatePut \cup {None}],
         \A s \in Reqs : late'[s] = late[s] \/ (s = r /\ label = "done"),
         UNCHANGED <<version, nodes, req, current>>
  PROVE  Inv'
<1>1. req[r] \in Request
  BY DEF Inv, Shapes, Shape, Holding
<1>2. req[r].node \in Entrances /\ Key(r) \in Keys
  BY <1>1, Places DEF Inv
<1>3. TypeOK'
  BY <1>2 DEF Inv, TypeOK, Return, Labels
<1>4. ASSUME NEW s \in Reqs PROVE Shape(s)'
  <2>1. Shape(s) /\ Key(s)' = Key(s)
    BY DEF Inv, Shapes, Key
  <2>2. CASE s = r
    BY <1>1, <2>1, <2>2 DEF Inv, TypeOK, Shape, Return, Active, Holding
  <2>3. CASE s # r
    <3>1. pc'[s] = pc[s] /\ reply'[s] = reply[s] /\ answer'[s] = answer[s]
      BY <2>3 DEF Inv, TypeOK, Return
    <3>2. pc[s] \in Holding => lock'[req[s].node][Key(s)] = lock[req[s].node][Key(s)]
      <4> SUFFICES ASSUME pc[s] \in Holding
                   PROVE  lock'[req[s].node][Key(s)] = lock[req[s].node][Key(s)]
        OBVIOUS
      <4>1. lock[req[s].node][Key(s)] = s /\ lock[req[r].node][Key(r)] = r
        BY <2>1 DEF Inv, Shapes, Shape
      <4>2. req[s].node # req[r].node \/ Key(s) # Key(r)
        BY <4>1, <2>3
      <4> QED BY <4>2, <1>2 DEF Return, Inv, TypeOK
    <3>3. late'[s] = late[s]
      BY <2>3
    <3> QED BY <2>1, <3>1, <3>2, <3>3 DEF Shape, Answered
  <2> QED BY <2>2, <2>3
<1> QED BY <1>3, <1>4 DEF Inv, Shapes

(* What the actions leave alone keeps its shape. *)
LEMMA SameShape ==
  ASSUME Inv, NEW s \in Reqs, pc'[s] = pc[s], req'[s] = req[s], reply'[s] = reply[s],
         answer'[s] = answer[s], current'[s] = current[s], late'[s] \in {late[s], None},
         pc[s] \in Holding => lock'[req[s].node][Key(s)] = lock[req[s].node][Key(s)]
  PROVE  Shape(s)'
<1>1. Shape(s)
  BY DEF Inv, Shapes
<1>2. Key(s)' = Key(s)
  BY DEF Key
<1> QED BY <1>1, <1>2 DEF Shape, Answered

LEMMA ArriveInv ==
  ASSUME Inv, NEW r \in Reqs, NEW q \in Request, Arrive(r, q) PROVE Inv'
<1>1. TypeOK'
  BY DEF Inv, TypeOK, Arrive, Labels
<1>2. Shape(r)'
  BY DEF Inv, TypeOK, Shapes, Shape, Arrive, Active, Holding
<1>3. ASSUME NEW s \in Reqs, s # r PROVE Shape(s)'
  BY <1>3, SameShape DEF Arrive, Inv, TypeOK
<1> QED BY <1>1, <1>2, <1>3 DEF Inv, Shapes

LEMMA LockInv ==
  ASSUME Inv, NEW r \in Reqs, Lock(r) PROVE Inv'
<1>1. req[r] \in Request
  BY DEF Inv, Shapes, Shape, Lock
<1>2. req[r].node \in Entrances /\ Key(r) \in Keys
  BY <1>1, Places DEF Inv
<1>3. TypeOK'
  BY <1>2 DEF Inv, TypeOK, Lock, Labels
<1>4. Shape(r)'
  <2>1. Key(r)' = Key(r)
    BY DEF Lock, Key
  <2> QED BY <1>1, <1>2, <2>1 DEF Inv, TypeOK, Shapes, Shape, Lock, Active, Holding
<1>5. ASSUME NEW s \in Reqs, s # r PROVE Shape(s)'
  <2>1. pc[s] \in Holding => lock'[req[s].node][Key(s)] = lock[req[s].node][Key(s)]
    <3> SUFFICES ASSUME pc[s] \in Holding
                 PROVE  lock'[req[s].node][Key(s)] = lock[req[s].node][Key(s)]
      OBVIOUS
    <3>1. lock[req[s].node][Key(s)] = s /\ lock[req[r].node][Key(r)] = None
      BY DEF Inv, Shapes, Shape, Lock
    <3>2. req[s].node # req[r].node \/ Key(s) # Key(r)
      BY <3>1, NoneApart
    <3> QED BY <3>2, <1>2 DEF Lock, Inv, TypeOK
  <2> QED BY <1>5, <2>1, SameShape DEF Lock, Inv, TypeOK
<1> QED BY <1>3, <1>4, <1>5 DEF Inv, Shapes

LEMMA CacheGetInv ==
  ASSUME Inv, NEW r \in Reqs, CacheGet(r) PROVE Inv'
<1>1. req[r] \in Request
  BY DEF Inv, Shapes, Shape, CacheGet
<1>2. req[r].node \in Nodes /\ Target(r) \in Nodes /\ Key(r) \in Keys
  BY <1>1, Places DEF Inv
<1>3. Lookup(r) \in Entry \cup {None}
  BY <1>2 DEF Lookup, ClusterGet, Inv, TypeOK
<1>4. TypeOK'
  BY <1>3 DEF Inv, TypeOK, CacheGet, Labels
<1>5. Shape(r)'
  <2>1. Key(r)' = Key(r)
    BY DEF CacheGet, Key
  <2> QED BY <1>1, <2>1 DEF Inv, TypeOK, Shapes, Shape, CacheGet, Active, Holding
<1>6. ASSUME NEW s \in Reqs, s # r PROVE Shape(s)'
  BY <1>6, SameShape DEF CacheGet, Inv, TypeOK
<1> QED BY <1>4, <1>5, <1>6 DEF Inv, Shapes

LEMMA CacheFailInv ==
  ASSUME Inv, NEW r \in Reqs, CacheFail(r) PROVE Inv'
<1>1. \A code \in Statuses : Respond(code) \in Reply
  BY Responds
<1>2. Respond(IF Remote(r) THEN 502 ELSE 500) \in Reply
  BY <1>1 DEF Statuses
<1> QED BY <1>2, ReturnInv DEF CacheFail, Finish, Holding, Inv, TypeOK

LEMMA UpstreamInv ==
  ASSUME Inv, NEW r \in Reqs, NEW status \in {200, 304, 403, 412},
         NEW h \in AnswerHeaders, Upstream(r, status, h)
  PROVE  Inv'
<1>1. req[r] \in Request
  BY DEF Inv, Shapes, Shape, Upstream
<1>2. Key(r) \in Keys
  BY <1>1, Places DEF Inv
<1>3. version[Key(r)] \in Versions
  BY <1>2 DEF Inv, TypeOK
<1>4. None \notin Versions
  BY NoneApart DEF Versions
<1>5. answer'[r] \in Answer
  BY <1>3 DEF Upstream, Inv, TypeOK, Answer, Statuses
<1>6. TypeOK'
  BY <1>3, <1>5 DEF Inv, TypeOK, Upstream, Labels
<1>7. Shape(r)'
  <2>1. Key(r)' = Key(r)
    BY DEF Upstream, Key
  <2>2. Answered(r)'
    BY <1>3, <1>4, <1>5 DEF Upstream, Answered, Inv, TypeOK
  <2> QED BY <1>1, <2>1, <2>2 DEF Inv, TypeOK, Shapes, Shape, Upstream, Active, Holding
<1>8. ASSUME NEW s \in Reqs, s # r PROVE Shape(s)'
  BY <1>8, SameShape DEF Upstream, Inv, TypeOK
<1> QED BY <1>6, <1>7, <1>8 DEF Inv, Shapes

LEMMA UpstreamFailInv ==
  ASSUME Inv, NEW r \in Reqs, UpstreamFail(r) PROVE Inv'
<1>1. Respond(500) \in Reply
  BY Responds DEF Statuses
<1> QED BY <1>1, ReturnInv DEF UpstreamFail, Finish, Holding, Inv, TypeOK

(* What is put is an entry of the answered version. *)
LEMMA StoreEntry ==
  ASSUME Inv, NEW r \in Reqs, pc[r] = "respond", answer[r].status = 200
  PROVE  /\ answer[r].ver \in Versions
         /\ Target(r) \in Nodes /\ Key(r) \in Keys
         /\ Stored(r) \in Entry
         /\ Sent(r) \in LatePut
         /\ Store(r) => store' \in [Nodes -> [Keys -> Entry \cup {None}]]
<1>1. answer[r].ver \in Versions
  BY DEF Inv, Shapes, Shape, Answered, Answer
<1>2. Stored(r) \in Entry
  BY <1>1 DEF Stored, Entry, Tag
<1>3. Target(r) \in Nodes /\ Key(r) \in Keys
  BY Places DEF Inv, Shapes, Shape
<1>4. Sent(r) \in LatePut
  BY <1>2, <1>3 DEF Sent, LatePut
<1>5. ASSUME Store(r) PROVE store' \in [Nodes -> [Keys -> Entry \cup {None}]]
  BY <1>2, <1>3, <1>5 DEF Store, Inv, TypeOK
<1> QED BY <1>1, <1>2, <1>3, <1>4, <1>5

LEMMA PutOKInv ==
  ASSUME Inv, NEW r \in Reqs, PutOK(r) PROVE Inv'
<1>1. pc[r] = "respond" /\ answer[r].status = 200 /\ Store(r)
  BY DEF PutOK, IsFetch
<1>2. answer[r].ver \in Versions
  BY <1>1, StoreEntry
<1>3. \A all \in BOOLEAN : Write(NoReply, answer[r].ver, all) \in Reply
  BY <1>2, WritesBody
<1>4. Write(NoReply, answer[r].ver, TRUE) \in Reply
  BY <1>3
<1>5. /\ late' \in [Reqs -> LatePut \cup {None}] /\ late' = late
      /\ store' \in [Nodes -> [Keys -> Entry \cup {None}]]
  BY <1>1, StoreEntry DEF PutOK, Inv, TypeOK
<1> QED BY <1>1, <1>4, <1>5, ReturnInv DEF PutOK, Finish, Holding

LEMMA PutRefusedInv ==
  ASSUME Inv, NEW r \in Reqs, PutRefused(r) PROVE Inv'
<1>1. Respond(500) \in Reply
  BY Responds DEF Statuses
<1> QED BY <1>1, ReturnInv DEF PutRefused, Finish, Holding, Inv, TypeOK

LEMMA PutFailInv ==
  ASSUME Inv, NEW r \in Reqs, NEW all \in BOOLEAN, NEW sent \in BOOLEAN,
         PutFail(r, all, sent)
  PROVE  Inv'
<1>1. pc[r] = "respond" /\ answer[r].status = 200
  BY DEF PutFail, IsFetch
<1>2. answer[r].ver \in Versions /\ Sent(r) \in LatePut
  BY <1>1, StoreEntry
<1>3. WriteHeader(Write(NoReply, answer[r].ver, all), 500) \in Reply
  BY <1>2, WritesBody
<1>4. /\ late' \in [Reqs -> LatePut \cup {None}]
      /\ \A s \in Reqs : late'[s] = late[s] \/ s = r
  BY <1>2 DEF PutFail, Inv, TypeOK
<1>5. store' \in [Nodes -> [Keys -> Entry \cup {None}]]
  BY DEF PutFail, Inv, TypeOK
<1> QED BY <1>1, <1>3, <1>4, <1>5, ReturnInv DEF PutFail, Finish, Holding

(* A Put that outlived its handler is for a node and a key that there are. *)
LEMMA LateAt ==
  ASSUME Inv, NEW r \in Reqs, late[r] # None
  PROVE  /\ late[r] \in LatePut /\ late[r].node \in Nodes /\ late[r].entry \in Entry
         /\ Key(r) \in Keys /\ pc[r] = "done"
<1>1. late[r] \in LatePut /\ pc[r] = "done" /\ req[r] \in Request
  BY DEF Inv, TypeOK, Shapes, Shape
<1> QED BY <1>1, Places DEF Inv, LatePut

LEMMA LandInv ==
  ASSUME Inv, NEW r \in Reqs, Land(r) PROVE Inv'
<1>1. late[r].node \in Nodes /\ late[r].entry \in Entry /\ Key(r) \in Keys
  BY LateAt DEF Land
<1>2. TypeOK'
  BY <1>1 DEF Land, Inv, TypeOK
<1>3. ASSUME NEW s \in Reqs PROVE Shape(s)'
  <2>1. late'[s] \in {late[s], None}
    BY DEF Land, Inv, TypeOK
  <2> QED BY <2>1, SameShape DEF Land
<1> QED BY <1>2, <1>3 DEF Inv, Shapes

LEMMA RedirectInv ==
  ASSUME Inv, NEW r \in Reqs, Redirect(r) PROVE Inv'
<1> DEFINE w == [Respond(307) EXCEPT !.location = Target(r)]
<1>1. Respond(307) \in Reply /\ Respond(307).ver = None
  BY Responds DEF Statuses
<1>2. Target(r) \in Nodes
  BY Places DEF Inv, Shapes, Shape, Redirect
<1>3. w \in Reply /\ w.location = Target(r) /\ w.ver = None
  BY <1>1, <1>2 DEF Reply
<1>4. pc[r] = "respond" /\ current[r] # None
  BY DEF Inv, Shapes, Shape, Answered, Redirect, IsHit
<1>5. /\ Return(r, w, "follow")
      /\ UNCHANGED <<version, nodes, store, late, req, current>>
  BY DEF Redirect
<1>6. store' \in [Nodes -> [Keys -> Entry \cup {None}]]
  BY <1>5 DEF Inv, TypeOK
<1> HIDE DEF w
<1>7. pc[r] \in Holding
  BY <1>4 DEF Holding
<1>8. late' \in [Reqs -> LatePut \cup {None}] /\ late' = late
  BY <1>5 DEF Inv, TypeOK
<1> QED BY <1>2, <1>3, <1>4, <1>5, <1>6, <1>7, <1>8, ReturnInv

LEMMA ServeHitInv ==
  ASSUME Inv, NEW r \in Reqs, NEW all \in BOOLEAN, ServeHit(r, all) PROVE Inv'
<1> DEFINE body == Write(Respond(200), entry[r].ver, all)
           w == IF all THEN body ELSE WriteHeader(body, 500)
<1>1. entry[r].ver \in Versions
  BY DEF Inv, TypeOK, Entry, ServeHit, IsHit
<1>2. w \in Reply
  BY <1>1, RespondsWith DEF Statuses
<1>3. pc[r] = "respond" /\ Return(r, w, "done") /\ UNCHANGED <<version, nodes, store, late, req, current>>
  BY DEF ServeHit, Finish
<1> HIDE DEF w
<1> QED BY <1>2, <1>3, ReturnInv DEF Holding, Inv, TypeOK

LEMMA ServeCutOffInv ==
  ASSUME Inv, NEW r \in Reqs, ServeCutOff(r) PROVE Inv'
<1> DEFINE w == CutOff(entry[r].ver)
<1>1. entry[r].ver \in Versions
  BY DEF Inv, TypeOK, Entry, ServeCutOff, IsHit
<1>2. w \in Reply
  BY <1>1, CutsOff
<1>3. pc[r] = "respond" /\ Return(r, w, "done") /\ UNCHANGED <<version, nodes, store, late, req, current>>
  BY DEF ServeCutOff, Finish
<1> HIDE DEF w
<1> QED BY <1>2, <1>3, ReturnInv DEF Holding, Inv, TypeOK

LEMMA PassThroughInv ==
  ASSUME Inv, NEW r \in Reqs, NEW all \in BOOLEAN, PassThrough(r, all) PROVE Inv'
<1> DEFINE body == Write(Respond(answer[r].status), answer[r].ver, all)
           w == IF all THEN body ELSE WriteHeader(body, 500)
<1>1. answer[r].ver \in Versions \cup {None} /\ answer[r].status \in Statuses
  BY DEF Inv, Shapes, Shape, Answered, Answer, PassThrough
<1>2. w \in Reply
  BY <1>1, RespondsWith
<1>3. pc[r] = "respond" /\ Return(r, w, "done") /\ UNCHANGED <<version, nodes, store, late, req, current>>
  BY DEF PassThrough, Finish
<1> HIDE DEF w
<1> QED BY <1>2, <1>3, ReturnInv DEF Holding, Inv, TypeOK

LEMMA FollowInv ==
  ASSUME Inv, NEW r \in Reqs, pc[r] = "follow", NEW w \in Reply, Follow(r, w) PROVE Inv'
<1>1. reply[r].location \in Nodes /\ req[r] \in Request
  BY DEF Inv, Shapes, Shape
<1>2. [w EXCEPT !.location = reply[r].location] \in Reply
  BY <1>1 DEF Reply
<1>3. TypeOK'
  BY <1>2 DEF Follow, Inv, TypeOK, Labels
<1>4. Shape(r)'
  BY <1>1 DEF Follow, Inv, TypeOK, Shape, Active, Holding
<1>5. ASSUME NEW s \in Reqs, s # r PROVE Shape(s)'
  BY <1>5, SameShape DEF Follow, Inv, TypeOK
<1> QED BY <1>3, <1>4, <1>5 DEF Inv, Shapes

LEMMA DirectHitInv ==
  ASSUME Inv, NEW r \in Reqs, NEW all \in BOOLEAN, DirectHit(r, all) PROVE Inv'
<1> DEFINE e == store[reply[r].location][Key(r)]
           body == Write(NoReply, e.ver, all)
           w == IF all THEN body ELSE WriteHeader(body, 500)
<1>1. pc[r] = "follow" /\ reply[r].location \in Nodes /\ Key(r) \in Keys /\ e # None
  BY Places DEF DirectHit, Inv, Shapes, Shape
<1>2. e.ver \in Versions
  BY <1>1 DEF Inv, TypeOK, Entry
<1>3. w \in Reply
  BY <1>2, WritesBody
<1>4. Follow(r, w)
  BY DEF DirectHit
<1> HIDE DEF w
<1> QED BY <1>1, <1>3, <1>4, FollowInv

LEMMA DirectFailInv ==
  ASSUME Inv, NEW r \in Reqs, NEW status \in {401, 404, 500}, DirectFail(r, status)
  PROVE  Inv'
<1>1. Respond(status) \in Reply
  BY Responds DEF Statuses
<1> QED BY <1>1, FollowInv DEF DirectFail

LEMMA ChangeInv ==
  ASSUME Inv, NEW k \in Keys, Change(k) PROVE Inv'
<1>1. TypeOK'
  BY VersionType DEF Change, Inv, TypeOK, Versions
<1>2. ASSUME NEW s \in Reqs PROVE Shape(s)'
  BY SameShape DEF Change
<1> QED BY <1>1, <1>2 DEF Inv, Shapes

LEMMA EvictInv ==
  ASSUME Inv, NEW n \in Nodes, NEW k \in Keys, Evict(n, k) PROVE Inv'
<1>1. TypeOK'
  BY DEF Evict, Inv, TypeOK
<1>2. ASSUME NEW s \in Reqs PROVE Shape(s)'
  BY SameShape DEF Evict
<1> QED BY <1>1, <1>2 DEF Inv, Shapes

LEMMA CrashInv ==
  ASSUME Inv, NEW n \in Entrances, NEW list \in Configs,
         NEW sent \in SUBSET {r \in Reqs : Sendable(r)}, Crash(n, list, sent)
  PROVE  Inv'
<1> DEFINE dead == {r \in Reqs : pc[r] \in Active /\ req[r].node = n}
<1>0. late' \in [Reqs -> LatePut \cup {None}]
  <2>1. ASSUME NEW r \in sent PROVE Sent(r) \in LatePut
    BY StoreEntry DEF Sendable, IsFetch
  <2> QED BY <2>1 DEF Crash, Inv, TypeOK
<1>1. TypeOK'
  BY <1>0 DEF Crash, Inv, TypeOK, Labels
<1>2. ASSUME NEW s \in dead PROVE Shape(s)'
  <2>1. pc'[s] = "done" /\ req'[s] = req[s]
    BY DEF Crash
  <2>2. req[s] \in Request
    BY DEF Inv, Shapes, Shape, Active
  <2> QED BY <2>1, <2>2 DEF Shape, Active, Holding
<1>3. ASSUME NEW s \in Reqs \ dead PROVE Shape(s)'
  <2>1. /\ pc'[s] = pc[s] /\ req'[s] = req[s] /\ reply'[s] = reply[s]
        /\ answer'[s] = answer[s] /\ current'[s] = current[s]
        /\ late'[s] \in {late[s], None}
    BY DEF Crash
  <2>2. ASSUME pc[s] \in Holding
        PROVE  lock'[req[s].node][Key(s)] = lock[req[s].node][Key(s)]
    <3>1. req[s].node # n
      BY <2>2 DEF Holding, Active
    <3>2. req[s].node \in Entrances
      BY <2>2, Places DEF Inv, Shapes, Shape, Holding
    <3> QED BY <3>1, <3>2 DEF Crash, Inv, TypeOK
  <2> QED BY <2>1, <2>2, SameShape
<1> QED BY <1>1, <1>2, <1>3 DEF Inv, Shapes

LEMMA NextInv == Inv /\ [Next]_vars => Inv'
<1> SUFFICES ASSUME Inv, [Next]_vars PROVE Inv'
  OBVIOUS
<1>1. CASE UNCHANGED vars
  <2>1. TypeOK'
    BY <1>1 DEF Inv, TypeOK, vars
  <2>2. ASSUME NEW s \in Reqs PROVE Shape(s)'
    BY <1>1, SameShape DEF vars
  <2> QED BY <2>1, <2>2 DEF Inv, Shapes
<1>2. ASSUME NEW r \in Reqs, Step(r) PROVE Inv'
  BY <1>2, LockInv, CacheGetInv, CacheFailInv, UpstreamInv, UpstreamFailInv, PutOKInv,
     PutRefusedInv, PutFailInv, RedirectInv, ServeHitInv, ServeCutOffInv, PassThroughInv
  DEF Step
<1>3. ASSUME NEW r \in Reqs, Client(r) PROVE Inv'
  BY <1>3, ArriveInv, DirectHitInv, DirectFailInv DEF Client
<1> QED BY <1>1, <1>2, <1>3, LandInv, ChangeInv, EvictInv, CrashInv DEF Next

(* Type correctness, with what every request has at its position. *)
THEOREM Invariance == Spec => []Inv
BY InitInv, NextInv, PTL DEF Spec

(* The state stays within its types, for every cluster and every number   *)
(* of requests.                                                            *)
THEOREM TypeCorrect == Spec => []TypeOK
<1>1. Inv => TypeOK
  BY DEF Inv
<1> QED BY Invariance, <1>1, PTL
-----------------------------------------------------------------------------
(* What a step does to one request's reply: nothing, or its handler        *)
(* refuses it, gives it a body, redirects it, or it reads by direct        *)
(* connect.                                                                *)
Untouched(s) == /\ reply'[s] = reply[s]
                /\ pc'[s] = "done" => pc[s] = "done" \/ reply[s] = NoReply
                /\ current'[s] = current[s] \/ reply[s] = NoReply

Refuses(s) == /\ reply'[s].ver = None /\ reply'[s].location = None
              /\ reply'[s].wire # 307
              /\ reply'[s].captured = reply'[s].wire

Delivers(s) == /\ pc[s] = "respond"
               /\ \/ reply'[s].ver = answer[s].ver
                  \/ IsHit(s) /\ reply'[s].ver = entry[s].ver
               /\ reply'[s].wire \in {200, 304, 403, 412}
               /\ reply'[s].location = None
               /\ reply'[s].whole \/ reply'[s].captured = 500 \/ reply'[s].peer = 500

Redirects(s) == /\ pc[s] = "respond" /\ pc'[s] = "follow"
                /\ IsHit(s)
                /\ reply'[s].ver = None /\ reply'[s].location = Target(s)

Follows(s) == /\ pc[s] = "follow"
              /\ reply'[s].location = reply[s].location
              /\ \/ /\ reply'[s].ver = None
                    /\ reply'[s].captured = reply'[s].wire
                    /\ reply'[s].wire # 307
                 \/ /\ store[reply[s].location][Key(s)] # None
                    /\ reply'[s].ver = store[reply[s].location][Key(s)].ver
                    /\ reply'[s].wire = 200
                    /\ reply'[s].whole \/ reply'[s].captured = 500

Answers(s) == /\ current'[s] = current[s]
              /\ Refuses(s) \/ Delivers(s) \/ Redirects(s) \/ Follows(s)

LEMMA FinishReply ==
  ASSUME Inv, NEW r \in Reqs, NEW s \in Reqs, NEW w \in Reply, NEW label, Return(r, w, label)
  PROVE  reply'[s] = (IF s = r THEN w ELSE reply[s]) /\ pc'[s] = (IF s = r THEN label ELSE pc[s])
BY DEF Return, Inv, TypeOK

LEMMA CacheFailReply ==
  ASSUME Inv, NEW r \in Reqs, NEW s \in Reqs, CacheFail(r)
  PROVE  Untouched(s) \/ Answers(s)
<1>1. PICK code \in Statuses \ {307} : Return(r, Respond(code), "done")
  BY DEF CacheFail, Finish, Statuses
<1>2. /\ Respond(code) \in Reply
      /\ Respond(code).wire = code /\ Respond(code).captured = code
      /\ Respond(code).ver = None /\ Respond(code).location = None
  BY Responds
<1> QED BY <1>1, <1>2, FinishReply DEF CacheFail, Untouched, Answers, Refuses

LEMMA UpstreamFailReply ==
  ASSUME Inv, NEW r \in Reqs, NEW s \in Reqs, UpstreamFail(r) \/ PutRefused(r)
  PROVE  Untouched(s) \/ Answers(s)
<1>1. Return(r, Respond(500), "done") /\ UNCHANGED current
  BY DEF UpstreamFail, PutRefused, Finish
<1>2. /\ Respond(500) \in Reply
      /\ Respond(500).wire = 500 /\ Respond(500).captured = 500
      /\ Respond(500).ver = None /\ Respond(500).location = None
  BY Responds DEF Statuses
<1> QED BY <1>1, <1>2, FinishReply DEF Untouched, Answers, Refuses

LEMMA PutReply ==
  ASSUME Inv, NEW r \in Reqs, NEW s \in Reqs,
         PutOK(r) \/ \E all, sent \in BOOLEAN : PutFail(r, all, sent)
  PROVE  Untouched(s) \/ Answers(s)
<1>1. pc[r] = "respond" /\ answer[r].status = 200 /\ UNCHANGED current
  BY DEF PutOK, PutFail, IsFetch
<1>2. answer[r].ver \in Versions
  BY <1>1 DEF Inv, Shapes, Shape, Answered, Answer
<1>3. PICK w \in Reply : /\ Return(r, w, "done")
                         /\ w.wire = 200 /\ w.ver = answer[r].ver /\ w.location = None
                         /\ w.whole \/ w.captured = 500
  <2>1. CASE PutOK(r)
    <3>1. \A all \in BOOLEAN : LET w == Write(NoReply, answer[r].ver, all)
                              IN  /\ w \in Reply /\ w.wire = 200 /\ w.ver = answer[r].ver
                                  /\ w.whole = all /\ w.location = None
      BY <1>2, WritesBody
    <3> QED BY <2>1, <3>1 DEF PutOK, Finish
  <2>2. ASSUME NEW all \in BOOLEAN, NEW sent \in BOOLEAN, PutFail(r, all, sent)
        PROVE  Return(r, WriteHeader(Write(NoReply, answer[r].ver, all), 500), "done")
    BY <2>2 DEF PutFail, Finish
  <2> QED BY <2>1, <2>2, <1>2, WritesBody
<1> QED BY <1>1, <1>3, FinishReply DEF Untouched, Answers, Delivers

LEMMA ServeHitReply ==
  ASSUME Inv, NEW r \in Reqs, NEW s \in Reqs, NEW all \in BOOLEAN, ServeHit(r, all)
  PROVE  Untouched(s) \/ Answers(s)
<1> DEFINE body == Write(Respond(200), entry[r].ver, all)
           w == IF all THEN body ELSE WriteHeader(body, 500)
<1>1. pc[r] = "respond" /\ IsHit(r) /\ Return(r, w, "done") /\ UNCHANGED current
  BY DEF ServeHit, Finish
<1>2. entry[r].ver \in Versions
  BY <1>1 DEF Inv, TypeOK, Entry, IsHit
<1>3. /\ w \in Reply /\ w.wire = 200 /\ w.captured = (IF all THEN 200 ELSE 500)
      /\ w.ver = entry[r].ver /\ w.whole = all /\ w.location = None
  BY <1>2, RespondsWith DEF Statuses
<1> HIDE DEF w
<1> QED BY <1>1, <1>3, FinishReply DEF Untouched, Answers, Delivers

LEMMA ServeCutOffReply ==
  ASSUME Inv, NEW r \in Reqs, NEW s \in Reqs, ServeCutOff(r)
  PROVE  Untouched(s) \/ Answers(s)
<1> DEFINE w == CutOff(entry[r].ver)
<1>1. pc[r] = "respond" /\ IsHit(r) /\ Return(r, w, "done") /\ UNCHANGED current
  BY DEF ServeCutOff, Finish
<1>2. entry[r].ver \in Versions
  BY <1>1 DEF Inv, TypeOK, Entry, IsHit
<1>3. /\ w \in Reply /\ w.wire = 200 /\ w.peer = 500
      /\ w.ver = entry[r].ver /\ w.location = None
  BY <1>2, CutsOff
<1> HIDE DEF w
<1> QED BY <1>1, <1>3, FinishReply DEF Untouched, Answers, Delivers

LEMMA PassThroughReply ==
  ASSUME Inv, NEW r \in Reqs, NEW s \in Reqs, NEW all \in BOOLEAN, PassThrough(r, all)
  PROVE  Untouched(s) \/ Answers(s)
<1> DEFINE body == Write(Respond(answer[r].status), answer[r].ver, all)
           w == IF all THEN body ELSE WriteHeader(body, 500)
<1>1. pc[r] = "respond" /\ Return(r, w, "done") /\ UNCHANGED current
  BY DEF PassThrough, Finish
<1>2. /\ answer[r].ver \in Versions \cup {None} /\ answer[r].status \in Statuses
      /\ answer[r].status \in {200, 304, 403, 412}
  BY <1>1 DEF Inv, Shapes, Shape, Answered, Answer
<1>3. /\ w \in Reply /\ w.wire = answer[r].status
      /\ w.captured = (IF all THEN answer[r].status ELSE 500)
      /\ w.ver = answer[r].ver /\ w.whole = all /\ w.location = None
  BY <1>2, RespondsWith
<1> HIDE DEF w
<1> QED BY <1>1, <1>2, <1>3, FinishReply DEF Untouched, Answers, Delivers

LEMMA RedirectReply ==
  ASSUME Inv, NEW r \in Reqs, NEW s \in Reqs, Redirect(r)
  PROVE  Untouched(s) \/ Answers(s)
<1> DEFINE w == [Respond(307) EXCEPT !.location = Target(r)]
<1>1. pc[r] = "respond" /\ IsHit(r) /\ Return(r, w, "follow") /\ UNCHANGED current
  BY DEF Redirect
<1>2. Respond(307) \in Reply /\ Respond(307).ver = None
  BY Responds DEF Statuses
<1>3. Target(r) \in Nodes
  BY <1>1, Places DEF Inv, Shapes, Shape
<1>4. w \in Reply /\ w.location = Target(r) /\ w.ver = None
  BY <1>2, <1>3 DEF Reply
<1> HIDE DEF w
<1> QED BY <1>1, <1>4, FinishReply DEF Untouched, Answers, Redirects

LEMMA DirectReply ==
  ASSUME Inv, NEW r \in Reqs, NEW s \in Reqs,
         \/ \E all \in BOOLEAN : DirectHit(r, all)
         \/ \E status \in {401, 404, 500} : DirectFail(r, status)
  PROVE  Untouched(s) \/ Answers(s)
<1>1. pc[r] = "follow" /\ reply[r].location \in Nodes /\ Key(r) \in Keys
  BY Places DEF Inv, Shapes, Shape, DirectHit, DirectFail
<1>2. CASE \E all \in BOOLEAN : DirectHit(r, all)
  <2>1. PICK all \in BOOLEAN : DirectHit(r, all)
    BY <1>2
  <2> DEFINE e == store[reply[r].location][Key(r)]
             body == Write(NoReply, e.ver, all)
             w == IF all THEN body ELSE WriteHeader(body, 500)
  <2>2. e # None /\ Follow(r, w)
    BY <2>1 DEF DirectHit
  <2>3. e.ver \in Versions
    BY <1>1, <2>2 DEF Inv, TypeOK, Entry
  <2>4. w \in Reply /\ w.wire = 200 /\ w.ver = e.ver /\ w.whole = all /\ (all \/ w.captured = 500)
    BY <2>3, WritesBody
  <2> HIDE DEF w
  <2>5. CASE s = r
    <3>1. reply'[s] = [w EXCEPT !.location = reply[r].location] /\ current'[s] = current[s]
      BY <2>2, <2>5 DEF Follow, Inv, TypeOK
    <3>2. /\ reply'[s].wire = 200 /\ reply'[s].ver = e.ver /\ reply'[s].whole = all
          /\ reply'[s].captured = w.captured /\ reply'[s].location = reply[r].location
      BY <2>4, <3>1 DEF Reply
    <3> QED BY <1>1, <2>2, <2>4, <2>5, <3>1, <3>2 DEF Answers, Follows
  <2>6. CASE s # r
    BY <2>2, <2>6 DEF Follow, Inv, TypeOK, Untouched
  <2> QED BY <2>5, <2>6
<1>3. CASE \E status \in {401, 404, 500} : DirectFail(r, status)
  <2>1. PICK status \in {401, 404, 500} : DirectFail(r, status)
    BY <1>3
  <2> DEFINE w == Respond(status)
  <2>2. Follow(r, w)
    BY <2>1 DEF DirectFail
  <2>3. w \in Reply /\ w.wire = status /\ w.captured = status /\ w.ver = None
    BY Responds DEF Statuses
  <2> HIDE DEF w
  <2>4. CASE s = r
    <3>1. reply'[s] = [w EXCEPT !.location = reply[r].location] /\ current'[s] = current[s]
      BY <2>2, <2>4 DEF Follow, Inv, TypeOK
    <3>2. /\ reply'[s].wire = status /\ reply'[s].ver = None /\ reply'[s].captured = status
          /\ reply'[s].location = reply[r].location
      BY <2>3, <3>1 DEF Reply
    <3> QED BY <1>1, <2>4, <3>1, <3>2 DEF Answers, Follows
  <2>5. CASE s # r
    BY <2>2, <2>5 DEF Follow, Inv, TypeOK, Untouched
  <2> QED BY <2>4, <2>5
<1> QED BY <1>2, <1>3

LEMMA SilentReply ==
  ASSUME Inv, NEW r \in Reqs, NEW s \in Reqs,
         \/ \E q \in Request : Arrive(r, q)
         \/ Lock(r) \/ CacheGet(r)
         \/ \E status \in {200, 304, 403, 412}, h \in AnswerHeaders : Upstream(r, status, h)
  PROVE  Untouched(s)
<1>1. UNCHANGED reply /\ pc'[s] \in {pc[s], "lock", "get", "upstream", "respond"}
  BY DEF Arrive, Lock, CacheGet, Upstream, Inv, TypeOK
<1>2. current'[s] = current[s] \/ pc[s] = "upstream"
  BY DEF Arrive, Lock, CacheGet, Upstream, Inv, TypeOK
<1>3. pc[s] = "upstream" => reply[s] = NoReply
  BY DEF Inv, Shapes, Shape, Active
<1> QED BY <1>1, <1>2, <1>3 DEF Untouched

LEMMA OtherReply ==
  ASSUME Inv, NEW s \in Reqs,
         \/ UNCHANGED vars
         \/ \E k \in Keys : Change(k)
         \/ \E n \in Nodes, k \in Keys : Evict(n, k)
         \/ \E r \in Reqs : Land(r)
         \/ Crashes
  PROVE  Untouched(s)
<1>1. UNCHANGED <<reply, current>>
  BY DEF vars, Change, Evict, Land, Crashes, Crash
<1>2. pc'[s] = pc[s] \/ pc[s] \in Active
  BY DEF vars, Change, Evict, Land, Crashes, Crash
<1>3. pc[s] \in Active => reply[s] = NoReply
  BY DEF Inv, Shapes, Shape
<1> QED BY <1>1, <1>2, <1>3 DEF Untouched

LEMMA ReplyStep ==
  ASSUME Inv, [Next]_vars, NEW s \in Reqs
  PROVE  Untouched(s) \/ Answers(s)
<1>1. ASSUME NEW r \in Reqs, Step(r) PROVE Untouched(s) \/ Answers(s)
  BY <1>1, SilentReply, CacheFailReply, UpstreamFailReply, PutReply, RedirectReply,
     ServeHitReply, ServeCutOffReply, PassThroughReply DEF Step
<1>2. ASSUME NEW r \in Reqs, Client(r) PROVE Untouched(s) \/ Answers(s)
  BY <1>2, SilentReply, DirectReply DEF Client
<1> QED BY <1>1, <1>2, OtherReply DEF Next, Crashes
-----------------------------------------------------------------------------
LEMMA AccessStep == Inv /\ BodyNeedsAccess /\ [Next]_vars => BodyNeedsAccess'
<1> SUFFICES ASSUME Inv, BodyNeedsAccess, [Next]_vars, NEW s \in Reqs,
                    reply'[s].ver # None \/ reply'[s].wire = 307
             PROVE  current'[s] # None
  BY DEF BodyNeedsAccess
<1>1. CASE Untouched(s)
  <2>1. reply[s] # NoReply
    BY <1>1, NoReplyFields, NoneApart DEF Untouched
  <2> QED BY <1>1, <2>1 DEF Untouched, BodyNeedsAccess
<1>2. CASE Answers(s)
  <2>1. pc[s] = "respond" => Answered(s)
    BY DEF Inv, Shapes, Shape
  <2>2. ~ Refuses(s)
    BY DEF Refuses
  <2>3. ASSUME Delivers(s) PROVE current[s] # None
    BY <2>1, <2>3 DEF Delivers, Answered, IsHit
  <2>4. ASSUME Redirects(s) PROVE current[s] # None
    BY <2>1, <2>4 DEF Redirects, Answered, IsHit
  <2>5. ASSUME Follows(s) PROVE current[s] # None
    BY <2>5 DEF Follows, Inv, Shapes, Shape
  <2> QED BY <1>2, <2>2, <2>3, <2>4, <2>5 DEF Answers
<1> QED BY <1>1, <1>2, ReplyStep

(* For every cluster: no client gets a body, or a redirect to one, unless  *)
(* the upstream granted it access in this very request.                    *)
THEOREM BodiesNeedAccess == Spec => []BodyNeedsAccess
<1>1. Init => BodyNeedsAccess
  <2> SUFFICES ASSUME Init, NEW s \in Reqs
               PROVE  reply[s].ver = None /\ reply[s].wire # 307
    BY DEF BodyNeedsAccess
  <2>1. reply[s] = NoReply
    BY DEF Init
  <2> QED BY <2>1, NoReplyFields, NoneApart
<1> QED BY <1>1, AccessStep, Invariance, PTL DEF Spec

LEMMA LogStep == Inv /\ FailuresAreLogged /\ [Next]_vars => FailuresAreLogged'
<1> SUFFICES ASSUME Inv, FailuresAreLogged, [Next]_vars, NEW s \in Reqs, pc'[s] = "done",
                    \/ reply'[s].wire \in 500 .. 599
                    \/ reply'[s].ver # None /\ ~ reply'[s].whole
             PROVE  "error" \in {LogLevel(reply'[s].captured), LogLevel(reply'[s].peer)}
  BY DEF FailuresAreLogged, Done
<1>1. \A code \in 500 .. 599 : LogLevel(code) = "error"
  BY DEF LogLevel
<1>2. CASE Untouched(s)
  <2>1. reply[s] # NoReply
    BY <1>2, NoReplyFields, NoneApart DEF Untouched
  <2> QED BY <1>2, <2>1 DEF Untouched, FailuresAreLogged, Done
<1>3. CASE Answers(s)
  <2>1. ~ Redirects(s)
    BY DEF Redirects
  <2>2. ASSUME Refuses(s) PROVE reply'[s].captured \in 500 .. 599
    BY <2>2 DEF Refuses
  <2>3. ASSUME Delivers(s)
        PROVE  reply'[s].captured \in 500 .. 599 \/ reply'[s].peer \in 500 .. 599
    BY <2>3 DEF Delivers
  <2>4. ASSUME Follows(s) PROVE reply'[s].captured \in 500 .. 599
    BY <2>4 DEF Follows
  <2> QED BY <1>1, <1>3, <2>1, <2>2, <2>3, <2>4 DEF Answers
<1> QED BY <1>2, <1>3, ReplyStep

(* Every request that got a 5xx, or whose body broke off, is logged as an  *)
(* error by the node whose handler met the failure, on whatever path it    *)
(* left: by the client's own node, or, of an entry that the target cannot  *)
(* read to its end, by the target.                                         *)
THEOREM FailuresReachTheLog == Spec => []FailuresAreLogged
<1>1. Init => FailuresAreLogged
  BY DEF Init, FailuresAreLogged, Done
<1> QED BY <1>1, LogStep, Invariance, PTL DEF Spec
-----------------------------------------------------------------------------
(* A node's list is a list of the configuration. *)
LEMMA ListsStep ==
  ASSUME Inv, Inv', NEW n \in Entrances, NEW k \in Keys
  PROVE  LET old == TargetNode(nodes[n], k)
             new == TargetNode(nodes'[n], k)
         IN  \/ new = old
             \/ new \in nodes'[n] \ nodes[n]
             \/ old \in nodes[n] \ nodes'[n]
<1>1. nodes[n] \in Configs /\ nodes'[n] \in Configs
  BY DEF Inv, TypeOK
<1>2. /\ nodes[n] \in SUBSET Nodes /\ nodes[n] # {}
      /\ nodes'[n] \in SUBSET Nodes /\ nodes'[n] # {}
  BY <1>1, ConfigsType
<1>3. k \in DOMAIN Rank
  BY RankDomain
<1> QED BY <1>2, <1>3, MinimalDisruption

(* For all distances and all lists: a restart with another list moves only *)
(* keys of nodes that were lost, or to nodes that were gained.             *)
THEOREM ReconfigurationIsLocal == Spec => ReconfigurationMovesLittle
<1>1. Inv /\ Inv' =>
        \A n \in Entrances, k \in Keys :
          LET old == TargetNode(nodes[n], k)
              new == TargetNode(nodes'[n], k)
          IN  \/ new = old
              \/ new \in nodes'[n] \ nodes[n]
              \/ old \in nodes[n] \ nodes'[n]
  BY ListsStep
<1> QED BY <1>1, Invariance, PTL DEF ReconfigurationMovesLittle
-----------------------------------------------------------------------------
(* What a step does to a disk: nothing, or it evicts, or a handler stores  *)
(* the body it was answered, or one does so that has returned.             *)
PutsAt(r, n, k) == /\ pc[r] = "respond" /\ pc'[r] = "done"
                   /\ IsFetch(r)
                   /\ Target(r) = n /\ Key(r) = k
                   /\ store'[n][k] = Stored(r)
                   /\ UNCHANGED version

LandsAt(r, n, k) == /\ late[r] # None /\ late[r].node = n /\ Key(r) = k
                    /\ store'[n][k] = late[r].entry
                    /\ UNCHANGED version

LEMMA PutStep ==
  ASSUME Inv, NEW r \in Reqs, NEW n \in Nodes, NEW k \in Keys, NEW w,
         pc[r] = "respond", IsFetch(r), Store(r), Return(r, w, "done"), UNCHANGED version
  PROVE  store'[n][k] = store[n][k] \/ PutsAt(r, n, k)
<1>1. Target(r) \in Nodes /\ Key(r) \in Keys
  BY StoreEntry DEF IsFetch
<1>2. pc'[r] = "done"
  BY DEF Return, Inv, TypeOK
<1>3. CASE Target(r) = n /\ Key(r) = k
  <2>1. store'[n][k] = Stored(r)
    BY <1>1, <1>3 DEF Store, Stored, Inv, TypeOK
  <2> QED BY <1>2, <1>3, <2>1 DEF PutsAt
<1>4. CASE ~ (Target(r) = n /\ Key(r) = k)
  BY <1>1, <1>4 DEF Store, Inv, TypeOK
<1> QED BY <1>3, <1>4

LEMMA StoreStep ==
  ASSUME Inv, [Next]_vars, NEW n \in Nodes, NEW k \in Keys
  PROVE  \/ store'[n][k] \in {store[n][k], None}
         \/ \E r \in Reqs : PutsAt(r, n, k) \/ LandsAt(r, n, k)
<1>1. ASSUME NEW r \in Reqs, Step(r)
      PROVE  store'[n][k] = store[n][k] \/ PutsAt(r, n, k)
  <2>1. ASSUME PutOK(r) PROVE store'[n][k] = store[n][k] \/ PutsAt(r, n, k)
    BY <2>1, PutStep DEF PutOK, Finish
  <2>2. ASSUME \/ Lock(r) \/ CacheGet(r) \/ CacheFail(r) \/ UpstreamFail(r)
               \/ \E status \in {200, 304, 403, 412}, h \in AnswerHeaders : Upstream(r, status, h)
               \/ PutRefused(r) \/ Redirect(r) \/ ServeCutOff(r)
               \/ \E all, sent \in BOOLEAN : PutFail(r, all, sent)
               \/ \E all \in BOOLEAN : ServeHit(r, all) \/ PassThrough(r, all)
        PROVE  UNCHANGED store
    BY <2>2 DEF Lock, CacheGet, CacheFail, UpstreamFail, Upstream, PutRefused, Redirect,
                ServeCutOff, PutFail, ServeHit, PassThrough
  <2> QED BY <1>1, <2>1, <2>2 DEF Step
<1>2. ASSUME NEW r \in Reqs, Client(r) PROVE UNCHANGED store
  BY <1>2 DEF Client, Arrive, DirectHit, DirectFail, Follow
<1>3. ASSUME NEW r \in Reqs, Land(r) PROVE store'[n][k] = store[n][k] \/ LandsAt(r, n, k)
  <2>1. late[r] # None /\ late[r].node \in Nodes /\ Key(r) \in Keys /\ UNCHANGED version
    BY <1>3, LateAt DEF Land
  <2>2. CASE late[r].node = n /\ Key(r) = k
    <3>1. store'[n][k] = late[r].entry
      BY <1>3, <2>2 DEF Land, Inv, TypeOK
    <3> QED BY <2>1, <2>2, <3>1 DEF LandsAt
  <2>3. CASE ~ (late[r].node = n /\ Key(r) = k)
    BY <1>3, <2>1, <2>3 DEF Land, Inv, TypeOK
  <2> QED BY <2>2, <2>3
<1>4. ASSUME NEW m \in Nodes, NEW l \in Keys, Evict(m, l)
      PROVE  store'[n][k] \in {store[n][k], None}
  BY <1>4 DEF Evict, Inv, TypeOK
<1>5. ASSUME UNCHANGED vars \/ (\E l \in Keys : Change(l)) \/ Crashes
      PROVE  UNCHANGED store
  BY <1>5 DEF vars, Change, Crashes, Crash
<1> QED BY <1>1, <1>2, <1>3, <1>4, <1>5 DEF Next, Crashes

(* How a Put comes to outlive its handler: the answer to it is lost, or    *)
(* the handler's node dies.                                                *)
Sends(r) == /\ pc[r] = "respond" /\ pc'[r] = "done" /\ req'[r] = req[r]
            /\ IsFetch(r) /\ Remote(r)
            /\ late'[r] = Sent(r)
            /\ UNCHANGED version

LEMMA LateStep ==
  ASSUME Inv, [Next]_vars, NEW s \in Reqs
  PROVE  \/ late'[s] \in {late[s], None} /\ (late[s] # None => req'[s] = req[s])
         \/ Sends(s)
<1> DEFINE Goal == \/ late'[s] \in {late[s], None} /\ (late[s] # None => req'[s] = req[s])
                   \/ Sends(s)
<1>1. ASSUME NEW r \in Reqs, NEW all \in BOOLEAN, NEW sent \in BOOLEAN, PutFail(r, all, sent)
      PROVE  Goal
  <2>1. Return(r, WriteHeader(Write(NoReply, answer[r].ver, all), 500), "done")
    BY <1>1 DEF PutFail, Finish
  <2>2. pc'[r] = "done"
    BY <2>1 DEF Return, Inv, TypeOK
  <2>3. CASE s = r /\ sent
    <3>1. late'[s] = Sent(s)
      BY <1>1, <2>3 DEF PutFail, Inv, TypeOK
    <3> QED BY <1>1, <2>2, <2>3, <3>1 DEF PutFail, Sendable, Sends
  <2>4. CASE ~ (s = r /\ sent)
    BY <1>1, <2>4 DEF PutFail, Inv, TypeOK
  <2> QED BY <2>3, <2>4
<1>2. ASSUME NEW r \in Reqs, NEW q \in Request, Arrive(r, q) PROVE Goal
  <2>1. late[s] # None => s # r
    BY <1>2, LateAt DEF Arrive
  <2> QED BY <1>2, <2>1 DEF Arrive, Inv, TypeOK
<1>3. ASSUME NEW n \in Entrances, NEW list \in Configs,
             NEW sent \in SUBSET {r \in Reqs : Sendable(r)}, Crash(n, list, sent)
      PROVE  Goal
  <2>1. CASE s \in sent
    <3>1. late'[s] = Sent(s) /\ pc'[s] = "done"
      BY <1>3, <2>1 DEF Crash
    <3> QED BY <1>3, <2>1, <3>1 DEF Crash, Sendable, Sends
  <2>2. CASE s \notin sent
    BY <1>3, <2>2 DEF Crash
  <2> QED BY <2>1, <2>2
<1>4. ASSUME NEW r \in Reqs, Land(r) PROVE Goal
  BY <1>4 DEF Land, Inv, TypeOK
<1>5. ASSUME NEW r \in Reqs,
             \/ Lock(r) \/ CacheGet(r) \/ CacheFail(r) \/ UpstreamFail(r)
             \/ \E status \in {200, 304, 403, 412}, h \in AnswerHeaders : Upstream(r, status, h)
             \/ PutOK(r) \/ PutRefused(r) \/ Redirect(r) \/ ServeCutOff(r)
             \/ \E all \in BOOLEAN : ServeHit(r, all) \/ PassThrough(r, all)
      PROVE  UNCHANGED <<late, req>>
  BY <1>5 DEF Lock, CacheGet, CacheFail, UpstreamFail, Upstream, PutOK, PutRefused, Redirect,
              ServeCutOff, ServeHit, PassThrough
<1>6. ASSUME NEW r \in Reqs,
             \/ \E all \in BOOLEAN : DirectHit(r, all)
             \/ \E status \in {401, 404, 500} : DirectFail(r, status)
      PROVE  UNCHANGED <<late, req>>
  BY <1>6 DEF DirectHit, DirectFail, Follow
<1>7. ASSUME \/ UNCHANGED vars
             \/ \E k \in Keys : Change(k)
             \/ \E n \in Nodes, k \in Keys : Evict(n, k)
      PROVE  UNCHANGED <<late, req>>
  BY <1>7 DEF vars, Change, Evict
<1>8. ASSUME UNCHANGED <<late, req>> PROVE Goal
  BY <1>8
<1> HIDE DEF Goal
<1>9. ASSUME NEW r \in Reqs, Step(r) PROVE Goal
  BY <1>1, <1>5, <1>8, <1>9 DEF Step
<1>10. ASSUME NEW r \in Reqs, Client(r) PROVE Goal
  BY <1>2, <1>6, <1>8, <1>10 DEF Client
<1>11. Goal
  BY <1>3, <1>4, <1>7, <1>8, <1>9, <1>10 DEF Next
<1> QED BY <1>11 DEF Goal

(* A handler stores, itself or later, only what RFC 9111 permits. *)
LEMMA FetchIsPermitted ==
  ASSUME Inv, NEW r \in Reqs, pc[r] = "respond", pc'[r] = "done", IsFetch(r)
  PROVE  PermittedEnd(r)
<1>1. req[r].header \in RequestHeader
  BY Places, SubsetTypes DEF Inv, Shapes, Shape
<1>2. answer[r].header \in AnswerHeader
  BY SubsetTypes DEF Inv, Shapes, Shape, Answered, Answer
<1>3. MayStore(req[r].method, req[r].header, answer[r].status, answer[r].header,
               RuleFor(req[r].url))
  BY <1>1, <1>2, CachedIsPermitted DEF IsFetch
<1> QED BY <1>3 DEF PermittedEnd

LEMMA PermittedStep ==
  ASSUME Inv, [Next]_vars, NEW n \in Nodes, NEW k \in Keys,
         store'[n][k] \notin {store[n][k], None}
  PROVE  \E r \in Reqs : /\ \/ PermittedEnd(r)
                            \/ late[r] = [node |-> n, entry |-> store'[n][k]]
                         /\ Key(r) = k
<1>1. PICK r \in Reqs : PutsAt(r, n, k) \/ LandsAt(r, n, k)
  BY StoreStep
<1>2. CASE PutsAt(r, n, k)
  BY <1>2, FetchIsPermitted DEF PutsAt
<1>3. CASE LandsAt(r, n, k)
  <2>1. late[r] \in LatePut /\ late[r].node = n /\ late[r].entry = store'[n][k] /\ Key(r) = k
    BY <1>3, LateAt DEF LandsAt
  <2>2. late[r] = [node |-> n, entry |-> store'[n][k]]
    BY <2>1 DEF LatePut
  <2> QED BY <2>1, <2>2
<1> QED BY <1>1, <1>2, <1>3

(* For all rules, headers and clusters: whatever a step puts on a disk,    *)
(* RFC 9111 or the operator's rule lets a shared cache keep; a Put that a  *)
(* node does after its sender is gone was permitted when it was sent.      *)
THEOREM StoresAreLawful == Spec => StoredIsPermitted
<1>1. Inv /\ [Next]_vars =>
        /\ \A n \in Nodes, k \in Keys :
             store'[n][k] \notin {store[n][k], None} =>
               \E r \in Reqs : /\ \/ PermittedEnd(r)
                                  \/ late[r] = [node |-> n, entry |-> store'[n][k]]
                               /\ Key(r) = k
        /\ \A r \in Reqs : late'[r] \notin {late[r], None} => PermittedEnd(r)
  <2> SUFFICES ASSUME Inv, [Next]_vars
               PROVE  \A r \in Reqs : late'[r] \notin {late[r], None} => PermittedEnd(r)
    BY PermittedStep
  <2> QED BY LateStep, FetchIsPermitted DEF Sends
<1> QED BY <1>1, Invariance, PTL DEF Spec, StoredIsPermitted
-----------------------------------------------------------------------------
(* How a request gets to where it waits for, or has, the upstream's answer. *)
Stays(s) == /\ pc'[s] = pc[s] /\ req'[s] = req[s] /\ entry'[s] = entry[s]
            /\ answer'[s] = answer[s] /\ current'[s] = current[s]
            /\ nodes'[req[s].node] = nodes[req[s].node]

Asks(s) == \E status \in {200, 304, 403, 412}, h \in AnswerHeaders : Upstream(s, status, h)

LEMMA StepProgress ==
  ASSUME Inv, NEW r \in Reqs, Step(r), NEW s \in Reqs, pc'[s] \in {"upstream", "respond"}
  PROVE  Stays(s) \/ CacheGet(s) \/ Asks(s)
<1>1. CASE s # r
  <2>1. ASSUME Lock(r) \/ CacheGet(r) \/ Asks(r) PROVE Stays(s)
    BY <1>1, <2>1 DEF Lock, CacheGet, Asks, Upstream, Stays, Inv, TypeOK
  <2>2. ASSUME NEW w, NEW label, Return(r, w, label), UNCHANGED <<nodes, req, current>>
        PROVE  Stays(s)
    BY <1>1, <2>2 DEF Return, Stays, Inv, TypeOK
  <2>3. ASSUME \/ CacheFail(r) \/ UpstreamFail(r) \/ PutOK(r) \/ PutRefused(r) \/ Redirect(r)
               \/ ServeCutOff(r)
        PROVE  Stays(s)
    BY <2>2, <2>3 DEF CacheFail, UpstreamFail, PutOK, PutRefused, Redirect, ServeCutOff, Finish
  <2>4. ASSUME NEW all \in BOOLEAN, NEW sent \in BOOLEAN, PutFail(r, all, sent)
        PROVE  Stays(s)
    BY <2>2, <2>4 DEF PutFail, Finish
  <2>5. ASSUME NEW all \in BOOLEAN, ServeHit(r, all) \/ PassThrough(r, all)
        PROVE  Stays(s)
    BY <2>2, <2>5 DEF ServeHit, PassThrough, Finish
  <2> QED BY <2>1, <2>3, <2>4, <2>5 DEF Step, Asks
<1>2. CASE s = r
  <2>1. ~ Lock(s)
    BY DEF Lock, Inv, TypeOK
  <2>2. ASSUME NEW w, NEW label \in {"done", "follow"}, Return(s, w, label) PROVE FALSE
    BY <2>2 DEF Return, Inv, TypeOK
  <2>3. ASSUME \/ CacheFail(s) \/ UpstreamFail(s) \/ PutOK(s) \/ PutRefused(s) \/ Redirect(s)
               \/ ServeCutOff(s)
        PROVE  FALSE
    BY <2>2, <2>3 DEF CacheFail, UpstreamFail, PutOK, PutRefused, Redirect, ServeCutOff, Finish
  <2>4. ASSUME NEW all \in BOOLEAN, NEW sent \in BOOLEAN, PutFail(s, all, sent)
        PROVE  FALSE
    BY <2>2, <2>4 DEF PutFail, Finish
  <2>5. ASSUME NEW all \in BOOLEAN, ServeHit(s, all) \/ PassThrough(s, all)
        PROVE  FALSE
    BY <2>2, <2>5 DEF ServeHit, PassThrough, Finish
  <2> QED BY <1>2, <2>1, <2>3, <2>4, <2>5 DEF Step, Asks
<1> QED BY <1>1, <1>2

LEMMA Progress ==
  ASSUME Inv, [Next]_vars, NEW s \in Reqs, pc'[s] \in {"upstream", "respond"}
  PROVE  Stays(s) \/ CacheGet(s) \/ Asks(s)
<1>1. ASSUME NEW r \in Reqs, Client(r) PROVE Stays(s)
  <2>1. ASSUME NEW q \in Request, Arrive(r, q) PROVE Stays(s)
    BY <2>1 DEF Arrive, Stays, Inv, TypeOK
  <2>2. ASSUME NEW w, Follow(r, w) PROVE Stays(s)
    BY <2>2 DEF Follow, Stays, Inv, TypeOK
  <2> QED BY <1>1, <2>1, <2>2 DEF Client, DirectHit, DirectFail
<1>2. ASSUME NEW n \in Entrances, NEW list \in Configs, NEW sent, Crash(n, list, sent)
      PROVE  Stays(s)
  <2>1. pc'[s] = pc[s] /\ ~ (pc[s] \in Active /\ req[s].node = n)
    BY <1>2 DEF Crash
  <2>2. req[s].node # n
    BY <2>1 DEF Active
  <2> QED BY <1>2, <2>1, <2>2 DEF Crash, Stays, Active, Inv, TypeOK
<1>3. ASSUME \/ UNCHANGED vars
             \/ \E k \in Keys : Change(k)
             \/ \E n \in Nodes, k \in Keys : Evict(n, k)
             \/ \E r \in Reqs : Land(r)
      PROVE  Stays(s)
  BY <1>3 DEF vars, Change, Evict, Land, Stays
<1> QED BY <1>1, <1>2, <1>3, StepProgress DEF Next

(* The upstream only moves on. *)
LEMMA VersionStep ==
  ASSUME Inv, [Next]_vars, NEW k \in Keys
  PROVE  version[k] \in Nat /\ version'[k] \in Nat /\ version[k] <= version'[k]
<1>1. version[k] \in Nat
  BY DEF Inv, TypeOK, Versions
<1>2. ASSUME NEW r \in Reqs, Step(r) \/ Client(r) PROVE UNCHANGED version
  BY <1>2 DEF Step, Client, Lock, CacheGet, CacheFail, UpstreamFail, Upstream, PutOK, PutRefused,
     PutFail, Redirect, ServeHit, ServeCutOff, PassThrough, Arrive, DirectHit, DirectFail, Follow
<1>3. ASSUME NEW l \in Keys, Change(l) PROVE version'[k] \in {version[k], version[k] + 1}
  BY <1>3 DEF Change, Inv, TypeOK
<1>4. ASSUME \/ UNCHANGED vars
             \/ \E n \in Nodes, l \in Keys : Evict(n, l)
             \/ \E r \in Reqs : Land(r)
             \/ Crashes
      PROVE  UNCHANGED version
  BY <1>4 DEF vars, Evict, Land, Crashes, Crash
<1>5. version'[k] \in {version[k], version[k] + 1}
  BY <1>2, <1>3, <1>4 DEF Next, Crashes
<1> QED BY <1>1, <1>5
-----------------------------------------------------------------------------
(* The clients send no If-None-Match of their own, and no                  *)
(* If-Modified-Since that is later than a version without an ETag.         *)
HarmlessConditions == /\ Conditions = {}
                      /\ \A d \in Dates, v \in Untagged : d <= v

(* Nothing that is stored, looked up, answered or under way is newer than  *)
(* what the upstream has.                                                  *)
NoNewer(e, v) == e # None => e.ver <= v

NoneNewer ==
  /\ \A n \in Nodes, k \in Keys : NoNewer(store[n][k], version[k])
  /\ \A r \in Reqs : pc[r] \in {"upstream", "respond"} => NoNewer(entry[r], version[Key(r)])
  /\ \A r \in Reqs : pc[r] = "respond" /\ answer[r].status = 200
                       => answer[r].ver <= version[Key(r)]
  /\ \A r \in Reqs : late[r] # None => late[r].entry.ver <= version[Key(r)]

(* An entry's ETag is that of its version, on a disk and looked up. *)
Fits(e) == e # None => e.tag = Tag(e.ver)

Tagged == /\ \A n \in Nodes, k \in Keys : Fits(store[n][k])
          /\ \A r \in Reqs : pc[r] \in {"upstream", "respond"} => Fits(entry[r])
          /\ \A r \in Reqs : late[r] # None => Fits(late[r].entry)

(* A handler that has its answer has a body of the confirmed version: the  *)
(* answer's, or the entry's if the answer is 304.                          *)
Confirmed == \A r \in Reqs : pc[r] = "respond" =>
               /\ answer[r].status = 200 => answer[r].ver = current[r]
               /\ IsHit(r) => entry[r].ver = current[r]

Fresh == NoneNewer /\ Tagged /\ Confirmed /\ ServedIsCurrent

(* What the upstream's answer leaves behind. *)
LEMMA AskStep ==
  ASSUME Inv, NEW r \in Reqs, Asks(r)
  PROVE  /\ pc[r] = "upstream" /\ Key(r) \in Keys /\ Key(r)' = Key(r)
         /\ UNCHANGED <<version, store, entry, req, nodes>>
         /\ answer'[r].status = 200 => /\ answer'[r].ver = version[Key(r)]
                                       /\ ~ Matches(r)
         /\ current'[r] # None => current'[r] = version[Key(r)]
<1>1. PICK status \in {200, 304, 403, 412}, h \in AnswerHeaders : Upstream(r, status, h)
  BY DEF Asks
<1>2. Key(r) \in Keys
  BY <1>1, Places DEF Upstream, Inv, Shapes, Shape
<1> QED BY <1>1, <1>2 DEF Upstream, Key, Inv, TypeOK

LEMMA NoneNewerStep == Inv /\ NoneNewer /\ [Next]_vars => NoneNewer'
<1> SUFFICES ASSUME Inv, NoneNewer, [Next]_vars PROVE NoneNewer'
  OBVIOUS
<1>1. ASSUME NEW k \in Keys, NEW v \in Nat, v <= version[k] PROVE v <= version'[k]
  BY <1>1, VersionStep
<1>2. ASSUME NEW k \in Keys, NEW e \in Entry \cup {None}, NoNewer(e, version[k])
      PROVE  NoNewer(e, version'[k])
  BY <1>1, <1>2 DEF NoNewer, Entry, Versions
<1>3. ASSUME NEW n \in Nodes, NEW k \in Keys PROVE NoNewer(store'[n][k], version'[k])
  <2>1. CASE store'[n][k] \in {store[n][k], None}
    <3>1. store[n][k] \in Entry \cup {None} /\ NoNewer(store[n][k], version[k])
      BY DEF Inv, TypeOK, NoneNewer
    <3>2. NoNewer(store[n][k], version'[k])
      BY <1>2, <3>1
    <3> QED BY <2>1, <3>2 DEF NoNewer
  <2>2. ASSUME NEW r \in Reqs, PutsAt(r, n, k) PROVE NoNewer(store'[n][k], version'[k])
    <3>1. /\ pc[r] = "respond" /\ answer[r].status = 200 /\ Key(r) = k /\ version' = version
          /\ store'[n][k].ver = answer[r].ver
      BY <2>2 DEF PutsAt, IsFetch, Stored
    <3> QED BY <3>1 DEF NoneNewer, NoNewer
  <2>3. ASSUME NEW r \in Reqs, LandsAt(r, n, k) PROVE NoNewer(store'[n][k], version'[k])
    BY <2>3 DEF LandsAt, NoneNewer, NoNewer
  <2> QED BY <2>1, <2>2, <2>3, StoreStep
<1>4. ASSUME NEW r \in Reqs, pc'[r] \in {"upstream", "respond"}
      PROVE  /\ NoNewer(entry'[r], version'[Key(r)'])
             /\ pc'[r] = "respond" /\ answer'[r].status = 200
                  => answer'[r].ver <= version'[Key(r)']
  <2>1. CASE Stays(r)
    <3>1. /\ pc[r] = pc'[r] /\ Key(r)' = Key(r) /\ answer'[r] = answer[r]
          /\ entry'[r] = entry[r]
      BY <2>1 DEF Stays, Key
    <3>2. Key(r) \in Keys
      BY <1>4, <3>1, Places DEF Inv, Shapes, Shape
    <3>3. entry[r] \in Entry \cup {None} /\ NoNewer(entry[r], version[Key(r)])
      BY <1>4, <3>1 DEF NoneNewer, Inv, TypeOK
    <3>4. NoNewer(entry[r], version'[Key(r)])
      BY <1>2, <3>2, <3>3
    <3>5. ASSUME pc[r] = "respond", answer[r].status = 200
          PROVE  answer[r].ver <= version'[Key(r)]
      <4>1. answer[r].ver \in Nat
        BY <3>5 DEF Inv, Shapes, Shape, Answered, Answer, Versions
      <4>2. answer[r].ver <= version[Key(r)]
        BY <3>5 DEF NoneNewer
      <4> QED BY <1>1, <3>2, <4>1, <4>2
    <3> QED BY <3>1, <3>4, <3>5
  <2>2. CASE CacheGet(r)
    <3>1. req[r].node \in Nodes /\ Target(r) \in Nodes /\ Key(r) \in Keys
      BY <2>2, Places DEF CacheGet, Inv, Shapes, Shape
    <3>2. NoNewer(Lookup(r), version[Key(r)])
      BY <3>1 DEF Lookup, ClusterGet, NoneNewer
    <3>3. /\ entry'[r] = Lookup(r) /\ Key(r)' = Key(r) /\ version' = version
          /\ pc'[r] = "upstream"
      BY <2>2 DEF CacheGet, Key, Inv, TypeOK
    <3> QED BY <3>2, <3>3
  <2>3. CASE Asks(r)
    <3>1. /\ pc[r] = "upstream" /\ Key(r) \in Keys /\ Key(r)' = Key(r)
          /\ UNCHANGED <<version, entry>>
          /\ answer'[r].status = 200 => answer'[r].ver = version[Key(r)]
      BY <2>3, AskStep
    <3>2. version[Key(r)] \in Nat
      BY <3>1 DEF Inv, TypeOK, Versions
    <3>3. NoNewer(entry[r], version[Key(r)])
      BY <3>1 DEF NoneNewer
    <3> QED BY <3>1, <3>2, <3>3
  <2> QED BY <1>4, <2>1, <2>2, <2>3, Progress
<1>5. ASSUME NEW r \in Reqs, late'[r] # None
      PROVE  late'[r].entry.ver <= version'[Key(r)']
  <2>1. CASE late'[r] = late[r] /\ req'[r] = req[r]
    <3>1. late[r].entry.ver \in Nat /\ Key(r) \in Keys /\ Key(r)' = Key(r)
      BY <1>5, <2>1, LateAt DEF Entry, Versions, Key
    <3> QED BY <1>1, <1>5, <2>1, <3>1 DEF NoneNewer
  <2>2. CASE Sends(r)
    <3>1. /\ pc[r] = "respond" /\ answer[r].status = 200 /\ version' = version
          /\ late'[r].entry.ver = answer[r].ver /\ Key(r)' = Key(r)
      BY <2>2 DEF Sends, Sent, Stored, IsFetch, Key
    <3> QED BY <3>1 DEF NoneNewer
  <2> QED BY <1>5, <2>1, <2>2, LateStep
<1> QED BY <1>3, <1>4, <1>5 DEF NoneNewer

(* Two versions with the same ETag are the same. *)
LEMMA TagInjective ==
  ASSUME NEW v \in Versions, NEW u \in Versions, Tag(v) = Tag(u), Tag(v) # None
  PROVE  v = u
BY DEF Tag

LEMMA TaggedStep == Inv /\ Tagged /\ [Next]_vars => Tagged'
<1> SUFFICES ASSUME Inv, Tagged, [Next]_vars PROVE Tagged'
  OBVIOUS
<1>1. ASSUME NEW n \in Nodes, NEW k \in Keys PROVE Fits(store'[n][k])
  <2>1. CASE store'[n][k] \in {store[n][k], None}
    BY <2>1 DEF Tagged, Fits
  <2>2. ASSUME NEW r \in Reqs, PutsAt(r, n, k) PROVE Fits(store'[n][k])
    BY <2>2 DEF PutsAt, Stored, Fits
  <2>3. ASSUME NEW r \in Reqs, LandsAt(r, n, k) PROVE Fits(store'[n][k])
    BY <2>3 DEF LandsAt, Tagged
  <2> QED BY <2>1, <2>2, <2>3, StoreStep
<1>2. ASSUME NEW r \in Reqs, pc'[r] \in {"upstream", "respond"} PROVE Fits(entry'[r])
  <2>1. CASE Stays(r)
    BY <1>2, <2>1 DEF Stays, Tagged
  <2>2. CASE CacheGet(r)
    <3>1. req[r].node \in Nodes /\ Target(r) \in Nodes /\ Key(r) \in Keys
      BY <2>2, Places DEF CacheGet, Inv, Shapes, Shape
    <3>2. Fits(Lookup(r))
      BY <3>1 DEF Lookup, ClusterGet, Tagged
    <3> QED BY <2>2, <3>2 DEF CacheGet, Inv, TypeOK
  <2>3. CASE Asks(r)
    BY <2>3 DEF Asks, Upstream, Tagged
  <2> QED BY <1>2, <2>1, <2>2, <2>3, Progress
<1>3. ASSUME NEW r \in Reqs, late'[r] # None PROVE Fits(late'[r].entry)
  <2>1. CASE late'[r] = late[r]
    BY <1>3, <2>1 DEF Tagged
  <2>2. CASE Sends(r)
    BY <2>2 DEF Sends, Sent, Stored, Fits
  <2> QED BY <1>3, <2>1, <2>2, LateStep
<1> QED BY <1>1, <1>2, <1>3 DEF Tagged, Fits

(* The upstream's 304 is about the entry that was looked up: its ETag was  *)
(* sent; or it has none, and the client's date is not later than it.       *)
LEMMA HitIsCurrent ==
  ASSUME Inv, NoneNewer, Tagged, HarmlessConditions, NEW r \in Reqs, pc[r] = "upstream",
         entry[r] # None, Matches(r)
  PROVE  entry[r].ver = version[Key(r)]
<1>1. req[r].cond = None /\ req[r].since \in Dates \cup {None} /\ Key(r) \in Keys
  BY Places DEF Inv, Shapes, Shape, HarmlessConditions
<1>2. entry[r].ver \in Versions /\ version[Key(r)] \in Versions
  BY <1>1 DEF Inv, TypeOK, Entry
<1>3. Condition(r) = Tag(entry[r].ver)
  BY <1>1 DEF Condition, Tagged, Fits
<1>4. CASE Tag(entry[r].ver) # None
  BY <1>2, <1>3, <1>4, TagInjective DEF Matches
<1>5. CASE Tag(entry[r].ver) = None
  <2>1. entry[r].ver \in Untagged
    BY <1>2, <1>5, NoneApart DEF Tag, Versions
  <2>2. req[r].since \in Dates /\ version[Key(r)] <= req[r].since
    BY <1>1, <1>3, <1>5 DEF Matches
  <2>3. req[r].since <= entry[r].ver
    BY <2>1, <2>2 DEF HarmlessConditions
  <2>4. req[r].since \in Versions
    BY <2>2, SubsetTypes
  <2>5. entry[r].ver <= version[Key(r)]
    BY DEF NoneNewer, NoNewer
  <2> QED BY <1>2, <2>2, <2>3, <2>4, <2>5 DEF Versions
<1> QED BY <1>4, <1>5

LEMMA ConfirmedStep ==
  ASSUME HarmlessConditions, Inv, NoneNewer, Tagged, Confirmed, [Next]_vars PROVE Confirmed'
<1> SUFFICES ASSUME NEW r \in Reqs, pc'[r] = "respond"
             PROVE  /\ answer'[r].status = 200 => answer'[r].ver = current'[r]
                    /\ IsHit(r)' => entry'[r].ver = current'[r]
  BY DEF Confirmed
<1>1. CASE Stays(r)
  BY <1>1 DEF Stays, Confirmed, IsHit
<1>2. CASE CacheGet(r)
  BY <1>2 DEF CacheGet, Inv, TypeOK
<1>3. ASSUME NEW status \in {200, 304, 403, 412}, NEW h \in AnswerHeaders,
             Upstream(r, status, h)
      PROVE  /\ answer'[r].status = 200 => answer'[r].ver = current'[r]
             /\ IsHit(r)' => entry'[r].ver = current'[r]
  <2>1. /\ answer'[r].status = status /\ entry'[r] = entry[r]
        /\ status = 200 => answer'[r].ver = version[Key(r)]
        /\ status \in {200, 304} => current'[r] = version[Key(r)]
    BY <1>3 DEF Upstream, Inv, TypeOK
  <2>2. IsHit(r)' => status = 304 /\ entry[r] # None
    BY <2>1 DEF IsHit
  <2>3. ASSUME status = 304, entry[r] # None PROVE entry[r].ver = version[Key(r)]
    BY <1>3, <2>3, HitIsCurrent DEF Upstream
  <2> QED BY <2>1, <2>2, <2>3
<1> QED BY <1>1, <1>2, <1>3, Progress DEF Asks

LEMMA ServedStep ==
  ASSUME Inv, Confirmed, ServedIsCurrent, [Next]_vars PROVE ServedIsCurrent'
<1> SUFFICES ASSUME NEW s \in Reqs, pc'[s] = "done",
                    reply'[s].ver # None, reply'[s].location = None
             PROVE  reply'[s].ver = current'[s]
  BY DEF ServedIsCurrent, Done
<1>1. CASE Untouched(s)
  <2>1. reply[s] # NoReply
    BY <1>1, NoReplyFields DEF Untouched
  <2> QED BY <1>1, <2>1 DEF Untouched, ServedIsCurrent, Done
<1>2. CASE Answers(s)
  <2>1. ~ Refuses(s) /\ ~ Redirects(s)
    BY DEF Refuses, Redirects
  <2>2. ~ Follows(s)
    BY NoneApart DEF Follows, Inv, Shapes, Shape
  <2>3. ASSUME Delivers(s) PROVE reply'[s].ver = current[s]
    BY <2>3 DEF Delivers, Confirmed, Inv, Shapes, Shape, Answered
  <2> QED BY <1>2, <2>1, <2>2, <2>3 DEF Answers
<1> QED BY <1>1, <1>2, ReplyStep

LEMMA InitFresh == Init => Fresh
<1> SUFFICES ASSUME Init PROVE Fresh
  OBVIOUS
<1>1. Tagged /\ NoneNewer
  BY DEF Init, Tagged, Fits, NoneNewer, NoNewer
<1>2. Confirmed /\ ServedIsCurrent
  BY DEF Init, Confirmed, ServedIsCurrent, Done
<1> QED BY <1>1, <1>2 DEF Fresh

(* For every cluster, whatever lists its nodes have and whatever entries   *)
(* are on their disks: if the clients send no If-None-Match, and no        *)
(* If-Modified-Since that is later than a version without an ETag, every   *)
(* body that the proxy gives is the version that the upstream had when it  *)
(* was asked for this very request.                                        *)
THEOREM BodiesAreCurrent ==
  ASSUME HarmlessConditions PROVE Spec => []ServedIsCurrent
<1>1. Inv /\ Fresh /\ [Next]_vars => Fresh'
  BY NoneNewerStep, TaggedStep, ConfirmedStep, ServedStep DEF Fresh
<1>2. Fresh => ServedIsCurrent
  BY DEF Fresh
<1> QED BY <1>1, <1>2, InitFresh, Invariance, PTL DEF Spec
-----------------------------------------------------------------------------
(* On one node, all requests for a key share one kmutex.                   *)
OneNode == \A m, n \in Nodes : m = n

(* So no Put goes to another node, *)
NoLate == \A r \in Reqs : late[r] = None

LEMMA NoLateStep ==
  ASSUME OneNode, Inv, NoLate, [Next]_vars PROVE NoLate'
<1> SUFFICES ASSUME NEW r \in Reqs PROVE late'[r] = None
  BY DEF NoLate
<1>1. ~ Sends(r)
  <2>1. pc[r] = "respond" => req[r].node \in Nodes /\ Target(r) \in Nodes
    BY Places DEF Inv, Shapes, Shape
  <2> QED BY <2>1 DEF Sends, Remote, OneNode
<1> QED BY <1>1, LateStep DEF NoLate

LEMMA InitNoLate == Init => NoLate
BY DEF Init, NoLate

(* two handlers of a key do not both hold its kmutex, *)
LEMMA Exclusive ==
  ASSUME OneNode, Inv, NEW r \in Reqs, NEW s \in Reqs,
         pc[r] \in Holding, pc[s] \in Holding, Key(r) = Key(s)
  PROVE  r = s
<1>1. req[r].node \in Nodes /\ req[s].node \in Nodes
  BY Places DEF Inv, Shapes, Shape, Holding
<1>2. req[r].node = req[s].node
  BY <1>1 DEF OneNode
<1> QED BY <1>2 DEF Inv, Shapes, Shape

(* and while a handler has, or waits for, an answer, no other one stores   *)
(* under its key.                                                          *)
LEMMA StoreKept ==
  ASSUME OneNode, Inv, NoLate, [Next]_vars, NEW s \in Reqs, pc[s] \in Holding, pc'[s] # "done",
         NEW n \in Nodes
  PROVE  store'[n][Key(s)] \in {store[n][Key(s)], None}
<1>1. Key(s) \in Keys
  BY Places DEF Inv, Shapes, Shape, Holding
<1>2. ASSUME NEW r \in Reqs, PutsAt(r, n, Key(s)) PROVE FALSE
  <2>1. pc[r] \in Holding /\ Key(r) = Key(s) /\ pc'[r] = "done"
    BY <1>2 DEF PutsAt, Holding
  <2> QED BY <2>1, Exclusive
<1> QED BY <1>1, <1>2, StoreStep DEF NoLate, LandsAt

(* The versions of a disk, of an answer and of the upstream are in order.  *)
Ordered ==
  \A r \in Reqs : pc[r] = "respond" =>
    /\ current[r] # None => current[r] <= version[Key(r)]
    /\ answer[r].status = 200 =>
         \A n \in Nodes : NoNewer(store[n][Key(r)], answer[r].ver)

LEMMA OrderedStep ==
  ASSUME OneNode, Inv, NoLate, NoneNewer, Ordered, [Next]_vars PROVE Ordered'
<1> SUFFICES ASSUME NEW r \in Reqs, pc'[r] = "respond"
             PROVE  /\ current'[r] # None => current'[r] <= version'[Key(r)']
                    /\ answer'[r].status = 200 =>
                         \A n \in Nodes : NoNewer(store'[n][Key(r)'], answer'[r].ver)
  BY DEF Ordered
<1>1. CASE Stays(r)
  <2>1. pc[r] = "respond" /\ Key(r)' = Key(r) /\ answer'[r] = answer[r] /\ current'[r] = current[r]
    BY <1>1 DEF Stays, Key
  <2>2. Key(r) \in Keys
    BY <2>1, Places DEF Inv, Shapes, Shape
  <2>3. /\ version[Key(r)] \in Nat /\ version'[Key(r)] \in Nat
        /\ version[Key(r)] <= version'[Key(r)]
    BY <2>2, VersionStep
  <2>4. current[r] # None => current[r] \in Nat
    BY DEF Inv, TypeOK, Versions
  <2>5. \A n \in Nodes : store'[n][Key(r)] \in {store[n][Key(r)], None}
    BY <2>1, StoreKept DEF Holding
  <2>6. answer[r].status = 200 =>
          \A n \in Nodes : NoNewer(store'[n][Key(r)], answer[r].ver)
    BY <2>1, <2>5 DEF Ordered, NoNewer
  <2>7. current[r] # None => current[r] <= version'[Key(r)]
    BY <2>1, <2>3, <2>4 DEF Ordered
  <2> QED BY <2>1, <2>6, <2>7
<1>2. CASE CacheGet(r)
  BY <1>2 DEF CacheGet, Inv, TypeOK
<1>3. CASE Asks(r)
  <2>1. /\ Key(r) \in Keys /\ Key(r)' = Key(r) /\ UNCHANGED <<version, store>>
        /\ answer'[r].status = 200 => answer'[r].ver = version[Key(r)]
        /\ current'[r] # None => current'[r] = version[Key(r)]
    BY <1>3, AskStep
  <2>2. version[Key(r)] \in Nat
    BY <2>1 DEF Inv, TypeOK, Versions
  <2> QED BY <2>1, <2>2 DEF NoneNewer
<1> QED BY <1>1, <1>2, <1>3, Progress

LEMMA InitOrdered == Init => Ordered
BY DEF Init, Ordered

LEMMA NoRegressStep ==
  ASSUME Inv, NoLate, Ordered, [Next]_vars, NEW n \in Nodes, NEW k \in Keys,
         store[n][k] # None, store'[n][k] # None
  PROVE  store'[n][k].ver >= store[n][k].ver
<1>1. store[n][k].ver \in Nat
  BY DEF Inv, TypeOK, Entry, Versions
<1>2. CASE store'[n][k] \in {store[n][k], None}
  BY <1>1, <1>2
<1>3. ASSUME NEW r \in Reqs, PutsAt(r, n, k) PROVE store'[n][k].ver >= store[n][k].ver
  <2>1. /\ pc[r] = "respond" /\ answer[r].status = 200 /\ Key(r) = k
        /\ store'[n][k].ver = answer[r].ver
    BY <1>3 DEF PutsAt, IsFetch, Stored
  <2>2. answer[r].ver \in Nat
    BY <2>1 DEF Inv, Shapes, Shape, Answered, Answer, Versions
  <2>3. store[n][k].ver <= answer[r].ver
    BY <2>1 DEF Ordered, NoNewer
  <2> QED BY <1>1, <2>1, <2>2, <2>3
<1> QED BY <1>2, <1>3, StoreStep DEF NoLate, LandsAt

(* On one node, whatever the upstream does between a handler's steps and   *)
(* however many handlers there are: an entry is never replaced by an older *)
(* version.                                                                *)
THEOREM EntriesNeverRegress ==
  ASSUME OneNode PROVE Spec => StoreNeverRegresses
<1> DEFINE RInv == NoLate /\ NoneNewer /\ Ordered
<1>1. Inv /\ RInv /\ [Next]_vars => RInv'
  BY NoLateStep, NoneNewerStep, OrderedStep
<1>2. Inv /\ RInv /\ [Next]_vars =>
        \A n \in Nodes, k \in Keys : store[n][k] # None /\ store'[n][k] # None
                                       => store'[n][k].ver >= store[n][k].ver
  BY NoRegressStep
<1>3. Init => RInv
  BY InitNoLate, InitFresh, InitOrdered DEF Fresh
<1> HIDE DEF RInv
<1> QED BY <1>1, <1>2, <1>3, Invariance, PTL DEF Spec, StoreNeverRegresses
-----------------------------------------------------------------------------
(* What a handler looked up is all that is on the disk until it is done,   *)
(* unless it is evicted.                                                   *)
Kept == \A r \in Reqs : pc[r] \in {"upstream", "respond"} =>
          \A n \in Nodes : store[n][Key(r)] \in {None, entry[r]}

LEMMA KeptStep ==
  ASSUME OneNode, Inv, NoLate, Kept, [Next]_vars PROVE Kept'
<1> SUFFICES ASSUME NEW r \in Reqs, pc'[r] \in {"upstream", "respond"}, NEW n \in Nodes
             PROVE  store'[n][Key(r)'] \in {None, entry'[r]}
  BY DEF Kept
<1>1. CASE Stays(r)
  <2>1. pc[r] \in {"upstream", "respond"} /\ Key(r)' = Key(r) /\ entry'[r] = entry[r]
    BY <1>1 DEF Stays, Key
  <2>2. store'[n][Key(r)] \in {store[n][Key(r)], None}
    BY <2>1, StoreKept DEF Holding
  <2> QED BY <2>1, <2>2 DEF Kept
<1>2. CASE CacheGet(r)
  <2>1. req[r].node \in Nodes /\ Target(r) \in Nodes
    BY <1>2, Places DEF CacheGet, Inv, Shapes, Shape
  <2>2. req[r].node = n /\ Target(r) = n
    BY <2>1 DEF OneNode
  <2>3. Lookup(r) = store[n][Key(r)]
    BY <2>2 DEF Lookup, ClusterGet
  <2> QED BY <1>2, <2>3 DEF CacheGet, Key, Inv, TypeOK
<1>3. CASE Asks(r)
  BY <1>3, AskStep DEF Kept
<1> QED BY <1>1, <1>2, <1>3, Progress

LEMMA InitKept == Init => Kept
BY DEF Init, Kept

LEMMA FetchStep ==
  ASSUME Conditions = {}, Inv, Tagged, Kept, [Next]_vars, NEW r \in Reqs,
         pc[r] = "upstream", pc'[r] = "respond", answer'[r].status = 200,
         store[Target(r)][Key(r)] # None, store[Target(r)][Key(r)].tag # None
  PROVE  store[Target(r)][Key(r)].ver # answer'[r].ver
<1> DEFINE e == store[Target(r)][Key(r)]
<1>1. Asks(r)
  BY Progress DEF Stays, CacheGet
<1>2. answer'[r].ver = version[Key(r)] /\ ~ Matches(r)
  BY <1>1, AskStep
<1>3. Target(r) \in Nodes /\ Key(r) \in Keys /\ req[r].cond = None
  BY Places DEF Inv, Shapes, Shape
<1>4. e = entry[r] /\ e.tag = Tag(e.ver)
  BY <1>3 DEF Kept, Tagged, Fits
<1>5. Condition(r) = e.tag
  BY <1>3, <1>4 DEF Condition
<1> QED BY <1>2, <1>4, <1>5 DEF Matches

(* On one node whose clients send no If-None-Match: no body is fetched     *)
(* again that the cache holds with its ETag, because what the handler      *)
(* looked up is still what is stored when the upstream answers.            *)
THEOREM FetchesAreNeeded ==
  ASSUME OneNode, Conditions = {} PROVE Spec => NoNeedlessFetch
<1> DEFINE FInv == NoLate /\ Tagged /\ Kept
<1>1. Inv /\ FInv /\ [Next]_vars => FInv'
  BY NoLateStep, TaggedStep, KeptStep
<1>2. Inv /\ FInv /\ [Next]_vars =>
        \A r \in Reqs :
          /\ pc[r] = "upstream" /\ pc'[r] = "respond"
          /\ req[r].method = "GET" /\ answer'[r].status = 200
          => LET e == store[Target(r)][Key(r)]
             IN  e = None \/ e.tag = None \/ e.ver # answer'[r].ver
  BY FetchStep
<1>3. Init => FInv
  BY InitNoLate, InitFresh, InitKept DEF Fresh
<1> HIDE DEF FInv
<1> QED BY <1>1, <1>2, <1>3, Invariance, PTL DEF Spec, NoNeedlessFetch
-----------------------------------------------------------------------------
(* How a request comes to be redirected, and stays so. *)
LEMMA RedirectStep ==
  ASSUME Inv, [Next]_vars, NEW s \in Reqs, pc'[s] = "follow"
  PROVE  /\ req'[s] = req[s] /\ current'[s] = current[s]
         /\ pc[s] = "follow" \/ (pc[s] = "respond" /\ IsHit(s))
<1> DEFINE Goal == /\ req'[s] = req[s] /\ current'[s] = current[s]
                   /\ pc[s] = "follow" \/ (pc[s] = "respond" /\ IsHit(s))
<1>1. ASSUME NEW r \in Reqs, Step(r) PROVE Goal
  <2>1. ASSUME Lock(r) \/ CacheGet(r) \/ Asks(r) PROVE Goal
    BY <2>1 DEF Lock, CacheGet, Asks, Upstream, Inv, TypeOK
  <2>2. ASSUME NEW w, Return(r, w, "done"), UNCHANGED <<req, current>> PROVE Goal
    BY <2>2 DEF Return, Inv, TypeOK
  <2>3. ASSUME CacheFail(r) \/ UpstreamFail(r) \/ PutOK(r) \/ PutRefused(r) \/ ServeCutOff(r)
        PROVE  Goal
    BY <2>2, <2>3 DEF CacheFail, UpstreamFail, PutOK, PutRefused, ServeCutOff, Finish
  <2>4. ASSUME NEW all \in BOOLEAN, NEW sent \in BOOLEAN, PutFail(r, all, sent)
        PROVE  Goal
    BY <2>2, <2>4 DEF PutFail, Finish
  <2>5. ASSUME NEW all \in BOOLEAN, ServeHit(r, all) \/ PassThrough(r, all)
        PROVE  Goal
    BY <2>2, <2>5 DEF ServeHit, PassThrough, Finish
  <2>6. ASSUME Redirect(r) PROVE Goal
    BY <2>6 DEF Redirect, Return, Inv, TypeOK
  <2> HIDE DEF Goal
  <2> QED BY <1>1, <2>1, <2>3, <2>4, <2>5, <2>6 DEF Step, Asks
<1>2. ASSUME NEW r \in Reqs, Client(r) PROVE Goal
  <2>1. ASSUME NEW q \in Request, Arrive(r, q) PROVE Goal
    <3>1. r # s
      BY <2>1 DEF Arrive, Inv, TypeOK
    <3> QED BY <2>1, <3>1 DEF Arrive, Inv, TypeOK
  <2>2. ASSUME NEW w, Follow(r, w) PROVE Goal
    <3>1. r # s
      BY <2>2 DEF Follow, Inv, TypeOK
    <3> QED BY <2>2, <3>1 DEF Follow, Inv, TypeOK
  <2> HIDE DEF Goal
  <2>3. ASSUME NEW all \in BOOLEAN, DirectHit(r, all) PROVE Goal
    BY <2>2, <2>3 DEF DirectHit
  <2>4. ASSUME NEW status \in {401, 404, 500}, DirectFail(r, status) PROVE Goal
    BY <2>2, <2>4 DEF DirectFail
  <2> QED BY <1>2, <2>1, <2>3, <2>4 DEF Client
<1>3. ASSUME \/ UNCHANGED vars
             \/ \E k \in Keys : Change(k)
             \/ \E n \in Nodes, k \in Keys : Evict(n, k)
             \/ \E r \in Reqs : Land(r)
      PROVE  Goal
  BY <1>3 DEF vars, Change, Evict, Land
<1>4. ASSUME NEW n \in Entrances, NEW list \in Configs, NEW sent, Crash(n, list, sent)
      PROVE  Goal
  <2>1. pc'[s] \in {pc[s], "done"} /\ UNCHANGED <<req, current>>
    BY <1>4 DEF Crash
  <2> QED BY <2>1
<1> HIDE DEF Goal
<1>5. Goal
  BY <1>1, <1>2, <1>3, <1>4 DEF Next
<1> QED BY <1>5 DEF Goal

(* Whatever a redirected client may yet find is not older than what the    *)
(* upstream confirmed, nor is what any handler is about to store.          *)
NoOlder(r) ==
  /\ current[r] <= version[Key(r)]
  /\ \A n \in Nodes : store[n][Key(r)] # None => current[r] <= store[n][Key(r)].ver
  /\ \A s \in Reqs : pc[s] = "respond" /\ answer[s].status = 200 /\ Key(s) = Key(r)
                       => current[r] <= answer[s].ver

Awaited == \A r \in Reqs : pc[r] = "follow" => NoOlder(r)

(* The request was redirected before: what is stored since was answered    *)
(* since.                                                                  *)
LEMMA FollowingStep ==
  ASSUME Inv, NoLate, Awaited, [Next]_vars, NEW r \in Reqs, pc[r] = "follow",
         req'[r] = req[r], current'[r] = current[r]
  PROVE  NoOlder(r)'
<1>1. NoOlder(r) /\ Key(r)' = Key(r)
  BY DEF Awaited, Key
<1>2. Key(r) \in Keys /\ current[r] \in Nat
  BY Places DEF Inv, TypeOK, Shapes, Shape, Versions
<1>3. /\ version[Key(r)] \in Nat /\ version'[Key(r)] \in Nat
      /\ version[Key(r)] <= version'[Key(r)]
  BY <1>2, VersionStep
<1>4. current[r] <= version'[Key(r)]
  BY <1>1, <1>2, <1>3 DEF NoOlder
<1>5. ASSUME NEW n \in Nodes, store'[n][Key(r)] # None
      PROVE  current[r] <= store'[n][Key(r)].ver
  <2>1. CASE store'[n][Key(r)] \in {store[n][Key(r)], None}
    BY <1>1, <1>5, <2>1 DEF NoOlder
  <2>2. ASSUME NEW s \in Reqs, PutsAt(s, n, Key(r))
        PROVE  current[r] <= store'[n][Key(r)].ver
    BY <1>1, <2>2 DEF NoOlder, PutsAt, IsFetch, Stored
  <2> QED BY <1>2, <2>1, <2>2, StoreStep DEF NoLate, LandsAt
<1>6. ASSUME NEW s \in Reqs, pc'[s] = "respond", answer'[s].status = 200, Key(s)' = Key(r)
      PROVE  current[r] <= answer'[s].ver
  <2>1. CASE Stays(s)
    BY <1>1, <1>6, <2>1 DEF NoOlder, Stays, Key
  <2>2. CASE CacheGet(s)
    BY <1>6, <2>2 DEF CacheGet, Inv, TypeOK
  <2>3. CASE Asks(s)
    BY <1>1, <1>6, <2>3, AskStep DEF NoOlder
  <2> QED BY <1>6, <2>1, <2>2, <2>3, Progress
<1> QED BY <1>1, <1>4, <1>5, <1>6 DEF NoOlder

(* The request is being redirected: its entry is all that is stored, and   *)
(* its handler has the kmutex, so none is about to store.                  *)
LEMMA RedirectedStep ==
  ASSUME OneNode, Inv, NoLate, Ordered, Confirmed, Kept, [Next]_vars, NEW r \in Reqs,
         pc[r] = "respond", IsHit(r), pc'[r] = "follow",
         req'[r] = req[r], current'[r] = current[r]
  PROVE  NoOlder(r)'
<1>1. Key(r)' = Key(r) /\ Key(r) \in Keys
  BY Places DEF Inv, Shapes, Shape, Key
<1>2. /\ current[r] # None /\ current[r] \in Nat /\ entry[r] # None
      /\ entry[r].ver = current[r]
  BY DEF Inv, TypeOK, Shapes, Shape, Answered, IsHit, Versions, Confirmed
<1>3. /\ version[Key(r)] \in Nat /\ version'[Key(r)] \in Nat
      /\ version[Key(r)] <= version'[Key(r)]
  BY <1>1, VersionStep
<1>4. current[r] <= version'[Key(r)]
  BY <1>2, <1>3 DEF Ordered
<1>5. ASSUME NEW n \in Nodes, store'[n][Key(r)] # None
      PROVE  current[r] <= store'[n][Key(r)].ver
  <2>1. store'[n][Key(r)] \in {store[n][Key(r)], None}
    BY StoreKept DEF Holding
  <2>2. store[n][Key(r)] \in {None, entry[r]}
    BY DEF Kept
  <2> QED BY <1>2, <1>5, <2>1, <2>2
<1>6. ASSUME NEW s \in Reqs, pc'[s] = "respond", Key(s)' = Key(r) PROVE FALSE
  <2>1. Stays(s) \/ CacheGet(s) \/ Asks(s)
    BY <1>6, Progress
  <2>2. ~ CacheGet(s)
    BY <1>6 DEF CacheGet, Inv, TypeOK
  <2>3. pc[s] \in Holding /\ Key(s) = Key(r)
    BY <1>6, <2>1, <2>2, AskStep DEF Stays, Key, Holding
  <2>4. s = r
    BY <2>3, Exclusive DEF Holding
  <2> QED BY <1>6, <2>4
<1> QED BY <1>1, <1>4, <1>5, <1>6 DEF NoOlder

LEMMA AwaitedStep ==
  ASSUME OneNode, Inv, NoLate, Ordered, Confirmed, Kept, Awaited, [Next]_vars PROVE Awaited'
<1> SUFFICES ASSUME NEW r \in Reqs, pc'[r] = "follow" PROVE NoOlder(r)'
  BY DEF Awaited
<1> QED BY RedirectStep, FollowingStep, RedirectedStep

LEMMA DirectStep ==
  ASSUME Inv, Awaited, DirectServesNoOlder, [Next]_vars PROVE DirectServesNoOlder'
<1> SUFFICES ASSUME NEW s \in Reqs, pc'[s] = "done",
                    reply'[s].ver # None, reply'[s].location # None
             PROVE  reply'[s].ver >= current'[s]
  BY DEF DirectServesNoOlder, Done
<1>1. CASE Untouched(s)
  <2>1. reply[s] # NoReply
    BY <1>1, NoReplyFields DEF Untouched
  <2> QED BY <1>1, <2>1 DEF Untouched, DirectServesNoOlder, Done
<1>2. CASE Answers(s)
  <2>1. ~ Refuses(s) /\ ~ Redirects(s) /\ ~ Delivers(s)
    BY DEF Refuses, Redirects, Delivers
  <2>2. /\ pc[s] = "follow" /\ store[reply[s].location][Key(s)] # None
        /\ reply'[s].ver = store[reply[s].location][Key(s)].ver
        /\ current'[s] = current[s]
    BY <1>2, <2>1 DEF Answers, Follows
  <2>3. /\ reply[s].location \in Nodes /\ Key(s) \in Keys
        /\ current[s] \in Nat
    BY <2>2, Places DEF Inv, TypeOK, Shapes, Shape, Versions
  <2>4. current[s] <= store[reply[s].location][Key(s)].ver
    BY <2>2, <2>3 DEF Awaited, NoOlder
  <2>5. store[reply[s].location][Key(s)].ver \in Nat
    BY <2>2, <2>3 DEF Inv, TypeOK, Entry, Versions
  <2> QED BY <2>2, <2>3, <2>4, <2>5
<1> QED BY <1>1, <1>2, ReplyStep

LEMMA InitDirect == Init => Awaited /\ DirectServesNoOlder
BY DEF Init, Awaited, DirectServesNoOlder, Done

(* On one node whose clients send no conditions that harm: what a client   *)
(* reads by direct connect, without a kmutex and after any number of other *)
(* requests, is not older than what the upstream confirmed when it was     *)
(* redirected.                                                             *)
THEOREM DirectIsNoOlder ==
  ASSUME OneNode, HarmlessConditions PROVE Spec => []DirectServesNoOlder
<1> DEFINE DInv == /\ NoLate /\ NoneNewer /\ Ordered /\ Tagged /\ Confirmed /\ Kept
                   /\ Awaited /\ DirectServesNoOlder
<1>1. Inv /\ DInv /\ [Next]_vars => DInv'
  BY NoLateStep, NoneNewerStep, OrderedStep, TaggedStep, ConfirmedStep, KeptStep, AwaitedStep,
     DirectStep
<1>2. Init => DInv
  BY InitNoLate, InitOrdered, InitFresh, InitKept, InitDirect DEF Fresh
<1>3. DInv => DirectServesNoOlder
  OBVIOUS
<1> HIDE DEF DInv
<1> QED BY <1>1, <1>2, <1>3, Invariance, PTL DEF Spec
=============================================================================
