---------------------------- MODULE ServerProofs ----------------------------
(***************************************************************************)
(* What holds of the routing of requests in every cluster, whatever names  *)
(* its nodes have and by whatever names they are listed.                   *)
(***************************************************************************)
EXTENDS Server, SequenceTheorems, FiniteSetTheorems, TLAPS

(* A name that leads to a node which does not take it for itself. *)
Astray(h) == Resolve[h] # Origin /\ Addr[Resolve[h]] # h

(* A request under such a name, at the node that it leads to, comes back   *)
(* to that node again and again: it is never answered with 200.            *)
NeverOK(f) == f.node = Resolve[f.host] /\ Astray(f.host) => f.pc \notin {"own", "put", "ok"}

(* Who asks the upstream waits for a handler of the same request there. *)
Forwarded(s) == \A i \in 1 .. Len(s) : i + 1 <= Len(s) /\ s[i].pc = "upstream" =>
                  s[i + 1].host = s[i].host /\ s[i + 1].node = Resolve[s[i].host]

(* A request to a sound host is worked on by at most one handler more than *)
(* the first, and that one performs it itself.                             *)
Shallow(s) == s # <<>> /\ Sound(s[1].host) =>
                Len(s) <= 2 /\ (Len(s) = 2 => s[2].pc \in {"own"} \cup Ended)

Stack(s) == /\ s \in Seq(Frame)
            /\ \A i \in 1 .. Len(s) : NeverOK(s[i])
            /\ Forwarded(s)
            /\ Shallow(s)

(* The first handler of a health check works on the name that is checked. *)
Checks(c) == frames[c] # <<>> => frames[c][1].host = c /\ frames[c][1].node = Resolve[c]

(* How far a tunnel is says who reads its connection. *)
Handed(t) == /\ t.phase \in {"hijacked", "handshake"} => ~ t.done /\ t.serving = 0
             /\ t.phase = "serve" => t.serving = IF t.done THEN 1 ELSE 0
             /\ t.phase = "left" => t.serving = 1
             /\ t.phase = "dropped" => t.serving = 0

(* A check that has reported has one result, in the channel or observed. *)
ResultOf(c) == {x \in results \cup observed : x.node = c}

Reports == /\ callback \in {"off", "idle"} => reported = {}
           /\ callback \in {"read", "done"} => reported = Listed
           /\ callback = "done" => results = {}
           /\ \A x \in results \cup observed : x.node \in reported
           /\ \A c \in reported : \E h \in BOOLEAN :
                ResultOf(c) = {[node |-> c, healthy |-> h]}
           /\ \A x \in results \cup observed : x.healthy => Recognised(x.node)

Inv == /\ TypeOK
       /\ \A r \in Roots : Stack(frames[r])
       /\ \A c \in Listed : Checks(c)
       /\ \A r \in Clients : tunnel[r] # None => Handed(tunnel[r])
       /\ Reports
-----------------------------------------------------------------------------
(* The operations on a stack of handlers, one by one. *)
PCs == {"own", "lock", "get", "upstream", "put"} \cup Ended

WithPc(f, l) == [f EXCEPT !.pc = l]

LEMMA WithPcFrame ==
  ASSUME NEW f \in Frame, NEW l \in PCs
  PROVE  LET g == WithPc(f, l)
         IN  g \in Frame /\ g.node = f.node /\ g.host = f.host /\ g.pc = l
BY DEF WithPc, Frame, PCs

Moved(s, i, l, t) == t = [s EXCEPT ![i] = WithPc(s[i], l)]

LEMMA SetPc ==
  ASSUME NEW s \in Seq(Frame), NEW i \in 1 .. Len(s), NEW l \in PCs, NEW t, Moved(s, i, l, t)
  PROVE  /\ t \in Seq(Frame) /\ Len(t) = Len(s)
         /\ \A j \in 1 .. Len(s) : /\ t[j].node = s[j].node /\ t[j].host = s[j].host
                                   /\ t[j].pc = IF j = i THEN l ELSE s[j].pc
<1>1. PICK f \in Frame : /\ f = WithPc(s[i], l)
                         /\ f.node = s[i].node /\ f.host = s[i].host /\ f.pc = l
  BY WithPcFrame
<1>2. /\ t \in Seq(Frame) /\ Len(t) = Len(s)
      /\ \A j \in 1 .. Len(s) : t[j] = IF j = i THEN f ELSE s[j]
  BY <1>1, ExceptSeq DEF Moved
<1> QED BY <1>1, <1>2

LEMMA CutPc ==
  ASSUME NEW s \in Seq(Frame), NEW i \in 1 .. Len(s), NEW l \in PCs, NEW t,
         Moved(SubSeq(s, 1, i), i, l, t)
  PROVE  /\ t \in Seq(Frame) /\ Len(t) = i
         /\ \A j \in 1 .. i : /\ t[j].node = s[j].node /\ t[j].host = s[j].host
                              /\ t[j].pc = IF j = i THEN l ELSE s[j].pc
<1>1. PICK u : u = SubSeq(s, 1, i)
  OBVIOUS
<1>2. u \in Seq(Frame) /\ Len(u) = i /\ \A j \in 1 .. i : u[j] = s[j]
  BY <1>1, SubSeqProperties
<1>3. i \in 1 .. Len(u) /\ Moved(u, i, l, t)
  BY <1>1, <1>2
<1>4. /\ t \in Seq(Frame) /\ Len(t) = Len(u)
      /\ \A j \in 1 .. Len(u) : /\ t[j].node = u[j].node /\ t[j].host = u[j].host
                                /\ t[j].pc = IF j = i THEN l ELSE u[j].pc
  BY <1>2, <1>3, SetPc
<1> QED BY <1>2, <1>4

(* A request that reaches a node. *)
LEMMA ServeFrame ==
  ASSUME NEW n \in Nodes, NEW h \in Names, NEW p \in Paths
  PROVE  LET f == Serve(n, h, p)
         IN  /\ f \in Frame /\ f.node = n /\ f.host = h /\ f.path = p
             /\ f.pc = (IF h = Addr[n] THEN "own" ELSE "lock")
             /\ NeverOK(f)
<1> DEFINE f == Serve(n, h, p)
<1>1. /\ f \in Frame /\ f.node = n /\ f.host = h /\ f.path = p
      /\ f.pc = (IF h = Addr[n] THEN "own" ELSE "lock")
  BY DEF Serve, Frame
<1>2. NeverOK(f)
  BY <1>1 DEF NeverOK, Astray
<1> QED BY <1>1, <1>2

(* The first handler of a request. *)
LEMMA FirstFrame ==
  ASSUME NEW n \in Nodes, NEW h \in Names, NEW p \in Paths
  PROVE  LET s == <<Serve(n, h, p)>>
         IN  Stack(s) /\ s # <<>> /\ s[1].host = h /\ s[1].node = n
<1> DEFINE f == Serve(n, h, p)
           s == <<f>>
<1>1. f \in Frame /\ f.node = n /\ f.host = h /\ NeverOK(f)
  BY ServeFrame
<1> HIDE DEF f
<1>2. s \in Seq(Frame) /\ Len(s) = 1 /\ s[1] = f /\ s # <<>>
  BY <1>1
<1> HIDE DEF s
<1>3. \A i \in 1 .. Len(s) : i = 1
  BY <1>2
<1>4. Stack(s)
  BY <1>1, <1>2, <1>3 DEF Stack, Forwarded, Shallow
<1> QED BY <1>1, <1>2, <1>4 DEF s, f

LEMMA EmptyStack == Stack(<<>>)
BY DEF Stack, Forwarded, Shallow

(* Handlers that get on, or are cut short, at the same places. *)
LEMMA SameStack ==
  ASSUME NEW s, Stack(s), NEW t \in Seq(Frame), Len(t) <= Len(s),
         \A j \in 1 .. Len(t) : t[j].node = s[j].node /\ t[j].host = s[j].host,
         \A j \in 1 .. Len(t) : NeverOK(t[j]),
         \A j \in 1 .. Len(t) : j + 1 <= Len(t) /\ t[j].pc = "upstream" => s[j].pc = "upstream",
         Sound(s[1].host) /\ Len(t) = 2 => (s[2].pc \in {"own"} \cup Ended => t[2].pc \in {"own"} \cup Ended)
  PROVE  Stack(t)
<1>1. s \in Seq(Frame) /\ Len(s) \in Nat /\ Len(t) \in Nat
  BY DEF Stack
<1>2. Forwarded(t)
  <2> SUFFICES ASSUME NEW i \in 1 .. Len(t), i + 1 <= Len(t), t[i].pc = "upstream"
               PROVE  t[i + 1].host = t[i].host /\ t[i + 1].node = Resolve[t[i].host]
    BY DEF Forwarded
  <2>1. i \in 1 .. Len(s) /\ i + 1 <= Len(s) /\ i + 1 \in 1 .. Len(t) /\ s[i].pc = "upstream"
    BY <1>1
  <2>2. s[i + 1].host = s[i].host /\ s[i + 1].node = Resolve[s[i].host]
    BY <2>1 DEF Stack, Forwarded
  <2>3. \A j \in {i, i + 1} : t[j].node = s[j].node /\ t[j].host = s[j].host
    BY <2>1
  <2> QED BY <2>2, <2>3
<1>3. Shallow(t)
  <2> SUFFICES ASSUME t # <<>>, Sound(t[1].host)
               PROVE  Len(t) <= 2 /\ (Len(t) = 2 => t[2].pc \in {"own"} \cup Ended)
    BY DEF Shallow
  <2>1. Len(t) >= 1 /\ s # <<>>
    BY <1>1, EmptySeq
  <2>2. Sound(s[1].host)
    BY <1>1, <2>1
  <2>3. Len(s) <= 2 /\ (Len(s) = 2 => s[2].pc \in {"own"} \cup Ended)
    BY <2>1, <2>2 DEF Stack, Shallow
  <2>4. Len(t) <= 2 /\ (Len(t) = 2 => Len(s) = 2)
    BY <1>1, <2>3
  <2> QED BY <2>2, <2>3, <2>4
<1> QED BY <1>2, <1>3 DEF Stack
-----------------------------------------------------------------------------
(* The steps of handlers: one gets on or fails, *)
SetStep(r, i) ==
  \E l \in {"ok", "failed", "get"} :
    /\ Goto(r, i, l)
    /\ frames[r][i].pc \notin Ended
    /\ l = "ok" => frames[r][i].pc = "own"
    /\ frames[r][i].pc = "own" => l \in {"ok", "failed"}

(* one is answered, *)
CutStep(r, i) ==
  \E l \in {"upstream", "put", "ok"} :
    /\ frames' = [frames EXCEPT ![r] = [SubSeq(@, 1, i) EXCEPT ![i].pc = l]]
    /\ Asking(r, i)
    /\ \/ l = "upstream"
       \/ frames[r][i].pc = "put"
       \/ frames[r][i].pc = "upstream" /\ Resolve[frames[r][i].host] = Origin
       \/ frames[r][i].pc = "upstream" /\ i + 1 <= Len(frames[r]) /\ frames[r][i + 1].pc = "ok"

(* or one calls another. *)
LEMMA HandlerMoves ==
  ASSUME Inv, NEW r \in Roots, Handler(r) \/ BreakOff(r)
  PROVE  /\ \E i \in 1 .. Len(frames[r]) : SetStep(r, i) \/ CutStep(r, i) \/ Call(r, i)
         /\ held' \in [Nodes -> SUBSET (Names \X Paths)]
         /\ UnchangedRest
<1>1. UnchangedRest
  BY DEF Handler, BreakOff
<1>2. PICK i \in 1 .. Len(frames[r]) :
        \/ Own(r, i) \/ Lock(r, i) \/ Outside(r, i) \/ Call(r, i)
        \/ CallFail(r, i) \/ Answered(r, i) \/ Canceled(r, i) \/ Break(r, i)
  BY DEF Handler, BreakOff
<1> DEFINE f == frames[r][i]
           HeldOK == held' \in [Nodes -> SUBSET (Names \X Paths)]
<1>3. frames[r] \in Seq(Frame) /\ f \in Frame /\ Len(frames[r]) \in Nat
  BY DEF Inv, TypeOK
<1>4. f.node \in Nodes /\ Key(f) \in Names \X Paths
  BY <1>3 DEF Frame, Key
<1>5. UNCHANGED held => HeldOK
  BY DEF Inv, TypeOK
<1>6. Unlock(r, i) => HeldOK
  BY <1>4 DEF Unlock, Inv, TypeOK
<1>7. ASSUME Own(r, i) PROVE SetStep(r, i) /\ HeldOK
  BY <1>5, <1>7 DEF Own, SetStep, Ended
<1>8. ASSUME Lock(r, i) PROVE SetStep(r, i) /\ HeldOK
  <2>1. SetStep(r, i)
    BY <1>8 DEF Lock, SetStep, Ended
  <2>2. HeldOK
    BY <1>4, <1>8 DEF Lock, Inv, TypeOK
  <2> QED BY <2>1, <2>2
<1>9. ASSUME Asking(r, i), Finish(r, i, "failed") PROVE SetStep(r, i) /\ HeldOK
  BY <1>6, <1>9 DEF Finish, SetStep, Asking, Ended
<1>10. ASSUME Asking(r, i), Advance(r, i),
              \/ ~ InsideCluster(f)
              \/ i + 1 <= Len(frames[r]) /\ frames[r][i + 1].pc = "ok"
       PROVE  CutStep(r, i) /\ HeldOK
  <2>1. HeldOK
    BY <1>5, <1>6, <1>10 DEF Advance
  <2>2. f.pc = "upstream" => \/ Resolve[f.host] = Origin
                             \/ i + 1 <= Len(frames[r]) /\ frames[r][i + 1].pc = "ok"
    BY <1>10 DEF InsideCluster
  <2>3. CutStep(r, i)
    BY <1>10, <2>2 DEF Advance, CutStep
  <2> QED BY <2>1, <2>3
<1>11. ASSUME Outside(r, i) PROVE (SetStep(r, i) \/ CutStep(r, i)) /\ HeldOK
  BY <1>9, <1>10, <1>11 DEF Outside
<1>12. ASSUME Call(r, i) PROVE HeldOK
  BY <1>5, <1>12 DEF Call
<1>13. ASSUME CallFail(r, i) \/ Canceled(r, i) \/ Break(r, i) PROVE SetStep(r, i) /\ HeldOK
  BY <1>9, <1>13 DEF CallFail, Canceled, Break
<1>14. ASSUME Answered(r, i) PROVE (SetStep(r, i) \/ CutStep(r, i)) /\ HeldOK
  <2>1. Asking(r, i) /\ i + 1 <= Len(frames[r])
    BY <1>3, <1>14 DEF Answered, Sole
  <2> QED BY <1>9, <1>10, <1>14, <2>1 DEF Answered
<1> HIDE DEF HeldOK
<1>15. (SetStep(r, i) \/ CutStep(r, i) \/ Call(r, i)) /\ HeldOK
  BY <1>2, <1>7, <1>8, <1>11, <1>12, <1>13, <1>14
<1> QED BY <1>1, <1>15 DEF HeldOK

(* The stacks that a step of r's handlers leaves alone. *)
LEMMA OtherStacks ==
  ASSUME Inv, NEW r \in Roots, NEW s, frames' = [frames EXCEPT ![r] = s], Stack(s),
         r \in Listed => (s # <<>> => s[1].host = r /\ s[1].node = Resolve[r])
  PROVE  /\ frames' \in [Roots -> Seq(Frame)]
         /\ \A q \in Roots : Stack(frames'[q])
         /\ \A c \in Listed : Checks(c)'
<1>1. \A q \in Roots : frames'[q] = IF q = r THEN s ELSE frames[q]
  BY DEF Inv, TypeOK
<1>2. \A q \in Roots : Stack(frames'[q])
  BY <1>1 DEF Inv
<1>3. s \in Seq(Frame)
  BY DEF Stack
<1>4. frames' \in [Roots -> Seq(Frame)]
  BY <1>3 DEF Inv, TypeOK
<1>5. \A c \in Listed : Checks(c)'
  BY <1>1 DEF Inv, Checks, Roots
<1> QED BY <1>2, <1>4, <1>5

LEMMA SetStack ==
  ASSUME Inv, NEW r \in Roots, NEW i \in 1 .. Len(frames[r]), SetStep(r, i)
  PROVE  /\ frames' \in [Roots -> Seq(Frame)]
         /\ \A q \in Roots : Stack(frames'[q])
         /\ \A c \in Listed : Checks(c)'
<1> DEFINE s == frames[r]
<1>1. Stack(s) /\ s \in Seq(Frame) /\ Len(s) \in Nat
  BY DEF Inv, Stack
<1>2. PICK l \in {"ok", "failed", "get"} :
        /\ Goto(r, i, l)
        /\ s[i].pc \notin Ended
        /\ l = "ok" => s[i].pc = "own"
        /\ s[i].pc = "own" => l \in {"ok", "failed"}
  BY DEF SetStep
<1>3. PICK t : t = [s EXCEPT ![i] = WithPc(s[i], l)]
  OBVIOUS
<1>4. frames' = [frames EXCEPT ![r] = t]
  BY <1>2, <1>3 DEF Goto, WithPc
<1>5. Moved(s, i, l, t) /\ l \in PCs
  BY <1>3 DEF Moved, PCs, Ended
<1> HIDE DEF s
<1>6. /\ t \in Seq(Frame) /\ Len(t) = Len(s)
      /\ \A j \in 1 .. Len(s) : /\ t[j].node = s[j].node /\ t[j].host = s[j].host
                                /\ t[j].pc = IF j = i THEN l ELSE s[j].pc
  BY <1>1, <1>5, SetPc DEF s
<1>7. \A j \in 1 .. Len(t) : NeverOK(t[j])
  <2> SUFFICES ASSUME NEW j \in 1 .. Len(s) PROVE NeverOK(t[j])
    BY <1>6
  <2>1. NeverOK(s[j])
    BY <1>1 DEF Stack
  <2> QED BY <1>2, <1>6, <2>1 DEF NeverOK
<1>8. Stack(t)
  <2>1. Len(t) = 2 => (s[2].pc \in {"own"} \cup Ended => t[2].pc \in {"own"} \cup Ended)
    BY <1>1, <1>2, <1>6 DEF Ended
  <2>2. \A j \in 1 .. Len(t) : j + 1 <= Len(t) /\ t[j].pc = "upstream" => s[j].pc = "upstream"
    BY <1>6
  <2>3. \A j \in 1 .. Len(t) : t[j].node = s[j].node /\ t[j].host = s[j].host
    BY <1>6
  <2>4. Len(t) <= Len(s)
    BY <1>1, <1>6
  <2> QED BY <1>1, <1>6, <1>7, <2>1, <2>2, <2>3, <2>4, SameStack
<1>9. t # <<>> /\ s # <<>> /\ t[1].host = s[1].host /\ t[1].node = s[1].node
  BY <1>1, <1>6 DEF s
<1> QED BY <1>4, <1>8, <1>9, OtherStacks DEF Inv, Checks, s

LEMMA CutStack ==
  ASSUME Inv, NEW r \in Roots, NEW i \in 1 .. Len(frames[r]), CutStep(r, i)
  PROVE  /\ frames' \in [Roots -> Seq(Frame)]
         /\ \A q \in Roots : Stack(frames'[q])
         /\ \A c \in Listed : Checks(c)'
<1> DEFINE s == frames[r]
<1>1. Stack(s) /\ s \in Seq(Frame) /\ Len(s) \in Nat /\ i \in 1 .. Len(s)
  BY DEF Inv, Stack
<1>2. PICK l \in {"upstream", "put", "ok"} :
        /\ frames' = [frames EXCEPT ![r] = [SubSeq(@, 1, i) EXCEPT ![i].pc = l]]
        /\ s[i].pc \in {"get", "upstream", "put"}
        /\ \/ l = "upstream"
           \/ s[i].pc = "put"
           \/ s[i].pc = "upstream" /\ Resolve[s[i].host] = Origin
           \/ s[i].pc = "upstream" /\ i + 1 <= Len(s) /\ s[i + 1].pc = "ok"
  BY DEF CutStep, Asking
<1>3. PICK t : t = [SubSeq(s, 1, i) EXCEPT ![i] = WithPc(SubSeq(s, 1, i)[i], l)]
  OBVIOUS
<1>4. frames' = [frames EXCEPT ![r] = t]
  BY <1>2, <1>3 DEF WithPc
<1>5. Moved(SubSeq(s, 1, i), i, l, t) /\ l \in PCs
  BY <1>3 DEF Moved, PCs, Ended
<1> HIDE DEF s
<1>6. /\ t \in Seq(Frame) /\ Len(t) = i
      /\ \A j \in 1 .. i : /\ t[j].node = s[j].node /\ t[j].host = s[j].host
                           /\ t[j].pc = IF j = i THEN l ELSE s[j].pc
  BY <1>1, <1>5, CutPc
<1>7. ASSUME s[i].node = Resolve[s[i].host], Astray(s[i].host) PROVE l = "upstream"
  <2>1. s[i].pc # "put" /\ Resolve[s[i].host] # Origin
    BY <1>1, <1>7 DEF Stack, NeverOK, Astray
  <2>2. ASSUME s[i].pc = "upstream", i + 1 <= Len(s), s[i + 1].pc = "ok" PROVE FALSE
    <3>1. i + 1 \in 1 .. Len(s)
      BY <1>1, <2>2
    <3>2. s[i + 1].host = s[i].host /\ s[i + 1].node = Resolve[s[i].host]
      BY <1>1, <2>2 DEF Stack, Forwarded
    <3>3. NeverOK(s[i + 1])
      BY <1>1, <3>1 DEF Stack
    <3> QED BY <1>7, <2>2, <3>2, <3>3 DEF NeverOK
  <2> QED BY <1>2, <2>1, <2>2
<1>8. ASSUME NEW j \in 1 .. i PROVE NeverOK(t[j])
  <2>1. j \in 1 .. Len(s) /\ NeverOK(s[j])
    BY <1>1 DEF Stack
  <2> QED BY <1>6, <1>7, <2>1 DEF NeverOK
<1>9. Stack(t)
  <2>1. Len(t) = 2 => s[2].pc \notin {"own"} \cup Ended
    BY <1>2, <1>6 DEF Ended
  <2>2. \A j \in 1 .. Len(t) : j + 1 <= Len(t) /\ t[j].pc = "upstream" => s[j].pc = "upstream"
    BY <1>1, <1>6
  <2>3. \A j \in 1 .. Len(t) : t[j].node = s[j].node /\ t[j].host = s[j].host
    BY <1>6
  <2>4. Len(t) <= Len(s)
    BY <1>1, <1>6
  <2>5. \A j \in 1 .. Len(t) : NeverOK(t[j])
    BY <1>6, <1>8
  <2> QED BY <1>1, <1>6, <2>1, <2>2, <2>3, <2>4, <2>5, SameStack
<1>10. t # <<>> /\ s # <<>> /\ t[1].host = s[1].host /\ t[1].node = s[1].node
  BY <1>1, <1>6
<1> QED BY <1>4, <1>9, <1>10, OtherStacks DEF Inv, Checks, s

LEMMA CallStack ==
  ASSUME Inv, NEW r \in Roots, NEW i \in 1 .. Len(frames[r]), Call(r, i)
  PROVE  /\ frames' \in [Roots -> Seq(Frame)]
         /\ \A q \in Roots : Stack(frames'[q])
         /\ \A c \in Listed : Checks(c)'
<1> DEFINE s == frames[r]
           f == s[i]
           p == IF f.pc = "upstream" THEN f.path ELSE "kv"
           h == Peer(f)
           n == Resolve[h]
<1>1. Stack(s) /\ s \in Seq(Frame) /\ Len(s) \in Nat /\ i \in 1 .. Len(s) /\ Len(s) = i
  BY DEF Inv, Stack, Call, Sole
<1>2. f \in Frame /\ f.host \in Names /\ p \in Paths
  <2>1. f \in Frame
    BY <1>1
  <2> HIDE DEF f
  <2>2. f.host \in Names /\ f.path \in Paths /\ "kv" \in Paths
    BY <2>1 DEF Frame, Paths
  <2> QED BY <2>1, <2>2
<1>3. f.pc \in {"get", "upstream", "put"} /\ InsideCluster(f)
  BY DEF Call, Asking
<1>4. h \in Names /\ n \in Nodes
  BY <1>2, <1>3, NamesType, ListedResolve DEF Peer, InsideCluster
<1>5. PICK g \in Frame : /\ g = Serve(n, h, p)
                         /\ g.node = n /\ g.host = h /\ NeverOK(g)
                         /\ g.pc = (IF h = Addr[n] THEN "own" ELSE "lock")
  BY <1>2, <1>4, ServeFrame
<1>6. PICK t : t = Append(s, g)
  OBVIOUS
<1>7. frames' = [frames EXCEPT ![r] = t]
  BY <1>5, <1>6 DEF Call
<1>8. f.pc = "upstream" => h = f.host
  BY DEF Peer
<1>9. Sound(f.host) => g.pc = "own"
  <2>1. f.pc # "upstream" => h = Target[f.host]
    BY DEF Peer
  <2>2. n # Origin
    BY <1>4, Apart
  <2> QED BY <1>5, <1>8, <2>1, <2>2 DEF Sound, Recognised
<1> HIDE DEF s, f, p, h, n
<1>10. /\ t \in Seq(Frame) /\ Len(t) = Len(s) + 1 /\ t[Len(s) + 1] = g
       /\ \A j \in 1 .. Len(s) : t[j] = s[j]
  BY <1>1, <1>6
<1>11. \A j \in 1 .. Len(t) : NeverOK(t[j])
  BY <1>1, <1>5, <1>10 DEF Stack
<1>12. Forwarded(t)
  <2> SUFFICES ASSUME NEW j \in 1 .. Len(t), j + 1 <= Len(t), t[j].pc = "upstream"
               PROVE  t[j + 1].host = t[j].host /\ t[j + 1].node = Resolve[t[j].host]
    BY DEF Forwarded
  <2>1. j \in 1 .. Len(s) /\ t[j] = s[j]
    BY <1>1, <1>10
  <2>2. CASE j = i
    BY <1>1, <1>5, <1>8, <1>10, <2>1, <2>2 DEF f, n
  <2>3. CASE j # i
    <3>1. j + 1 \in 1 .. Len(s) /\ t[j + 1] = s[j + 1]
      BY <1>1, <1>10, <2>1, <2>3
    <3> QED BY <1>1, <2>1, <3>1 DEF Stack, Forwarded
  <2> QED BY <2>2, <2>3
<1>13. Shallow(t)
  <2> SUFFICES ASSUME Sound(t[1].host)
               PROVE  Len(t) <= 2 /\ (Len(t) = 2 => t[2].pc \in {"own"} \cup Ended)
    BY DEF Shallow
  <2>1. s # <<>> /\ Sound(s[1].host)
    BY <1>1, <1>10
  <2>2. Len(s) <= 2 /\ (Len(s) = 2 => s[2].pc \in {"own"} \cup Ended)
    BY <1>1, <2>1 DEF Stack, Shallow
  <2>3. i = 1
    BY <1>1, <1>3, <2>2 DEF f, Ended
  <2>4. t[2] = g /\ Len(t) = 2
    BY <1>1, <1>10, <2>3
  <2> QED BY <1>9, <2>1, <2>3, <2>4 DEF f
<1>14. Stack(t)
  BY <1>10, <1>11, <1>12, <1>13 DEF Stack
<1>15. t # <<>> /\ s # <<>> /\ t[1].host = s[1].host /\ t[1].node = s[1].node
  BY <1>1, <1>10
<1> QED BY <1>7, <1>14, <1>15, OtherStacks DEF Inv, Checks, s

(* A node dies: its handlers are where they were, and dead. *)
LEMMA CrashStack ==
  ASSUME Inv, NEW n \in Nodes, Crash(n)
  PROVE  /\ frames' \in [Roots -> Seq(Frame)]
         /\ \A q \in Roots : Stack(frames'[q])
         /\ \A c \in Listed : Checks(c)'
<1>1. ASSUME NEW r \in Roots
      PROVE  /\ Stack(frames'[r])
             /\ frames[r] = <<>> => frames'[r] = <<>>
             /\ frames[r] # <<>> => /\ frames'[r][1].host = frames[r][1].host
                                    /\ frames'[r][1].node = frames[r][1].node
  <2> DEFINE s == frames[r]
             t == frames'[r]
             Dead(f) == f.node = n /\ f.pc \notin Ended
  <2>1. Stack(s) /\ s \in Seq(Frame) /\ Len(s) \in Nat
    BY DEF Inv, Stack
  <2>2. t = [i \in 1 .. Len(s) |-> IF Dead(s[i]) THEN WithPc(s[i], "dead") ELSE s[i]]
    BY DEF Crash, WithPc
  <2>3. \A i \in 1 .. Len(s) : s[i] \in Frame
    BY <2>1
  <2>4. "dead" \in PCs
    BY DEF PCs, Ended
  <2> HIDE DEF s, t
  <2>5. ASSUME NEW i \in 1 .. Len(s)
        PROVE  /\ t[i] \in Frame /\ t[i].node = s[i].node /\ t[i].host = s[i].host
               /\ t[i].pc = s[i].pc \/ t[i].pc = "dead"
    <3>1. t[i] = IF Dead(s[i]) THEN WithPc(s[i], "dead") ELSE s[i]
      BY <2>2
    <3> HIDE DEF Dead
    <3>2. LET g == WithPc(s[i], "dead")
          IN  g \in Frame /\ g.node = s[i].node /\ g.host = s[i].host /\ g.pc = "dead"
      BY <2>3, <2>4, WithPcFrame
    <3> QED BY <2>3, <3>1, <3>2
  <2>6. t \in Seq(Frame) /\ Len(t) = Len(s)
    <3>1. DOMAIN t = 1 .. Len(s) /\ t \in [1 .. Len(s) -> Frame]
      BY <2>2, <2>5
    <3> QED BY <2>1, <3>1
  <2>7. \A j \in 1 .. Len(t) : NeverOK(t[j])
    <3> SUFFICES ASSUME NEW j \in 1 .. Len(s) PROVE NeverOK(t[j])
      BY <2>6
    <3>1. NeverOK(s[j])
      BY <2>1 DEF Stack
    <3> QED BY <2>5, <3>1 DEF NeverOK
  <2>8. Stack(t)
    <3>1. Len(t) = 2 => (s[2].pc \in {"own"} \cup Ended => t[2].pc \in {"own"} \cup Ended)
      BY <2>5, <2>6 DEF Ended
    <3>2. \A j \in 1 .. Len(t) : j + 1 <= Len(t) /\ t[j].pc = "upstream" => s[j].pc = "upstream"
      BY <2>5, <2>6
    <3>3. \A j \in 1 .. Len(t) : t[j].node = s[j].node /\ t[j].host = s[j].host
      BY <2>5, <2>6
    <3>4. Len(t) <= Len(s)
      BY <2>1, <2>6
    <3> QED BY <2>1, <2>6, <2>7, <3>1, <3>2, <3>3, <3>4, SameStack
  <2>9. s = <<>> => t = <<>>
    BY <2>6
  <2>10. s # <<>> => t[1].host = s[1].host /\ t[1].node = s[1].node
    <3> SUFFICES ASSUME s # <<>> PROVE t[1].host = s[1].host /\ t[1].node = s[1].node
      OBVIOUS
    <3>1. 1 \in 1 .. Len(s)
      BY <2>1, EmptySeq
    <3> QED BY <2>5, <3>1
  <2> QED BY <2>8, <2>9, <2>10 DEF s, t
<1>2. \A r \in Roots : frames'[r] \in Seq(Frame)
  BY <1>1 DEF Stack
<1>3. frames' \in [Roots -> Seq(Frame)]
  <2>1. frames' = [r \in Roots |-> frames'[r]]
    BY DEF Crash
  <2> QED BY <1>2, <2>1
<1>4. \A c \in Listed : Checks(c)'
  BY <1>1 DEF Inv, Checks, Roots
<1> QED BY <1>1, <1>3, <1>4
-----------------------------------------------------------------------------
(* The parts of the state that most steps leave alone. *)
Stacks == /\ frames \in [Roots -> Seq(Frame)]
          /\ \A r \in Roots : Stack(frames[r])
          /\ \A c \in Listed : Checks(c)

HeldOK == held \in [Nodes -> SUBSET (Names \X Paths)]

Tunnels == /\ tunnel \in [Clients -> Tunnel \cup {None}]
           /\ \A r \in Clients : tunnel[r] # None => Handed(tunnel[r])

ReportsOK == /\ callback \in {"off", "idle", "wait", "read", "done"}
             /\ reported \subseteq Listed
             /\ results \subseteq [node : Listed, healthy : BOOLEAN]
             /\ observed \subseteq [node : Listed, healthy : BOOLEAN]
             /\ Reports

LEMMA InvParts ==
  Inv <=> Stacks /\ HeldOK /\ gone \in [Roots -> BOOLEAN] /\ Tunnels /\ ReportsOK
BY DEF Inv, TypeOK, Stacks, HeldOK, Tunnels, ReportsOK

LEMMA SameParts ==
  ASSUME Inv
  PROVE  /\ UNCHANGED frames => Stacks'
         /\ UNCHANGED held => HeldOK'
         /\ UNCHANGED gone => gone' \in [Roots -> BOOLEAN]
         /\ UNCHANGED tunnel => Tunnels'
         /\ UNCHANGED <<callback, reported, results, observed>> => ReportsOK'
<1>1. Stacks /\ HeldOK /\ gone \in [Roots -> BOOLEAN] /\ Tunnels /\ ReportsOK
  BY InvParts
<1>2. UNCHANGED frames => Stacks'
  BY <1>1 DEF Stacks, Checks
<1>3. UNCHANGED held => HeldOK'
  BY <1>1 DEF HeldOK
<1>4. UNCHANGED tunnel => Tunnels'
  BY <1>1 DEF Tunnels
<1>5. UNCHANGED <<callback, reported, results, observed>> => ReportsOK'
  BY <1>1 DEF ReportsOK, Reports, ResultOf
<1> QED BY <1>1, <1>2, <1>3, <1>4, <1>5

LEMMA InvPartsPrime ==
  ASSUME Stacks', HeldOK', gone' \in [Roots -> BOOLEAN], Tunnels', ReportsOK' PROVE Inv'
BY DEF Inv, TypeOK, Stacks, HeldOK, Tunnels, ReportsOK

LEMMA InitInv == Init => Inv
<1> SUFFICES ASSUME Init PROVE Inv
  OBVIOUS
<1>1. Stacks
  <2>1. \A r \in Roots : frames[r] = <<>> /\ Stack(frames[r])
    BY EmptyStack DEF Init
  <2>2. \A c \in Listed : Checks(c)
    BY <2>1 DEF Checks, Roots
  <2>3. frames \in [Roots -> Seq(Frame)]
    BY DEF Init
  <2> QED BY <2>1, <2>2, <2>3 DEF Stacks
<1>2. HeldOK
  BY DEF Init, HeldOK
<1>3. gone \in [Roots -> BOOLEAN]
  BY DEF Init
<1>4. Tunnels
  BY DEF Init, Tunnels
<1>5. ReportsOK
  BY DEF Init, ReportsOK, Reports
<1> QED BY <1>1, <1>2, <1>3, <1>4, <1>5, InvParts

LEMMA HandlerInv ==
  ASSUME Inv, NEW r \in Roots, Handler(r) \/ BreakOff(r) PROVE Inv'
<1>1. HeldOK' /\ UnchangedRest
  BY HandlerMoves DEF HeldOK
<1>2. PICK i \in 1 .. Len(frames[r]) : SetStep(r, i) \/ CutStep(r, i) \/ Call(r, i)
  BY HandlerMoves
<1>3. Stacks'
  BY <1>2, SetStack, CutStack, CallStack DEF Stacks
<1> QED BY <1>1, <1>3, SameParts, InvPartsPrime DEF UnchangedRest

LEMMA ArriveInv ==
  ASSUME Inv, NEW r \in Clients, NEW n \in Nodes, NEW h \in Names, Arrive(r, n, h) PROVE Inv'
<1>1. PICK s : s = <<Serve(n, h, "/")>>
  OBVIOUS
<1>2. Stack(s) /\ r \in Roots /\ r \notin Listed
  BY <1>1, FirstFrame, Apart DEF Paths, Roots
<1>3. frames' = [frames EXCEPT ![r] = s]
  BY <1>1 DEF Arrive
<1>4. Stacks'
  BY <1>2, <1>3, OtherStacks DEF Stacks
<1> QED BY <1>4, SameParts, InvPartsPrime DEF Arrive

LEMMA CheckInv ==
  ASSUME Inv, NEW c \in Listed, Check(c) PROVE Inv'
<1>1. PICK s : s = <<Serve(Resolve[c], c, "/health")>>
  OBVIOUS
<1>2. Resolve[c] \in Nodes /\ c \in Names /\ c \in Roots
  BY ListedResolve, NamesType DEF Roots
<1>3. Stack(s) /\ s[1].host = c /\ s[1].node = Resolve[c]
  BY <1>1, <1>2, FirstFrame DEF Paths
<1>4. frames' = [frames EXCEPT ![c] = s]
  BY <1>1 DEF Check
<1>5. Stacks'
  BY <1>2, <1>3, <1>4, OtherStacks DEF Stacks
<1> QED BY <1>5, SameParts, InvPartsPrime DEF Check

LEMMA LeaveInv ==
  ASSUME Inv, NEW r \in Roots, Leave(r) PROVE Inv'
<1>1. gone' \in [Roots -> BOOLEAN]
  BY DEF Leave, Inv, TypeOK
<1>2. Tunnels'
  <2>1. \A c \in Clients : tunnel'[c] \in {None, tunnel[c]}
    BY DEF Leave
  <2>2. tunnel' \in [Clients -> Tunnel \cup {None}]
    BY DEF Leave, Inv, TypeOK
  <2> QED BY <2>1, <2>2 DEF Inv, Tunnels
<1> QED BY <1>1, <1>2, SameParts, InvPartsPrime DEF Leave

LEMMA CloseInv ==
  ASSUME Inv, NEW r \in Clients, Close(r) PROVE Inv'
<1>1. r \in Roots
  BY DEF Roots
<1>2. gone' \in [Roots -> BOOLEAN]
  BY DEF Close, Inv, TypeOK
<1>3. Tunnels'
  <2>1. \A c \in Clients : tunnel'[c] \in {None, tunnel[c]}
    BY DEF Close, Inv, TypeOK
  <2>2. tunnel' \in [Clients -> Tunnel \cup {None}]
    BY DEF Close, Inv, TypeOK
  <2> QED BY <2>1, <2>2 DEF Inv, Tunnels
<1>4. frames' = [frames EXCEPT ![r] = <<>>]
  BY DEF Close
<1>5. Stacks'
  BY <1>1, <1>4, EmptyStack, OtherStacks DEF Stacks
<1> QED BY <1>2, <1>3, <1>5, SameParts, InvPartsPrime DEF Close

LEMMA CrashInv ==
  ASSUME Inv, NEW n \in Nodes, Crash(n) PROVE Inv'
<1>1. Stacks'
  BY CrashStack DEF Stacks
<1>2. HeldOK'
  BY DEF Crash, HeldOK, Inv, TypeOK
<1>3. Tunnels'
  <2>1. ASSUME NEW r \in Clients
        PROVE  tunnel'[r] \in Tunnel \cup {None} /\ (tunnel'[r] # None => Handed(tunnel'[r]))
    <3>1. CASE tunnel[r] # None /\ tunnel[r].node = n
      <4>1. PICK t \in Tunnel : t = tunnel[r]
        BY <3>1 DEF Inv, TypeOK
      <4>2. tunnel'[r] = [t EXCEPT !.phase = "dropped", !.serving = 0]
        BY <3>1, <4>1 DEF Crash
      <4>3. PICK u : u = [t EXCEPT !.phase = "dropped", !.serving = 0]
        OBVIOUS
      <4>4. u \in Tunnel /\ u.phase = "dropped" /\ u.serving = 0
        BY <4>3 DEF Tunnel
      <4> QED BY <4>2, <4>3, <4>4 DEF Handed
    <3>2. CASE ~ (tunnel[r] # None /\ tunnel[r].node = n)
      <4>1. tunnel'[r] = tunnel[r]
        BY <3>2 DEF Crash
      <4> QED BY <4>1 DEF Inv, TypeOK
    <3> QED BY <3>1, <3>2
  <2>2. tunnel' = [r \in Clients |-> tunnel'[r]]
    BY DEF Crash
  <2>3. tunnel' \in [Clients -> Tunnel \cup {None}]
    BY <2>1, <2>2
  <2> QED BY <2>1, <2>3 DEF Tunnels
<1> QED BY <1>1, <1>2, <1>3, SameParts, InvPartsPrime DEF Crash
-----------------------------------------------------------------------------
(* The steps of handleProxyConnect. *)
LEMMA TunnelSet ==
  ASSUME Inv, NEW r \in Clients, NEW t \in Tunnel, Handed(t),
         tunnel' = [tunnel EXCEPT ![r] = t], UnchangedByTunnel
  PROVE  Inv'
<1>1. tunnel \in [Clients -> Tunnel \cup {None}]
  BY DEF Inv, TypeOK
<1>2. tunnel' \in [Clients -> Tunnel \cup {None}]
  BY <1>1
<1>3. \A c \in Clients : tunnel'[c] = IF c = r THEN t ELSE tunnel[c]
  BY <1>1
<1>4. Tunnels'
  BY <1>2, <1>3 DEF Tunnels, Inv
<1> QED BY <1>4, SameParts, InvPartsPrime DEF UnchangedByTunnel

LEMMA HijackInv ==
  ASSUME Inv, NEW r \in Clients, NEW n \in Nodes, Hijack(r, n) PROVE Inv'
<1>1. PICK t : t = [node |-> n, phase |-> "hijacked", done |-> FALSE, serving |-> 0]
  OBVIOUS
<1>2. t \in Tunnel /\ t.phase = "hijacked" /\ ~ t.done /\ t.serving = 0
  BY <1>1 DEF Tunnel
<1>3. Handed(t)
  BY <1>2 DEF Handed
<1> QED BY <1>1, <1>2, <1>3, TunnelSet DEF Hijack

Phase(t, p) == [t EXCEPT !.phase = p]

LEMMA PhaseTunnel ==
  ASSUME NEW t \in Tunnel, NEW p \in {"hijacked", "handshake", "serve", "left", "dropped"}
  PROVE  LET u == Phase(t, p)
         IN  u \in Tunnel /\ u.phase = p /\ u.done = t.done /\ u.serving = t.serving
BY DEF Phase, Tunnel

LEMMA ConnectInv ==
  ASSUME Inv, NEW r \in Clients, Establish(r) \/ Handshake(r) \/ Drop(r) PROVE Inv'
<1>1. PICK t \in Tunnel : t = tunnel[r] /\ Handed(t)
  BY DEF Inv, TypeOK, Establish, Handshake, Drop
<1>2. PICK p \in {"handshake", "serve", "dropped"} : tunnel' = [tunnel EXCEPT ![r] = Phase(t, p)]
  BY <1>1 DEF Establish, Handshake, Drop, Phase
<1>3. t.phase \in {"hijacked", "handshake"}
  BY <1>1 DEF Establish, Handshake, Drop
<1>4. PICK u \in Tunnel : u = Phase(t, p) /\ u.phase = p /\ u.done = t.done /\ u.serving = t.serving
  BY PhaseTunnel
<1>5. Handed(u)
  BY <1>1, <1>3, <1>4 DEF Handed
<1>6. UnchangedByTunnel
  BY DEF Establish, Handshake, Drop
<1> QED BY <1>2, <1>4, <1>5, <1>6, TunnelSet

Accepted(t) == [t EXCEPT !.done = TRUE, !.serving = t.serving + 1]

LEMMA AcceptedTunnel ==
  ASSUME NEW t \in Tunnel
  PROVE  LET u == Accepted(t)
         IN  u \in Tunnel /\ u.phase = t.phase /\ u.done /\ u.serving = t.serving + 1
<1>1. PICK v : v = [t EXCEPT !.done = TRUE]
  OBVIOUS
<1>2. v \in Tunnel /\ v.phase = t.phase /\ v.done /\ v.serving = t.serving /\ v.node = t.node
  BY <1>1 DEF Tunnel
<1>3. v.serving + 1 \in Nat
  BY <1>2 DEF Tunnel
<1>4. Accepted(t) = [v EXCEPT !.serving = t.serving + 1]
  BY <1>1, Zenon DEF Accepted
<1>5. PICK u : u = [v EXCEPT !.serving = t.serving + 1]
  OBVIOUS
<1>6. u \in Tunnel /\ u.phase = v.phase /\ u.done = v.done /\ u.serving = t.serving + 1
  BY <1>2, <1>3, <1>5 DEF Tunnel
<1> QED BY <1>2, <1>4, <1>5, <1>6

LEMMA AcceptInv ==
  ASSUME Inv, NEW r \in Clients, Accept(r) PROVE Inv'
<1>1. PICK t \in Tunnel : t = tunnel[r] /\ Handed(t) /\ t.phase = "serve"
  BY DEF Inv, TypeOK, Accept
<1>2. UnchangedByTunnel
  BY DEF Accept
<1>3. CASE t.done
  <2>1. tunnel' = [tunnel EXCEPT ![r] = Phase(t, "left")]
    BY <1>1, <1>3 DEF Accept, Phase
  <2>2. PICK u \in Tunnel : /\ u = Phase(t, "left") /\ u.phase = "left"
                            /\ u.done = t.done /\ u.serving = t.serving
    BY PhaseTunnel
  <2>3. Handed(u)
    BY <1>1, <1>3, <2>2 DEF Handed
  <2> QED BY <1>2, <2>1, <2>2, <2>3, TunnelSet
<1>4. CASE ~ t.done
  <2>1. tunnel' = [tunnel EXCEPT ![r] = Accepted(t)]
    BY <1>1, <1>4 DEF Accept, Accepted
  <2>2. PICK u \in Tunnel : /\ u = Accepted(t) /\ u.phase = t.phase
                            /\ u.done /\ u.serving = t.serving + 1
    BY AcceptedTunnel
  <2>3. Handed(u)
    BY <1>1, <1>4, <2>2 DEF Handed
  <2> QED BY <1>2, <2>1, <2>2, <2>3, TunnelSet
<1> QED BY <1>3, <1>4
-----------------------------------------------------------------------------
(* The steps of clusterHealthCallback. *)
LEMMA SmallReportsInv ==
  ASSUME Inv, StartChecks \/ Collect \/ CallbackReturn PROVE Inv'
<1>1. ReportsOK
  BY InvParts
<1>2. UNCHANGED <<reported, results, observed>>
  BY DEF StartChecks, Collect, CallbackReturn
<1>3. /\ callback' \in {"off", "idle", "wait", "read", "done"}
      /\ callback' \in {"off", "idle"} => reported' = {}
      /\ callback' \in {"read", "done"} => reported' = Listed
      /\ callback' = "done" => results' = {}
  BY <1>1 DEF StartChecks, Collect, CallbackReturn, ReportsOK, Reports
<1>4. /\ reported' \subseteq Listed
      /\ results' \subseteq [node : Listed, healthy : BOOLEAN]
      /\ observed' \subseteq [node : Listed, healthy : BOOLEAN]
      /\ \A x \in results' \cup observed' : x.node \in reported'
      /\ \A x \in results' \cup observed' : x.healthy => Recognised(x.node)
  BY <1>1, <1>2 DEF ReportsOK, Reports
<1>5. \A c \in reported' : \E h \in BOOLEAN : ResultOf(c)' = {[node |-> c, healthy |-> h]}
  BY <1>1, <1>2 DEF ReportsOK, Reports, ResultOf
<1>6. ReportsOK'
  BY <1>3, <1>4, <1>5 DEF ReportsOK, Reports
<1> QED BY <1>6, SameParts, InvPartsPrime DEF StartChecks, Collect, CallbackReturn

LEMMA ObserveInv ==
  ASSUME Inv, Observe PROVE Inv'
<1>1. ReportsOK
  BY InvParts
<1>2. UNCHANGED <<frames, held, gone, tunnel, callback, reported>> /\ callback = "read"
  BY DEF Observe
<1>3. /\ results' \cup observed' = results \cup observed
      /\ results' \subseteq results
      /\ observed' \subseteq results \cup observed
  BY DEF Observe
<1>4. \A c : ResultOf(c)' = ResultOf(c)
  BY <1>3 DEF ResultOf
<1>5. /\ results' \subseteq [node : Listed, healthy : BOOLEAN]
      /\ observed' \subseteq [node : Listed, healthy : BOOLEAN]
  BY <1>1, <1>3 DEF ReportsOK
<1>6. Reports'
  BY <1>1, <1>2, <1>3, <1>4 DEF ReportsOK, Reports
<1>7. ReportsOK'
  BY <1>1, <1>2, <1>5, <1>6 DEF ReportsOK
<1> QED BY <1>2, <1>7, SameParts, InvPartsPrime

(* The new result is the only one of its check, and a check that was       *)
(* answered with 200 went to a node under a name that it recognises.       *)
LEMMA ReportInv ==
  ASSUME Inv, NEW c \in Listed, Report(c) PROVE Inv'
<1>1. ReportsOK /\ Stacks
  BY InvParts
<1>2. /\ UNCHANGED <<frames, held, gone, tunnel, callback, observed>>
      /\ callback = "wait" /\ c \notin reported
      /\ reported' = reported \cup {c}
  BY DEF Report
<1>3. PICK h \in BOOLEAN : h = IsHealthy(c)
  BY <1>1 DEF IsHealthy, Inv, TypeOK, Roots
<1>4. PICK y : y = [node |-> c, healthy |-> h]
  OBVIOUS
<1>5. y.node = c /\ y.healthy = h /\ y \in [node : Listed, healthy : BOOLEAN]
  BY <1>4
<1>6. results' = results \cup {y}
  BY <1>3, <1>4 DEF Report
<1>7. h => Recognised(c)
  <2> SUFFICES ASSUME h PROVE Recognised(c)
    OBVIOUS
  <2>1. frames[c] # <<>> /\ frames[c][1].pc = "ok" /\ c \in Roots
    BY <1>3 DEF IsHealthy, Roots
  <2>2. Stack(frames[c]) /\ frames[c][1].host = c /\ frames[c][1].node = Resolve[c]
    BY <1>1, <2>1 DEF Stacks, Checks
  <2>3. 1 \in 1 .. Len(frames[c])
    BY <2>1, <2>2, EmptySeq DEF Stack
  <2>4. NeverOK(frames[c][1])
    BY <2>2, <2>3 DEF Stack
  <2> QED BY <2>1, <2>2, <2>4 DEF NeverOK, Astray, Recognised
<1>8. \A x \in results \cup observed : x.node # c
  BY <1>1, <1>2 DEF ReportsOK, Reports
<1>9. results' \cup observed' = results \cup observed \cup {y}
  BY <1>2, <1>6
<1>10. ResultOf(c)' = {y}
  BY <1>5, <1>8, <1>9 DEF ResultOf
<1>11. \A d : d # c => ResultOf(d)' = ResultOf(d)
  BY <1>5, <1>9 DEF ResultOf
<1>12. \A d \in reported' : \E b \in BOOLEAN : ResultOf(d)' = {[node |-> d, healthy |-> b]}
  BY <1>1, <1>2, <1>4, <1>10, <1>11 DEF ReportsOK, Reports
<1>13. /\ \A x \in results' \cup observed' : x.node \in reported'
       /\ \A x \in results' \cup observed' : x.healthy => Recognised(x.node)
  BY <1>1, <1>2, <1>5, <1>7, <1>9 DEF ReportsOK, Reports
<1>14. Reports'
  BY <1>2, <1>12, <1>13 DEF Reports
<1>15. ReportsOK'
  BY <1>1, <1>2, <1>5, <1>6, <1>14 DEF ReportsOK
<1> QED BY <1>2, <1>15, SameParts, InvPartsPrime
-----------------------------------------------------------------------------
LEMMA NextInv ==
  ASSUME Inv, [Next]_vars PROVE Inv'
<1>1. CASE UNCHANGED vars
  BY <1>1, SameParts, InvPartsPrime DEF vars
<1>2. ASSUME NEW r \in Roots, Handler(r) \/ BreakOff(r) \/ Leave(r) PROVE Inv'
  BY <1>2, HandlerInv, LeaveInv
<1>3. ASSUME NEW r \in Clients, NEW n \in Nodes, NEW h \in Names, Arrive(r, n, h) PROVE Inv'
  BY <1>3, ArriveInv
<1>4. ASSUME NEW n \in Nodes, Crash(n) PROVE Inv'
  BY <1>4, CrashInv
<1>5. ASSUME NEW r \in Clients, NEW n \in Nodes, Hijack(r, n) PROVE Inv'
  BY <1>5, HijackInv
<1>6. ASSUME NEW r \in Clients,
             Close(r) \/ Establish(r) \/ Handshake(r) \/ Drop(r) \/ Accept(r)
      PROVE  Inv'
  BY <1>6, CloseInv, ConnectInv, AcceptInv
<1>7. CASE Callback
  BY <1>7, SmallReportsInv, ObserveInv, ReportInv, CheckInv DEF Callback
<1> QED BY <1>1, <1>2, <1>3, <1>4, <1>5, <1>6, <1>7 DEF Next

(* Whatever handlers, clients, tunnels and the health callback do, and     *)
(* whatever nodes crash: the stacks of handlers, the tunnels and the       *)
(* results of the callback are related as Inv says.                        *)
THEOREM Invariance == Spec => []Inv
<1>1. Init => Inv
  BY InitInv
<1>2. Inv /\ [Next]_vars => Inv'
  BY NextInv
<1> QED BY <1>1, <1>2, PTL DEF Spec

(* The state of the server's model keeps its types. *)
THEOREM TypeCorrect == Spec => []TypeOK
<1>1. Inv => TypeOK
  BY DEF Inv
<1> QED BY <1>1, Invariance, PTL

(* ServeHTTP's comparison of the Host with its own address suffices: a     *)
(* request whose name, and whose target's name, are recognised by the      *)
(* nodes they lead to is worked on under at most one kmutex, over however  *)
(* many nodes, so that requests to such names never wait in a cycle.       *)
THEOREM OneLockEach == Spec => []OneLockPerRequest
<1>1. Inv => OneLockPerRequest
  <2> SUFFICES ASSUME Inv, NEW r \in Roots, frames[r] # <<>>, Sound(frames[r][1].host)
               PROVE  Cardinality({i \in 1 .. Len(frames[r]) : UsesKmutex(frames[r][i])}) <= 1
    BY DEF OneLockPerRequest
  <2> DEFINE S == {i \in 1 .. Len(frames[r]) : UsesKmutex(frames[r][i])}
  <2>1. Stack(frames[r]) /\ Len(frames[r]) \in Nat
    BY DEF Inv, TypeOK
  <2>2. /\ Len(frames[r]) <= 2
        /\ Len(frames[r]) = 2 => frames[r][2].pc \in {"own"} \cup Ended
    BY <2>1 DEF Stack, Shallow
  <2>3. ASSUME NEW i \in 1 .. Len(frames[r]), UsesKmutex(frames[r][i]) PROVE i = 1
    <3>1. ASSUME i = 2 PROVE FALSE
      <4>1. Len(frames[r]) = 2
        <5>1. PICK m \in Nat : m = Len(frames[r])
          BY <2>1
        <5>2. i \in 1 .. m /\ m <= 2
          BY <2>2, <5>1
        <5>3. i = 2
          BY <3>1
        <5>4. m = 2
          BY <5>2, <5>3
        <5> QED BY <5>1, <5>4
      <4>2. frames[r][2].pc \in {"own"} \cup Ended
        BY <2>2, <4>1
      <4>3. UsesKmutex(frames[r][2])
        BY <2>3, <3>1
      <4> QED BY <4>2, <4>3 DEF UsesKmutex, Ended
    <3> QED BY <2>1, <2>2, <3>1
  <2>4. S \subseteq {1}
    BY <2>3
  <2>5. IsFiniteSet({1}) /\ Cardinality({1}) = 1
    BY FS_Singleton
  <2> HIDE DEF S
  <2>6. Cardinality(S) <= 1
    BY <2>4, <2>5, FS_Subset
  <2> QED BY <2>6 DEF S
<1> QED BY <1>1, Invariance, PTL

(* clusterHealthCallback, whatever its goroutines meet and in whatever     *)
(* order they send: when it returns it has told the meter of every listed  *)
(* node, and of each of them once.                                         *)
THEOREM NodesReportedOnce == Spec => []EachNodeReported
<1>1. Inv => EachNodeReported
  <2> SUFFICES ASSUME Inv, callback = "done", NEW c \in Listed
               PROVE  Cardinality({x \in observed : x.node = c}) = 1
    BY DEF EachNodeReported
  <2>1. results = {} /\ c \in reported
    BY DEF Inv, Reports
  <2>2. PICK h \in BOOLEAN : ResultOf(c) = {[node |-> c, healthy |-> h]}
    BY <2>1 DEF Inv, Reports
  <2>3. {x \in observed : x.node = c} = ResultOf(c)
    BY <2>1 DEF ResultOf
  <2>4. Cardinality({[node |-> c, healthy |-> h]}) = 1
    BY FS_Singleton
  <2> QED BY <2>2, <2>3, <2>4
<1> QED BY <1>1, Invariance, PTL

(* A health check whose name the checked node does not take for its own is *)
(* forwarded by that node to itself until something fails: such a node is  *)
(* never reported healthy, whatever crashes, breaks or times out.          *)
THEOREM HealthyAreRecognised == Spec => []HealthyIsRecognised
<1>1. Inv => HealthyIsRecognised
  BY DEF Inv, Reports, HealthyIsRecognised
<1> QED BY <1>1, Invariance, PTL

(* handleProxyConnect with its SingleConnListener: however the tunnel      *)
(* ends, no two servers read its connection, and a handler that returned   *)
(* from Serve has handed it over.                                          *)
THEOREM TunnelsAreHandedOver == Spec => []TunnelHandedOver
<1>1. Inv => TunnelHandedOver
  <2> SUFFICES ASSUME Inv, NEW r \in Clients, tunnel[r] # None
               PROVE  /\ tunnel[r].serving <= 1
                      /\ tunnel[r].phase = "left" => tunnel[r].serving = 1
    BY DEF TunnelHandedOver
  <2>1. PICK t \in Tunnel : t = tunnel[r] /\ Handed(t)
    BY DEF Inv, TypeOK
  <2>2. /\ t.phase \in {"hijacked", "handshake", "serve", "left", "dropped"}
        /\ t.serving \in Nat
    BY DEF Tunnel
  <2> QED BY <2>1, <2>2 DEF Handed
<1> QED BY <1>1, Invariance, PTL
=============================================================================
