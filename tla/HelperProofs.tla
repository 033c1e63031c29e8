---------------------------- MODULE HelperProofs ----------------------------
(***************************************************************************)
(* The promises of the local network helper for any number of calls and    *)
(* any size of the socket and of the read buffer.                          *)
(***************************************************************************)
EXTENDS LocalNetworkHelper, SequenceTheorems, NaturalsInduction, WellFoundedInduction, TLAPS

Distinct(s) == \A i, j \in 1 .. Len(s) : s[i] = s[j] => i = j

(* Where a request, or its response, is on its way. *)
OnItsWay(d) == \/ d \in Within(requests) \/ handler[d] # "none"
               \/ d \in Within(responses) \/ d \in Within(batch)

(* It is nowhere twice. *)
Once(d) ==
  /\ sender[2] = d => ~ OnItsWay(d) /\ outcome[d] = "none"
  /\ d \in Within(requests) => /\ handler[d] = "none" /\ outcome[d] = "none"
                               /\ d \notin Within(responses) /\ d \notin Within(batch)
  /\ handler[d] # "none" => d \notin Within(responses) /\ d \notin Within(batch)
  /\ d \in Within(responses) => d \notin Within(batch)

(* It is in requestsProcessed from before it is written until it has its   *)
(* reply.                                                                  *)
Registered(d) ==
  /\ OnItsWay(d) => d \in processed
  /\ sender = <<"write", d>> => d \in processed
  /\ d \in processed => reply[d] = None

(* Before that, nothing is known of it. *)
Unsent(d) ==
  /\ dial[d] \in {"new", "send"} => sender[2] # d
  /\ dial[d] \in {"new", "send"} \/ sender = <<"store", d>> =>
       d \notin processed /\ reply[d] = None /\ outcome[d] = "none"

(* The descriptor of a read is that of its first response. *)
Described == first /\ oob # None /\ batch # <<>> /\ HasFD(Head(batch)) => oob = Head(batch)

(* A reply is the call's own connection. *)
Own(d) == /\ reply[d] \in Dials => reply[d] = d
          /\ result[d] \in Dials => result[d] = d

Inv == /\ TypeOK
       /\ sender[1] = "receive" <=> sender[2] = None
       /\ Distinct(requests) /\ Distinct(responses) /\ Distinct(batch)
       /\ \A d \in Dials : Once(d) /\ Registered(d) /\ Unsent(d) /\ Own(d)
       /\ Described
       /\ closed => \A d \in Dials : dial[d] \in {"new", "done"}

(* Only the first response of a read has a descriptor.  (OOBFirst.) *)
Leads == \A d \in Within(batch) : HasFD(d) => d = Head(batch) /\ first /\ oob = d

(* (If all that the socket holds fits into the buffer.) *)
Whole == /\ ~ torn
         /\ ~ reading => ~ alive \/ closed
         /\ \A d \in Dials : dial[d] = "wait" /\ reply[d] = None /\ alive /\ reading
                               => sender[2] = d \/ OnItsWay(d)
-----------------------------------------------------------------------------
(* The messages of a sequence: none, one more, *)
LEMMA WithinEmpty == Within(<<>>) = {} /\ Distinct(<<>>)
BY DEF Within, Distinct

LEMMA WithinAppend ==
  ASSUME NEW s \in Seq(Dials), NEW d \in Dials
  PROVE  /\ Append(s, d) \in Seq(Dials) /\ Len(Append(s, d)) = Len(s) + 1
         /\ Within(Append(s, d)) = Within(s) \cup {d}
         /\ Distinct(s) /\ d \notin Within(s) => Distinct(Append(s, d))
<1> DEFINE t == Append(s, d)
<1>1. /\ t \in Seq(Dials) /\ Len(t) = Len(s) + 1 /\ t[Len(s) + 1] = d
      /\ \A i \in 1 .. Len(s) : t[i] = s[i]
  OBVIOUS
<1>2. Len(s) \in Nat
  OBVIOUS
<1> HIDE DEF t
<1>3. Within(t) = Within(s) \cup {d}
  BY <1>1, <1>2 DEF Within
<1>4. Distinct(s) /\ d \notin Within(s) => Distinct(t)
  BY <1>1, <1>2 DEF Distinct, Within
<1> QED BY <1>1, <1>3, <1>4 DEF t

(* one less, *)
LEMMA WithinTail ==
  ASSUME NEW s \in Seq(Dials), s # <<>>
  PROVE  /\ Head(s) \in Dials /\ Head(s) \in Within(s) /\ Head(s) = s[1]
         /\ Tail(s) \in Seq(Dials) /\ Len(Tail(s)) = Len(s) - 1 /\ Len(s) \in Nat \ {0}
         /\ Within(Tail(s)) \subseteq Within(s)
         /\ Within(s) \subseteq Within(Tail(s)) \cup {Head(s)}
         /\ Distinct(s) => Distinct(Tail(s)) /\ Head(s) \notin Within(Tail(s))
<1> DEFINE t == Tail(s)
<1>1. /\ Len(s) \in Nat \ {0} /\ t \in Seq(Dials) /\ Len(t) = Len(s) - 1
      /\ \A i \in 1 .. Len(t) : t[i] = s[i + 1]
  BY HeadTailProperties, EmptySeq
<1>2. Head(s) = s[1] /\ Head(s) \in Dials
  BY <1>1
<1> HIDE DEF t
<1>3. Head(s) \in Within(s)
  BY <1>1, <1>2 DEF Within
<1>4. Within(t) \subseteq Within(s)
  BY <1>1 DEF Within
<1>5. ASSUME NEW i \in 1 .. Len(s) PROVE s[i] \in Within(t) \cup {Head(s)}
  <2>1. CASE i = 1
    BY <1>2, <2>1
  <2>2. CASE i # 1
    <3>1. i - 1 \in 1 .. Len(t) /\ t[i - 1] = s[i]
      BY <1>1, <2>2
    <3> QED BY <3>1 DEF Within
  <2> QED BY <2>1, <2>2
<1>6. Within(s) \subseteq Within(t) \cup {Head(s)}
  BY <1>5 DEF Within
<1>7. Distinct(s) => Distinct(t) /\ Head(s) \notin Within(t)
  <2> SUFFICES ASSUME Distinct(s) PROVE Distinct(t) /\ Head(s) \notin Within(t)
    OBVIOUS
  <2>1. \A i \in 1 .. Len(t) : i + 1 \in 1 .. Len(s) /\ t[i] = s[i + 1]
    BY <1>1
  <2>2. ASSUME NEW i \in 1 .. Len(t), NEW j \in 1 .. Len(t), t[i] = t[j] PROVE i = j
    <3>1. i + 1 = j + 1
      BY <2>1, <2>2 DEF Distinct
    <3> QED BY <3>1
  <2>3. ASSUME NEW i \in 1 .. Len(t), t[i] = Head(s) PROVE FALSE
    <3>1. i + 1 = 1
      BY <1>1, <1>2, <2>1, <2>3 DEF Distinct
    <3> QED BY <3>1
  <2> QED BY <2>2, <2>3 DEF Distinct, Within
<1> QED BY <1>1, <1>2, <1>3, <1>4, <1>6, <1>7 DEF t

(* or what is between two positions. *)
LEMMA WithinSub ==
  ASSUME NEW s \in Seq(Dials), NEW m \in 1 .. Len(s) + 1, NEW n \in 0 .. Len(s)
  PROVE  LET t == SubSeq(s, m, n)
         IN  /\ t \in Seq(Dials) /\ Len(t) = (IF m <= n THEN n - m + 1 ELSE 0)
             /\ \A i \in 1 .. Len(t) : t[i] = s[m + i - 1]
             /\ Within(t) = {s[i] : i \in m .. n}
             /\ Distinct(s) => Distinct(t)
<1> DEFINE t == SubSeq(s, m, n)
<1>1. Len(s) \in Nat
  OBVIOUS
<1>2. /\ t \in Seq(Dials) /\ Len(t) = (IF m <= n THEN n - m + 1 ELSE 0)
      /\ \A i \in 1 .. n - m + 1 : t[i] = s[m + i - 1]
  BY <1>1, SubSeqProperties
<1>3. \A i \in 1 .. Len(t) : t[i] = s[m + i - 1] /\ m + i - 1 \in m .. n
  BY <1>1, <1>2
<1> HIDE DEF t
<1>4. ASSUME NEW i \in m .. n PROVE s[i] \in Within(t)
  <2>1. m <= n /\ i \in Nat /\ m \in Nat /\ n \in Nat
    BY <1>1
  <2>2. Len(t) = n - m + 1
    BY <1>2, <2>1
  <2>3. PICK j \in 1 .. Len(t) : m + j - 1 = i
    <3>1. i - m + 1 \in 1 .. Len(t) /\ m + (i - m + 1) - 1 = i
      BY <2>1, <2>2
    <3> QED BY <3>1
  <2>4. t[j] = s[i]
    BY <1>3, <2>3
  <2> QED BY <2>4 DEF Within
<1>5. Within(t) = {s[i] : i \in m .. n}
  <2>1. {s[i] : i \in m .. n} \subseteq Within(t)
    BY <1>4
  <2>2. ASSUME NEW x \in Within(t) PROVE x \in {s[i] : i \in m .. n}
    <3>1. PICK i \in 1 .. Len(t) : x = t[i]
      BY <2>2 DEF Within
    <3>2. PICK j \in m .. n : x = s[j]
      BY <1>3, <3>1
    <3> QED BY <3>2
  <2> QED BY <2>1, <2>2
<1>6. ASSUME Distinct(s), NEW i \in 1 .. Len(t), NEW j \in 1 .. Len(t), t[i] = t[j]
      PROVE  i = j
  <2>1. m + i - 1 \in 1 .. Len(s) /\ m + j - 1 \in 1 .. Len(s)
    BY <1>1, <1>3
  <2>2. m + i - 1 = m + j - 1
    BY <1>3, <1>6, <2>1 DEF Distinct
  <2> QED BY <1>1, <2>2
<1> QED BY <1>2, <1>3, <1>5, <1>6 DEF t, Distinct
-----------------------------------------------------------------------------
LEMMA LeastNatural ==
  ASSUME NEW S \in SUBSET Nat, S # {}
  PROVE  \E x \in S : \A y \in S : x <= y
<1>1. IsWellFoundedOn(OpToRel(<, Nat), Nat)
  BY NatLessThanWellFounded
<1>2. PICK x \in S : \A y \in S : ~ (<<y, x>> \in OpToRel(<, Nat))
  BY <1>1, WFMin
<1>3. ASSUME NEW y \in S PROVE x <= y
  <2>1. ~ (y < x)
    BY <1>2 DEF OpToRel
  <2> QED BY <2>1
<1> QED BY <1>3

(* A read returns some message, and at most one descriptor: that of its    *)
(* first message, or else (~ OOBFirst) that of its last.                   *)
LEMMA Segment ==
  ASSUME responses \in Seq(Dials), responses # <<>>
  PROVE  /\ SegmentLen \in 1 .. Len(responses)
         /\ OOBFirst => \A i \in 2 .. SegmentLen : ~ HasFD(responses[i])
         /\ ~ OOBFirst => \A i \in 1 .. SegmentLen - 1 : ~ HasFD(responses[i])
<1> DEFINE Breaks(i) == IF OOBFirst THEN HasFD(responses[i + 1]) ELSE HasFD(responses[i])
           L == Len(responses)
           Ends(n) == n = L \/ Breaks(n)
           S == {n \in 1 .. L : Ends(n)}
<1>1. L \in Nat \ {0}
  BY EmptySeq
<1> HIDE DEF L
<1>2. S \in SUBSET Nat /\ L \in S
  BY <1>1
<1>3. PICK n \in S : \A m \in S : n <= m
  BY <1>2, LeastNatural
<1>4. n \in 1 .. L /\ Ends(n)
  OBVIOUS
<1>5. ASSUME NEW i \in 1 .. n - 1 PROVE ~ Breaks(i)
  <2>1. i \in 1 .. L /\ ~ (n <= i)
    BY <1>1, <1>4
  <2>2. i \notin S
    BY <1>3, <2>1
  <2> QED BY <2>1, <2>2
<1>6. /\ SegmentLen \in 1 .. L
      /\ \A i \in 1 .. SegmentLen - 1 : ~ Breaks(i)
  <2> DEFINE P(m) == (m = L \/ Breaks(m)) /\ \A i \in 1 .. m - 1 : ~ Breaks(i)
  <2>1. \E m \in 1 .. L : P(m)
    BY <1>4, <1>5
  <2>2. SegmentLen = CHOOSE m \in 1 .. L : P(m)
    BY DEF SegmentLen, L
  <2> HIDE DEF P
  <2>3. SegmentLen \in 1 .. L /\ P(SegmentLen)
    BY <2>1, <2>2
  <2> QED BY <2>3 DEF P
<1>7. ASSUME OOBFirst, NEW i \in 2 .. SegmentLen PROVE ~ HasFD(responses[i])
  <2>1. i - 1 \in 1 .. SegmentLen - 1 /\ (i - 1) + 1 = i
    BY <1>1, <1>6
  <2>2. ~ Breaks(i - 1)
    BY <1>6, <2>1
  <2> QED BY <1>7, <2>1, <2>2
<1>8. ASSUME ~ OOBFirst, NEW i \in 1 .. SegmentLen - 1 PROVE ~ HasFD(responses[i])
  BY <1>6, <1>8
<1> QED BY <1>6, <1>7, <1>8 DEF L
-----------------------------------------------------------------------------
LEMMA InitInv == Init => Inv
<1> SUFFICES ASSUME Init PROVE Inv
  OBVIOUS
<1>1. Within(<<>>) = {} /\ Distinct(<<>>) /\ <<>> \in Seq(Dials) /\ Len(<<>>) = 0
  BY WithinEmpty
<1>2. TypeOK
  <2>1. /\ requests \in Seq(Dials) /\ Len(requests) <= Capacity
        /\ responses \in Seq(Dials) /\ Len(responses) <= Capacity
        /\ batch \in Seq(Dials) /\ Len(batch) <= Buffer
    BY <1>1, SizesType DEF Init
  <2>2. sender \in {"receive", "store", "write"} \X (Dials \cup {None})
    BY DEF Init
  <2> QED BY <2>1, <2>2 DEF Init, TypeOK
<1>3. sender[1] = "receive" /\ sender[2] = None
  BY DEF Init
<1>4. ASSUME NEW d \in Dials PROVE Once(d) /\ Registered(d) /\ Unsent(d) /\ Own(d)
  <2>1. ~ OnItsWay(d) /\ sender[2] # d /\ sender[1] = "receive" /\ outcome[d] = "none"
    BY <1>1, <1>3, ValuesApart DEF Init, OnItsWay
  <2>2. Once(d)
    BY <2>1 DEF Once, OnItsWay
  <2>3. sender # <<"write", d>> /\ sender # <<"store", d>> 
    BY <2>1
  <2> QED BY <2>1, <2>2, <2>3, ValuesApart DEF Init, Registered, Unsent, Own
<1> QED BY <1>1, <1>2, <1>3, <1>4 DEF Inv, Init, Described
-----------------------------------------------------------------------------
Calls(d) == Once(d) /\ Registered(d) /\ Unsent(d) /\ Own(d)

(* The steps of PrivilegedDialContext. *)
LEMMA DialInv ==
  ASSUME Inv, NEW c \in Dials,
         DialRefused(c) \/ DialSend(c) \/ Cancel(c) \/ DialReply(c) \/ DialCanceled(c)
  PROVE  Inv'
<1>1. UNCHANGED <<sender, processed, requests, childVars, responses, readVars, reply, closed>>
  BY DEF DialRefused, DialSend, Cancel, DialReply, DialCanceled
<1>2. TypeOK'
  <2>1. dial' \in [Dials -> {"new", "send", "wait", "done"}]
    <3>1. dial \in [Dials -> {"new", "send", "wait", "done"}]
      BY DEF Inv, TypeOK
    <3>2. \/ dial' = dial
          \/ \E l \in {"send", "done"} : dial' = [dial EXCEPT ![c] = l]
      BY DEF DialRefused, DialSend, Cancel, DialReply, DialCanceled, Return
    <3> QED BY <3>1, <3>2
  <2>2. result' \in [Dials -> Dials \cup {None, Failed, Canceled}]
    <3>1. /\ result \in [Dials -> Dials \cup {None, Failed, Canceled}]
          /\ reply[c] \in Dials \cup {None, Failed}
      BY DEF Inv, TypeOK
    <3>2. \/ result' = result
          \/ \E x \in {Failed, Canceled, reply[c]} : result' = [result EXCEPT ![c] = x]
      BY DEF DialRefused, DialSend, Cancel, DialReply, DialCanceled, Return
    <3> QED BY <3>1, <3>2
  <2>3. ctxDone' \subseteq Dials
    BY DEF Inv, TypeOK, DialRefused, DialSend, Cancel, DialReply, DialCanceled
  <2>4. failed' \in BOOLEAN
    BY DEF Inv, TypeOK, DialRefused, DialSend, Cancel, DialReply, DialCanceled
  <2> QED BY <1>1, <2>1, <2>2, <2>3, <2>4 DEF Inv, TypeOK, childVars, readVars
<1>3. ASSUME NEW d \in Dials PROVE Calls(d)'
  <2>1. Calls(d)
    BY DEF Inv, Calls
  <2>2. dial'[d] \in {"new", "send"} => dial[d] \in {"new", "send"}
    BY DEF Inv, TypeOK, DialRefused, DialSend, Cancel, DialReply, DialCanceled, Return
  <2>3. result'[d] \in {result[d], Failed, Canceled, reply[d]}
    BY DEF Inv, TypeOK, DialRefused, DialSend, Cancel, DialReply, DialCanceled, Return
  <2>4. Once(d)' /\ Registered(d)'
    BY <1>1, <2>1 DEF Calls, Once, Registered, OnItsWay, childVars, readVars
  <2>5. Unsent(d)' /\ Own(d)'
    BY <1>1, <2>1, <2>2, <2>3, ValuesApart DEF Calls, Unsent, Own, childVars
  <2> QED BY <2>4, <2>5 DEF Calls
<1>4. Described'
  BY <1>1 DEF Inv, Described, HasFD, childVars, readVars
<1>5. closed' => \A d \in Dials : dial'[d] \in {"new", "done"}
  BY <1>1 DEF Inv, TypeOK, DialRefused, DialSend, Cancel, DialReply, DialCanceled, Return
<1> QED BY <1>1, <1>2, <1>3, <1>4, <1>5 DEF Inv, Calls, readVars

(* handleRequests takes a request: it is nowhere yet. *)
LEMMA ReceiveInv ==
  ASSUME Inv, NEW c \in Dials, Receive(c) PROVE Inv'
<1>1. /\ UNCHANGED <<processed, requests, childVars, responses, readVars, reply, closed, result>>
      /\ dial[c] = "send" /\ dial' = [dial EXCEPT ![c] = "wait"]
      /\ sender[1] = "receive" /\ sender' = <<"store", c>>
  BY DEF Receive
<1>2. sender'[1] = "store" /\ sender'[2] = c /\ c # None
  BY <1>1, ValuesApart
<1>3. TypeOK'
  <2>1. sender' \in {"receive", "store", "write"} \X (Dials \cup {None})
    BY <1>1
  <2> QED BY <1>1, <2>1 DEF Inv, TypeOK, Receive, childVars, readVars
<1>4. ASSUME NEW d \in Dials PROVE Calls(d)'
  <2>1. Calls(d)
    BY DEF Inv, Calls
  <2>2. OnItsWay(d)' = OnItsWay(d) /\ UNCHANGED outcome
    BY <1>1 DEF OnItsWay, childVars, readVars
  <2>3. dial'[d] \in {"new", "send"} => dial[d] \in {"new", "send"} /\ d # c
    BY <1>1 DEF Inv, TypeOK
  <2>4. sender' # <<"write", d>> /\ (sender' = <<"store", d>> => d = c)
    BY <1>2
  <2>5. d = c => ~ OnItsWay(d) /\ outcome[d] = "none"
    BY <1>1, <2>1 DEF Calls, Registered, Unsent
  <2>6. Once(d)'
    <3>1. sender'[2] = d => ~ OnItsWay(d) /\ outcome[d] = "none"
      BY <1>2, <2>5
    <3> QED BY <1>1, <2>1, <2>2, <3>1 DEF Calls, Once, childVars, readVars
  <2>7. Registered(d)'
    BY <1>1, <2>1, <2>2, <2>4 DEF Calls, Registered
  <2>8. Unsent(d)' /\ Own(d)'
    BY <1>1, <1>2, <2>1, <2>2, <2>3, <2>4 DEF Calls, Unsent, Own
  <2> QED BY <2>6, <2>7, <2>8 DEF Calls
<1>5. Described'
  BY <1>1 DEF Inv, Described, HasFD, childVars, readVars
<1>6. closed' => \A d \in Dials : dial'[d] \in {"new", "done"}
  BY <1>1 DEF Inv, TypeOK
<1> QED BY <1>1, <1>2, <1>3, <1>4, <1>5, <1>6 DEF Inv, Calls, readVars

(* What handleRequests has is a request. *)
LEMMA SenderHas ==
  ASSUME Inv, sender[1] \in {"store", "write"}
  PROVE  sender[2] \in Dials /\ sender = <<sender[1], sender[2]>>
<1>1. sender \in {"receive", "store", "write"} \X (Dials \cup {None}) /\ sender[2] # None
  BY DEF Inv, TypeOK
<1> QED BY <1>1

LEMMA StoreRequestInv ==
  ASSUME Inv, StoreRequest PROVE Inv'
<1> DEFINE c == sender[2]
<1>1. /\ UNCHANGED <<dial, result, requests, childVars, responses, readVars, reply, closed>>
      /\ processed' = processed \cup {c} /\ sender' = <<"write", c>>
      /\ c \in Dials /\ sender = <<"store", c>>
  BY SenderHas DEF StoreRequest, callVars
<1>2. sender'[1] = "write" /\ sender'[2] = c /\ c # None
  BY <1>1, ValuesApart
<1> HIDE DEF c
<1>3. TypeOK'
  <2>1. sender' \in {"receive", "store", "write"} \X (Dials \cup {None})
    BY <1>1
  <2> QED BY <1>1, <2>1 DEF Inv, TypeOK, StoreRequest, callVars, childVars, readVars
<1>4. ASSUME NEW d \in Dials PROVE Calls(d)'
  <2>1. Calls(d)
    BY DEF Inv, Calls
  <2>2. OnItsWay(d)' = OnItsWay(d) /\ UNCHANGED outcome
    BY <1>1 DEF OnItsWay, childVars, readVars
  <2>3. sender'[2] = sender[2] /\ sender' # <<"store", d>>
        /\ (sender' = <<"write", d>> => d = c)
    BY <1>2 DEF c
  <2>4. Once(d)'
    BY <1>1, <2>1, <2>2, <2>3 DEF Calls, Once, childVars, readVars
  <2>5. Registered(d)'
    BY <1>1, <2>1, <2>2, <2>3 DEF Calls, Registered, Unsent
  <2>6. Unsent(d)' /\ Own(d)'
    BY <1>1, <2>1, <2>2, <2>3 DEF Calls, Unsent, Own, c
  <2> QED BY <2>4, <2>5, <2>6 DEF Calls
<1>5. Described'
  BY <1>1 DEF Inv, Described, HasFD, childVars, readVars
<1> QED BY <1>1, <1>2, <1>3, <1>4, <1>5 DEF Inv, Calls, readVars

LEMMA WriteRequestInv ==
  ASSUME Inv, WriteRequest PROVE Inv'
<1> DEFINE c == sender[2]
<1>1. /\ UNCHANGED <<dial, result, processed, childVars, responses, readVars, reply, closed>>
      /\ requests' = Append(requests, c) /\ Len(requests) < Capacity
      /\ sender' = <<"receive", None>>
      /\ c \in Dials /\ sender = <<"write", c>>
  BY SenderHas DEF WriteRequest, callVars
<1>2. sender'[1] = "receive" /\ sender'[2] = None
  BY <1>1
<1>3. requests \in Seq(Dials) /\ Distinct(requests) /\ Once(c)
  BY <1>1 DEF Inv, TypeOK
<1>4. c \notin Within(requests) /\ c \notin Within(responses) /\ c \notin Within(batch)
      /\ handler[c] = "none" /\ outcome[c] = "none"
  BY <1>3 DEF Once, OnItsWay
<1>5. /\ requests' \in Seq(Dials) /\ Len(requests') <= Capacity
      /\ Within(requests') = Within(requests) \cup {c} /\ Distinct(requests')
  BY <1>1, <1>3, <1>4, WithinAppend, SizesType
<1> HIDE DEF c
<1>6. TypeOK'
  <2>1. sender' \in {"receive", "store", "write"} \X (Dials \cup {None})
    BY <1>1
  <2> QED BY <1>1, <1>5, <2>1 DEF Inv, TypeOK, WriteRequest, callVars, childVars, readVars
<1>7. ASSUME NEW d \in Dials PROVE Calls(d)'
  <2>1. Calls(d)
    BY DEF Inv, Calls
  <2>2. sender'[2] # d /\ sender' # <<"store", d>> /\ sender' # <<"write", d>>
    BY <1>2, ValuesApart
  <2>3. Once(d)'
    BY <1>1, <1>4, <1>5, <2>1, <2>2 DEF Calls, Once, childVars, readVars
  <2>4. Registered(d)'
    BY <1>1, <1>5, <2>1, <2>2 DEF Calls, Registered, OnItsWay, childVars, readVars
  <2>5. Unsent(d)' /\ Own(d)'
    BY <1>1, <2>1, <2>2 DEF Calls, Unsent, Own, childVars
  <2> QED BY <2>3, <2>4, <2>5 DEF Calls
<1>8. Described'
  BY <1>1 DEF Inv, Described, HasFD, childVars, readVars
<1> QED BY <1>1, <1>2, <1>5, <1>6, <1>7, <1>8 DEF Inv, Calls, readVars

LEMMA WriteRequestFailInv ==
  ASSUME Inv, WriteRequestFail PROVE Inv'
<1> DEFINE c == sender[2]
<1>1. /\ UNCHANGED <<dial, result, requests, childVars, responses, readVars, closed>>
      /\ processed' = processed \ {c} /\ reply' = [reply EXCEPT ![c] = Failed]
      /\ sender' = <<"receive", None>>
      /\ c \in Dials /\ sender = <<"write", c>>
  BY SenderHas DEF WriteRequestFail, callVars
<1>2. sender'[1] = "receive" /\ sender'[2] = None
  BY <1>1
<1>3. ~ OnItsWay(c) /\ dial[c] \notin {"new", "send"}
  BY <1>1 DEF Inv, Once, Unsent
<1> HIDE DEF c
<1>4. TypeOK'
  <2>1. sender' \in {"receive", "store", "write"} \X (Dials \cup {None})
    BY <1>1
  <2> QED BY <1>1, <2>1 DEF Inv, TypeOK, WriteRequestFail, callVars, childVars, readVars
<1>5. ASSUME NEW d \in Dials PROVE Calls(d)'
  <2>1. Calls(d)
    BY DEF Inv, Calls
  <2>2. sender'[2] # d /\ sender' # <<"store", d>> /\ sender' # <<"write", d>>
    BY <1>2, ValuesApart
  <2>3. OnItsWay(d)' = OnItsWay(d) /\ UNCHANGED outcome
    BY <1>1 DEF OnItsWay, childVars, readVars
  <2>4. reply'[d] = IF d = c THEN Failed ELSE reply[d]
    BY <1>1 DEF Inv, TypeOK
  <2>5. Once(d)'
    BY <1>1, <2>1, <2>2 DEF Calls, Once, childVars, readVars
  <2>6. Registered(d)'
    BY <1>1, <1>3, <2>1, <2>2, <2>3, <2>4 DEF Calls, Registered
  <2>7. Unsent(d)' /\ Own(d)'
    BY <1>1, <1>3, <2>1, <2>2, <2>3, <2>4, ValuesApart DEF Calls, Unsent, Own
  <2> QED BY <2>5, <2>6, <2>7 DEF Calls
<1>6. Described'
  BY <1>1 DEF Inv, Described, HasFD, childVars, readVars
<1> QED BY <1>1, <1>2, <1>4, <1>5, <1>6 DEF Inv, Calls, readVars
-----------------------------------------------------------------------------
(* The child's steps.  What ends with it is no longer on its way. *)
LEMMA ExitInv ==
  ASSUME Inv, ServeExit \/ Die PROVE Inv'
<1>1. /\ UNCHANGED <<callVars, sender, processed, outcome, responses, readVars, reply,
                     failed, closed>>
      /\ alive' = FALSE /\ serving' = FALSE
      /\ handler' = [d \in Dials |-> "none"] /\ requests' = <<>>
  BY DEF ServeExit, Die, Exit
<1>2. /\ requests' \in Seq(Dials) /\ Len(requests') <= Capacity
      /\ Within(requests') = {} /\ Distinct(requests')
  BY <1>1, WithinEmpty, SizesType
<1>3. TypeOK'
  BY <1>1, <1>2 DEF Inv, TypeOK, callVars, readVars
<1>4. ASSUME NEW d \in Dials PROVE Calls(d)'
  <2>1. Calls(d) /\ handler'[d] = "none"
    BY <1>1 DEF Inv, Calls
  <2>2. OnItsWay(d)' => OnItsWay(d)
    BY <1>1, <1>2, <2>1 DEF OnItsWay, readVars
  <2>3. Once(d)'
    BY <1>1, <1>2, <2>1, <2>2 DEF Calls, Once, readVars
  <2>4. Registered(d)' /\ Unsent(d)' /\ Own(d)'
    BY <1>1, <2>1, <2>2 DEF Calls, Registered, Unsent, Own, callVars
  <2> QED BY <2>3, <2>4 DEF Calls
<1>5. Described'
  BY <1>1 DEF Inv, Described, HasFD, readVars
<1> QED BY <1>1, <1>2, <1>3, <1>4, <1>5 DEF Inv, Calls, readVars, callVars

(* A goroutine is started for some of the requests that have arrived; the  *)
(* others stay where they are.                                             *)
LEMMA StartFacts ==
  ASSUME Inv, NEW n \in 1 .. Len(requests), StartHandlers(n)
  PROVE  /\ requests' \in Seq(Dials) /\ Len(requests') <= Capacity /\ Distinct(requests')
         /\ handler' \in [Dials -> {"none", "dial", "write"}]
         /\ \A d \in Dials :
              /\ handler'[d] = handler[d] \/ (d \in Within(requests) /\ handler'[d] = "dial")
              /\ d \in Within(requests') => d \in Within(requests) /\ handler'[d] = handler[d]
              /\ d \in Within(requests) => d \in Within(requests') \/ handler'[d] = "dial"
<1> DEFINE L == Len(requests)
<1>1. /\ requests \in Seq(Dials) /\ L \in Nat /\ L <= Capacity /\ Distinct(requests)
      /\ n \in 1 .. L
  BY DEF Inv, TypeOK
<1>2. /\ requests' = SubSeq(requests, n + 1, L)
      /\ handler' = [d \in Dials |-> IF \E i \in 1 .. n : requests[i] = d
                                     THEN "dial" ELSE handler[d]]
  BY DEF StartHandlers
<1>3. /\ requests' \in Seq(Dials) /\ Distinct(requests')
      /\ Len(requests') = (IF n + 1 <= L THEN L - (n + 1) + 1 ELSE 0)
      /\ Within(requests') = {requests[i] : i \in n + 1 .. L}
  <2>1. PICK m \in 1 .. L + 1 : m = n + 1
    BY <1>1
  <2>2. requests' = SubSeq(requests, m, L) /\ L \in 0 .. L
    BY <1>1, <1>2, <2>1
  <2>3. /\ requests' \in Seq(Dials) /\ Distinct(requests')
        /\ Len(requests') = (IF m <= L THEN L - m + 1 ELSE 0)
        /\ Within(requests') = {requests[i] : i \in m .. L}
    BY <1>1, <2>2, WithinSub
  <2> QED BY <2>1, <2>3
<1>4. Within(requests) = {requests[i] : i \in 1 .. L}
  BY DEF Within
<1> HIDE DEF L
<1>5. Len(requests') <= Capacity
  BY <1>1, <1>3, SizesType
<1>6. handler' \in [Dials -> {"none", "dial", "write"}]
  BY <1>2 DEF Inv, TypeOK
<1>7. ASSUME NEW d \in Dials
      PROVE  handler'[d] = handler[d] \/ (d \in Within(requests) /\ handler'[d] = "dial")
  BY <1>1, <1>2, <1>4
<1>8. ASSUME NEW d \in Dials, d \in Within(requests')
      PROVE  d \in Within(requests) /\ handler'[d] = handler[d]
  <2>1. PICK j \in n + 1 .. L : d = requests[j]
    BY <1>3, <1>8
  <2>2. j \in 1 .. L
    BY <1>1, <2>1
  <2>3. ASSUME NEW i \in 1 .. n, requests[i] = d PROVE FALSE
    <3>1. i \in 1 .. L /\ i # j
      BY <1>1, <2>1
    <3> QED BY <1>1, <2>1, <2>2, <2>3, <3>1 DEF Distinct, L
  <2> QED BY <1>2, <1>4, <2>1, <2>2, <2>3
<1>9. ASSUME NEW d \in Dials, d \in Within(requests)
      PROVE  d \in Within(requests') \/ handler'[d] = "dial"
  <2>1. PICK i \in 1 .. L : d = requests[i]
    BY <1>4, <1>9
  <2>2. i \in 1 .. n \/ i \in n + 1 .. L
    BY <1>1, <2>1
  <2> QED BY <1>2, <1>3, <2>1, <2>2
<1> QED BY <1>3, <1>5, <1>6, <1>7, <1>8, <1>9

(* What Serve decodes it has read, and it reads no more than there is. *)
LEMMA ServeStarts ==
  ASSUME Inv, ServeRead \/ ServeTorn
  PROVE  /\ \E n \in 1 .. Len(requests) : StartHandlers(n)
         /\ UNCHANGED <<callVars, sender, processed, outcome, alive, responses, readVars,
                        reply, failed, closed>>
         /\ serving' \in BOOLEAN
<1>1. Len(requests) \in Nat /\ serving \in BOOLEAN
  BY DEF Inv, TypeOK
<1>2. CASE ServeRead
  BY <1>1, <1>2 DEF ServeRead
<1>3. CASE ServeTorn
  <2>1. Buffer \in 1 .. Len(requests)
    BY <1>1, <1>3, SizesType DEF ServeTorn
  <2> QED BY <1>3, <2>1 DEF ServeTorn
<1> QED BY <1>2, <1>3

LEMMA ServeReadInv ==
  ASSUME Inv, ServeRead \/ ServeTorn PROVE Inv'
<1>1. /\ UNCHANGED <<callVars, sender, processed, outcome, alive, responses, readVars, reply,
                     failed, closed>>
      /\ serving' \in BOOLEAN
  BY ServeStarts
<1>2. PICK n \in 1 .. Len(requests) : StartHandlers(n)
  BY ServeStarts
<1>3. /\ requests' \in Seq(Dials) /\ Len(requests') <= Capacity /\ Distinct(requests')
      /\ handler' \in [Dials -> {"none", "dial", "write"}]
  BY <1>2, StartFacts
<1>4. TypeOK'
  BY <1>1, <1>3 DEF Inv, TypeOK, callVars, readVars
<1>5. ASSUME NEW d \in Dials PROVE Calls(d)'
  <2>1. Calls(d)
    BY DEF Inv, Calls
  <2>2. /\ handler'[d] = handler[d] \/ (d \in Within(requests) /\ handler'[d] = "dial")
        /\ d \in Within(requests') => d \in Within(requests) /\ handler'[d] = handler[d]
    BY <1>2, StartFacts
  <2>3. OnItsWay(d)' => OnItsWay(d)
    BY <1>1, <2>2 DEF OnItsWay, readVars
  <2>4. Once(d)'
    BY <1>1, <2>1, <2>2, <2>3 DEF Calls, Once, readVars
  <2>5. Registered(d)' /\ Unsent(d)' /\ Own(d)'
    BY <1>1, <2>1, <2>3 DEF Calls, Registered, Unsent, Own, callVars
  <2> QED BY <2>4, <2>5 DEF Calls
<1>6. Described'
  BY <1>1 DEF Inv, Described, HasFD, readVars
<1> QED BY <1>1, <1>3, <1>4, <1>5, <1>6 DEF Inv, Calls, readVars, callVars

(* The outcome is that of a request whose response is nowhere yet. *)
LEMMA HandlerDialInv ==
  ASSUME Inv, NEW c \in Dials, NEW how \in {"ok", "error"}, HandlerDial(c, how) PROVE Inv'
<1>1. /\ UNCHANGED <<callVars, sender, processed, requests, serving, alive, responses, readVars,
                     reply, failed, closed>>
      /\ handler[c] = "dial"
      /\ handler' = [handler EXCEPT ![c] = "write"]
      /\ outcome' = [outcome EXCEPT ![c] = how]
  BY DEF HandlerDial
<1>2. Calls(c)
  BY DEF Inv, Calls
<1>3. /\ sender[2] # c /\ c \notin Within(requests) /\ c \notin Within(responses)
      /\ c \notin Within(batch) /\ c \in processed
  BY <1>1, <1>2 DEF Calls, Once, Registered, OnItsWay
<1>4. TypeOK'
  BY <1>1 DEF Inv, TypeOK, callVars, readVars
<1>5. ASSUME NEW d \in Dials PROVE Calls(d)'
  <2>1. /\ Calls(d)
        /\ handler'[d] = (IF d = c THEN "write" ELSE handler[d])
        /\ outcome'[d] = (IF d = c THEN how ELSE outcome[d])
    BY <1>1 DEF Inv, Calls, TypeOK
  <2>2. OnItsWay(d)' = OnItsWay(d)
    BY <1>1, <2>1 DEF OnItsWay, readVars
  <2>3. Once(d)'
    BY <1>1, <1>3, <2>1, <2>2 DEF Calls, Once, readVars
  <2>4. Registered(d)' /\ Own(d)'
    BY <1>1, <2>1, <2>2 DEF Calls, Registered, Own, callVars
  <2>5. sender = <<"store", c>> => sender[2] = c
    OBVIOUS
  <2>6. Unsent(d)'
    BY <1>1, <1>2, <1>3, <2>1, <2>5 DEF Calls, Unsent, callVars
  <2> QED BY <2>3, <2>4, <2>6 DEF Calls
<1>6. Described'
  <2>1. batch # <<>> => Head(batch) \in Within(batch) /\ Head(batch) \in Dials
    BY WithinTail DEF Inv, TypeOK
  <2>2. batch # <<>> => HasFD(Head(batch))' = HasFD(Head(batch))
    BY <1>1, <1>3, <2>1 DEF Inv, TypeOK, HasFD, readVars
  <2> QED BY <1>1, <2>2 DEF Inv, Described, readVars
<1> QED BY <1>1, <1>4, <1>5, <1>6 DEF Inv, Calls, readVars, callVars

LEMMA HandlerWriteInv ==
  ASSUME Inv, NEW c \in Dials, HandlerWrite(c) PROVE Inv'
<1>1. /\ UNCHANGED <<callVars, sender, processed, requests, outcome, serving, alive, readVars,
                     reply, failed, closed>>
      /\ handler[c] = "write" /\ handler' = [handler EXCEPT ![c] = "none"]
      /\ \/ responses' = responses
         \/ Len(responses) < Capacity /\ responses' = Append(responses, c)
  BY DEF HandlerWrite
<1>2. Calls(c) /\ responses \in Seq(Dials) /\ Distinct(responses) /\ Len(responses) <= Capacity
  BY DEF Inv, TypeOK, Calls
<1>3. /\ sender[2] # c /\ c \notin Within(requests) /\ c \notin Within(responses)
      /\ c \notin Within(batch)
  BY <1>1, <1>2 DEF Calls, Once, OnItsWay
<1>4. /\ responses' \in Seq(Dials) /\ Len(responses') <= Capacity
      /\ Within(responses') \subseteq Within(responses) \cup {c} /\ Distinct(responses')
  <2>1. CASE responses' = responses
    BY <1>2, <2>1
  <2>2. CASE Len(responses) < Capacity /\ responses' = Append(responses, c)
    <3>1. /\ Append(responses, c) \in Seq(Dials)
          /\ Len(Append(responses, c)) = Len(responses) + 1
          /\ Within(Append(responses, c)) = Within(responses) \cup {c}
          /\ Distinct(Append(responses, c))
      BY <1>2, <1>3, WithinAppend
    <3>2. Len(responses) \in Nat /\ Capacity \in Nat
      BY <1>2, SizesType
    <3> QED BY <2>2, <3>1, <3>2
  <2> QED BY <1>1, <2>1, <2>2
<1>5. TypeOK'
  BY <1>1, <1>4 DEF Inv, TypeOK, callVars, readVars
<1>6. ASSUME NEW d \in Dials PROVE Calls(d)'
  <2>1. Calls(d) /\ handler'[d] = (IF d = c THEN "none" ELSE handler[d])
    BY <1>1 DEF Inv, Calls, TypeOK
  <2>2. OnItsWay(d)' => OnItsWay(d)
    BY <1>1, <1>4, <2>1 DEF OnItsWay, readVars
  <2>3. Once(d)'
    BY <1>1, <1>3, <1>4, <2>1, <2>2 DEF Calls, Once, readVars
  <2>4. Registered(d)' /\ Unsent(d)' /\ Own(d)'
    BY <1>1, <2>1, <2>2 DEF Calls, Registered, Unsent, Own, callVars
  <2> QED BY <2>3, <2>4 DEF Calls
<1>7. Described'
  BY <1>1 DEF Inv, Described, HasFD, readVars
<1> QED BY <1>1, <1>4, <1>5, <1>6, <1>7 DEF Inv, Calls, readVars, callVars
-----------------------------------------------------------------------------
(* handleResponses reads a segment: its messages move on, those cut off    *)
(* are lost, and its descriptor is the one of its first response, if that  *)
(* has one.                                                                *)
LEMMA ReadFacts ==
  ASSUME Inv, ReadResponses
  PROVE  /\ responses \in Seq(Dials)
         /\ SegmentLen \in 1 .. Len(responses)
         /\ batch' \in Seq(Dials) /\ batch' # <<>> /\ Head(batch') = responses[1]
         /\ Len(batch') <= Buffer
         /\ responses' \in Seq(Dials) /\ Len(responses') <= Capacity
         /\ Distinct(batch') /\ Distinct(responses')
         /\ Within(batch') \subseteq {responses[i] : i \in 1 .. SegmentLen}
         /\ Within(batch') \subseteq Within(responses)
         /\ Within(responses') \subseteq Within(responses)
         /\ Within(responses') \cap Within(batch') = {}
         /\ SegmentLen <= Buffer => Within(responses) \subseteq Within(batch') \cup Within(responses')
<1> DEFINE n == SegmentLen
           size == IF n > Buffer THEN Buffer ELSE n
           L == Len(responses)
<1>1. /\ responses \in Seq(Dials) /\ responses # <<>> /\ L <= Capacity /\ L \in Nat
      /\ Distinct(responses)
  BY DEF Inv, TypeOK, ReadResponses
<1>2. n \in 1 .. L
  BY <1>1, Segment
<1>3. batch' = SubSeq(responses, 1, size) /\ responses' = SubSeq(responses, n + 1, L)
  BY DEF ReadResponses
<1> HIDE DEF n, L
<1>4. size \in 1 .. L /\ size <= n /\ size <= Buffer /\ (n <= Buffer => size = n)
  BY <1>1, <1>2, SizesType
<1> HIDE DEF size
<1>5. /\ 1 \in 1 .. L + 1 /\ size \in 0 .. L /\ n + 1 \in 1 .. L + 1 /\ L \in 0 .. L
      /\ 1 <= size /\ size - 1 + 1 = size
  BY <1>1, <1>2, <1>4
<1>6. /\ batch' \in Seq(Dials) /\ Len(batch') = size
      /\ \A i \in 1 .. Len(batch') : batch'[i] = responses[1 + i - 1]
      /\ Within(batch') = {responses[i] : i \in 1 .. size}
      /\ Distinct(batch')
  BY <1>1, <1>3, <1>5, WithinSub DEF L
<1>7. /\ responses' \in Seq(Dials)
      /\ Len(responses') = (IF n + 1 <= L THEN L - (n + 1) + 1 ELSE 0)
      /\ Within(responses') = {responses[i] : i \in n + 1 .. L}
      /\ Distinct(responses')
  <2>1. PICK m \in 1 .. L + 1 : m = n + 1
    BY <1>5
  <2>2. responses' = SubSeq(responses, m, L)
    BY <1>3, <2>1
  <2>3. /\ responses' \in Seq(Dials)
        /\ Len(responses') = (IF m <= L THEN L - m + 1 ELSE 0)
        /\ Within(responses') = {responses[i] : i \in m .. L}
        /\ Distinct(responses')
    BY <1>1, <1>5, <2>2, WithinSub DEF L
  <2> QED BY <2>1, <2>3
<1>8. Len(responses') <= Capacity
  BY <1>1, <1>2, <1>7, SizesType
<1>9. batch' # <<>> /\ Head(batch') = responses[1]
  <2>1. batch' # <<>>
    BY <1>5, <1>6
  <2>2. Head(batch') = batch'[1]
    BY <1>6, <2>1, WithinTail
  <2> QED BY <1>5, <1>6, <2>1, <2>2
<1>10. Within(responses) = {responses[i] : i \in 1 .. L}
  BY DEF Within, L
<1>11. Within(batch') \subseteq {responses[i] : i \in 1 .. n}
  BY <1>1, <1>2, <1>4, <1>6
<1>12. /\ Within(batch') \subseteq Within(responses)
       /\ Within(responses') \subseteq Within(responses)
  BY <1>1, <1>2, <1>4, <1>6, <1>7, <1>10
<1>13. ASSUME NEW x, x \in Within(responses'), x \in Within(batch') PROVE FALSE
  <2>1. PICK i \in 1 .. size : x = responses[i]
    BY <1>6, <1>13
  <2>2. PICK j \in n + 1 .. L : x = responses[j]
    BY <1>7, <1>13
  <2>3. i \in 1 .. L /\ j \in 1 .. L /\ i # j
    BY <1>1, <1>2, <1>4, <2>1, <2>2
  <2> QED BY <1>1, <2>1, <2>2, <2>3 DEF Distinct, L
<1>14. ASSUME n <= Buffer, NEW i \in 1 .. L
       PROVE  responses[i] \in Within(batch') \cup Within(responses')
  <2>1. i \in 1 .. size \/ i \in n + 1 .. L
    BY <1>1, <1>2, <1>4, <1>14
  <2> QED BY <1>6, <1>7, <2>1
<1>15. n <= Buffer => Within(responses) \subseteq Within(batch') \cup Within(responses')
  BY <1>10, <1>14
<1> QED BY <1>1, <1>2, <1>4, <1>6, <1>7, <1>8, <1>9, <1>11, <1>12, <1>13, <1>15 DEF n, L

LEMMA ReadDescriptor ==
  ASSUME Inv, ReadResponses
  PROVE  /\ oob' \in Dials \cup {None}
         /\ HasFD(responses[1]) => oob' = responses[1]
         /\ OOBFirst => \A i \in 2 .. SegmentLen : ~ HasFD(responses[i])
<1> DEFINE n == SegmentLen
           fds == {d \in Dials : HasFD(d) /\ \E i \in 1 .. n : responses[i] = d}
<1>1. oob' = IF fds = {} THEN None ELSE CHOOSE d \in fds : TRUE
  BY DEF ReadResponses
<1>2. responses \in Seq(Dials) /\ n \in 1 .. Len(responses) /\ Len(responses) \in Nat
  BY ReadFacts
<1>3. /\ OOBFirst => \A i \in 2 .. n : ~ HasFD(responses[i])
      /\ ~ OOBFirst => \A i \in 1 .. n - 1 : ~ HasFD(responses[i])
  BY Segment DEF ReadResponses, Inv, TypeOK
<1> HIDE DEF n
<1>4. responses[1] \in Dials
  BY <1>2
<1>5. ASSUME HasFD(responses[1]), NEW i \in 1 .. n, HasFD(responses[i]) PROVE i = 1
  BY <1>2, <1>3, <1>5
<1>6. HasFD(responses[1]) => fds = {responses[1]}
  <2>1. 1 \in 1 .. n
    BY <1>2
  <2> QED BY <1>4, <1>5, <2>1
<1> HIDE DEF fds
<1>7. fds \subseteq Dials
  BY DEF fds
<1>8. oob' \in Dials \cup {None}
  BY <1>1, <1>7
<1> QED BY <1>1, <1>3, <1>6, <1>8 DEF n

LEMMA ReadInv ==
  ASSUME Inv, ReadResponses PROVE Inv'
<1>1. /\ UNCHANGED <<callVars, sender, processed, requests, childVars, reading, reply, failed,
                     closed>>
      /\ first' = TRUE /\ torn' \in BOOLEAN /\ batch = <<>>
  BY DEF ReadResponses
<1>2. TypeOK'
  BY <1>1, ReadFacts, ReadDescriptor DEF Inv, TypeOK, callVars, childVars
<1>3. Within(batch) = {}
  BY <1>1, WithinEmpty
<1>4. /\ Within(batch') \subseteq Within(responses)
      /\ Within(responses') \subseteq Within(responses)
      /\ Within(responses') \cap Within(batch') = {}
  BY ReadFacts
<1>5. ASSUME NEW d \in Dials PROVE Calls(d)'
  <2>1. Calls(d)
    BY DEF Inv, Calls
  <2>2. OnItsWay(d)' => OnItsWay(d)
    BY <1>1, <1>4 DEF OnItsWay, childVars
  <2>3. Once(d)'
    BY <1>1, <1>3, <1>4, <2>1, <2>2 DEF Calls, Once, childVars
  <2>4. Registered(d)' /\ Unsent(d)' /\ Own(d)'
    BY <1>1, <2>1, <2>2 DEF Calls, Registered, Unsent, Own, callVars, childVars
  <2> QED BY <2>3, <2>4 DEF Calls
<1>6. Described'
  <2>1. Head(batch') = responses[1] /\ (HasFD(responses[1]) => oob' = responses[1])
    BY ReadFacts, ReadDescriptor
  <2> QED BY <1>1, <2>1 DEF Described, HasFD, childVars
<1> QED BY <1>1, <1>2, <1>5, <1>6, ReadFacts DEF Inv, Calls, callVars

(* Whatever a response says, its token is known. *)
LEMMA TokenKnown ==
  ASSUME Inv, batch # <<>> PROVE Head(batch) \in Dials /\ Head(batch) \in processed
<1>1. Head(batch) \in Dials /\ Head(batch) \in Within(batch)
  BY WithinTail DEF Inv, TypeOK
<1> QED BY <1>1 DEF Inv, Registered, OnItsWay

LEMMA HandleResponseInv ==
  ASSUME Inv, HandleResponse PROVE Inv'
<1> DEFINE c == Head(batch)
<1>1. batch # <<>> /\ batch \in Seq(Dials) /\ Distinct(batch) /\ c \in Dials /\ c \in processed
  BY TokenKnown DEF HandleResponse, Inv, TypeOK
<1>2. /\ UNCHANGED <<callVars, sender, requests, childVars, responses, torn, reading, failed,
                     closed>>
      /\ processed' = processed \ {c}
      /\ reply' = [reply EXCEPT ![c] = Outcome(c)]
      /\ batch' = Tail(batch) /\ first' = FALSE /\ oob' = None
  BY <1>1 DEF HandleResponse
<1>3. /\ batch' \in Seq(Dials) /\ Len(batch') = Len(batch) - 1 /\ Len(batch) \in Nat
      /\ Within(batch') \subseteq Within(batch) /\ c \notin Within(batch') /\ Distinct(batch')
      /\ c \in Within(batch)
  BY <1>1, <1>2, WithinTail
<1>4. Outcome(c) \in {c, Failed}
  BY <1>1 DEF Outcome, Inv, Described
<1> HIDE DEF c
<1>5. Calls(c)
  BY <1>1 DEF Inv, Calls
<1>6. /\ sender[2] # c /\ c \notin Within(requests) /\ c \notin Within(responses)
      /\ handler[c] = "none" /\ dial[c] \notin {"new", "send"}
  BY <1>1, <1>3, <1>5 DEF Calls, Once, OnItsWay, Unsent
<1>7. TypeOK'
  <2>1. Len(batch') <= Buffer
    BY <1>3, SizesType DEF Inv, TypeOK
  <2>2. reply' \in [Dials -> Dials \cup {None, Failed}]
    BY <1>1, <1>2, <1>4 DEF Inv, TypeOK
  <2> QED BY <1>2, <1>3, <2>1, <2>2 DEF Inv, TypeOK, callVars, childVars
<1>8. ASSUME NEW d \in Dials PROVE Calls(d)'
  <2>1. Calls(d) /\ reply'[d] = IF d = c THEN Outcome(c) ELSE reply[d]
    BY <1>2 DEF Inv, Calls, TypeOK
  <2>2. OnItsWay(d)' => OnItsWay(d) /\ d # c
    BY <1>2, <1>3, <1>6 DEF OnItsWay, childVars
  <2>3. Once(d)'
    BY <1>2, <1>3, <2>1, <2>2 DEF Calls, Once, childVars
  <2>4. sender = <<"write", c>> \/ sender = <<"store", c>> => sender[2] = c
    OBVIOUS
  <2>5. Registered(d)'
    BY <1>2, <1>6, <2>1, <2>2, <2>4 DEF Calls, Registered
  <2>6. Unsent(d)' /\ Own(d)'
    BY <1>2, <1>4, <1>6, <2>1, <2>4, ValuesApart DEF Calls, Unsent, Own, callVars, childVars
  <2> QED BY <2>3, <2>5, <2>6 DEF Calls
<1>9. Described'
  BY <1>2 DEF Described
<1> QED BY <1>2, <1>3, <1>7, <1>8, <1>9 DEF Inv, Calls, callVars

LEMMA StopReadingInv ==
  ASSUME Inv, HandleTorn \/ ReadEnd PROVE Inv'
<1>1. StopReading /\ failed' \in BOOLEAN
  BY DEF HandleTorn, ReadEnd, Inv, TypeOK
<1>2. /\ UNCHANGED <<callVars, sender, processed, requests, childVars, responses, reply, closed>>
      /\ reading' = FALSE /\ batch' = <<>> /\ oob' = None /\ first' = FALSE /\ torn' = FALSE
  BY <1>1 DEF StopReading
<1>3. batch' \in Seq(Dials) /\ Len(batch') <= Buffer /\ Within(batch') = {} /\ Distinct(batch')
  BY <1>2, WithinEmpty, SizesType
<1>4. TypeOK'
  BY <1>1, <1>2, <1>3 DEF Inv, TypeOK, callVars, childVars
<1>5. ASSUME NEW d \in Dials PROVE Calls(d)'
  <2>1. Calls(d)
    BY DEF Inv, Calls
  <2>2. OnItsWay(d)' => OnItsWay(d)
    BY <1>2, <1>3 DEF OnItsWay, childVars
  <2>3. Once(d)'
    BY <1>2, <1>3, <2>1, <2>2 DEF Calls, Once, childVars
  <2>4. Registered(d)' /\ Unsent(d)' /\ Own(d)'
    BY <1>2, <2>1, <2>2 DEF Calls, Registered, Unsent, Own, callVars, childVars
  <2> QED BY <2>3, <2>4 DEF Calls
<1>6. Described'
  BY <1>2 DEF Described
<1> QED BY <1>2, <1>3, <1>4, <1>5, <1>6 DEF Inv, Calls, callVars

(* Nothing moves. *)
LEMMA StillInv ==
  ASSUME Inv, ServeEnd \/ ChildExited \/ Close \/ UNCHANGED vars PROVE Inv'
<1>1. /\ UNCHANGED <<callVars, sender, processed, requests, handler, outcome, alive, responses,
                     readVars, reply>>
      /\ serving' \in BOOLEAN /\ failed' \in BOOLEAN /\ closed' \in BOOLEAN
      /\ closed' => closed \/ \A d \in Dials : dial[d] \in {"new", "done"}
  <2>1. serving \in BOOLEAN /\ failed \in BOOLEAN /\ closed \in BOOLEAN
    BY DEF Inv, TypeOK
  <2>2. CASE ServeEnd
    BY <2>1, <2>2 DEF ServeEnd
  <2>3. CASE ChildExited
    BY <2>1, <2>3 DEF ChildExited, childVars
  <2>4. CASE Close
    BY <2>1, <2>4 DEF Close, childVars
  <2>5. CASE UNCHANGED vars
    BY <2>1, <2>5 DEF vars, childVars
  <2> QED BY <2>2, <2>3, <2>4, <2>5
<1>2. TypeOK'
  BY <1>1 DEF Inv, TypeOK, callVars, readVars
<1>3. ASSUME NEW d \in Dials PROVE Calls(d)'
  BY <1>1 DEF Inv, Calls, Once, Registered, Unsent, Own, OnItsWay, callVars, readVars
<1>4. Described'
  BY <1>1 DEF Inv, Described, HasFD, readVars
<1> QED BY <1>1, <1>2, <1>3, <1>4 DEF Inv, Calls, callVars, readVars

LEMMA NextInv == Inv /\ [Next]_vars => Inv'
<1> SUFFICES ASSUME Inv, [Next]_vars PROVE Inv'
  OBVIOUS
<1>1. ASSUME NEW d \in Dials,
             DialRefused(d) \/ DialSend(d) \/ Cancel(d) \/ DialStep(d) \/ HandlerStep(d)
      PROVE  Inv'
  BY <1>1, DialInv, ReceiveInv, HandlerWriteInv, HandlerDialInv DEF DialStep, HandlerStep
<1>2. ASSUME SendStep \/ ReadStep \/ ServeStep \/ Die \/ Close PROVE Inv'
  BY <1>2, StoreRequestInv, WriteRequestInv, WriteRequestFailInv, ReadInv, HandleResponseInv,
     StopReadingInv, ServeReadInv, ExitInv, StillInv DEF SendStep, ReadStep, ServeStep
<1> QED BY <1>1, <1>2, StillInv DEF Next

(* Every request is, at most once, in one place, and known by its token    *)
(* while it is on its way; the descriptor of a read is that of its first   *)
(* response.                                                               *)
THEOREM Invariance == Spec => []Inv
BY InitInv, NextInv, PTL DEF Spec

(* The state stays within its types, for any number of calls.              *)
THEOREM TypeCorrect == Spec => []TypeOK
<1>1. Inv => TypeOK
  BY DEF Inv
<1> QED BY <1>1, Invariance, PTL

(* However the child's responses overtake each other and are read several  *)
(* at a time, whether descriptors begin or end a segment, whatever is cut  *)
(* off and whenever the child dies: a caller is never given another call's *)
(* connection.                                                             *)
THEOREM ConnectionsAreRight == Spec => []RightConnection
<1>1. Inv => RightConnection
  BY DEF Inv, Own, RightConnection
<1> QED BY <1>1, Invariance, PTL
-----------------------------------------------------------------------------
(* What handleResponses does with a response. *)
LEMMA ResponseFacts ==
  ASSUME Inv, HandleResponse
  PROVE  LET c == Head(batch)
         IN  /\ c \in Dials /\ c \in Within(batch)
             /\ UNCHANGED <<callVars, sender, requests, childVars, responses, torn, reading, failed,
                            closed>>
             /\ reply' = [reply EXCEPT ![c] = Outcome(c)]
             /\ Within(batch') \subseteq Within(batch) \ {c}
             /\ Within(batch) \subseteq Within(batch') \cup {c}
             /\ Outcome(c) \in {c, Failed}
<1> DEFINE c == Head(batch)
<1>1. batch # <<>> /\ batch \in Seq(Dials) /\ Distinct(batch) /\ c \in Dials /\ c \in processed
  BY TokenKnown DEF HandleResponse, Inv, TypeOK
<1>2. /\ UNCHANGED <<callVars, sender, requests, childVars, responses, torn, reading, failed,
                     closed>>
      /\ reply' = [reply EXCEPT ![c] = Outcome(c)] /\ batch' = Tail(batch)
  BY <1>1 DEF HandleResponse
<1>3. /\ Within(batch') \subseteq Within(batch) \ {c}
      /\ Within(batch) \subseteq Within(batch') \cup {c}
      /\ c \in Within(batch)
  BY <1>1, <1>2, WithinTail
<1>4. Outcome(c) \in {c, Failed}
  BY <1>1 DEF Outcome, Inv, Described
<1> QED BY <1>1, <1>2, <1>3, <1>4

(* A request that is being dialed has no response yet, and no reply. *)
LEMMA DialingFacts ==
  ASSUME Inv, NEW c \in Dials, NEW how, HandlerDial(c, how)
  PROVE  c \notin Within(batch) /\ reply[c] = None
BY DEF HandlerDial, Inv, Once, Registered, OnItsWay

LEMMA LeadsStep ==
  ASSUME OOBFirst, Inv, Leads, [Next]_vars PROVE Leads'
<1>1. ASSUME ReadResponses PROVE Leads'
  <2> SUFFICES ASSUME NEW d \in Within(batch'), outcome[d] = "ok"
               PROVE  d = Head(batch') /\ first' /\ oob' = d
    BY <1>1 DEF Leads, HasFD, ReadResponses, childVars
  <2>1. PICK i \in 1 .. SegmentLen : d = responses[i]
    BY <1>1, ReadFacts
  <2>2. i = 1
    BY <1>1, <2>1, ReadFacts, ReadDescriptor DEF HasFD
  <2> QED BY <1>1, <2>1, <2>2, ReadFacts, ReadDescriptor DEF HasFD, ReadResponses
<1>2. ASSUME HandleResponse PROVE Leads'
  BY <1>2, ResponseFacts DEF Leads, HasFD, childVars
<1>3. ASSUME HandleTorn \/ ReadEnd PROVE Leads'
  <2>1. batch' = <<>>
    BY <1>3 DEF HandleTorn, ReadEnd, StopReading
  <2> QED BY <2>1, WithinEmpty DEF Leads
<1>4. ASSUME NEW c \in Dials, NEW how \in {"ok", "error"}, HandlerDial(c, how) PROVE Leads'
  <2>1. UNCHANGED readVars /\ c \notin Within(batch) /\ outcome' = [outcome EXCEPT ![c] = how]
    BY <1>4, DialingFacts DEF HandlerDial
  <2>2. \A d \in Within(batch) : d \in Dials
    BY DEF Inv, TypeOK, Within
  <2>3. \A d \in Within(batch) : HasFD(d)' = HasFD(d)
    BY <2>1, <2>2 DEF HasFD, Inv, TypeOK
  <2> QED BY <2>1, <2>3 DEF Leads, readVars
<1>5. ASSUME UNCHANGED <<readVars, outcome>> PROVE Leads'
  BY <1>5 DEF Leads, HasFD, readVars
<1>6. ASSUME NEW c \in Dials, \/ DialRefused(c) \/ DialSend(c) \/ Cancel(c) \/ DialStep(c)
                              \/ HandlerWrite(c)
      PROVE  UNCHANGED <<readVars, outcome>>
  BY <1>6 DEF DialRefused, DialSend, Cancel, DialStep, DialReply, DialCanceled, Receive,
              HandlerWrite, childVars
<1>7. ASSUME SendStep \/ ChildExited \/ ServeStep \/ Die \/ Close \/ UNCHANGED vars
      PROVE  UNCHANGED <<readVars, outcome>>
  BY <1>7 DEF SendStep, StoreRequest, WriteRequest, WriteRequestFail, ChildExited, ServeStep,
              ServeRead, ServeTorn, ServeEnd, ServeExit, Die, Close, Exit, childVars, vars
<1> QED BY <1>1, <1>2, <1>3, <1>4, <1>5, <1>6, <1>7 DEF Next, ReadStep, HandlerStep

LEMMA DeliveredStep ==
  ASSUME Inv, Leads, DialedIsDelivered, [Next]_vars PROVE DialedIsDelivered'
<1> SUFFICES ASSUME NEW d \in Dials, outcome'[d] = "ok" PROVE reply'[d] # Failed
  BY DEF DialedIsDelivered
<1>1. ASSUME HandleResponse PROVE reply'[d] # Failed
  <2> DEFINE c == Head(batch)
  <2>1. c \in Dials /\ c \in Within(batch) /\ reply' = [reply EXCEPT ![c] = Outcome(c)]
        /\ UNCHANGED outcome
    BY <1>1, ResponseFacts DEF childVars
  <2> HIDE DEF c
  <2>2. CASE d = c
    <3>1. HasFD(c)
      BY <2>1, <2>2 DEF HasFD
    <3>2. Outcome(c) = c
      BY <2>1, <3>1, ValuesApart DEF Leads, Outcome
    <3> QED BY <2>1, <2>2, <3>2, ValuesApart DEF Inv, TypeOK
  <2>3. CASE d # c
    BY <2>1, <2>3 DEF DialedIsDelivered, Inv, TypeOK
  <2> QED BY <2>2, <2>3
<1>2. ASSUME WriteRequestFail PROVE reply'[d] # Failed
  <2>1. sender[2] \in Dials /\ outcome[sender[2]] = "none"
    BY <1>2, SenderHas DEF WriteRequestFail, Inv, Once
  <2>2. d # sender[2] /\ reply'[d] = reply[d] /\ outcome'[d] = outcome[d]
    BY <1>2, <2>1 DEF WriteRequestFail, childVars, Inv, TypeOK
  <2> QED BY <2>2 DEF DialedIsDelivered
<1>3. ASSUME NEW c \in Dials, NEW how \in {"ok", "error"}, HandlerDial(c, how)
      PROVE  reply'[d] # Failed
  <2>1. reply[c] = None /\ reply' = reply /\ outcome' = [outcome EXCEPT ![c] = how]
    BY <1>3, DialingFacts DEF HandlerDial
  <2> QED BY <2>1, ValuesApart DEF DialedIsDelivered, Inv, TypeOK
<1>4. ASSUME UNCHANGED <<reply, outcome>> PROVE reply'[d] # Failed
  BY <1>4 DEF DialedIsDelivered
<1>5. ASSUME NEW c \in Dials, \/ DialRefused(c) \/ DialSend(c) \/ Cancel(c) \/ DialStep(c)
                              \/ HandlerWrite(c)
      PROVE  UNCHANGED <<reply, outcome>>
  BY <1>5 DEF DialRefused, DialSend, Cancel, DialStep, DialReply, DialCanceled, Receive,
              HandlerWrite, childVars
<1>6. ASSUME \/ StoreRequest \/ WriteRequest \/ ReadResponses \/ HandleTorn \/ ReadEnd
             \/ ChildExited \/ ServeStep \/ Die \/ Close \/ UNCHANGED vars
      PROVE  UNCHANGED <<reply, outcome>>
  BY <1>6 DEF StoreRequest, WriteRequest, ReadResponses, HandleTorn, ReadEnd, StopReading,
              ChildExited, ServeStep, ServeRead, ServeTorn, ServeEnd, ServeExit, Die, Close,
              Exit, childVars, vars
<1> QED BY <1>1, <1>2, <1>3, <1>4, <1>5, <1>6 DEF Next, ReadStep, SendStep, HandlerStep

(* Where a descriptor begins a segment, as on macOS: no connection that    *)
(* the child made is reported as a failure, however many responses a read  *)
(* returns.                                                                *)
THEOREM ConnectionsAreDelivered ==
  ASSUME OOBFirst PROVE Spec => []DialedIsDelivered
<1>1. Inv /\ Leads /\ DialedIsDelivered /\ [Next]_vars => Leads' /\ DialedIsDelivered'
  BY LeadsStep, DeliveredStep
<1>2. Init => Leads /\ DialedIsDelivered
  BY WithinEmpty DEF Init, Leads, DialedIsDelivered
<1> QED BY <1>1, <1>2, Invariance, PTL DEF Spec
-----------------------------------------------------------------------------
(* All that the socket holds fits into the read buffer. *)
Roomy == Capacity <= Buffer

Awaits(d) == dial[d] = "wait" /\ reply[d] = None /\ alive /\ reading

(* handleResponses is not torn, so it goes on. *)
LEMMA ReadingStep ==
  ASSUME Roomy, Inv, ~ torn, ~ reading => ~ alive \/ closed, [Next]_vars
  PROVE  ~ torn' /\ (~ reading' => ~ alive' \/ closed')
<1>1. ASSUME ReadResponses PROVE ~ torn' /\ reading'
  <2>1. SegmentLen \in 1 .. Len(responses) /\ Len(responses) <= Capacity
    BY <1>1, ReadFacts DEF Inv, TypeOK
  <2>2. ~ (SegmentLen > Buffer)
    BY <2>1, SizesType DEF Roomy
  <2> QED BY <1>1, <2>2 DEF ReadResponses
<1>2. ASSUME HandleResponse PROVE UNCHANGED <<torn, reading, alive, closed>>
  BY <1>2, ResponseFacts DEF childVars
<1>3. ~ HandleTorn
  BY DEF HandleTorn
<1>4. ASSUME ReadEnd PROVE ~ torn' /\ (~ alive' \/ closed')
  BY <1>4 DEF ReadEnd, StopReading, childVars
<1>5. ASSUME NEW c \in Dials, \/ DialRefused(c) \/ DialSend(c) \/ Cancel(c) \/ DialStep(c)
                              \/ HandlerStep(c)
      PROVE  UNCHANGED <<torn, reading, alive, closed>>
  BY <1>5 DEF DialRefused, DialSend, Cancel, DialStep, DialReply, DialCanceled, Receive,
              HandlerStep, HandlerDial, HandlerWrite, childVars, readVars
<1>6. ASSUME \/ SendStep \/ ChildExited \/ ServeRead \/ ServeTorn \/ ServeEnd
             \/ UNCHANGED vars
      PROVE  UNCHANGED <<torn, reading, alive, closed>>
  BY <1>6 DEF SendStep, StoreRequest, WriteRequest, WriteRequestFail, ChildExited, ServeRead,
              ServeTorn, ServeEnd, childVars, readVars, vars
<1>7. ASSUME ServeExit \/ Die \/ Close
      PROVE  UNCHANGED <<torn, reading>> /\ (~ alive' \/ closed')
  BY <1>7 DEF ServeExit, Die, Close, Exit, readVars
<1> QED BY <1>1, <1>2, <1>3, <1>4, <1>5, <1>6, <1>7 DEF Next, ReadStep, ServeStep

(* What is on its way stays on its way until there is a reply. *)
LEMMA WayStep ==
  ASSUME Roomy, Inv, [Next]_vars, NEW d \in Dials, Awaits(d)',
         Awaits(d) => sender[2] = d \/ OnItsWay(d)
  PROVE  sender'[2] = d \/ OnItsWay(d)'
<1> DEFINE Goal == sender'[2] = d \/ OnItsWay(d)'
<1>1. ASSUME NEW c \in Dials,
             DialRefused(c) \/ DialSend(c) \/ Cancel(c) \/ DialReply(c) \/ DialCanceled(c)
      PROVE  Goal
  <2>1. dial'[d] = "wait" => dial[d] = "wait"
    BY <1>1 DEF DialRefused, DialSend, Cancel, DialReply, DialCanceled, Return, Inv, TypeOK
  <2>2. UNCHANGED <<sender, requests, childVars, responses, readVars, reply>>
    BY <1>1 DEF DialRefused, DialSend, Cancel, DialReply, DialCanceled
  <2> QED BY <2>1, <2>2 DEF Awaits, OnItsWay, childVars, readVars
<1>2. ASSUME NEW c \in Dials, Receive(c) PROVE Goal
  <2>1. sender[2] # d /\ sender'[2] = c
    BY <1>2, ValuesApart DEF Receive, Inv
  <2>2. d # c => dial[d] = "wait"
    BY <1>2 DEF Awaits, Receive, Inv, TypeOK
  <2> QED BY <1>2, <2>1, <2>2 DEF Receive, Awaits, OnItsWay, childVars, readVars
<1>3. ASSUME StoreRequest PROVE Goal
  BY <1>3 DEF StoreRequest, Awaits, OnItsWay, callVars, childVars, readVars
<1>4. ASSUME WriteRequest PROVE Goal
  <2>1. Awaits(d) /\ UNCHANGED <<childVars, responses, readVars>>
    BY <1>4 DEF WriteRequest, Awaits, callVars, childVars, readVars
  <2>2. Within(requests') = Within(requests) \cup {sender[2]}
    BY <1>4, SenderHas, WithinAppend DEF WriteRequest, Inv, TypeOK
  <2> QED BY <2>1, <2>2 DEF OnItsWay, childVars, readVars
<1>5. ASSUME WriteRequestFail PROVE Goal
  <2>1. sender[2] \in Dials /\ reply' = [reply EXCEPT ![sender[2]] = Failed]
    BY <1>5, SenderHas DEF WriteRequestFail
  <2>2. d # sender[2] /\ reply[d] = None
    BY <2>1, ValuesApart DEF Awaits, Inv, TypeOK
  <2> QED BY <1>5, <2>2 DEF WriteRequestFail, Awaits, OnItsWay, callVars, childVars, readVars
<1>6. ASSUME ServeRead \/ ServeTorn PROVE Goal
  <2>1. Awaits(d) /\ UNCHANGED <<sender, responses, readVars>>
    BY <1>6, ServeStarts DEF Awaits, callVars, readVars
  <2>2. PICK n \in 1 .. Len(requests) : StartHandlers(n)
    BY <1>6, ServeStarts
  <2>3. /\ handler'[d] = handler[d] \/ handler'[d] = "dial"
        /\ d \in Within(requests) => d \in Within(requests') \/ handler'[d] = "dial"
    BY <2>2, StartFacts
  <2> QED BY <2>1, <2>3 DEF OnItsWay, readVars
<1>7. ~ (ServeExit \/ Die \/ HandleTorn \/ ReadEnd)
  BY DEF ServeExit, Die, HandleTorn, ReadEnd, StopReading, Exit, Awaits
<1>8. ASSUME NEW c \in Dials, NEW how \in {"ok", "error"}, HandlerDial(c, how) PROVE Goal
  <2>1. Awaits(d) /\ UNCHANGED <<sender, requests, responses, readVars>>
    BY <1>8 DEF HandlerDial, Awaits, callVars, readVars
  <2>2. handler[d] # "none" => handler'[d] # "none"
    BY <1>8 DEF HandlerDial, Inv, TypeOK
  <2> QED BY <2>1, <2>2 DEF OnItsWay, readVars
<1>9. ASSUME NEW c \in Dials, HandlerWrite(c) PROVE Goal
  <2>1. Awaits(d) /\ UNCHANGED <<sender, requests, readVars>>
    BY <1>9 DEF HandlerWrite, Awaits, callVars, readVars
  <2>2. ~ closed
    BY <2>1 DEF Inv, Awaits
  <2>3. Within(responses') = Within(responses) \cup {c}
    BY <1>9, <2>2, WithinAppend DEF HandlerWrite, Inv, TypeOK
  <2>4. d # c => handler'[d] = handler[d]
    BY <1>9 DEF HandlerWrite, Inv, TypeOK
  <2> QED BY <2>1, <2>3, <2>4 DEF OnItsWay, readVars
<1>10. ASSUME ReadResponses PROVE Goal
  <2>1. Awaits(d) /\ UNCHANGED <<sender, requests, childVars>> /\ batch = <<>>
    BY <1>10 DEF ReadResponses, Awaits, callVars, childVars
  <2>2. SegmentLen \in 1 .. Len(responses) /\ Len(responses) <= Capacity
    BY <1>10, ReadFacts DEF Inv, TypeOK
  <2>3. SegmentLen <= Buffer
    BY <2>2, SizesType DEF Roomy
  <2>4. Within(responses) \subseteq Within(batch') \cup Within(responses') /\ Within(batch) = {}
    BY <1>10, <2>1, <2>3, ReadFacts, WithinEmpty
  <2> QED BY <2>1, <2>4 DEF OnItsWay, childVars
<1>11. ASSUME HandleResponse PROVE Goal
  <2> DEFINE c == Head(batch)
  <2>1. /\ c \in Dials /\ Within(batch) \subseteq Within(batch') \cup {c}
        /\ reply' = [reply EXCEPT ![c] = Outcome(c)] /\ Outcome(c) \in {c, Failed}
        /\ UNCHANGED <<callVars, sender, requests, childVars, responses, reading>>
    BY <1>11, ResponseFacts
  <2> HIDE DEF c
  <2>2. d # c /\ reply[d] = None
    BY <2>1, ValuesApart DEF Awaits, Inv, TypeOK
  <2>3. Awaits(d)
    BY <2>1, <2>2 DEF Awaits, callVars, childVars
  <2> QED BY <2>1, <2>2, <2>3 DEF OnItsWay, childVars
<1>12. ASSUME ServeEnd \/ ChildExited \/ Close \/ UNCHANGED vars PROVE Goal
  BY <1>12 DEF ServeEnd, ChildExited, Close, vars, Awaits, OnItsWay, callVars, childVars, readVars
<1> HIDE DEF Goal
<1>13. Goal
  BY <1>1, <1>2, <1>3, <1>4, <1>5, <1>6, <1>7, <1>8, <1>9, <1>10, <1>11, <1>12
     DEF Next, DialStep, HandlerStep, SendStep, ReadStep, ServeStep
<1> QED BY <1>13 DEF Goal

LEMMA WholeStep ==
  ASSUME Roomy, Inv, Whole, [Next]_vars PROVE Whole'
<1>1. ~ torn' /\ (~ reading' => ~ alive' \/ closed')
  BY ReadingStep DEF Whole
<1>2. ASSUME NEW d \in Dials, dial'[d] = "wait", reply'[d] = None, alive', reading'
      PROVE  sender'[2] = d \/ OnItsWay(d)'
  BY <1>2, WayStep DEF Whole, Awaits
<1> QED BY <1>1, <1>2 DEF Whole

LEMMA RoomyWhole == ASSUME Roomy PROVE Spec => [](Inv /\ Whole)
<1>1. Init => Whole
  BY DEF Init, Whole
<1>2. Inv /\ Whole /\ [Next]_vars => Whole'
  BY WholeStep
<1> QED BY <1>1, <1>2, Invariance, PTL DEF Spec

(* If all that the socket holds fits into the read buffer: only the end of *)
(* the child or Close ends handleResponses; no response trips it up,       *)
(* because its token is always known.                                      *)
THEOREM ReaderOutlivesResponses ==
  ASSUME Roomy PROVE Spec => []ReaderEndsWithChild
<1>1. Whole => ReaderEndsWithChild
  BY DEF Whole, ReaderEndsWithChild
<1> QED BY <1>1, RoomyWhole, PTL

(* And as long as both live, a call that waits for its reply is somewhere  *)
(* on its way and registered under its token.                              *)
THEOREM CallsAreRemembered ==
  ASSUME Roomy PROVE Spec => []NoCallForgotten
<1>1. Inv /\ Whole => NoCallForgotten
  BY DEF Inv, Whole, Registered, OnItsWay, NoCallForgotten
<1> QED BY <1>1, RoomyWhole, PTL
=============================================================================
