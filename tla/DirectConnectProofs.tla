------------------------ MODULE DirectConnectProofs -------------------------
(***************************************************************************)
(* The promises of module DirectConnect for every number of nodes, every   *)
(* validity, leeway and resolution of the clocks, and every deviation of   *)
(* the clocks of at most half the leeway.                                  *)
(***************************************************************************)
EXTENDS DirectConnect, TLAPS

(* A token's times lie around the true time at which it was issued. *)
TimesFit(t) == /\ t.issued <= now
               /\ t.nbf <= t.issued + MaxSkew
               /\ t.exp <= t.issued + MaxSkew + Validity
               /\ t.exp + Second > t.issued - MaxSkew + Validity

TokensFit == \A t \in tokens : TimesFit(t)

Inv == TypeOK /\ TokensFit /\ InTimeIsAccepted /\ GrantIsRecent

(* The times are integers. *)
LEMMA Integral == /\ Second \in Nat /\ Second > 0
                  /\ Validity \in Nat /\ Leeway \in Nat /\ MaxSkew \in Nat /\ MaxTime \in Nat
                  /\ 2 * MaxSkew <= Leeway
BY TimeTypes, SkewWithinLeeway

(* NumericDate goes back by less than a second. *)
LEMMA NumericDateBounds ==
  ASSUME NEW t \in Int
  PROVE  NumericDate(t) \in Int /\ NumericDate(t) <= t /\ NumericDate(t) + Second > t
<1>1. t % Second \in 0 .. Second - 1
  BY Integral
<1> QED BY <1>1, Integral DEF NumericDate

(* What a new token looks like. *)
LEMMA NewToken ==
  ASSUME TypeOK, NEW n \in Nodes, NEW k \in Keys
  PROVE  Generate(n, k) \in Token /\ TimesFit(Generate(n, k))
<1> DEFINE t == Generate(n, k)
<1>1. Clock(n) \in Int /\ Clock(n) <= now + MaxSkew /\ Clock(n) >= now - MaxSkew
  BY Integral DEF TypeOK, Clock
<1>2. now \in 0 .. MaxTime /\ now \in Int /\ secret[n] \in Secrets
  BY Integral DEF TypeOK
<1>3. /\ t.nbf \in Int /\ t.nbf <= Clock(n) /\ t.nbf + Second > Clock(n)
      /\ t.exp \in Int /\ t.exp <= Clock(n) + Validity /\ t.exp + Second > Clock(n) + Validity
  BY <1>1, Integral, NumericDateBounds DEF Generate
<1>4. t.nbf \in Times /\ t.exp \in Times
  BY <1>1, <1>2, <1>3, Integral DEF Times
<1>5. t.issued = now /\ t.key = k /\ t.secret = secret[n]
  BY DEF Generate
<1>6. t \in Token
  BY <1>2, <1>4, <1>5 DEF Generate, Token
<1>7. TimesFit(t)
  BY <1>1, <1>2, <1>3, <1>5, Integral DEF TimesFit
<1> QED BY <1>6, <1>7

(* What performDirectConnectAuth says of a token that fits. *)
LEMMA AuthSound ==
  ASSUME TypeOK, NEW t \in tokens, TimesFit(t), NEW n \in Nodes
  PROVE  /\ Auth(t, n) # None => t.secret = secret[n] /\ Age(t) < Validity + 2 * Leeway
         /\ t.secret = secret[n] /\ Age(t) + Second <= Validity => Auth(t, n) = t.key
         /\ Auth(t, n) \in {t.key, None}
<1>1. Clock(n) \in Int /\ Clock(n) <= now + MaxSkew /\ Clock(n) >= now - MaxSkew
  BY Integral DEF TypeOK, Clock
<1>2. t \in Token /\ now \in Int
  BY Integral DEF TypeOK
<1>3. t.issued \in Int /\ t.nbf \in Int /\ t.exp \in Int
  BY <1>2, Integral DEF Token, Times
<1>4. Valid(t, Clock(n)) => Age(t) < Validity + 2 * Leeway
  BY <1>1, <1>2, <1>3, Integral DEF Valid, Age, TimesFit
<1>5. Age(t) + Second <= Validity => Valid(t, Clock(n))
  BY <1>1, <1>2, <1>3, Integral DEF Valid, Age, TimesFit
<1> QED BY <1>4, <1>5 DEF Auth

LEMMA InitInv == Init => Inv
BY Integral DEF Init, Inv, TypeOK, TokensFit, InTimeIsAccepted, GrantIsRecent

LEMMA NextInv == Inv /\ [Next]_vars => Inv'
<1> SUFFICES ASSUME Inv, [Next]_vars PROVE Inv'
  OBVIOUS
<1> USE DEF Inv
<1>1. CASE UNCHANGED vars
  BY <1>1 DEF vars, TypeOK, TokensFit, TimesFit, InTimeIsAccepted, GrantIsRecent, Age
<1>2. ASSUME NEW n \in Nodes, NEW k \in Keys, Issue(n, k) PROVE Inv'
  <2>1. Generate(n, k) \in Token /\ TimesFit(Generate(n, k))
    BY NewToken
  <2>2. TypeOK'
    BY <1>2, <2>1 DEF TypeOK, Issue
  <2>3. TokensFit'
    BY <1>2, <2>1 DEF Issue, TokensFit, TimesFit
  <2>4. InTimeIsAccepted' /\ GrantIsRecent'
    BY <1>2 DEF Issue, InTimeIsAccepted, GrantIsRecent, Age
  <2> QED BY <2>2, <2>3, <2>4
<1>3. ASSUME NEW t \in tokens, NEW n \in Nodes, Use(t, n) PROVE Inv'
  <2>1. t \in Token /\ TimesFit(t) /\ t.key \in Keys /\ secret[n] \in Secrets
    BY DEF TypeOK, TokensFit, Token
  <2>2. /\ verdict' \in Verdict
        /\ verdict'.token = t /\ verdict'.secret = secret[n] /\ verdict'.granted = Auth(t, n)
    BY <1>3, <2>1, AuthSound DEF Use, Verdict
  <2>3. TypeOK' /\ TokensFit'
    BY <1>3, <2>2 DEF Use, TypeOK, TokensFit, TimesFit
  <2>4. Age(t)' = Age(t) /\ tokens' = tokens
    BY <1>3 DEF Use, Age
  <2>5. InTimeIsAccepted'
    BY <2>1, <2>2, <1>3, AuthSound DEF InTimeIsAccepted, Use, Age
  <2>6. GrantIsRecent'
    <3> SUFFICES ASSUME Auth(t, n) # None
                 PROVE  t.key = Auth(t, n) /\ t.secret = secret[n]
                        /\ Age(t) < Validity + 2 * Leeway
      BY <2>2, <1>3 DEF GrantIsRecent, Use, Age
    <3> QED BY <2>1, AuthSound
  <2> QED BY <2>3, <2>5, <2>6
<1>4. ASSUME Tick PROVE Inv'
  <2>1. TypeOK'
    BY <1>4, Integral DEF Tick, TypeOK
  <2>2. TokensFit'
    <3> SUFFICES ASSUME NEW t \in tokens PROVE t.issued <= now'
      BY <1>4 DEF Tick, TokensFit, TimesFit
    <3>1. t.issued \in Int /\ now \in Int /\ t.issued <= now
      BY Integral DEF TypeOK, Token, TokensFit, TimesFit
    <3> QED BY <3>1, <1>4 DEF Tick
  <2>3. InTimeIsAccepted' /\ GrantIsRecent'
    BY <1>4 DEF Tick, InTimeIsAccepted, GrantIsRecent
  <2> QED BY <2>1, <2>2, <2>3
<1>5. ASSUME NEW n \in Nodes, NEW s \in -MaxSkew .. MaxSkew, SetClock(n, s) PROVE Inv'
  BY <1>5 DEF SetClock, TypeOK, TokensFit, TimesFit, InTimeIsAccepted, GrantIsRecent
<1>6. ASSUME NEW n \in Nodes, NEW s \in Secrets, Restart(n, s) PROVE Inv'
  BY <1>6 DEF Restart, TypeOK, TokensFit, TimesFit, InTimeIsAccepted, GrantIsRecent
<1> QED BY <1>1, <1>2, <1>3, <1>4, <1>5, <1>6 DEF Next

(* Type correctness. *)
THEOREM TypeCorrect == Spec => []TypeOK
<1>1. Inv => TypeOK
  BY DEF Inv
<1> QED BY InitInv, NextInv, <1>1, PTL DEF Spec

(* A token is accepted until less than a second is left of its validity,   *)
(* however the clocks are set meanwhile.                                   *)
THEOREM TokensWorkInTime == Spec => []InTimeIsAccepted
<1>1. Inv => InTimeIsAccepted
  BY DEF Inv
<1> QED BY InitInv, NextInv, <1>1, PTL DEF Spec

(* A token for the key, made with the same secret, was issued not longer   *)
(* ago than the validity and twice the leeway whenever a key is served.    *)
THEOREM GrantsAreRecent == Spec => []GrantIsRecent
<1>1. Inv => GrantIsRecent
  BY DEF Inv
<1> QED BY InitInv, NextInv, <1>1, PTL DEF Spec
=============================================================================
