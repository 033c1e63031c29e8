--------------------------- MODULE DirectConnect ---------------------------
(***************************************************************************)
(* The tokens of direct connect (internal/server/handle_direct_connect.go).*)
(* The node that redirects a client signs a token for the key with the     *)
(* cluster's secret, valid for jwtValidity by its own clock; the node that *)
(* the client is sent to checks it by its own clock and secret.  A token   *)
(* may be used several times, for instance when a download is retried.     *)
(*                                                                         *)
(* Clocks are set right from time to time and never deviate by more than   *)
(* MaxSkew; a node may be restarted with another secret.  Times are in     *)
(* ticks, a fraction of a second, since a JWT carries whole seconds only.  *)
(***************************************************************************)
EXTENDS Integers, FiniteSets

CONSTANTS
  Nodes,
  Keys,
  Secrets,
  Second,      \* ticks per second
  Validity,    \* jwtValidity
  Leeway,      \* jwtLeeway
  MaxSkew,     \* how far a clock deviates at most
  MaxTime,     \* bound on the time
  MaxTokens,   \* bound on the tokens
  None

ASSUME TimeTypes == /\ Second \in Nat \ {0}
                    /\ {Validity, Leeway, MaxSkew, MaxTime, MaxTokens} \subseteq Nat
ASSUME SkewWithinLeeway == 2 * MaxSkew <= Leeway

Times == -MaxSkew - Second .. MaxTime + MaxSkew + Validity

Token == [key : Keys, secret : Secrets, nbf : Times, exp : Times, issued : 0 .. MaxTime]

Verdict == [token : Token, secret : Secrets, granted : Keys \cup {None}]

VARIABLES
  now,      \* the time
  skew,     \* skew[n]: what n's clock shows more than now
  secret,   \* secret[n]: the cluster secret in n's configuration
  tokens,   \* the tokens that were issued; issued is when, by the true time
  verdict   \* what the last use of a token led to, or None

vars == <<now, skew, secret, tokens, verdict>>

Init == /\ now = 0
        /\ skew \in [Nodes -> -MaxSkew .. MaxSkew]
        /\ secret \in [Nodes -> Secrets]
        /\ tokens = {}
        /\ verdict = None

Clock(n) == now + skew[n]

(* jwt.NewNumericDate: the second that has begun. *)
NumericDate(t) == t - (t % Second)

(* Mutant: the token does not say from when on it is valid. *)
GenerateNoNotBefore(n, k) == [key |-> k, secret |-> secret[n], nbf |-> None,
                              exp |-> NumericDate(Clock(n) + Validity), issued |-> now]

(* generateDirectConnectToken *)
Generate(n, k) == [key |-> k, secret |-> secret[n], nbf |-> NumericDate(Clock(n)),
                   exp |-> NumericDate(Clock(n) + Validity), issued |-> now]

Issue(n, k) == /\ Cardinality(tokens) < MaxTokens
               /\ tokens' = tokens \cup {Generate(n, k)}
               /\ UNCHANGED <<now, skew, secret, verdict>>

(* Mutant: WithLeeway is not given. *)
ValidExactly(t, clock) == clock < t.exp /\ clock >= t.nbf

(* Mutant: the leeway is mistaken for the validity. *)
ValidTwice(t, clock) == clock < t.exp + Leeway + Validity /\ clock >= t.nbf - Leeway

(* jwt.Parse with WithLeeway. *)
Valid(t, clock) == clock < t.exp + Leeway /\ clock >= t.nbf - Leeway

(* performDirectConnectAuth: the key that the token is good for, or 401. *)
Auth(t, n) == IF t.secret = secret[n] /\ Valid(t, Clock(n)) THEN t.key ELSE None

Use(t, n) == /\ verdict' = [token |-> t, secret |-> secret[n], granted |-> Auth(t, n)]
             /\ UNCHANGED <<now, skew, secret, tokens>>

Tick == /\ now < MaxTime
        /\ now' = now + 1
        /\ verdict' = None
        /\ UNCHANGED <<skew, secret, tokens>>

SetClock(n, s) == /\ skew' = [skew EXCEPT ![n] = s]
                  /\ verdict' = None
                  /\ UNCHANGED <<now, secret, tokens>>

Restart(n, s) == /\ secret' = [secret EXCEPT ![n] = s]
                 /\ verdict' = None
                 /\ UNCHANGED <<now, skew, tokens>>

Next == \/ \E n \in Nodes, k \in Keys : Issue(n, k)
        \/ \E t \in tokens, n \in Nodes : Use(t, n)
        \/ Tick
        \/ \E n \in Nodes, s \in -MaxSkew .. MaxSkew : SetClock(n, s)
        \/ \E n \in Nodes, s \in Secrets : Restart(n, s)

Spec == Init /\ [][Next]_vars
-----------------------------------------------------------------------------
(* Type correctness of the state. *)
TypeOK == /\ now \in 0 .. MaxTime
          /\ skew \in [Nodes -> -MaxSkew .. MaxSkew]
          /\ secret \in [Nodes -> Secrets]
          /\ tokens \subseteq Token
          /\ verdict \in Verdict \cup {None}

Age(t) == now - t.issued

(* A token is accepted by every node with the secret it was signed with,   *)
(* as often as it is used, until less than a second is left of its         *)
(* validity: neither the clocks nor the truncation to seconds get in the   *)
(* way.                                                                    *)
InTimeIsAccepted ==
  verdict # None /\ verdict.secret = verdict.token.secret
    => (Age(verdict.token) + Second <= Validity => verdict.granted = verdict.token.key)

(* A key is served only with a token that a node issued for this key with  *)
(* the secret that the serving node has, no longer ago than its validity   *)
(* and twice the leeway, however the clocks were set in between.           *)
GrantIsRecent ==
  verdict # None /\ verdict.granted # None =>
    \E t \in tokens : /\ t.key = verdict.granted
                      /\ t.secret = verdict.secret
                      /\ Age(t) < Validity + 2 * Leeway
=============================================================================
