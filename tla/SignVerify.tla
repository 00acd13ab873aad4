----------------------------- MODULE SignVerify -----------------------------
(***************************************************************************)
(* A Signer (signer.go) and the Verifier of one deployment that share a    *)
(* key and the profile.  The signer's clock is off by a fixed drift within *)
(* the configured skew.  Signatures travel over a network that delays,     *)
(* reorders and duplicates them: a Verify call takes any signature made so *)
(* far.                                                                    *)
(*                                                                         *)
(* The signer writes now.Unix(): the fraction of a second is cut off,      *)
(* although it compared the full clock reading with the key's window.      *)
(***************************************************************************)
EXTENDS Verifier, FiniteSets

CONSTANTS
    Second,       \* ticks in a second
    Lifetime,     \* SigningProfileConfig.Lifetime
    SigningKey,   \* what the SigningKeyProvider returns
    Drifts,       \* how far the signer's clock may be off
    MaxSigned     \* bound on the signatures made

\* The deployment: the skew covers the drift of the clocks and the lost fraction.
ASSUME Deployment ==
    /\ Second \in Nat \ {0} /\ Lifetime \in Nat /\ MaxSigned \in Nat
    /\ SigningKey \in Keys
    /\ \A d \in Drifts : d \in (-ClockSkew)..ClockSkew
    /\ Second - 1 <= ClockSkew
    /\ CreatedPolicy = "required" /\ ExpiresPolicy # "optional"

\* The two ends share the key: a resolver may only differ in how long its answer is
\* fresh.  A parameter the signer writes is present, which for a time means not 0.
ASSUME SharedKey ==
    /\ SigningKey.notBefore \in Int /\ SigningKey.notAfter \in Int /\ SigningKey.revoked \in BOOLEAN
    /\ \A k \in Keys :
           /\ k.notBefore = SigningKey.notBefore /\ k.notAfter = SigningKey.notAfter
           /\ k.revoked = SigningKey.revoked /\ k.algorithm = SigningKey.algorithm
           /\ k.freshUntil \in Int
    /\ SigningKey.algorithm # NoAlg /\ NoNonce \notin Identities
    /\ \A t \in FirstTick..LastTick, d \in Drifts :
           t + d >= SigningKey.notBefore => t + d >= Second

VARIABLES
    drift,        \* signer clock minus verifier clock
    signed        \* the signatures made and when, by the verifier's clock

allVars == <<vars, drift, signed>>

SignerInit == Init /\ drift \in Drifts /\ signed = {}

\* Mutant: the fraction is rounded up instead of cut off.
UnixRoundedUp(t) == ((t + Second - 1) \div Second) * Second

\* time.Time.Unix, read back with time.Unix(s, 0).
Unix(t) == (t \div Second) * Second

\* Sign refuses the provider's key at its clock reading.
SigningRefused(k, now) ==
    \/ k.revoked \/ k.notAfter <= k.notBefore
    \/ now < k.notBefore \/ now >= k.notAfter
    \/ k.algorithm \notin Algorithms
    \/ ExpiresPolicy = "required" /\ now + Lifetime > k.notAfter

\* The parameters Sign writes for the nonce the application chose.
SignedInput(nonce, now) ==
    [created |-> Unix(now),
     expires |-> IF ExpiresPolicy = "required" THEN Unix(now + Lifetime) ELSE 0,
     nonce |-> IF NoncePolicy = "required" THEN nonce ELSE NoNonce,
     alg |-> IF AlgorithmPolicy = "required" THEN SigningKey.algorithm ELSE NoAlg,
     genuine |-> TRUE, covered |-> TRUE, identified |-> TRUE]

\* Signer.Sign; every refusal leaves no trace.
Sign(nonce) ==
    LET now == clock + drift IN
    /\ Cardinality(signed) < MaxSigned
    /\ ~SigningRefused(SigningKey, now)
    /\ signed' = signed \cup {[input |-> SignedInput(nonce, now), at |-> clock]}
    /\ UNCHANGED <<vars, drift>>

Deliver(v) == \E s \in signed : Start(v, s.input)

Check(v) ==
    ValidateInput(v) \/ CreateBase(v) \/ Resolve(v) \/ ValidateKey(v) \/ CryptoVerify(v)
        \/ Consume(v) \/ Reserve(v) \/ ReplayDeadline(v)

SignNext ==
    \/ \E nonce \in Identities : Sign(nonce)
    \/ (Tick \/ \E v \in Calls : Deliver(v) \/ Check(v)) /\ UNCHANGED <<drift, signed>>

SignSpec == SignerInit /\ [][SignNext]_allVars
-----------------------------------------------------------------------------
(* Properties. *)

\* A second is the resolution of the parameters, so the last one before the end
\* of the shorter window may be lost.
Late(i, now) ==
    \A s \in signed : s.input = i =>
        \/ now - s.at > MaxAge - Second
        \/ ExpiresPolicy = "required" /\ now - s.at > Lifetime - Second

\* What a signer signs, a verifier with the same policy and key accepts as far as
\* time goes: the input checks and the key checks refuse it only when it is late, the
\* resolved key is stale or, without an expiration, the key has come to its end, for
\* every drift of the clocks within the skew and although the creation time may
\* precede the key's activation by a fraction.
HonestSignatureStands ==
    [][\A v \in Calls :
          /\ pc[v] = "input" /\ pc'[v] = "idle" => Late(input[v], clock)
          /\ pc[v] = "key" /\ pc'[v] = "idle" =>
                 \/ Late(input[v], clock) \/ clock >= key[v].freshUntil
                 \/ ExpiresPolicy = "forbidden" /\ clock >= key[v].notAfter + ClockSkew]_allVars
=============================================================================
