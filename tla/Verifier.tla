------------------------------ MODULE Verifier ------------------------------
(***************************************************************************)
(* Concurrent Verify calls on one Verifier (verifier.go) with one replay   *)
(* store.  A call is a sequence of steps: selection, input policy with its *)
(* clock sample, signature base, key resolution under a deadline, key      *)
(* policy with a second clock sample, the cryptographic check, and last    *)
(* the consumption of the nonce under a deadline of its own.  The store is *)
(* the ledger of ReplayLedger, which MemoryReplayStore implements.         *)
(*                                                                         *)
(* Time is counted in ticks, of which SignVerify makes a second of several *)
(* because parameters carry whole seconds.  Message content is abstracted  *)
(* to whether the signature value verifies, whether the coverage policy is *)
(* met, and whether the key identifier, nonce and tag values are allowed.  *)
(* One key identifier is used, so an identity of the ledger is a nonce.    *)
(***************************************************************************)
EXTENDS ReplayLedger

CONSTANTS
    Calls,        \* concurrent Verify calls
    Inputs,       \* the signature inputs they may be given
    NoInput, NoKey,   \* a call that holds none
    NoNonce,      \* an input without a nonce parameter
    NoAlg,        \* an input without an alg parameter
    Keys,         \* what the resolver may return
    Algorithms,   \* AllowedAlgorithms
    CreatedPolicy, ExpiresPolicy, NoncePolicy, AlgorithmPolicy,
    MaxAge, ClockSkew,
    MaxDuration,  \* the largest time.Duration, where Time.Sub saturates
    FirstTick, LastTick   \* the span of the real clock

\* The time and nonce rules of NewVerificationProfile.
ASSUME ProfileConfig ==
    /\ {CreatedPolicy, ExpiresPolicy, NoncePolicy, AlgorithmPolicy} \subseteq
           {"forbidden", "optional", "required"}
    /\ ClockSkew \in Nat /\ MaxAge \in Nat /\ MaxDuration \in Nat
    /\ MaxAge + ClockSkew <= MaxDuration
    /\ (CreatedPolicy = "forbidden") <=> (MaxAge = 0)
    /\ FirstTick \in Nat /\ LastTick \in Nat /\ FirstTick <= LastTick
    /\ FirstTick..LastTick \subseteq Times
    /\ NoInput \notin Inputs /\ NoKey \notin Keys

VARIABLES
    clock,        \* the clock behind profile.now and the store's now
    pc,           \* the statement of each Verify call
    input,        \* the input the call selected
    expiry,       \* metadata.replayExpires
    key,          \* the resolved key
    consumed,     \* what Consume returned to the call
    accepted,     \* history: how many calls accepted each input with a nonce
    burned        \* history: inputs whose nonce was reserved, and the store time

callVars == <<pc, input, expiry, key, consumed>>
vars == <<granted, storeTime, clock, pc, input, expiry, key, consumed, accepted, burned>>

TypeOK ==
    /\ granted \in [Records -> Nat] /\ storeTime \in Times
    /\ clock \in FirstTick..LastTick
    /\ pc \in [Calls -> {"idle", "input", "base", "resolve", "key", "crypto", "consume", "reserve", "deadline"}]
    /\ input \in [Calls -> Inputs \cup {NoInput}]
    /\ expiry \in [Calls -> Times]
    /\ key \in [Calls -> Keys \cup {NoKey}]
    /\ consumed \in [Calls -> {"none", "nil", "error"}]
    /\ accepted \in [Inputs -> Nat]
    /\ burned \subseteq (Inputs \X Times)

Init ==
    /\ LedgerInit
    /\ clock = FirstTick
    /\ pc = [v \in Calls |-> "idle"]
    /\ input = [v \in Calls |-> NoInput]
    /\ expiry = [v \in Calls |-> 0]
    /\ key = [v \in Calls |-> NoKey]
    /\ consumed = [v \in Calls |-> "none"]
    /\ accepted = [i \in Inputs |-> 0]
    /\ burned = {}
-----------------------------------------------------------------------------
(* The decisions of validateInput and validateKey. *)

presenceAllowed(policy, present) ==
    policy = "optional" \/ (policy = "required" /\ present) \/ (policy = "forbidden" /\ ~present)

\* Time.Sub saturates at the largest Duration.
Sub(t, u) == IF t - u > MaxDuration THEN MaxDuration ELSE t - u

HasCreated(i) == i.created # 0
HasExpires(i) == i.expires # 0
HasNonce(i)   == i.nonce # NoNonce
HasAlg(i)     == i.alg # NoAlg

\* Mutant: a signature from the future is not refused.
CreatedOutsideOldOnly(i, now) ==
    HasCreated(i) /\ Sub(now, i.created) > MaxAge + ClockSkew

CreatedOutside(i, now) ==
    HasCreated(i) /\ (i.created > now + ClockSkew \/ Sub(now, i.created) > MaxAge + ClockSkew)

ExpiresOutside(i, now) ==
    HasExpires(i) /\ (now >= i.expires + ClockSkew \/ (HasCreated(i) /\ i.expires <= i.created))

\* validateInput refuses; the failure category is left out.
InputRefused(i, now) ==
    \/ ~i.covered \/ ~i.identified
    \/ ~presenceAllowed(CreatedPolicy, HasCreated(i)) \/ CreatedOutside(i, now)
    \/ ~presenceAllowed(ExpiresPolicy, HasExpires(i)) \/ ExpiresOutside(i, now)
    \/ ~presenceAllowed(AlgorithmPolicy, HasAlg(i)) \/ (HasAlg(i) /\ i.alg \notin Algorithms)
    \/ ~presenceAllowed(NoncePolicy, HasNonce(i))
    \/ HasNonce(i) /\ ~HasCreated(i) /\ ~HasExpires(i)

\* Mutant: the later of the two ends is kept.
replayExpiresLatest(i) ==
    LET ends == (IF HasCreated(i) THEN {i.created + MaxAge + ClockSkew} ELSE {})
                \cup (IF HasExpires(i) THEN {i.expires + ClockSkew} ELSE {})
    IN IF ends = {} THEN 0 ELSE CHOOSE t \in ends : \A u \in ends : u <= t

\* replayExpires: the earlier end of the validity windows, skew included.
replayExpires(i) ==
    LET ends == (IF HasCreated(i) THEN {i.created + MaxAge + ClockSkew} ELSE {})
                \cup (IF HasExpires(i) THEN {i.expires + ClockSkew} ELSE {})
    IN IF ends = {} THEN 0 ELSE CHOOSE t \in ends : \A u \in ends : t <= u

\* Every validity window ends at an instant of the model.
ASSUME WindowsEnd ==
    \A i \in Inputs :
        /\ i.created \in Nat /\ i.expires \in Nat
        /\ i.nonce \in Identities \cup {NoNonce}
        /\ replayExpires(i) \in Times

KeyUnusable(k, i, now) ==
    \/ k.revoked
    \/ k.notAfter <= k.notBefore
    \/ now < k.notBefore - ClockSkew
    \/ now >= k.notAfter + ClockSkew
    \/ now >= k.freshUntil
    \/ HasCreated(i) /\ (i.created < k.notBefore - ClockSkew \/ i.created >= k.notAfter + ClockSkew)

AlgorithmRefused(k, i) == k.algorithm \notin Algorithms \/ (HasAlg(i) /\ i.alg # k.algorithm)
-----------------------------------------------------------------------------
At(v, label) == pc[v] = label
Goto(v, label) == pc' = [pc EXCEPT ![v] = label]

\* A call returns; its local variables go out of scope.
Return(v) ==
    /\ Goto(v, "idle")
    /\ input' = [input EXCEPT ![v] = NoInput]
    /\ expiry' = [expiry EXCEPT ![v] = 0]
    /\ key' = [key EXCEPT ![v] = NoKey]
    /\ consumed' = [consumed EXCEPT ![v] = "none"]

Refuse(v) == Return(v) /\ UNCHANGED <<accepted, burned>>

Accept(v) ==
    /\ Return(v)
    /\ accepted' = [accepted EXCEPT ![input[v]] = IF HasNonce(input[v]) THEN @ + 1 ELSE @]
    /\ UNCHANGED burned

\* Nothing but the call's own program counter moves on.
Pass(v, label) ==
    /\ Goto(v, label)
    /\ UNCHANGED <<input, expiry, key, consumed, accepted, burned>>

storeVars == <<granted, storeTime>>

Tick == clock < LastTick /\ clock' = clock + 1 /\ UNCHANGED <<storeVars, callVars, accepted, burned>>

\* The context, the label sets, the selected label and the external context may
\* refuse the call, which changes nothing; otherwise it works on one input.
Start(v, i) ==
    /\ At(v, "idle")
    /\ Goto(v, "input")
    /\ input' = [input EXCEPT ![v] = i]
    /\ UNCHANGED <<storeVars, clock, expiry, key, consumed, accepted, burned>>

\* validateInput: one clock sample for both time checks.
ValidateInput(v) ==
    LET i == input[v] IN
    /\ At(v, "input")
    /\ \/ InputRefused(i, clock) /\ Refuse(v)
       \/ /\ ~InputRefused(i, clock)
          /\ Goto(v, "base")
          /\ expiry' = [expiry EXCEPT ![v] = replayExpires(i)]
          /\ UNCHANGED <<input, key, consumed, accepted, burned>>
    /\ UNCHANGED <<storeVars, clock>>

\* CreateSignatureBase succeeds or not, depending on the message.
CreateBase(v) ==
    /\ At(v, "base")
    /\ Refuse(v) \/ Pass(v, "resolve")
    /\ UNCHANGED <<storeVars, clock>>

\* The resolver returns a key in time; an error, and any answer after the
\* deadline, ends the call.
Resolve(v) ==
    /\ At(v, "resolve")
    /\ \/ Refuse(v)
       \/ /\ \E k \in Keys : key' = [key EXCEPT ![v] = k]
          /\ Goto(v, "key")
          /\ UNCHANGED <<input, expiry, consumed, accepted, burned>>
    /\ UNCHANGED <<storeVars, clock>>

\* validateKey samples the clock again.
ValidateKey(v) ==
    LET k == key[v]
        i == input[v] IN
    /\ At(v, "key")
    /\ \/ (KeyUnusable(k, i, clock) \/ AlgorithmRefused(k, i)) /\ Refuse(v)
       \/ ~KeyUnusable(k, i, clock) /\ ~AlgorithmRefused(k, i) /\ Pass(v, "crypto")
    /\ UNCHANGED <<storeVars, clock>>

\* Mutant: the nonce is consumed first and the signature is checked by the caller.
CryptoVerifySkipped(v) ==
    /\ At(v, "crypto")
    /\ Pass(v, "consume")
    /\ UNCHANGED <<storeVars, clock>>

\* The primitive: a context that is done or a key of another type refuses too.
CryptoVerify(v) ==
    /\ At(v, "crypto")
    /\ \/ Refuse(v)
       \/ input[v].genuine /\ HasNonce(input[v]) /\ Pass(v, "consume")
       \/ input[v].genuine /\ ~HasNonce(input[v]) /\ Accept(v)
    /\ UNCHANGED <<storeVars, clock>>

\* Consume reaches the store, whose time catches up with the clock ...
Consume(v) ==
    /\ At(v, "consume")
    /\ storeTime' = (IF clock < storeTime THEN storeTime ELSE clock)
    /\ Pass(v, "reserve")
    /\ UNCHANGED <<granted, clock>>

ReplayRecord(v) == [id |-> input[v].nonce, expiresAt |-> expiry[v]]

\* ... and which grants the record or returns an error.  An error is always
\* possible: a replay, no capacity, a backend failure, a deadline that passed
\* before the reservation.
Reserve(v) ==
    /\ At(v, "reserve")
    /\ \/ /\ consumed' = [consumed EXCEPT ![v] = "error"]
          /\ UNCHANGED <<storeVars, burned>>
       \/ /\ Grant(ReplayRecord(v))
          /\ consumed' = [consumed EXCEPT ![v] = "nil"]
          /\ burned' = burned \cup {<<input[v], storeTime>>}
    /\ Goto(v, "deadline")
    /\ UNCHANGED <<clock, input, expiry, key, accepted>>

\* Mutant: an unknown outcome of the store is taken for success.
ReplayDeadlineOpen(v) ==
    /\ At(v, "deadline")
    /\ Accept(v) \/ Refuse(v)
    /\ UNCHANGED <<storeVars, clock>>

\* The replay deadline is checked after Consume returned, before its result: a
\* committed reservation may be reported as a failure.
ReplayDeadline(v) ==
    /\ At(v, "deadline")
    /\ \/ Refuse(v)
       \/ consumed[v] = "nil" /\ Accept(v)
    /\ UNCHANGED <<storeVars, clock>>

Verify(v) ==
    \/ \E i \in Inputs : Start(v, i)
    \/ ValidateInput(v) \/ CreateBase(v) \/ Resolve(v) \/ ValidateKey(v)
    \/ CryptoVerify(v) \/ Consume(v) \/ Reserve(v) \/ ReplayDeadline(v)

Next == Tick \/ \E v \in Calls : Verify(v)

Spec == Init /\ [][Next]_vars
-----------------------------------------------------------------------------
(* Properties. *)

\* A signature with a nonce is accepted at most once, by however many concurrent
\* calls it is presented to and however long resolution takes.
AcceptedOnce == \A i \in Inputs : HasNonce(i) => accepted[i] <= 1

\* Only an input that meets the policies and whose signature verifies reserves its
\* nonce: "no nonce burning by invalid signatures".
OnlyGenuineBurnsNonce == \A b \in burned : b[1].genuine /\ b[1].covered /\ b[1].identified

\* The signature time is checked once, before a resolver that may be slow; a nonce
\* is nevertheless consumed only while both validity windows are still open, so a
\* reservation never outlives the signature it guards against.
ConsumedInWindow ==
    \A b \in burned :
        /\ HasCreated(b[1]) => b[2] < b[1].created + MaxAge + ClockSkew
        /\ HasExpires(b[1]) => b[2] < b[1].expires + ClockSkew

\* A nonce is never asked to be kept longer than MaxAge and twice the skew from the
\* store's own time, however early the signature was created: a store whose MaxTTL
\* covers that never answers ErrInvalidReplayRecord to a signature with a creation time.
ReservationFitsStore ==
    \A v \in Calls :
        At(v, "reserve") /\ HasCreated(input[v]) => expiry[v] - storeTime <= MaxAge + 2 * ClockSkew
=============================================================================
