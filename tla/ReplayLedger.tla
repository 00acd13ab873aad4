---------------------------- MODULE ReplayLedger ----------------------------
(***************************************************************************)
(* What a ReplayStore promises (replay.go, interface ReplayStore): a       *)
(* consumed record reserves its key and nonce pair until the record's      *)
(* expiration, so of all the Consume calls for one pair at most one        *)
(* succeeds before that expiration.  The ledger keeps how often each       *)
(* record was granted and the time the store has reached; refusals are     *)
(* not steps of the ledger, because failing closed is always allowed.      *)
(***************************************************************************)
EXTENDS Integers

CONSTANTS
    Identities,   \* key and nonce pairs (replayIdentity)
    Times         \* instants; 0 is the zero time.Time

ASSUME LedgerTimes == Times \subseteq Nat /\ 0 \in Times

VARIABLES
    granted,      \* how many Consume calls succeeded with each record
    storeTime     \* the latest time the store has acted on

ledgerVars == <<granted, storeTime>>

\* ReplayRecord: KeyID and Nonce are one opaque identity.
Records == [id : Identities, expiresAt : Times]

LedgerInit ==
    /\ granted = [r \in Records |-> 0]
    /\ storeTime = 0

Advance ==
    /\ \E t \in Times : t > storeTime /\ storeTime' = t
    /\ UNCHANGED granted

\* No reservation of the same identity is still running.
Vacant(id) ==
    \A r \in Records : r.id = id /\ granted[r] > 0 => r.expiresAt <= storeTime

Grant(r) ==
    /\ r.expiresAt > storeTime
    /\ Vacant(r.id)
    /\ granted' = [granted EXCEPT ![r] = @ + 1]
    /\ UNCHANGED storeTime

LedgerNext == Advance \/ \E r \in Records : Grant(r)

LedgerSpec == LedgerInit /\ [][LedgerNext]_ledgerVars
=============================================================================
