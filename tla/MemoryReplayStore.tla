------------------------- MODULE MemoryReplayStore -------------------------
(***************************************************************************)
(* The process-local replay store of replay.go: goroutines ("callers")     *)
(* call Consume concurrently on one store whose state is guarded by a      *)
(* one-token channel used as a mutex that gives way to cancellation.       *)
(* Every point at which the code reads the context, the clock or the lock, *)
(* and every access to the shared state under the lock, is a step of its   *)
(* own.                                                                    *)
(*                                                                         *)
(* The clock is a caller-supplied function: a reading is any instant, so   *)
(* two readings may come out of order.  The expiration heap is abstracted  *)
(* to "the oldest entry" here; ReplayExpiryHeap models the heap itself.    *)
(***************************************************************************)
EXTENDS Integers, FiniteSets

CONSTANTS
    Callers,      \* goroutines that call Consume
    Identities,   \* key and nonce pairs
    Malformed,    \* pairs with an empty or an over-long key or nonce
    Times,        \* instants a clock reading or an expiration may be; 0 is the zero time
    Capacity,     \* MemoryReplayConfig.Capacity
    MaxTTL,       \* MemoryReplayConfig.MaxTTL
    MaxDuration,  \* the largest time.Duration, where Time.Sub saturates
    NoRecord      \* a caller outside Consume has no record

\* NewMemoryReplayStore refuses any other configuration.
ASSUME StoreConfig ==
    /\ Times \subseteq Nat /\ 0 \in Times
    /\ Malformed \subseteq Identities
    /\ Capacity \in Nat \ {0}
    /\ MaxDuration \in Nat /\ MaxTTL \in 1..MaxDuration

VARIABLES
    token,        \* replayMutex.token holds its token
    held,         \* the keys of state.entries
    expiresAt,    \* expiresAt of the entry of each held identity
    latestNow,    \* state.latestNow
    pc,           \* where each caller is in Consume
    rec,          \* the record each caller passed
    now,          \* the caller's local variable now
    canceled,     \* the caller's context is done
    result,       \* what the caller's last Consume returned
    granted       \* history: successful reservations of each record

stateVars  == <<held, expiresAt, latestNow>>
callerVars == <<pc, rec, now, canceled, result>>
vars == <<token, held, expiresAt, latestNow, pc, rec, now, canceled, result, granted>>

Records == [id : Identities, expiresAt : Times]

ASSUME NoRecordIsNone == NoRecord \notin Records

\* Statements of Consume executed with the token taken.
Locked == {"keep", "clamp", "evict", "lookup", "renew", "insert", "unlock"}
PCs == {"idle", "check", "sampled", "waiting", "panicked"} \cup Locked
Results == {"none", "nil", "context", "invalid", "replay", "capacity"}

TypeOK ==
    /\ token \in BOOLEAN
    /\ held \in SUBSET Identities
    /\ expiresAt \in [Identities -> Times]
    /\ latestNow \in Times
    /\ pc \in [Callers -> PCs]
    /\ rec \in [Callers -> Records \cup {NoRecord}]
    /\ now \in [Callers -> Times]
    /\ canceled \in [Callers -> BOOLEAN]
    /\ result \in [Callers -> Results]
    /\ granted \in [Records -> Nat]

Init ==
    /\ token = TRUE
    /\ held = {}
    /\ expiresAt = [id \in Identities |-> 0]
    /\ latestNow = 0
    /\ pc = [c \in Callers |-> "idle"]
    /\ rec = [c \in Callers |-> NoRecord]
    /\ now = [c \in Callers |-> 0]
    /\ canceled = [c \in Callers |-> FALSE]
    /\ result = [c \in Callers |-> "none"]
    /\ granted = [r \in Records |-> 0]
-----------------------------------------------------------------------------
Goto(c, label) == pc' = [pc EXCEPT ![c] = label]
Decide(c, value) == result' = [result EXCEPT ![c] = value]

\* Consume returns and its local variables go out of scope.
Leave(c, label) ==
    /\ Goto(c, label)
    /\ rec' = [rec EXCEPT ![c] = NoRecord]
    /\ now' = [now EXCEPT ![c] = 0]
    /\ canceled' = [canceled EXCEPT ![c] = FALSE]

\* A goroutine calls Consume; its context may be canceled at any later time.
Enter(c, r) ==
    /\ pc[c] = "idle"
    /\ Goto(c, "check")
    /\ Decide(c, "none")
    /\ rec' = [rec EXCEPT ![c] = r]
    /\ UNCHANGED <<token, stateVars, now, canceled, granted>>

\* The owner of the context cancels it, or its deadline passes.
Cancel(c) ==
    /\ pc[c] \notin {"idle", "panicked"} /\ ~canceled[c]
    /\ canceled' = [canceled EXCEPT ![c] = TRUE]
    /\ UNCHANGED <<token, stateVars, pc, rec, now, result, granted>>

RecordInvalid(r) == r.id \in Malformed \/ r.expiresAt = 0

\* First context check, then the shape of the record.
RefuseEarly(c) ==
    /\ pc[c] = "check"
    /\ canceled[c] \/ RecordInvalid(rec[c])
    /\ Decide(c, IF canceled[c] THEN "context" ELSE "invalid")
    /\ Leave(c, "idle")
    /\ UNCHANGED <<token, stateVars, granted>>

\* Mutant: the reading is rounded up to the next instant.
SampleClockRoundedUp(c, t) ==
    /\ pc[c] = "check"
    /\ ~canceled[c] /\ ~RecordInvalid(rec[c])
    /\ now' = [now EXCEPT ![c] = t + 1]
    /\ Goto(c, "sampled")
    /\ UNCHANGED <<token, stateVars, rec, canceled, result, granted>>

\* now := store.now(), read before the lock is taken.
SampleClock(c, t) ==
    /\ pc[c] = "check"
    /\ ~canceled[c] /\ ~RecordInvalid(rec[c])
    /\ now' = [now EXCEPT ![c] = t]
    /\ Goto(c, "sampled")
    /\ UNCHANGED <<token, stateVars, rec, canceled, result, granted>>

\* Second context check, after the clock callback returned.
Recheck(c) ==
    /\ pc[c] = "sampled"
    /\ \/ canceled[c] /\ Decide(c, "context") /\ Leave(c, "idle")
       \/ ~canceled[c] /\ Goto(c, "waiting") /\ UNCHANGED <<rec, now, canceled, result>>
    /\ UNCHANGED <<token, stateVars, granted>>

\* lockContext: the select takes the token ...
TakeToken(c) ==
    /\ pc[c] = "waiting" /\ token
    /\ token' = FALSE
    /\ Goto(c, "keep")
    /\ UNCHANGED <<stateVars, rec, now, canceled, result, granted>>

\* Mutant: a plain receive from the token channel ignores cancellation.
GiveUpNever(c) == FALSE

\* ... or the done channel; with both ready it may choose either.
GiveUp(c) ==
    /\ pc[c] = "waiting" /\ canceled[c]
    /\ Decide(c, "context")
    /\ Leave(c, "idle")
    /\ UNCHANGED <<token, stateVars, granted>>

\* replayMutex.Unlock puts the token back and panics when it is there already;
\* both places that call it then return from Consume.
ReleaseToken(c) ==
    /\ token' = TRUE
    /\ Leave(c, IF token THEN "panicked" ELSE "idle")

\* Mutant: the canceled waiter gives the token back and still runs the deferred Unlock.
KeepLockUnlocksTwice(c) ==
    /\ pc[c] = "keep"
    /\ \/ canceled[c] /\ token' = TRUE /\ Goto(c, "unlock") /\ Decide(c, "context")
       \/ ~canceled[c] /\ Goto(c, "clamp") /\ UNCHANGED <<token, result>>
    /\ UNCHANGED <<stateVars, rec, now, canceled, granted>>

\* Mutant: the canceled waiter returns with the token in its pocket.
KeepLockLeaks(c) ==
    /\ pc[c] = "keep"
    /\ \/ canceled[c] /\ Leave(c, "idle") /\ Decide(c, "context")
       \/ ~canceled[c] /\ Goto(c, "clamp") /\ UNCHANGED <<rec, now, canceled, result>>
    /\ UNCHANGED <<token, stateVars, granted>>

\* keepLockUnlessCanceled: a context already done gives the token back.
KeepLock(c) ==
    /\ pc[c] = "keep"
    /\ \/ canceled[c] /\ ReleaseToken(c) /\ Decide(c, "context")
       \/ ~canceled[c] /\ Goto(c, "clamp") /\ UNCHANGED <<token, rec, now, canceled, result>>
    /\ UNCHANGED <<stateVars, granted>>

-----------------------------------------------------------------------------
(* The statements under the lock. *)

\* Mutant: the sampled time is used although the store has seen a later one.
LaterUnclamped(t, u) == t

\* The later of two readings, so that store time never moves backward.
Later(t, u) == IF t < u THEN u ELSE t

\* Time.Sub saturates at the largest Duration.
Sub(t, u) == IF t - u > MaxDuration THEN MaxDuration ELSE t - u

\* Mutant: a record that expires at the store's own time is accepted.
OutOfWindowLate(r, t) == r.expiresAt < t \/ Sub(r.expiresAt, t) > MaxTTL

OutOfWindow(r, t) == r.expiresAt <= t \/ Sub(r.expiresAt, t) > MaxTTL

Clamp(c) ==
    LET t == Later(now[c], latestNow) IN
    /\ pc[c] = "clamp"
    /\ now' = [now EXCEPT ![c] = t]
    /\ latestNow' = t
    /\ IF OutOfWindow(rec[c], t)
       THEN Decide(c, "invalid") /\ Goto(c, "unlock")
       ELSE Goto(c, "evict") /\ UNCHANGED result
    /\ UNCHANGED <<token, held, expiresAt, rec, canceled, granted>>

\* Entries the heap may have at its root.
Oldest == {id \in held : \A other \in held : expiresAt[id] <= expiresAt[other]}

\* Mutant: an entry that expires exactly now is not taken for expired.
EvictStrictly(c) ==
    /\ pc[c] = "evict"
    /\ Goto(c, "lookup")
    /\ \/ \E id \in Oldest :
             /\ expiresAt[id] < now[c]
             /\ held' = held \ {id}
             /\ expiresAt' = [expiresAt EXCEPT ![id] = 0]
       \/ /\ \A id \in Oldest : expiresAt[id] >= now[c]
          /\ UNCHANGED <<held, expiresAt>>
    /\ UNCHANGED <<token, latestNow, rec, now, canceled, result, granted>>

\* removeOldestExpired: drops the root of the heap when it has expired.
Evict(c) ==
    /\ pc[c] = "evict"
    /\ Goto(c, "lookup")
    /\ \/ \E id \in Oldest :
             /\ expiresAt[id] <= now[c]
             /\ held' = held \ {id}
             /\ expiresAt' = [expiresAt EXCEPT ![id] = 0]
       \/ /\ \A id \in Oldest : expiresAt[id] > now[c]
          /\ UNCHANGED <<held, expiresAt>>
    /\ UNCHANGED <<token, latestNow, rec, now, canceled, result, granted>>

\* Mutant: one entry too many fits.
LookupOverfull(c) ==
    LET id == rec[c].id
        live == id \in held /\ expiresAt[id] > now[c]
        full == id \notin held /\ Cardinality(held) > Capacity IN
    /\ pc[c] = "lookup"
    /\ IF live \/ full
       THEN Decide(c, IF live THEN "replay" ELSE "capacity") /\ Goto(c, "unlock")
       ELSE Goto(c, IF id \in held THEN "renew" ELSE "insert") /\ UNCHANGED result
    /\ UNCHANGED <<token, stateVars, rec, now, canceled, granted>>

\* The map lookup and the two refusals that follow it.
Lookup(c) ==
    LET id == rec[c].id
        live == id \in held /\ expiresAt[id] > now[c]
        full == id \notin held /\ Cardinality(held) >= Capacity IN
    /\ pc[c] = "lookup"
    /\ IF live \/ full
       THEN Decide(c, IF live THEN "replay" ELSE "capacity") /\ Goto(c, "unlock")
       ELSE Goto(c, IF id \in held THEN "renew" ELSE "insert") /\ UNCHANGED result
    /\ UNCHANGED <<token, stateVars, rec, now, canceled, granted>>

\* A reservation takes effect: the entry carries the new expiration.
Reserve(c) ==
    /\ expiresAt' = [expiresAt EXCEPT ![rec[c].id] = rec[c].expiresAt]
    /\ granted' = [granted EXCEPT ![rec[c]] = @ + 1]
    /\ Decide(c, "nil")
    /\ Goto(c, "unlock")
    /\ UNCHANGED <<token, latestNow, rec, now, canceled>>

\* An expired entry of the same identity is reused in place (heap.Fix).
Renew(c) == pc[c] = "renew" /\ Reserve(c) /\ UNCHANGED held

\* A new entry enters the map and the heap (heap.Push).
Insert(c) == pc[c] = "insert" /\ Reserve(c) /\ held' = held \cup {rec[c].id}

\* The deferred Unlock, then the return.
Unlock(c) ==
    /\ pc[c] = "unlock"
    /\ ReleaseToken(c)
    /\ UNCHANGED <<stateVars, result, granted>>

-----------------------------------------------------------------------------
UnderLock(c) == KeepLock(c) \/ Clamp(c) \/ Evict(c) \/ Lookup(c) \/ Renew(c) \/ Insert(c) \/ Unlock(c)

Consume(c) ==
    \/ RefuseEarly(c)
    \/ \E t \in Times : SampleClock(c, t)
    \/ Recheck(c)
    \/ TakeToken(c)
    \/ GiveUp(c)
    \/ UnderLock(c)

Next ==
    \E c \in Callers :
        \/ \E r \in Records : Enter(c, r)
        \/ Cancel(c)
        \/ Consume(c)

Spec == Init /\ [][Next]_vars

\* The scheduling every run may count on: the steps up to the lock are fair,
\* while the goroutine that holds the token may be descheduled for ever.
StallSpec ==
    Spec /\ \A c \in Callers : WF_vars(Consume(c) /\ pc[c] \in {"check", "sampled", "waiting", "keep"})

\* The scheduling of a program that is not stalled: a goroutine inside Consume
\* keeps running, and the waiters of a Go channel are served in arrival order,
\* so no waiter is passed over forever.
HoldersRun ==
    \A c \in Callers : WF_vars(Consume(c)) /\ SF_vars(TakeToken(c))
-----------------------------------------------------------------------------
(* Properties. *)

Ledger == INSTANCE ReplayLedger WITH storeTime <- latestNow

\* The store keeps the promise of the ReplayStore interface: a success is a
\* grant of the ledger at the store's own time, whatever the interleaving of
\* callers, the order of their clock readings and the evictions in between.
ImplementsLedger == Ledger!LedgerSpec

\* No record is consumed successfully twice, not even long after the entry
\* that reserved it was evicted or reused.
AtMostOneGrant == \A r \in Records : granted[r] <= 1

\* The map never grows past the configured capacity.
CapacityBound == Cardinality(held) <= Capacity

\* Consume evicts at most one entry, and that is enough: it refuses a new
\* identity for lack of room only when every retained entry is unexpired.
CapacityRefusalJustified ==
    \A c \in Callers :
        pc[c] = "unlock" /\ result[c] = "capacity" =>
            \A id \in held : expiresAt[id] > latestNow

\* Unlock never finds the token in the channel, on the deferred path or on the
\* cancellation path, so its panic is unreachable.
UnlockNeverPanics == \A c \in Callers : pc[c] # "panicked"

\* Every Consume call returns, whoever else is calling, as long as the
\* goroutines that hold the replay state keep running.
ConsumeReturns == HoldersRun => \A c \in Callers : pc[c] # "idle" ~> pc[c] = "idle"

\* A waiter whose context is done returns even when the goroutine that holds
\* the replay state never runs again.
CanceledWaiterReturns ==
    \A c \in Callers : pc[c] = "waiting" /\ canceled[c] ~> pc[c] = "idle"
=============================================================================
