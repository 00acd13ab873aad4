-------------------------- MODULE ReplayExpiryHeap --------------------------
(***************************************************************************)
(* The state of MemoryReplayStore as replay.go lays it out: the entries    *)
(* map, the expiration heap, and the index by which an entry knows its     *)
(* slot.  MemoryReplayStore abstracts the heap to "the oldest entry"; this *)
(* module shows that the entry the heap gives up is that one, after every  *)
(* sequence of calls.  A call of Consume holds the lock from the clamp to  *)
(* its return, so calls follow one another here; a step of this module is  *)
(* one iteration of a loop of container/heap, or the code between two      *)
(* loops.                                                                  *)
(*                                                                         *)
(* Slots are numbered from 1 (the code: from 0), so the parent of slot j   *)
(* is j \div 2, and an index of 0 stands for the code's -1.                *)
(***************************************************************************)
EXTENDS Integers, Sequences, FiniteSets, Functions

CONSTANTS
    Identities,   \* key and nonce pairs
    Times,        \* instants
    Capacity,     \* MemoryReplayConfig.Capacity
    MaxTTL,       \* MemoryReplayConfig.MaxTTL
    NoCall        \* the value of call when nobody holds the lock

\* Instants are counted from the zero time, and NewMemoryReplayStore refuses a
\* capacity or a time to live that is not positive.
ASSUME StoreAssumption ==
    /\ Times \subseteq Nat
    /\ 0 \in Times
    /\ Capacity \in Nat \ {0}
    /\ MaxTTL \in Nat \ {0}

VARIABLES
    entries,      \* the keys of state.entries
    expiresAt,    \* expiresAt of each entry
    index,        \* index of each entry
    expiry,       \* state.expiry, the heap: its slots
    latestNow,    \* state.latestNow, which is also now after the clamp
    pc,           \* where the call that holds the lock is
    call,         \* its record
    slot,         \* the slot the running sift is at
    start         \* the slot heap.Fix was called with

vars == <<entries, expiresAt, index, expiry, latestNow, pc, call, slot, start>>

Calls == [id : Identities, expires : Times]

TypeOK ==
    /\ entries \in SUBSET Identities
    /\ expiresAt \in [Identities -> Times]
    /\ index \in [Identities -> 0..Capacity]
    /\ expiry \in Seq(Identities)
    /\ Len(expiry) <= Capacity
    /\ latestNow \in Times
    /\ pc \in {"idle", "pop", "lookup", "fix", "up"}
    /\ pc # "idle" => call \in Calls
    /\ slot \in 0..Capacity
    /\ start \in 0..Capacity

Init ==
    /\ entries = {}
    /\ expiresAt = [id \in Identities |-> 0]
    /\ index = [id \in Identities |-> 0]
    /\ expiry = <<>>
    /\ latestNow = 0
    /\ pc = "idle"
    /\ call = NoCall
    /\ slot = 0
    /\ start = 0
-----------------------------------------------------------------------------
(* container/heap over replayExpiryHeap. *)

\* The expiration of the entry in slot i.
At(i) == expiresAt[expiry[i]]

Less(i, j) == At(i) < At(j)

\* Mutant: the slots are exchanged and one of the two indexes is forgotten.
SwapHalf(i, j) ==
    /\ expiry' = [expiry EXCEPT ![i] = expiry[j], ![j] = expiry[i]]
    /\ index' = [index EXCEPT ![expiry[j]] = i]

Swap(i, j) ==
    /\ expiry' = [expiry EXCEPT ![i] = expiry[j], ![j] = expiry[i]]
    /\ index' = [index EXCEPT ![expiry[j]] = i, ![expiry[i]] = j]

\* The smaller child of slot i among the first n slots.
SmallerChild(i, n) ==
    IF 2 * i + 1 <= n /\ Less(2 * i + 1, 2 * i) THEN 2 * i + 1 ELSE 2 * i

\* An iteration of down exchanges slot i with its smaller child, if that child is
\* among the first n slots and expires earlier.
Sinks(i, n) == 2 * i <= n /\ Less(SmallerChild(i, n), i)

Sink(n) ==
    /\ Sinks(slot, n)
    /\ Swap(slot, SmallerChild(slot, n))
    /\ slot' = SmallerChild(slot, n)
    /\ UNCHANGED <<entries, expiresAt, latestNow, pc, call, start>>

\* An iteration of up exchanges slot j with its parent if the parent expires later.
Rises(j) == j # 1 /\ Less(j, j \div 2)

Return ==
    /\ pc' = "idle"
    /\ call' = NoCall
    /\ slot' = 0
    /\ start' = 0
-----------------------------------------------------------------------------
(* Consume, from the clamp to the return, and the heap operations it calls.  *)

\* Mutant: the root is dropped whether or not it has expired.
ExpiredAlways(now) == expiry # <<>>

\* Mutant: an entry that expires exactly now is not taken for expired.
RootExpiredStrictly(now) == expiry # <<>> /\ At(1) < now

\* removeOldestExpired returns early unless the root has expired.
RootExpired(now) == expiry # <<>> /\ ~(At(1) > now)

\* The clamped clock reading, the test of the record, and removeOldestExpired up
\* to the loop of heap.Pop, which first moves the root to the last slot.
Consume(id, expires, reading) ==
    LET now == IF reading < latestNow THEN latestNow ELSE reading IN
    /\ pc = "idle"
    /\ latestNow' = now
    /\ \/ /\ expires <= now \/ expires - now > MaxTTL          \* ErrInvalidReplayRecord
          /\ UNCHANGED <<entries, expiresAt, index, expiry, pc, call, slot, start>>
       \/ /\ expires > now /\ expires - now <= MaxTTL
          /\ call' = [id |-> id, expires |-> expires]
          /\ \/ /\ RootExpired(now)
                /\ Swap(1, Len(expiry))
                /\ pc' = "pop"
                /\ slot' = 1
             \/ /\ ~RootExpired(now)
                /\ pc' = "lookup"
                /\ UNCHANGED <<expiry, index, slot>>
          /\ UNCHANGED <<entries, expiresAt, start>>

\* The loop of heap.Pop: down from the root among all slots but the last.
PopSink == pc = "pop" /\ Sink(Len(expiry) - 1)

\* replayExpiryHeap.Pop cuts the last slot off and removeOldestExpired deletes
\* its entry.
PopCut ==
    LET n == Len(expiry) IN
    /\ pc = "pop"
    /\ ~Sinks(slot, n - 1)
    /\ expiry' = SubSeq(expiry, 1, n - 1)
    /\ index' = [index EXCEPT ![expiry[n]] = 0]
    /\ entries' = entries \ {expiry[n]}
    /\ pc' = "lookup"
    /\ slot' = 0
    /\ UNCHANGED <<expiresAt, latestNow, call, start>>

Known == call.id \in entries

\* ErrReplayDetected and ErrReplayCapacity.
Refuse ==
    /\ pc = "lookup"
    /\ \/ Known /\ expiresAt[call.id] > latestNow
       \/ ~Known /\ Cardinality(entries) >= Capacity
    /\ Return
    /\ UNCHANGED <<entries, expiresAt, index, expiry, latestNow>>

\* Mutant: the renewed entry is only sifted toward the root.
RenewUpOnly ==
    /\ pc = "lookup"
    /\ Known /\ expiresAt[call.id] <= latestNow
    /\ expiresAt' = [expiresAt EXCEPT ![call.id] = call.expires]
    /\ pc' = "up"
    /\ slot' = index[call.id]
    /\ start' = index[call.id]
    /\ UNCHANGED <<entries, index, expiry, latestNow, call>>

\* The expired reservation is renewed in place; heap.Fix is called with its index.
Renew ==
    /\ pc = "lookup"
    /\ Known /\ expiresAt[call.id] <= latestNow
    /\ expiresAt' = [expiresAt EXCEPT ![call.id] = call.expires]
    /\ pc' = "fix"
    /\ slot' = index[call.id]
    /\ start' = index[call.id]
    /\ UNCHANGED <<entries, index, expiry, latestNow, call>>

\* The loop of heap.Fix: down among all slots, and then up when down did not
\* move the entry.
FixSink == pc = "fix" /\ Sink(Len(expiry))

FixDone ==
    /\ pc = "fix"
    /\ ~Sinks(slot, Len(expiry))
    /\ \/ slot > start /\ Return
       \/ slot <= start /\ pc' = "up" /\ UNCHANGED <<call, slot, start>>
    /\ UNCHANGED <<entries, expiresAt, index, expiry, latestNow>>

\* A new entry is stored, and heap.Push appends it and sifts it up.
Insert ==
    LET n == Len(expiry) + 1 IN
    /\ pc = "lookup"
    /\ ~Known /\ Cardinality(entries) < Capacity
    /\ entries' = entries \cup {call.id}
    /\ expiresAt' = [expiresAt EXCEPT ![call.id] = call.expires]
    /\ index' = [index EXCEPT ![call.id] = n]
    /\ expiry' = Append(expiry, call.id)
    /\ pc' = "up"
    /\ slot' = n
    /\ UNCHANGED <<latestNow, call, start>>

\* The loop of up, which heap.Push and heap.Fix share.
Rise ==
    /\ pc = "up"
    /\ Rises(slot)
    /\ Swap(slot \div 2, slot)
    /\ slot' = slot \div 2
    /\ UNCHANGED <<entries, expiresAt, latestNow, pc, call, start>>

UpDone ==
    /\ pc = "up"
    /\ ~Rises(slot)
    /\ Return
    /\ UNCHANGED <<entries, expiresAt, index, expiry, latestNow>>

Next ==
    \/ \E id \in Identities, expires \in Times, reading \in Times : Consume(id, expires, reading)
    \/ PopSink \/ PopCut
    \/ Refuse \/ Renew \/ Insert
    \/ FixSink \/ FixDone
    \/ Rise \/ UpDone

Spec == Init /\ [][Next]_vars
-----------------------------------------------------------------------------
(* Properties. *)

\* The heap holds exactly the entries of the map, each once, and every entry
\* knows its slot, in the middle of a sift too: heap.Fix is given the right index
\* after any history.
IndexCoherent ==
    /\ Len(expiry) = Cardinality(entries)
    /\ Range(expiry) = entries
    /\ \A i \in DOMAIN expiry : index[expiry[i]] = i

\* Between two heap operations no parent expires after its child.
HeapOrder ==
    pc \in {"idle", "lookup"} => \A i \in 2..Len(expiry) : At(i \div 2) <= At(i)

\* removeOldestExpired does what Evict of MemoryReplayStore says: it deletes an
\* expired entry that no other entry expires before, or nothing has expired; and
\* nothing else deletes an entry.
EvictsOldest ==
    [][(pc # "lookup" /\ pc' = "lookup") \/ ~(entries \subseteq entries') =>
          \/ \E id \in entries :
                /\ entries' = entries \ {id}
                /\ expiresAt[id] <= latestNow'
                /\ \A other \in entries : expiresAt[id] <= expiresAt[other]
          \/ entries' = entries /\ \A id \in entries : expiresAt[id] > latestNow']_vars

\* An unexpired reservation is never evicted and its expiration never moves,
\* whatever the other identities do to the heap.
ReservationStable ==
    [][\A id \in entries : expiresAt[id] > latestNow' =>
          id \in entries' /\ expiresAt'[id] = expiresAt[id]]_vars
-----------------------------------------------------------------------------
(* The order in the middle of a sift, on which the proofs rest: at holds the *)
(* expirations slot by slot.                                                 *)

Expirations == [i \in 1..Len(expiry) |-> At(i)]

\* The first n slots are ordered, but for slot k and its children, and the
\* children of k do not expire before the parent of k.
OrderedButDown(at, k, n) ==
    /\ \A i \in 2..n : i \div 2 # k => at[i \div 2] <= at[i]
    /\ \A i \in 2..n : i \div 2 = k /\ k # 1 => at[k \div 2] <= at[i]

\* The first n slots are ordered, but for slot k and its parent, and the children
\* of k do not expire before the parent of k.
OrderedButUp(at, k, n) ==
    /\ \A i \in 2..n : i # k => at[i \div 2] <= at[i]
    /\ \A i \in 2..n : i \div 2 = k /\ k # 1 => at[k \div 2] <= at[i]

\* The order at each point of a call.  While heap.Pop runs, the entry it removes
\* waits in the last slot: it has expired, and no other expires before it.
SiftOrder ==
    LET n == Len(expiry) IN
    /\ pc \in {"pop", "fix", "up"} => slot \in 1..n
    /\ pc = "pop" =>
          /\ OrderedButDown(Expirations, slot, n - 1)
          /\ At(n) <= latestNow
          /\ \A i \in 1..n : At(n) <= At(i)
    /\ pc = "fix" => OrderedButDown(Expirations, slot, n)
    /\ pc = "up" => OrderedButUp(Expirations, slot, n)
=============================================================================
