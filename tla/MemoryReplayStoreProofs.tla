---------------------- MODULE MemoryReplayStoreProofs ----------------------
(***************************************************************************)
(* Proofs about MemoryReplayStore for any set of callers and identities,   *)
(* any capacity, any lifetime limit and any set of instants.               *)
(*                                                                         *)
(* IndInv is the inductive invariant.  Its heart is Retained: a record     *)
(* that was granted has expired in store time, or its identity is still in *)
(* the map with an expiration that is no earlier.  The other conjuncts say *)
(* what a caller knows at each statement under the lock.                   *)
(***************************************************************************)
EXTENDS MemoryReplayStore, FiniteSetTheorems, WellFoundedInduction, TLAPS

\* At most one caller runs under the lock, and then the channel is empty.
Mutex ==
    \A c \in Callers : pc[c] \in Locked =>
        ~token /\ \A d \in Callers : pc[d] \in Locked => c = d

\* A caller inside Consume carries a record.
Carrying == \A c \in Callers : pc[c] # "idle" => rec[c] \in Records

\* After the clamp, the caller's time is the store's and its record is live.
Clamped ==
    \A c \in Callers : pc[c] \in {"evict", "lookup", "renew", "insert"} =>
        now[c] = latestNow /\ rec[c].expiresAt > latestNow

Renewable ==
    \A c \in Callers : pc[c] = "renew" =>
        rec[c].id \in held /\ expiresAt[rec[c].id] <= latestNow

Insertable ==
    \A c \in Callers : pc[c] = "insert" =>
        rec[c].id \notin held /\ Cardinality(held) < Capacity

AllLive == \A id \in held : expiresAt[id] > latestNow

\* One eviction was enough: there is room, or nothing left has expired.
Evicted == \A c \in Callers : pc[c] = "lookup" => Cardinality(held) < Capacity \/ AllLive

\* A granted record has expired, or is still remembered.
Retained ==
    \A r \in Records : granted[r] > 0 =>
        \/ r.expiresAt <= latestNow
        \/ r.id \in held /\ expiresAt[r.id] >= r.expiresAt

IndInv ==
    /\ TypeOK
    /\ Mutex
    /\ UnlockNeverPanics
    /\ Carrying
    /\ Clamped
    /\ Renewable
    /\ Insertable
    /\ Evicted
    /\ Retained
    /\ AtMostOneGrant
    /\ IsFiniteSet(held)
    /\ CapacityBound
    /\ CapacityRefusalJustified
-----------------------------------------------------------------------------
\* The smallest expiration in a non-empty set of held identities exists, so
\* the root of the heap is well defined.
LEMMA OldestExists ==
    ASSUME TypeOK, held # {}
    PROVE  Oldest # {}
<1> DEFINE D == {expiresAt[id] : id \in held}
<1>1. D \subseteq Nat /\ D # {}
  <2>1. \A id \in held : expiresAt[id] \in Nat
    BY StoreConfig DEF TypeOK
  <2> QED
    BY <2>1, Zenon
<1>2. PICK m \in D : \A y \in D : ~ (<<y, m>> \in OpToRel(<, Nat))
  BY <1>1, NatLessThanWellFounded, WFMin
<1>3. \A y \in D : m <= y
  <2> SUFFICES ASSUME NEW y \in D PROVE m <= y
    OBVIOUS
  <2>1. m \in Nat /\ y \in Nat
    BY <1>1
  <2>2. <<y, m>> \in OpToRel(<, Nat) <=> y < m
    BY <2>1 DEF OpToRel
  <2>3. ~ (y < m)
    BY <1>2, <2>2, Zenon
  <2> QED
    BY ONLY <2>1, <2>3
<1>4. PICK id \in held : m = expiresAt[id]
  OBVIOUS
<1> QED
  BY <1>3, <1>4 DEF Oldest

LEMMA LaterBound ==
    ASSUME NEW t \in Times, NEW u \in Times
    PROVE  Later(t, u) \in Times /\ Later(t, u) >= t /\ Later(t, u) >= u
BY StoreConfig DEF Later

-----------------------------------------------------------------------------
\* Every variable keeps its type.
LEMMA TypeStep == IndInv /\ [Next]_vars => TypeOK'
<1> SUFFICES ASSUME IndInv, [Next]_vars PROVE TypeOK'
  OBVIOUS
<1> USE DEF IndInv, TypeOK, Goto, Decide, Leave, PCs, Locked, Results, stateVars
<1>1. ASSUME NEW c \in Callers, NEW r \in Records, Enter(c, r) PROVE TypeOK'
  BY <1>1 DEF Enter
<1>2. ASSUME NEW c \in Callers, Cancel(c) PROVE TypeOK'
  BY <1>2 DEF Cancel
<1>3. ASSUME NEW c \in Callers, RefuseEarly(c) PROVE TypeOK'
  BY <1>3, StoreConfig DEF RefuseEarly
<1>4. ASSUME NEW c \in Callers, NEW t \in Times, SampleClock(c, t) PROVE TypeOK'
  BY <1>4 DEF SampleClock
<1>5. ASSUME NEW c \in Callers, Recheck(c) PROVE TypeOK'
  <2>1. ASSUME Decide(c, "context"), Leave(c, "idle"), UNCHANGED <<token, stateVars, granted>>
        PROVE  TypeOK'
    BY <2>1, StoreConfig
  <2>2. CASE ~canceled[c]
    BY <1>5, <2>2 DEF Recheck
  <2> QED
    BY <1>5, <2>1, <2>2, Zenon DEF Recheck
<1>6. ASSUME NEW c \in Callers, TakeToken(c) PROVE TypeOK'
  BY <1>6 DEF TakeToken
<1>7. ASSUME NEW c \in Callers, GiveUp(c) PROVE TypeOK'
  BY <1>7, StoreConfig DEF GiveUp
<1>8. ASSUME NEW c \in Callers, KeepLock(c) PROVE TypeOK'
  <2>1. ASSUME Decide(c, "context"), ReleaseToken(c), UNCHANGED <<stateVars, granted>>
        PROVE  TypeOK'
    BY <2>1, StoreConfig DEF ReleaseToken
  <2>2. CASE ~canceled[c]
    BY <1>8, <2>2 DEF KeepLock
  <2> QED
    BY <1>8, <2>1, <2>2, Zenon DEF KeepLock
<1>9. ASSUME NEW c \in Callers, Clamp(c) PROVE TypeOK'
  BY <1>9, LaterBound DEF Clamp
<1>10. ASSUME NEW c \in Callers, Evict(c) PROVE TypeOK'
  BY <1>10, StoreConfig DEF Evict, Oldest
<1>11. ASSUME NEW c \in Callers, Lookup(c) PROVE TypeOK'
  BY <1>11 DEF Lookup
<1>12. ASSUME NEW c \in Callers, Renew(c) PROVE TypeOK'
  <2>1. rec[c] \in Records
    BY <1>12 DEF Renew, Carrying
  <2>2. rec[c].id \in Identities /\ rec[c].expiresAt \in Times
    BY <2>1 DEF Records
  <2>3. granted' \in [Records -> Nat]
    BY <1>12, <2>1 DEF Renew, Reserve
  <2> QED
    BY <1>12, <2>2, <2>3 DEF Renew, Reserve
<1>13. ASSUME NEW c \in Callers, Insert(c) PROVE TypeOK'
  <2>1. rec[c] \in Records
    BY <1>13 DEF Insert, Carrying
  <2>2. rec[c].id \in Identities /\ rec[c].expiresAt \in Times
    BY <2>1 DEF Records
  <2>3. granted' \in [Records -> Nat]
    BY <1>13, <2>1 DEF Insert, Reserve
  <2> QED
    BY <1>13, <2>2, <2>3 DEF Insert, Reserve
<1>14. ASSUME NEW c \in Callers, Unlock(c) PROVE TypeOK'
  BY <1>14, StoreConfig DEF Unlock, ReleaseToken
<1>15. CASE UNCHANGED vars
  BY <1>15 DEF vars
<1> QED
  BY <1>1, <1>2, <1>3, <1>4, <1>5, <1>6, <1>7, <1>8, <1>9, <1>10, <1>11,
     <1>12, <1>13, <1>14, <1>15 DEF Next, Consume, UnderLock

-----------------------------------------------------------------------------
\* Steps outside the lock leave the shared state and the other callers alone.
Outside(c) ==
    /\ UNCHANGED <<token, stateVars, granted>>
    /\ pc[c] \notin Locked /\ pc'[c] \in {"idle", "check", "sampled", "waiting"}
    /\ pc'[c] # "idle" => rec'[c] \in Records
    /\ \A d \in Callers \ {c} :
          pc'[d] = pc[d] /\ rec'[d] = rec[d] /\ now'[d] = now[d] /\ result'[d] = result[d]

LEMMA OutsideStep ==
    ASSUME IndInv, NEW c \in Callers, Outside(c), TypeOK'
    PROVE  IndInv'
<1> USE DEF IndInv, Outside, stateVars
<1>1. Mutex' /\ UnlockNeverPanics' /\ Carrying'
  BY DEF Mutex, UnlockNeverPanics, Carrying, Locked
<1>2. Clamped' /\ Renewable' /\ Insertable' /\ Evicted'
  BY DEF Clamped, Renewable, Insertable, Evicted, AllLive
<1>3. Retained' /\ AtMostOneGrant' /\ IsFiniteSet(held)' /\ CapacityBound'
  BY DEF Retained, AtMostOneGrant, CapacityBound
<1>4. CapacityRefusalJustified'
  BY DEF CapacityRefusalJustified
<1> QED
  BY <1>1, <1>2, <1>3, <1>4

\* Enter, RefuseEarly, SampleClock, Recheck and GiveUp are such steps.
LEMMA OutsideActions ==
    ASSUME IndInv, NEW c \in Callers,
           \/ \E r \in Records : Enter(c, r)
           \/ RefuseEarly(c)
           \/ \E t \in Times : SampleClock(c, t)
           \/ Recheck(c)
           \/ GiveUp(c)
    PROVE  Outside(c)
<1> USE DEF IndInv, TypeOK, Carrying, Outside, Goto, Decide, Leave, Locked
<1>1. CASE \E r \in Records : Enter(c, r)
  BY <1>1 DEF Enter
<1>2. CASE RefuseEarly(c)
  BY <1>2 DEF RefuseEarly
<1>3. CASE \E t \in Times : SampleClock(c, t)
  BY <1>3 DEF SampleClock
<1>4. CASE Recheck(c)
  BY <1>4 DEF Recheck
<1>5. CASE GiveUp(c)
  BY <1>5 DEF GiveUp
<1> QED
  BY <1>1, <1>2, <1>3, <1>4, <1>5

-----------------------------------------------------------------------------
\* A caller under the lock is alone there, so no claim about another caller
\* at a statement under the lock is at stake.
Alone(c) ==
    /\ \A d \in Callers \ {c} : pc[d] \notin Locked
    /\ \A d \in Callers \ {c} :
          pc'[d] = pc[d] /\ rec'[d] = rec[d] /\ now'[d] = now[d] /\ result'[d] = result[d]

LEMMA UnderLockAlone ==
    ASSUME IndInv, NEW c \in Callers, UnderLock(c)
    PROVE  Alone(c) /\ ~token
<1> USE DEF IndInv, TypeOK, Mutex, Alone, Goto, Decide, Leave, Locked
<1>1. CASE KeepLock(c)
  BY <1>1 DEF KeepLock, ReleaseToken
<1>2. CASE Clamp(c)
  BY <1>2 DEF Clamp
<1>3. CASE Evict(c)
  BY <1>3 DEF Evict
<1>4. CASE Lookup(c)
  BY <1>4 DEF Lookup
<1>5. CASE Renew(c)
  BY <1>5 DEF Renew, Reserve
<1>6. CASE Insert(c)
  BY <1>6 DEF Insert, Reserve
<1>7. CASE Unlock(c)
  BY <1>7 DEF Unlock, ReleaseToken
<1> QED
  BY <1>1, <1>2, <1>3, <1>4, <1>5, <1>6, <1>7 DEF UnderLock

\* Taking the token: nobody else was under the lock.
LEMMA TakeTokenStep ==
    ASSUME IndInv, NEW c \in Callers, TakeToken(c), TypeOK'
    PROVE  IndInv'
<1> USE DEF IndInv, TypeOK, TakeToken, Goto, stateVars
<1>1. Mutex' /\ UnlockNeverPanics' /\ Carrying'
  BY DEF Mutex, UnlockNeverPanics, Carrying, Locked
<1>2. Clamped' /\ Renewable' /\ Insertable' /\ Evicted'
  BY DEF Clamped, Renewable, Insertable, Evicted, AllLive
<1>3. Retained' /\ AtMostOneGrant' /\ IsFiniteSet(held)' /\ CapacityBound'
  BY DEF Retained, AtMostOneGrant, CapacityBound
<1>4. CapacityRefusalJustified'
  BY DEF CapacityRefusalJustified
<1> QED
  BY <1>1, <1>2, <1>3, <1>4

\* Giving it back, on the deferred path and on the cancellation path: the
\* channel was empty, so Unlock does not panic.
LEMMA ReleaseStep ==
    ASSUME IndInv, NEW c \in Callers, ReleaseToken(c), Alone(c), ~token, TypeOK',
           UNCHANGED <<stateVars, granted>>
    PROVE  IndInv'
<1> USE DEF IndInv, TypeOK, ReleaseToken, Leave, Goto, stateVars, Alone
<1>0. pc' = [pc EXCEPT ![c] = "idle"]
  BY Zenon
<1>1. Mutex' /\ UnlockNeverPanics' /\ Carrying'
  BY <1>0 DEF Mutex, UnlockNeverPanics, Carrying, Locked
<1>2. Clamped' /\ Renewable' /\ Insertable' /\ Evicted'
  BY <1>0 DEF Clamped, Renewable, Insertable, Evicted, AllLive, Locked
<1>3. Retained' /\ AtMostOneGrant' /\ IsFiniteSet(held)' /\ CapacityBound'
  BY DEF Retained, AtMostOneGrant, CapacityBound
<1>4. CapacityRefusalJustified'
  BY <1>0 DEF CapacityRefusalJustified, Locked
<1> QED
  BY <1>1, <1>2, <1>3, <1>4

\* A context that is still live keeps the lock.
LEMMA KeepStep ==
    ASSUME IndInv, NEW c \in Callers, pc[c] = "keep", Goto(c, "clamp"), Alone(c), ~token, TypeOK',
           UNCHANGED <<token, rec, now, canceled, result, stateVars, granted>>
    PROVE  IndInv'
<1> USE DEF IndInv, TypeOK, Goto, stateVars, Alone
<1>1. Mutex' /\ UnlockNeverPanics' /\ Carrying'
  BY DEF Mutex, UnlockNeverPanics, Carrying, Locked
<1>2. Clamped' /\ Renewable' /\ Insertable' /\ Evicted'
  BY DEF Clamped, Renewable, Insertable, Evicted, AllLive
<1>3. Retained' /\ AtMostOneGrant' /\ IsFiniteSet(held)' /\ CapacityBound'
  BY DEF Retained, AtMostOneGrant, CapacityBound
<1>4. CapacityRefusalJustified'
  BY DEF CapacityRefusalJustified
<1> QED
  BY <1>1, <1>2, <1>3, <1>4

-----------------------------------------------------------------------------
\* The clamp moves store time forward, which only lets reservations run out.
LEMMA ClampStep ==
    ASSUME IndInv, NEW c \in Callers, Clamp(c), Alone(c), ~token, TypeOK'
    PROVE  IndInv'
<1> USE StoreConfig DEF IndInv, TypeOK, Goto, Decide, Alone
<1>0. /\ latestNow' >= latestNow /\ now'[c] = latestNow'
      /\ latestNow \in Nat /\ latestNow' \in Nat
      /\ rec[c] \in Records /\ rec[c].expiresAt \in Nat
      /\ pc'[c] = "evict" => rec[c].expiresAt > latestNow'
      /\ pc'[c] \in {"evict", "unlock"} /\ (pc'[c] = "unlock" => result'[c] = "invalid")
      /\ UNCHANGED <<token, held, expiresAt, rec, granted>>
  <2>1. rec[c] \in Records
    BY DEF Clamp, Carrying
  <2>2. rec[c].expiresAt \in Nat
    BY <2>1 DEF Records
  <2>3. now[c] \in Times /\ latestNow \in Times
    OBVIOUS
  <2>4. latestNow' = Later(now[c], latestNow) /\ now' = [now EXCEPT ![c] = latestNow']
    BY DEF Clamp
  <2>5. latestNow' \in Times /\ latestNow' >= latestNow
    BY <2>3, <2>4, LaterBound
  <2>6. /\ OutOfWindow(rec[c], latestNow') => pc'[c] = "unlock" /\ result'[c] = "invalid"
        /\ ~OutOfWindow(rec[c], latestNow') => pc'[c] = "evict"
    BY <2>4 DEF Clamp
  <2>7. ~OutOfWindow(rec[c], latestNow') => rec[c].expiresAt > latestNow'
    BY <2>2, <2>5 DEF OutOfWindow
  <2>8. UNCHANGED <<token, held, expiresAt, rec, granted>>
    BY DEF Clamp
  <2> QED
    BY <2>1, <2>2, <2>3, <2>4, <2>5, <2>6, <2>7, <2>8
<1>1. Mutex' /\ UnlockNeverPanics' /\ Carrying'
  BY <1>0 DEF Mutex, UnlockNeverPanics, Carrying, Locked, Clamp
<1>2. Clamped' /\ Renewable' /\ Insertable' /\ Evicted'
  BY <1>0 DEF Clamped, Renewable, Insertable, Evicted, AllLive, Locked
<1>3. Retained'
  <2> SUFFICES ASSUME NEW r \in Records, granted[r] > 0, ~ (r.expiresAt <= latestNow')
               PROVE  r.id \in held /\ expiresAt[r.id] >= r.expiresAt
    BY <1>0 DEF Retained
  <2>1. r.expiresAt \in Nat
    BY DEF Records
  <2> QED
    BY <1>0, <2>1 DEF Retained
<1>4. AtMostOneGrant' /\ IsFiniteSet(held)' /\ CapacityBound'
  BY <1>0 DEF AtMostOneGrant, CapacityBound
<1>5. CapacityRefusalJustified'
  BY <1>0 DEF CapacityRefusalJustified, Locked
<1> QED
  BY <1>1, <1>2, <1>3, <1>4, <1>5

\* Only an entry that ran out leaves the map, and when none leaves none ran out.
LEMMA EvictStep ==
    ASSUME IndInv, NEW c \in Callers, Evict(c), Alone(c), ~token, TypeOK'
    PROVE  IndInv'
<1> USE StoreConfig DEF IndInv, TypeOK, Goto, Alone
<1>0. /\ now[c] = latestNow /\ rec[c].expiresAt > latestNow
      /\ pc'[c] = "lookup"
      /\ UNCHANGED <<token, latestNow, rec, now, result, granted>>
  BY DEF Evict, Clamped
<1>1. Mutex' /\ UnlockNeverPanics' /\ Carrying'
  BY <1>0 DEF Mutex, UnlockNeverPanics, Carrying, Locked, Evict
<1>2. Clamped' /\ Renewable' /\ Insertable'
  BY <1>0 DEF Clamped, Renewable, Insertable, Locked
<1>3. AtMostOneGrant' /\ CapacityRefusalJustified'
  BY <1>0 DEF AtMostOneGrant, CapacityRefusalJustified, Locked
<1>4. CASE \E id \in Oldest : /\ expiresAt[id] <= now[c]
                              /\ held' = held \ {id}
                              /\ expiresAt' = [expiresAt EXCEPT ![id] = 0]
  <2>1. PICK id \in held : /\ expiresAt[id] <= latestNow
                           /\ held' = held \ {id}
                           /\ expiresAt' = [expiresAt EXCEPT ![id] = 0]
    BY <1>0, <1>4 DEF Oldest
  <2>2. IsFiniteSet(held') /\ Cardinality(held') = Cardinality(held) - 1
    BY <2>1, FS_RemoveElement
  <2>3. Cardinality(held) \in Nat
    BY FS_CardinalityType
  <2>4. CapacityBound' /\ Cardinality(held') < Capacity
    BY <2>2, <2>3 DEF CapacityBound
  <2>5. Evicted'
    BY <2>4 DEF Evicted
  <2>6. Retained'
    <3> SUFFICES ASSUME NEW r \in Records, granted[r] > 0, ~ (r.expiresAt <= latestNow)
                 PROVE  r.id \in held' /\ expiresAt'[r.id] >= r.expiresAt
      BY <1>0 DEF Retained
    <3>1. r.id \in Identities /\ r.expiresAt \in Nat
      BY DEF Records
    <3>2. r.id \in held /\ expiresAt[r.id] >= r.expiresAt
      BY DEF Retained
    <3>3. r.id # id
      <4>1. expiresAt[id] \in Nat /\ latestNow \in Nat
        OBVIOUS
      <4>2. expiresAt[id] < r.expiresAt
        BY <2>1, <3>1, <4>1
      <4> QED
        BY <3>1, <3>2, <4>1, <4>2
    <3>4. r.id \in held'
      BY <2>1, <3>2, <3>3
    <3>5. expiresAt'[r.id] = expiresAt[r.id]
      BY <2>1, <3>1, <3>3
    <3> QED
      BY <3>2, <3>4, <3>5
  <2> QED
    BY <1>1, <1>2, <1>3, <2>2, <2>4, <2>5, <2>6
<1>5. CASE (\A id \in Oldest : expiresAt[id] > now[c]) /\ UNCHANGED <<held, expiresAt>>
  <2>1. AllLive
    <3> SUFFICES ASSUME NEW id \in held PROVE expiresAt[id] > latestNow
      BY DEF AllLive
    <3>1. Oldest # {}
      BY OldestExists
    <3>2. PICK old \in held : old \in Oldest /\ expiresAt[old] <= expiresAt[id]
      BY <3>1 DEF Oldest
    <3>3. expiresAt[old] > latestNow
      BY <1>0, <1>5, <3>2
    <3>4. expiresAt[old] \in Nat /\ expiresAt[id] \in Nat /\ latestNow \in Nat
      BY <3>2
    <3> QED
      BY <3>2, <3>3, <3>4
  <2>2. Evicted'
    BY <1>0, <1>5, <2>1 DEF Evicted, AllLive
  <2>3. Retained' /\ IsFiniteSet(held)' /\ CapacityBound'
    BY <1>0, <1>5 DEF Retained, CapacityBound
  <2> QED
    BY <1>1, <1>2, <1>3, <2>2, <2>3
<1> QED
  BY <1>4, <1>5 DEF Evict

-----------------------------------------------------------------------------
\* What the lookup finds is what Renew and Insert rely on.
LEMMA LookupStep ==
    ASSUME IndInv, NEW c \in Callers, Lookup(c), Alone(c), ~token, TypeOK'
    PROVE  IndInv'
<1> USE StoreConfig DEF IndInv, TypeOK, Goto, Decide, Alone
<1>0. /\ now[c] = latestNow /\ rec[c].expiresAt > latestNow
      /\ rec[c] \in Records /\ rec[c].id \in Identities
      /\ Cardinality(held) \in Nat
      /\ UNCHANGED <<token, held, expiresAt, latestNow, rec, now, granted>>
  <2>1. rec[c] \in Records
    BY DEF Lookup, Carrying
  <2>2. rec[c].id \in Identities
    BY <2>1 DEF Records
  <2> QED
    BY <2>1, <2>2, FS_CardinalityType DEF Lookup, Clamped, stateVars
<1>1. /\ pc'[c] \in {"unlock", "renew", "insert"}
      /\ pc'[c] = "renew" => rec[c].id \in held /\ expiresAt[rec[c].id] <= latestNow
      /\ pc'[c] = "insert" => rec[c].id \notin held /\ Cardinality(held) < Capacity
      /\ pc'[c] = "unlock" /\ result'[c] = "capacity" => Cardinality(held) >= Capacity
  <2> DEFINE live == rec[c].id \in held /\ expiresAt[rec[c].id] > now[c]
             full == rec[c].id \notin held /\ Cardinality(held) >= Capacity
  <2>1. CASE live
    BY <1>0, <2>1 DEF Lookup
  <2>2. CASE full
    BY <1>0, <2>2 DEF Lookup
  <2>3. CASE ~live /\ ~full /\ rec[c].id \in held
    <3>1. pc'[c] = "renew"
      BY <2>3 DEF Lookup
    <3>2. expiresAt[rec[c].id] \in Nat /\ latestNow \in Nat
      BY <1>0
    <3> QED
      BY <1>0, <2>3, <3>1, <3>2
  <2>4. CASE ~live /\ ~full /\ rec[c].id \notin held
    <3>1. pc'[c] = "insert"
      BY <2>4 DEF Lookup
    <3> QED
      BY <1>0, <2>4, <3>1
  <2> QED
    BY <2>1, <2>2, <2>3, <2>4
<1>2. Mutex' /\ UnlockNeverPanics' /\ Carrying'
  BY <1>0, <1>1 DEF Mutex, UnlockNeverPanics, Carrying, Locked, Lookup
<1>3. Clamped' /\ Renewable' /\ Insertable' /\ Evicted'
  BY <1>0, <1>1 DEF Clamped, Renewable, Insertable, Evicted, Locked
<1>4. Retained' /\ AtMostOneGrant' /\ IsFiniteSet(held)' /\ CapacityBound'
  BY <1>0 DEF Retained, AtMostOneGrant, CapacityBound
<1>5. CapacityRefusalJustified'
  <2>1. Cardinality(held) < Capacity \/ AllLive
    BY DEF Evicted, Lookup
  <2>2. pc'[c] = "unlock" /\ result'[c] = "capacity" => AllLive
    BY <1>0, <1>1, <2>1
  <2> QED
    BY <1>0, <2>2 DEF CapacityRefusalJustified, AllLive, Locked
<1> QED
  BY <1>2, <1>3, <1>4, <1>5

\* The identity about to be reserved has no running reservation.
LEMMA ReserveIsVacant ==
    ASSUME IndInv, NEW c \in Callers, pc[c] \in {"renew", "insert"}
    PROVE  /\ rec[c] \in Records /\ rec[c].id \in Identities
           /\ rec[c].expiresAt \in Nat /\ rec[c].expiresAt > latestNow
           /\ \A r \in Records : r.id = rec[c].id /\ granted[r] > 0 => r.expiresAt <= latestNow
           /\ granted[rec[c]] = 0
<1> USE StoreConfig DEF IndInv, TypeOK
<1>1. rec[c] \in Records
  BY DEF Carrying
<1>2. rec[c].id \in Identities /\ rec[c].expiresAt \in Nat
  BY <1>1 DEF Records
<1>3. rec[c].expiresAt > latestNow
  BY DEF Clamped
<1>4. ASSUME NEW r \in Records, r.id = rec[c].id, granted[r] > 0
      PROVE  r.expiresAt <= latestNow
  <2>1. r.expiresAt \in Nat /\ latestNow \in Nat /\ expiresAt[r.id] \in Nat
    BY <1>4 DEF Records
  <2>2. r.id \in held => expiresAt[r.id] <= latestNow
    BY <1>4 DEF Renewable, Insertable
  <2> QED
    BY <1>4, <2>1, <2>2 DEF Retained
<1>5. granted[rec[c]] = 0
  <2>1. granted[rec[c]] \in Nat /\ latestNow \in Nat
    BY <1>1
  <2>2. ~ (granted[rec[c]] > 0)
    BY <1>1, <1>2, <1>3, <1>4, <2>1
  <2> QED
    BY <2>1, <2>2
<1> QED
  BY <1>1, <1>2, <1>3, <1>4, <1>5

\* A reservation grants a record for the first time and remembers it.
LEMMA ReserveStep ==
    ASSUME IndInv, NEW c \in Callers, Renew(c) \/ Insert(c), Alone(c), ~token, TypeOK'
    PROVE  IndInv'
<1> USE StoreConfig DEF IndInv, TypeOK, Goto, Decide, Alone
<1>0. /\ pc[c] \in {"renew", "insert"} /\ pc'[c] = "unlock" /\ result'[c] = "nil"
      /\ UNCHANGED <<token, latestNow, rec, now>>
      /\ expiresAt' = [expiresAt EXCEPT ![rec[c].id] = rec[c].expiresAt]
      /\ granted' = [granted EXCEPT ![rec[c]] = @ + 1]
      /\ held' = held \cup {rec[c].id}
  BY DEF Renew, Insert, Reserve, Renewable
<1>1. Mutex' /\ UnlockNeverPanics' /\ Carrying'
  BY <1>0 DEF Mutex, UnlockNeverPanics, Carrying, Locked
<1>2. Clamped' /\ Renewable' /\ Insertable' /\ Evicted'
  BY <1>0 DEF Clamped, Renewable, Insertable, Evicted, Locked
<1>3. CapacityRefusalJustified'
  BY <1>0 DEF CapacityRefusalJustified, Locked
<1>4. AtMostOneGrant'
  BY <1>0, ReserveIsVacant DEF AtMostOneGrant
<1>5. Retained'
  <2> SUFFICES ASSUME NEW r \in Records, granted'[r] > 0, ~ (r.expiresAt <= latestNow)
               PROVE  r.id \in held' /\ expiresAt'[r.id] >= r.expiresAt
    BY <1>0 DEF Retained
  <2>1. r.id \in Identities /\ r.expiresAt \in Nat
    BY DEF Records
  <2>2. CASE r = rec[c]
    BY <1>0, <2>1, <2>2
  <2>3. CASE r # rec[c]
    <3>1. granted[r] > 0
      BY <1>0, <2>3
    <3>2. r.id # rec[c].id
      BY <1>0, <3>1, ReserveIsVacant
    <3> QED
      BY <1>0, <2>1, <3>1, <3>2 DEF Retained
  <2> QED
    BY <2>2, <2>3
<1>6. IsFiniteSet(held') /\ CapacityBound'
  <2>1. Cardinality(held) \in Nat /\ IsFiniteSet(held')
        /\ Cardinality(held') = IF rec[c].id \in held THEN Cardinality(held) ELSE Cardinality(held) + 1
    BY <1>0, FS_CardinalityType, FS_AddElement
  <2>2. rec[c].id \notin held => Cardinality(held) < Capacity
    BY <1>0 DEF Renewable, Insertable
  <2> QED
    BY <2>1, <2>2 DEF CapacityBound
<1> QED
  BY <1>1, <1>2, <1>3, <1>4, <1>5, <1>6

-----------------------------------------------------------------------------
LEMMA InitIndInv == Init => IndInv
<1> SUFFICES ASSUME Init PROVE IndInv
  OBVIOUS
<1> USE StoreConfig DEF Init
<1>1. TypeOK
  BY DEF TypeOK, PCs, Results, Locked
<1>2. Mutex /\ UnlockNeverPanics /\ Carrying
  BY DEF Mutex, UnlockNeverPanics, Carrying, Locked
<1>3. Clamped /\ Renewable /\ Insertable /\ Evicted
  BY DEF Clamped, Renewable, Insertable, Evicted
<1>4. Retained /\ AtMostOneGrant /\ CapacityRefusalJustified
  BY DEF Retained, AtMostOneGrant, CapacityRefusalJustified
<1>5. IsFiniteSet(held) /\ CapacityBound
  BY FS_EmptySet DEF CapacityBound
<1> QED
  BY <1>1, <1>2, <1>3, <1>4, <1>5 DEF IndInv

\* Cancelling a context (or stuttering) touches nothing the invariant speaks of.
LEMMA CancelStep ==
    ASSUME IndInv, TypeOK',
           UNCHANGED <<token, held, expiresAt, latestNow, pc, rec, now, result, granted>>
    PROVE  IndInv'
<1>0. UNCHANGED <<token, held, expiresAt, latestNow, pc, rec, now, result, granted>>
  OBVIOUS
<1>1. Mutex' /\ UnlockNeverPanics' /\ Carrying' /\ CapacityRefusalJustified'
  BY <1>0 DEF IndInv, Mutex, UnlockNeverPanics, Carrying, CapacityRefusalJustified
<1>2. Clamped' /\ Renewable' /\ Insertable' /\ Evicted'
  BY <1>0 DEF IndInv, Clamped, Renewable, Insertable, Evicted, AllLive
<1>3. Retained' /\ AtMostOneGrant' /\ IsFiniteSet(held)' /\ CapacityBound'
  BY <1>0 DEF IndInv, Retained, AtMostOneGrant, CapacityBound
<1> QED
  BY <1>1, <1>2, <1>3 DEF IndInv

\* One statement of Consume by one caller.
LEMMA CallerStep ==
    ASSUME IndInv, NEW c \in Callers, TypeOK',
           (\E r \in Records : Enter(c, r)) \/ Cancel(c) \/ Consume(c)
    PROVE  IndInv'
<1>1. CASE \/ \E r \in Records : Enter(c, r)
           \/ RefuseEarly(c)
           \/ \E t \in Times : SampleClock(c, t)
           \/ Recheck(c)
           \/ GiveUp(c)
  BY <1>1, OutsideActions, OutsideStep
<1>2. CASE Cancel(c)
  BY <1>2, CancelStep DEF Cancel, stateVars
<1>3. CASE TakeToken(c)
  BY <1>3, TakeTokenStep
<1>4. CASE UnderLock(c)
  <2>0. Alone(c) /\ ~token
    BY <1>4, UnderLockAlone
  <2>1. CASE KeepLock(c)
    <3>1. CASE ReleaseToken(c) /\ UNCHANGED <<stateVars, granted>>
      BY <2>0, <3>1, ReleaseStep
    <3>2. CASE /\ pc[c] = "keep" /\ Goto(c, "clamp")
               /\ UNCHANGED <<token, rec, now, canceled, result, stateVars, granted>>
      BY <2>0, <3>2, KeepStep
    <3> QED
      BY <2>1, <3>1, <3>2 DEF KeepLock
  <2>2. CASE Clamp(c)
    BY <2>0, <2>2, ClampStep
  <2>3. CASE Evict(c)
    BY <2>0, <2>3, EvictStep
  <2>4. CASE Lookup(c)
    BY <2>0, <2>4, LookupStep
  <2>5. CASE Renew(c) \/ Insert(c)
    BY <2>0, <2>5, ReserveStep
  <2>6. CASE Unlock(c)
    BY <2>0, <2>6, ReleaseStep DEF Unlock
  <2> QED
    BY <1>4, <2>1, <2>2, <2>3, <2>4, <2>5, <2>6 DEF UnderLock
<1> QED
  BY <1>1, <1>2, <1>3, <1>4 DEF Consume

LEMMA StepIndInv == IndInv /\ [Next]_vars => IndInv'
<1> SUFFICES ASSUME IndInv, [Next]_vars PROVE IndInv'
  OBVIOUS
<1>1. TypeOK'
  BY TypeStep
<1>2. CASE Next
  BY <1>1, <1>2, CallerStep DEF Next
<1>3. CASE UNCHANGED vars
  BY <1>1, <1>3, CancelStep DEF vars
<1> QED
  BY <1>2, <1>3

LEMMA IndInvHolds == Spec => []IndInv
BY InitIndInv, StepIndInv, PTL DEF Spec

-----------------------------------------------------------------------------
\* Every variable of the store keeps its type.
THEOREM TypeCorrect == Spec => []TypeOK
<1>1. IndInv => TypeOK
  BY DEF IndInv
<1> QED
  BY IndInvHolds, <1>1, PTL

\* Consume never succeeds twice with one record, whatever the number of
\* concurrent callers, the capacity, and the order of clock readings.
THEOREM NoRecordGrantedTwice == Spec => []AtMostOneGrant
<1>1. IndInv => AtMostOneGrant
  BY DEF IndInv
<1> QED
  BY IndInvHolds, <1>1, PTL

\* The map never holds more than capacity entries, although an entry is added after
\* a single eviction.
THEOREM WithinCapacity == Spec => []CapacityBound
<1>1. IndInv => CapacityBound
  BY DEF IndInv
<1> QED
  BY IndInvHolds, <1>1, PTL

\* Consume answers ErrReplayCapacity only while every retained entry is unexpired:
\* the one eviction of a call is enough to find room if there is any.
THEOREM RefusalsJustified == Spec => []CapacityRefusalJustified
<1>1. IndInv => CapacityRefusalJustified
  BY DEF IndInv
<1> QED
  BY IndInvHolds, <1>1, PTL

\* The panic of replayMutex.Unlock is unreachable.
THEOREM NoPanic == Spec => []UnlockNeverPanics
<1>1. IndInv => UnlockNeverPanics
  BY DEF IndInv
<1> QED
  BY IndInvHolds, <1>1, PTL

-----------------------------------------------------------------------------
\* Only a clamp moves store time and only a reservation grants.
LEMMA LedgerVarsChange ==
    ASSUME IndInv, [Next]_vars
    PROVE  \/ UNCHANGED <<granted, latestNow>>
           \/ latestNow' >= latestNow /\ latestNow' \in Times /\ UNCHANGED granted
           \/ \E c \in Callers :
                 /\ pc[c] \in {"renew", "insert"} /\ UNCHANGED latestNow
                 /\ granted' = [granted EXCEPT ![rec[c]] = @ + 1]
<1> USE DEF stateVars
<1>1. ASSUME NEW c \in Callers, Clamp(c)
      PROVE  latestNow' >= latestNow /\ latestNow' \in Times /\ UNCHANGED granted
  <2>1. latestNow' = Later(now[c], latestNow) /\ UNCHANGED granted
    BY <1>1 DEF Clamp
  <2>2. now[c] \in Times /\ latestNow \in Times
    BY DEF IndInv, TypeOK
  <2> QED
    BY <2>1, <2>2, LaterBound
<1>2. ASSUME NEW c \in Callers, Renew(c) \/ Insert(c)
      PROVE  /\ pc[c] \in {"renew", "insert"} /\ UNCHANGED latestNow
             /\ granted' = [granted EXCEPT ![rec[c]] = @ + 1]
  BY <1>2 DEF Renew, Insert, Reserve
<1>3. ASSUME NEW c \in Callers,
             \/ \E r \in Records : Enter(c, r)
             \/ Cancel(c)
             \/ RefuseEarly(c)
             \/ \E t \in Times : SampleClock(c, t)
             \/ Recheck(c) \/ TakeToken(c) \/ GiveUp(c)
             \/ KeepLock(c) \/ Evict(c) \/ Lookup(c) \/ Unlock(c)
      PROVE  UNCHANGED <<granted, latestNow>>
  BY <1>3 DEF Enter, Cancel, RefuseEarly, SampleClock, Recheck, TakeToken, GiveUp,
              KeepLock, Evict, Lookup, Unlock
<1>4. CASE UNCHANGED vars
  BY <1>4 DEF vars
<1> QED
  BY <1>1, <1>2, <1>3, <1>4 DEF Next, Consume, UnderLock

\* The concurrent store implements the promise of the ReplayStore interface:
\* a success is an atomic grant of the ledger at the store's own time.
THEOREM StoreImplementsLedger == Spec => ImplementsLedger
<1>1. Init => Ledger!LedgerInit
  BY DEF Init, Ledger!LedgerInit, Records, Ledger!Records
<1>2. IndInv /\ [Next]_vars => [Ledger!LedgerNext]_(Ledger!ledgerVars)
  <2> SUFFICES ASSUME IndInv, [Next]_vars
               PROVE  Ledger!LedgerNext \/ UNCHANGED Ledger!ledgerVars
    OBVIOUS
  <2>0. latestNow \in Nat
    BY StoreConfig DEF IndInv, TypeOK
  <2>1. CASE UNCHANGED <<granted, latestNow>>
    BY <2>1 DEF Ledger!ledgerVars
  <2>2. CASE latestNow' >= latestNow /\ latestNow' \in Times /\ UNCHANGED granted
    <3>1. CASE latestNow' = latestNow
      BY <2>2, <3>1 DEF Ledger!ledgerVars
    <3>2. CASE latestNow' # latestNow
      <4>1. latestNow' > latestNow
        BY <2>0, <2>2, <3>2, StoreConfig
      <4> QED
        BY <2>2, <4>1 DEF Ledger!LedgerNext, Ledger!Advance
    <3> QED
      BY <3>1, <3>2
  <2>3. ASSUME NEW c \in Callers, pc[c] \in {"renew", "insert"}, UNCHANGED latestNow,
               granted' = [granted EXCEPT ![rec[c]] = @ + 1]
        PROVE  Ledger!LedgerNext
    <3>1. rec[c] \in Ledger!Records
      BY <2>3, ReserveIsVacant DEF Records, Ledger!Records
    <3>2. Ledger!Grant(rec[c])
      BY <2>3, ReserveIsVacant DEF Ledger!Grant, Ledger!Vacant, Records, Ledger!Records
    <3> QED
      BY <3>1, <3>2 DEF Ledger!LedgerNext
  <2> QED
    BY <2>1, <2>2, <2>3, LedgerVarsChange
<1> QED
  BY IndInvHolds, <1>1, <1>2, PTL DEF Spec, ImplementsLedger, Ledger!LedgerSpec
=============================================================================
