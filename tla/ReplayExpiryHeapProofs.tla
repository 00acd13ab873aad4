----------------------- MODULE ReplayExpiryHeapProofs -----------------------
(***************************************************************************)
(* Proofs about ReplayExpiryHeap, for every capacity, time to live, set of *)
(* identities and set of instants.                                         *)
(*                                                                         *)
(* IndexCoherent holds at every step of a sift, because Swap exchanges two *)
(* slots and their indexes together.  HeapOrder holds only between sifts:  *)
(* SiftOrder says what is left of it meanwhile, slot by slot, and is what  *)
(* an iteration of down or of up keeps.  That the root of an ordered heap  *)
(* expires first is shown by the least slot that would contradict it.      *)
(***************************************************************************)
EXTENDS ReplayExpiryHeap, FiniteSetTheorems, SequenceTheorems, TLAPS
-----------------------------------------------------------------------------
(* Lemmas about container/heap: at holds the expirations slot by slot. *)

\* The first n slots are ordered.
Ordered(at, n) == \A i \in 2..n : at[i \div 2] <= at[i]

Exchanged(at, i, j) == [at EXCEPT ![i] = at[j], ![j] = at[i]]

\* A set of positive numbers that is not empty has a least element.
LEMMA LeastSlot ==
    ASSUME NEW n \in Nat, NEW S \in SUBSET (1..n), S # {}
    PROVE  \E k \in S : \A i \in S : k <= i
<1>1. S \subseteq Nat
  OBVIOUS
<1>2. PICK k \in S : \A i \in S : ~ (<<i, k>> \in OpToRel(<, Nat))
  BY <1>1, NatLessThanWellFounded, WFMin
<1>3. ASSUME NEW i \in S, i < k PROVE FALSE
  <2>1. <<i, k>> \in OpToRel(<, Nat)
    BY <1>1, <1>3 DEF OpToRel
  <2> QED BY <1>2, <2>1
<1> QED BY <1>1, <1>3

\* The root of an ordered heap is the least of its values: the least slot with a
\* smaller value would have a parent with a smaller value.
LEMMA RootLeast ==
    ASSUME NEW n \in Nat, NEW at \in [1..n -> Nat], Ordered(at, n)
    PROVE  \A i \in 1..n : at[1] <= at[i]
<1> DEFINE S == {i \in 1..n : at[i] < at[1]}
<1>1. SUFFICES ASSUME S # {} PROVE FALSE
  <2>1. \A i \in 1..n : at[i] \in Nat /\ at[1] \in Nat
    OBVIOUS
  <2> QED BY <1>1, <2>1
<1>2. PICK k \in S : \A i \in S : k <= i
  <2>1. S \in SUBSET (1..n)
    OBVIOUS
  <2> HIDE DEF S
  <2> QED BY <1>1, <2>1, LeastSlot
<1>3. k \in 2..n /\ at[k] < at[1]
  OBVIOUS
<1>4. k \div 2 \in 1..n /\ k \div 2 < k
  BY <1>3
<1>5. at[k \div 2] <= at[k]
  BY <1>3 DEF Ordered
<1>6. at[k \div 2] < at[1]
  BY <1>3, <1>4, <1>5
<1> QED BY <1>2, <1>4, <1>6

\* An iteration of down moves the disorder to the smaller child.
LEMMA SinkOrder ==
    ASSUME NEW m \in Nat, NEW at \in [1..m -> Nat], NEW n \in Nat, n <= m,
           NEW k \in 1..n, NEW j \in 2..n, j \div 2 = k, at[j] < at[k],
           \A i \in 2..n : i \div 2 = k => at[j] <= at[i],
           OrderedButDown(at, k, n)
    PROVE  OrderedButDown(Exchanged(at, k, j), j, n)
<1> DEFINE b == Exchanged(at, k, j)
<1>1. b \in [1..m -> Nat] /\ b[k] = at[j] /\ b[j] = at[k] /\ \A i \in 1..m : i # k /\ i # j => b[i] = at[i]
  BY DEF Exchanged
<1>2. \A i \in 2..n : i \div 2 \in 1..n /\ i \div 2 < i /\ i \in 1..m /\ i \div 2 \in 1..m
  OBVIOUS
<1>3. \A i \in 1..m : at[i] \in Nat
  OBVIOUS
<1>4. k < j /\ k \in 1..m /\ j \in 1..m
  BY <1>2
<1> HIDE DEF b
<1>5. ASSUME NEW i \in 2..n, i \div 2 # j PROVE b[i \div 2] <= b[i]
  <2>1. CASE i \div 2 = k
    <3>1. b[i \div 2] = at[j] /\ i \in 1..m /\ i # k /\ at[j] <= at[i]
      <4>1. at[j] <= at[i]
        BY <2>1
      <4>2. i \in 1..m /\ i # k
        BY <1>2, <2>1
      <4> QED BY <1>1, <2>1, <4>1, <4>2
    <3>2. CASE i = j
      BY <1>1, <1>3, <1>4, <3>1, <3>2
    <3>3. CASE i # j
      BY <1>1, <3>1, <3>3
    <3> QED BY <3>2, <3>3
  <2>2. CASE i \div 2 # k /\ i = k
    <3>1. at[k \div 2] <= at[j]
      BY <1>2, <2>2 DEF OrderedButDown
    <3>2. b[i \div 2] = at[k \div 2] /\ b[i] = at[j]
      BY <1>1, <1>2, <1>5, <2>2
    <3> QED BY <3>1, <3>2
  <2>3. CASE i \div 2 # k /\ i # k
    <3>1. i # j
      BY <2>3
    <3>2. b[i \div 2] = at[i \div 2] /\ b[i] = at[i]
      BY <1>1, <1>2, <1>5, <2>3, <3>1
    <3> QED BY <2>3, <3>2 DEF OrderedButDown
  <2> QED BY <2>1, <2>2, <2>3
<1>6. ASSUME NEW i \in 2..n, i \div 2 = j PROVE b[j \div 2] <= b[i]
  <2>1. b[j \div 2] = at[j] /\ b[i] = at[i]
    <3>1. i \in 1..m /\ i # k /\ i # j /\ j \div 2 = k
      BY <1>2, <1>4, <1>6
    <3> QED BY <1>1, <3>1
  <2>2. at[j] <= at[i]
    BY <1>4, <1>6 DEF OrderedButDown
  <2> QED BY <2>1, <2>2
<1> QED BY <1>5, <1>6 DEF OrderedButDown, b

\* An iteration of up moves the disorder to the parent.
LEMMA RiseOrder ==
    ASSUME NEW n \in Nat, NEW at \in [1..n -> Nat],
           NEW k \in 2..n, at[k] < at[k \div 2], OrderedButUp(at, k, n)
    PROVE  OrderedButUp(Exchanged(at, k \div 2, k), k \div 2, n)
<1> DEFINE p == k \div 2
           b == Exchanged(at, p, k)
<1>1. p \in 1..n /\ p < k
  OBVIOUS
<1>2. b \in [1..n -> Nat] /\ b[p] = at[k] /\ b[k] = at[p] /\ \A i \in 1..n : i # k /\ i # p => b[i] = at[i]
  BY <1>1 DEF Exchanged
<1>3. \A i \in 2..n : i \div 2 \in 1..n /\ i \div 2 < i
  OBVIOUS
<1>4. \A i \in 1..n : at[i] \in Nat
  OBVIOUS
<1>5. at[k] < at[p] /\ k \div 2 = p
  OBVIOUS
<1> HIDE DEF b, p
<1>6. ASSUME NEW i \in 2..n, i # p PROVE b[i \div 2] <= b[i]
  <2>1. CASE i = k
    BY <1>1, <1>2, <1>4, <1>5, <2>1
  <2>2. CASE i # k /\ i \div 2 = k
    <3>1. at[p] <= at[i]
      BY <1>5, <2>2 DEF OrderedButUp
    <3>2. i \in 1..n /\ b[i] = at[i] /\ b[i \div 2] = at[p]
      BY <1>2, <1>3, <1>6, <2>2
    <3> QED BY <3>1, <3>2
  <2>3. CASE i # k /\ i \div 2 = p
    <3>1. at[p] <= at[i]
      BY <2>3 DEF OrderedButUp
    <3>2. i \in 1..n /\ b[i] = at[i] /\ b[i \div 2] = at[k]
      BY <1>2, <1>3, <1>6, <2>3
    <3>3. at[k] \in Nat /\ at[p] \in Nat /\ at[i] \in Nat
      BY <1>1, <1>4, <3>2
    <3> QED BY <1>5, <3>1, <3>2, <3>3
  <2>4. CASE i # k /\ i \div 2 # k /\ i \div 2 # p
    <3>1. at[i \div 2] <= at[i]
      BY <2>4 DEF OrderedButUp
    <3> QED BY <1>2, <1>3, <1>6, <2>4, <3>1
  <2> QED BY <2>1, <2>2, <2>3, <2>4
<1>7. ASSUME NEW i \in 2..n, i \div 2 = p, p # 1 PROVE b[p \div 2] <= b[i]
  <2>1. p \in 2..n /\ p \div 2 \in 1..n /\ p \div 2 < p
    BY <1>1, <1>7
  <2>2. at[p \div 2] <= at[p]
    BY <1>1, <2>1 DEF OrderedButUp
  <2>3. b[p \div 2] = at[p \div 2]
    BY <1>1, <1>2, <2>1
  <2>4. CASE i = k
    BY <1>2, <2>2, <2>3, <2>4
  <2>5. CASE i # k
    <3>1. at[p] <= at[i] /\ i # p
      BY <1>3, <1>7, <2>5 DEF OrderedButUp
    <3>2. b[i] = at[i]
      BY <1>2, <2>5, <3>1
    <3>3. at[p \div 2] \in Nat /\ at[p] \in Nat /\ at[i] \in Nat
      BY <1>1, <1>4, <2>1
    <3> QED BY <2>2, <2>3, <3>1, <3>2, <3>3
  <2> QED BY <2>4, <2>5
<1> QED BY <1>6, <1>7 DEF OrderedButUp, b, p

\* A later expiration in slot k puts it out of order with its children at most.
LEMMA RaiseOrder ==
    ASSUME NEW n \in Nat, NEW at \in [1..n -> Nat], NEW k \in 1..n, NEW e \in Nat,
           at[k] <= e, Ordered(at, n)
    PROVE  OrderedButDown([at EXCEPT ![k] = e], k, n)
<1> DEFINE b == [at EXCEPT ![k] = e]
<1>1. b[k] = e /\ \A i \in 1..n : i # k => b[i] = at[i]
  OBVIOUS
<1>2. \A i \in 2..n : i \div 2 \in 1..n /\ i \div 2 < i /\ i \in 1..n
  OBVIOUS
<1>3. \A i \in 1..n : at[i] \in Nat
  OBVIOUS
<1>4. \A i \in 2..n : at[i \div 2] <= at[i]
  BY DEF Ordered
<1> HIDE DEF b
<1>5. ASSUME NEW i \in 2..n, i \div 2 # k PROVE b[i \div 2] <= b[i]
  <2>1. CASE i = k
    BY <1>1, <1>2, <1>3, <1>4, <1>5, <2>1
  <2>2. CASE i # k
    BY <1>1, <1>2, <1>4, <1>5, <2>2
  <2> QED BY <2>1, <2>2
<1>6. ASSUME NEW i \in 2..n, i \div 2 = k, k # 1 PROVE b[k \div 2] <= b[i]
  <2>1. k \in 2..n /\ k \div 2 \in 1..n /\ k \div 2 # k /\ i # k /\ i \in 1..n
    BY <1>2, <1>6
  <2>2. b[k \div 2] = at[k \div 2] /\ b[i] = at[i] /\ at[k \div 2] <= at[k] /\ at[k] <= at[i]
    BY <1>1, <1>4, <1>6, <2>1
  <2> QED BY <1>3, <2>1, <2>2
<1> QED BY <1>5, <1>6 DEF OrderedButDown, b

\* Where up stops, the disorder is gone.
LEMMA RiseStops ==
    ASSUME NEW n \in Nat, NEW at \in [1..n -> Nat], NEW k \in 1..n,
           k # 1 => at[k \div 2] <= at[k],
           OrderedButUp(at, k, n)
    PROVE  Ordered(at, n)
BY DEF OrderedButUp, Ordered
-----------------------------------------------------------------------------
(* The indexes. *)

\* The slots hold the entries, and the indexes are the inverse of the slots.
Placed(h, ix, es) ==
    /\ \A i \in 1..Len(h) : h[i] \in es /\ ix[h[i]] = i
    /\ \A id \in es : \E i \in 1..Len(h) : h[i] = id

LEMMA PlacedIsCoherent ==
    ASSUME NEW h \in Seq(Identities), NEW ix, NEW es
    PROVE  Placed(h, ix, es) <=> Range(h) = es /\ \A i \in DOMAIN h : ix[h[i]] = i
BY DEF Placed, Range

\* Swap exchanges two slots, and the indexes follow.
LEMMA SwapPlaced ==
    ASSUME NEW i \in 1..Len(expiry), NEW j \in 1..Len(expiry),
           TypeOK, Placed(expiry, index, entries), Swap(i, j)
    PROVE  /\ expiry' \in Seq(Identities) /\ Len(expiry') = Len(expiry)
           /\ index' \in [Identities -> 0..Capacity]
           /\ Placed(expiry', index', entries)
<1>1. expiry \in Seq(Identities) /\ index \in [Identities -> 0..Capacity] /\ Len(expiry) <= Capacity
      /\ Len(expiry) \in Nat /\ Capacity \in Nat /\ i \in 0..Capacity /\ j \in 0..Capacity
  BY StoreAssumption DEF TypeOK
<1>2. \A k \in 1..Len(expiry) : expiry[k] \in Identities
  BY <1>1
<1>3. /\ expiry' \in Seq(Identities) /\ Len(expiry') = Len(expiry)
      /\ \A k \in 1..Len(expiry) :
            expiry'[k] = IF k = j THEN expiry[i] ELSE IF k = i THEN expiry[j] ELSE expiry[k]
  BY <1>1, <1>2 DEF Swap
<1>4. /\ index' \in [Identities -> 0..Capacity]
      /\ \A id \in Identities :
            index'[id] = IF id = expiry[i] THEN j ELSE IF id = expiry[j] THEN i ELSE index[id]
  BY <1>1, <1>2 DEF Swap
<1>5. \A k \in 1..Len(expiry) : expiry[k] \in entries /\ index[expiry[k]] = k
  BY DEF Placed
<1>6. \A k \in 1..Len(expiry') : expiry'[k] \in entries /\ index'[expiry'[k]] = k
  BY <1>2, <1>3, <1>4, <1>5
<1>7. ASSUME NEW id \in entries PROVE \E k \in 1..Len(expiry') : expiry'[k] = id
  <2>1. PICK k \in 1..Len(expiry) : expiry[k] = id
    BY DEF Placed
  <2>2. CASE k = i
    BY <1>3, <2>1, <2>2
  <2>3. CASE k = j
    BY <1>3, <2>1, <2>3
  <2>4. CASE k # i /\ k # j
    BY <1>3, <2>1, <2>4
  <2> QED BY <2>2, <2>3, <2>4
<1> QED BY <1>3, <1>4, <1>6, <1>7 DEF Placed

\* Swap exchanges the expirations of the two slots.
LEMMA SwapExpirations ==
    ASSUME NEW i \in 1..Len(expiry), NEW j \in 1..Len(expiry),
           TypeOK, Swap(i, j), expiresAt' = expiresAt
    PROVE  Expirations' = Exchanged(Expirations, i, j)
<1>1. expiry \in Seq(Identities) /\ Len(expiry) \in Nat
  BY DEF TypeOK
<1>2. /\ Len(expiry') = Len(expiry)
      /\ \A k \in 1..Len(expiry) :
            expiry'[k] = IF k = j THEN expiry[i] ELSE IF k = i THEN expiry[j] ELSE expiry[k]
  BY <1>1 DEF Swap
<1> QED BY <1>2 DEF Expirations, At, Exchanged

LEMMA ExpirationsType ==
    ASSUME TypeOK
    PROVE  /\ Len(expiry) \in Nat
           /\ Expirations \in [1..Len(expiry) -> Nat]
           /\ \A i \in 1..Len(expiry) : Expirations[i] = At(i) /\ At(i) \in Nat
<1>1. \A i \in 1..Len(expiry) : expiry[i] \in Identities
  BY DEF TypeOK
<1>2. \A i \in 1..Len(expiry) : At(i) \in Nat
  BY <1>1, StoreAssumption DEF TypeOK, At
<1> QED BY <1>2 DEF Expirations, TypeOK

\* What an iteration of down finds: the child it picks is below slot k, among the
\* first n slots, and expires no later than the other child.
LEMMA SmallerChildOf ==
    ASSUME TypeOK, NEW n \in Nat, n <= Len(expiry), NEW k \in 1..n, 2 * k <= n
    PROVE  /\ SmallerChild(k, n) \in 2..n /\ SmallerChild(k, n) \div 2 = k
           /\ \A i \in 2..n : i \div 2 = k => At(SmallerChild(k, n)) <= At(i)
<1>1. \A i \in 1..Len(expiry) : At(i) \in Nat
  BY ExpirationsType
<1>2. \A i \in 2..n : i \div 2 = k => i = 2 * k \/ i = 2 * k + 1
  OBVIOUS
<1>3. 2 * k \in 2..n /\ (2 * k) \div 2 = k /\ (2 * k + 1) \div 2 = k /\ Len(expiry) \in Nat
  BY DEF TypeOK
<1>4. CASE 2 * k + 1 <= n /\ At(2 * k + 1) < At(2 * k)
  <2>1. SmallerChild(k, n) = 2 * k + 1
    BY <1>4 DEF SmallerChild, Less
  <2>2. 2 * k + 1 \in 2..n /\ At(2 * k + 1) \in Nat /\ At(2 * k) \in Nat
    BY <1>1, <1>3, <1>4
  <2> QED BY <1>2, <1>3, <1>4, <2>1, <2>2
<1>5. CASE ~(2 * k + 1 <= n /\ At(2 * k + 1) < At(2 * k))
  <2>1. SmallerChild(k, n) = 2 * k
    BY <1>5 DEF SmallerChild, Less
  <2>2. At(2 * k) \in Nat /\ (2 * k + 1 <= n => At(2 * k + 1) \in Nat)
    BY <1>1, <1>3
  <2>3. ASSUME NEW i \in 2..n, i \div 2 = k PROVE At(2 * k) <= At(i)
    BY <1>2, <1>5, <2>2, <2>3
  <2> QED BY <1>3, <2>1, <2>3
<1> QED BY <1>4, <1>5
-----------------------------------------------------------------------------
(* The inductive invariant. *)

HeapInv ==
    /\ TypeOK
    /\ IndexCoherent
    /\ IsFiniteSet(entries)
    /\ HeapOrder
    /\ SiftOrder

\* The record of the running call has not expired.
CallFresh == pc # "idle" => call.expires > latestNow

\* HeapOrder, over the expirations.
LEMMA OrderOfExpirations ==
    ASSUME TypeOK
    PROVE  /\ HeapOrder <=> (pc \in {"idle", "lookup"} => Ordered(Expirations, Len(expiry)))
           /\ Ordered(Expirations, Len(expiry)) => \A i \in 1..Len(expiry) : At(1) <= At(i)
<1>1. \A i \in 2..Len(expiry) : i \in 1..Len(expiry) /\ i \div 2 \in 1..Len(expiry)
  BY ExpirationsType
<1>2. \A i \in 2..Len(expiry) : Expirations[i] = At(i) /\ Expirations[i \div 2] = At(i \div 2)
  BY <1>1, ExpirationsType
<1>3. HeapOrder <=> (pc \in {"idle", "lookup"} => Ordered(Expirations, Len(expiry)))
  BY <1>2 DEF HeapOrder, Ordered
<1>4. ASSUME Ordered(Expirations, Len(expiry)), NEW i \in 1..Len(expiry) PROVE At(1) <= At(i)
  <2>1. 1 \in 1..Len(expiry)
    BY ExpirationsType
  <2>2. Expirations[1] <= Expirations[i]
    BY <1>4, RootLeast, ExpirationsType
  <2> QED BY <2>1, <2>2, ExpirationsType
<1> QED BY <1>3, <1>4

LEMMA InitHeapInv == Init => HeapInv
<1> SUFFICES ASSUME Init PROVE HeapInv
  OBVIOUS
<1>1. TypeOK
  BY StoreAssumption DEF Init, TypeOK
<1>2. IndexCoherent /\ IsFiniteSet(entries)
  BY FS_EmptySet DEF Init, IndexCoherent, Range
<1>3. HeapOrder /\ SiftOrder
  BY DEF Init, HeapOrder, SiftOrder
<1> QED BY <1>1, <1>2, <1>3 DEF HeapInv

\* A step that leaves the heap and its entries alone, and the sift with it.
LEMMA HeapUntouched ==
    ASSUME HeapInv, TypeOK', UNCHANGED <<entries, expiresAt, index, expiry>>
    PROVE  IndexCoherent' /\ IsFiniteSet(entries)' /\ Expirations' = Expirations
BY DEF HeapInv, IndexCoherent, Range, Expirations, At

\* A step that exchanges two slots.
LEMMA SwapCoherent ==
    ASSUME HeapInv, NEW i \in 1..Len(expiry), NEW j \in 1..Len(expiry), Swap(i, j),
           UNCHANGED <<entries, expiresAt>>
    PROVE  /\ expiry' \in Seq(Identities) /\ Len(expiry') = Len(expiry)
           /\ index' \in [Identities -> 0..Capacity]
           /\ IndexCoherent' /\ IsFiniteSet(entries)'
           /\ Expirations' = Exchanged(Expirations, i, j)
<1>1. TypeOK /\ Placed(expiry, index, entries) /\ Len(expiry) = Cardinality(entries)
  BY PlacedIsCoherent DEF HeapInv, IndexCoherent, TypeOK
<1>2. expiry' \in Seq(Identities) /\ Len(expiry') = Len(expiry)
      /\ index' \in [Identities -> 0..Capacity] /\ Placed(expiry', index', entries)
  BY <1>1, SwapPlaced
<1>3. IndexCoherent'
  BY <1>1, <1>2, PlacedIsCoherent DEF IndexCoherent
<1> QED BY <1>1, <1>2, <1>3, SwapExpirations DEF HeapInv

LEMMA ConsumeInv ==
    ASSUME HeapInv, NEW id \in Identities, NEW expires \in Times, NEW reading \in Times,
           Consume(id, expires, reading)
    PROVE  HeapInv'
<1> DEFINE now == IF reading < latestNow THEN latestNow ELSE reading
           n == Len(expiry)
<1>1. TypeOK /\ pc = "idle" /\ latestNow' = now /\ now \in Times /\ n \in Nat /\ n <= Capacity
      /\ entries' = entries /\ expiresAt' = expiresAt /\ start' = start
  BY DEF HeapInv, TypeOK, Consume
<1>2. Ordered(Expirations, n)
  BY <1>1, OrderOfExpirations DEF HeapInv
<1>3. CASE UNCHANGED <<entries, expiresAt, index, expiry, pc, call, slot, start>>
  <2>1. TypeOK'
    BY <1>1, <1>3 DEF TypeOK
  <2>2. IndexCoherent' /\ IsFiniteSet(entries)' /\ HeapOrder' /\ SiftOrder'
    BY <1>1, <1>3, <2>1, HeapUntouched DEF HeapInv, HeapOrder, SiftOrder, At
  <2> QED BY <2>1, <2>2 DEF HeapInv
<1>4. CASE call' = [id |-> id, expires |-> expires] /\ ~RootExpired(now)
           /\ pc' = "lookup" /\ UNCHANGED <<expiry, index, slot>>
  <2>1. TypeOK'
    BY <1>1, <1>4 DEF TypeOK, Calls
  <2>2. IndexCoherent' /\ IsFiniteSet(entries)' /\ HeapOrder' /\ SiftOrder'
    BY <1>1, <1>4, <2>1, HeapUntouched DEF HeapInv, HeapOrder, SiftOrder, At
  <2> QED BY <2>1, <2>2 DEF HeapInv
<1>5. CASE call' = [id |-> id, expires |-> expires] /\ RootExpired(now)
           /\ Swap(1, n) /\ pc' = "pop" /\ slot' = 1
  <2>1. n \in 1..n /\ 1 \in 1..n /\ 1 \in 0..Capacity
    <3>1. expiry # <<>>
      BY <1>5 DEF RootExpired
    <3> QED BY <1>1, <3>1, StoreAssumption DEF TypeOK
  <2>2. expiry' \in Seq(Identities) /\ Len(expiry') = n /\ index' \in [Identities -> 0..Capacity]
        /\ IndexCoherent' /\ IsFiniteSet(entries)' /\ Expirations' = Exchanged(Expirations, 1, n)
    BY <1>1, <1>5, <2>1, SwapCoherent
  <2>3. TypeOK'
    BY <1>1, <1>5, <2>1, <2>2 DEF TypeOK, Calls
  <2> DEFINE at == Expirations
             b == Exchanged(at, 1, n)
  <2>4. at \in [1..n -> Nat] /\ b[n] = at[1] /\ \A i \in 1..n : i # 1 /\ i # n => b[i] = at[i]
    BY <1>1, <2>1, ExpirationsType DEF Exchanged
  <2>5. OrderedButDown(b, 1, n - 1)
    <3>1. \A i \in 2..(n - 1) : i \div 2 # 1 => i \div 2 \in 1..n /\ i \div 2 # n /\ i \in 2..n /\ i # n /\ i # 1
      BY <1>1
    <3> HIDE DEF at, b
    <3> QED BY <1>2, <2>4, <3>1 DEF OrderedButDown, Ordered, at
  <2>6. \A i \in 1..n : At(i)' = b[i]
    <3> HIDE DEF b
    <3> QED BY <2>2 DEF Expirations, At, b
  <2>7. \A i \in 1..n : at[1] <= at[i]
    BY <1>1, <1>2, <2>4, RootLeast
  <2>8. \A i \in 1..n : b[n] <= b[i]
    <3>1. b[1] = at[n]
      BY <2>1, <2>4 DEF Exchanged
    <3> HIDE DEF at, b
    <3> QED BY <2>1, <2>4, <2>7, <3>1
  <2>9. b[n] <= now
    <3>1. ~(At(1) > now) /\ at[1] = At(1) /\ At(1) \in Nat
      BY <1>1, <1>5, <2>1, ExpirationsType DEF RootExpired
    <3>2. now \in Nat
      BY <1>1, StoreAssumption
    <3> HIDE DEF at, b, now
    <3> QED BY <2>4, <3>1, <3>2
  <2>10. SiftOrder'
    <3>1. pc' = "pop" /\ slot' = 1 /\ Len(expiry)' = n /\ latestNow' = now /\ Expirations' = b
      BY <1>1, <1>5, <2>2
    <3> HIDE DEF b, n, now
    <3> QED BY <2>1, <2>5, <2>6, <2>8, <2>9, <3>1 DEF SiftOrder
  <2>11. HeapOrder'
    BY <1>5 DEF HeapOrder
  <2> QED BY <2>2, <2>3, <2>10, <2>11 DEF HeapInv
<1> QED BY <1>3, <1>4, <1>5 DEF Consume

\* An iteration of down among the first n slots.
LEMMA SinkInv ==
    ASSUME HeapInv, NEW n \in Nat, n <= Len(expiry), pc # "idle", slot \in 1..Len(expiry),
           OrderedButDown(Expirations, slot, n), Sink(n)
    PROVE  /\ TypeOK' /\ IndexCoherent' /\ IsFiniteSet(entries)'
           /\ Len(expiry') = Len(expiry) /\ slot \in 1..n /\ slot' \in 2..n
           /\ Expirations' = Exchanged(Expirations, slot, slot')
           /\ OrderedButDown(Expirations', slot', n)
<1> DEFINE j == SmallerChild(slot, n)
<1>1. TypeOK /\ Len(expiry) \in Nat /\ Len(expiry) <= Capacity /\ Capacity \in Nat
  BY StoreAssumption DEF HeapInv, TypeOK
<1>2. slot' = j /\ Swap(slot, j) /\ 2 * slot <= n /\ At(j) < At(slot)
      /\ UNCHANGED <<entries, expiresAt, latestNow, pc, call, start>>
  BY DEF Sink, Sinks, Less
<1>3. slot \in 1..n
  BY <1>2
<1>4. j \in 2..n /\ j \div 2 = slot /\ \A i \in 2..n : i \div 2 = slot => At(j) <= At(i)
  BY <1>1, <1>2, <1>3, SmallerChildOf
<1> HIDE DEF j
<1>5. j \in 1..Len(expiry) /\ j \in 0..Capacity
  BY <1>1, <1>4
<1>6. expiry' \in Seq(Identities) /\ Len(expiry') = Len(expiry) /\ index' \in [Identities -> 0..Capacity]
      /\ IndexCoherent' /\ IsFiniteSet(entries)' /\ Expirations' = Exchanged(Expirations, slot, j)
  BY <1>2, <1>5, SwapCoherent
<1>7. TypeOK'
  BY <1>1, <1>2, <1>5, <1>6 DEF TypeOK
<1>8. Expirations \in [1..Len(expiry) -> Nat] /\ \A i \in 1..Len(expiry) : Expirations[i] = At(i)
  BY <1>1, ExpirationsType
<1>9. Expirations[j] < Expirations[slot]
      /\ \A i \in 2..n : i \div 2 = slot => Expirations[j] <= Expirations[i]
  BY <1>1, <1>2, <1>4, <1>5, <1>8
<1>10. OrderedButDown(Exchanged(Expirations, slot, j), j, n)
  BY <1>1, <1>3, <1>4, <1>8, <1>9, SinkOrder
<1> QED BY <1>2, <1>3, <1>4, <1>6, <1>7, <1>10

\* Where down stops, the first n slots are ordered.
LEMMA SinkDone ==
    ASSUME TypeOK, NEW n \in Nat, n <= Len(expiry), slot \in 1..Len(expiry),
           OrderedButDown(Expirations, slot, n), ~Sinks(slot, n)
    PROVE  Ordered(Expirations, n)
<1>1. Expirations \in [1..Len(expiry) -> Nat] /\ Len(expiry) \in Nat
      /\ \A i \in 1..Len(expiry) : Expirations[i] = At(i) /\ At(i) \in Nat
  BY ExpirationsType
<1>2. ASSUME NEW i \in 2..n, i \div 2 = slot PROVE Expirations[slot] <= Expirations[i]
  <2>1. 2 * slot <= n /\ slot \in 1..n /\ i \in 1..Len(expiry)
    BY <1>1, <1>2
  <2>2. SmallerChild(slot, n) \in 2..n /\ At(SmallerChild(slot, n)) <= At(i)
    BY <1>2, <2>1, SmallerChildOf
  <2>3. ~(At(SmallerChild(slot, n)) < At(slot)) /\ SmallerChild(slot, n) \in 1..Len(expiry)
    BY <1>1, <2>1, <2>2 DEF Sinks, Less
  <2>4. At(SmallerChild(slot, n)) \in Nat /\ At(slot) \in Nat /\ At(i) \in Nat
        /\ Expirations[slot] = At(slot) /\ Expirations[i] = At(i)
    BY <1>1, <2>1, <2>3
  <2> QED BY <2>2, <2>3, <2>4
<1> QED BY <1>2 DEF OrderedButDown, Ordered

LEMMA PopSinkInv == ASSUME HeapInv, PopSink PROVE HeapInv'
<1> DEFINE n == Len(expiry)
           at == Expirations
           b == Exchanged(at, slot, slot')
<1>1. pc = "pop" /\ slot \in 1..n /\ n \in Nat /\ TypeOK /\ Sink(n - 1) /\ n - 1 \in Nat /\ n - 1 <= n
  BY DEF HeapInv, TypeOK, SiftOrder, PopSink
<1>2. /\ OrderedButDown(at, slot, n - 1) /\ At(n) <= latestNow
      /\ \A i \in 1..n : At(n) <= At(i)
  BY <1>1 DEF HeapInv, SiftOrder
<1>3. /\ TypeOK' /\ IndexCoherent' /\ IsFiniteSet(entries)'
      /\ Len(expiry') = n /\ slot \in 1..(n - 1) /\ slot' \in 2..(n - 1)
      /\ Expirations' = b
      /\ OrderedButDown(b, slot', n - 1)
  BY <1>1, <1>2, SinkInv
<1>4. pc' = "pop" /\ latestNow' = latestNow
  BY <1>1 DEF Sink
<1>5. at \in [1..n -> Nat] /\ \A i \in 1..n : at[i] = At(i)
  BY <1>1, ExpirationsType
<1>6. slot' \in 1..n /\ slot \in 1..n /\ n \in 1..n /\ n # slot /\ n # slot'
  BY <1>1, <1>3
<1>7. /\ b[slot] = at[slot'] /\ b[slot'] = at[slot]
      /\ \A i \in 1..n : i # slot /\ i # slot' => b[i] = at[i]
  BY <1>5, <1>6 DEF Exchanged
<1>8. \A i \in 1..n : At(i)' = b[i]
  <2> HIDE DEF b
  <2> QED BY <1>3 DEF Expirations, At
<1> HIDE DEF at, b
<1>9. \A i \in 1..n : b[n] <= b[i]
  BY <1>2, <1>5, <1>6, <1>7
<1>10. b[n] <= latestNow
  BY <1>2, <1>5, <1>6, <1>7
<1>11. SiftOrder'
  <2> HIDE DEF n
  <2>1. Len(expiry)' = n
    BY <1>3
  <2> QED BY <1>3, <1>4, <1>6, <1>8, <1>9, <1>10, <2>1 DEF SiftOrder
<1>12. HeapOrder'
  BY <1>4 DEF HeapOrder
<1> QED BY <1>3, <1>11, <1>12 DEF HeapInv

LEMMA FixSinkInv == ASSUME HeapInv, FixSink PROVE HeapInv'
<1> DEFINE n == Len(expiry)
<1>1. pc = "fix" /\ slot \in 1..n /\ n \in Nat /\ n <= n /\ TypeOK /\ Sink(n)
      /\ OrderedButDown(Expirations, slot, n)
  BY DEF HeapInv, TypeOK, SiftOrder, FixSink
<1>2. /\ TypeOK' /\ IndexCoherent' /\ IsFiniteSet(entries)'
      /\ Len(expiry') = n /\ slot' \in 2..n
      /\ OrderedButDown(Expirations', slot', n)
  BY <1>1, SinkInv
<1>3. pc' = "fix"
  BY <1>1 DEF Sink
<1>4. slot' \in 1..n /\ Len(expiry)' = n
  BY <1>1, <1>2
<1>5. SiftOrder' /\ HeapOrder'
  BY <1>2, <1>3, <1>4 DEF SiftOrder, HeapOrder
<1> QED BY <1>2, <1>5 DEF HeapInv

LEMMA FixDoneInv == ASSUME HeapInv, FixDone PROVE HeapInv'
<1> DEFINE n == Len(expiry)
<1>1. pc = "fix" /\ slot \in 1..n /\ n \in Nat /\ n <= n /\ TypeOK /\ ~Sinks(slot, n)
      /\ OrderedButDown(Expirations, slot, n)
      /\ UNCHANGED <<entries, expiresAt, index, expiry, latestNow>>
  BY DEF HeapInv, TypeOK, SiftOrder, FixDone
<1>2. Ordered(Expirations, n)
  BY <1>1, SinkDone
<1>3. TypeOK'
  BY <1>1, StoreAssumption DEF FixDone, Return, TypeOK
<1>4. IndexCoherent' /\ IsFiniteSet(entries)' /\ Expirations' = Expirations /\ Len(expiry)' = n
  BY <1>1, <1>3, HeapUntouched
<1>5. \A i \in 2..n : At(i \div 2) <= At(i)
  BY <1>1, <1>2, ExpirationsType DEF Ordered
<1>6. HeapOrder'
  BY <1>1, <1>4, <1>5 DEF HeapOrder, At
<1>7. CASE pc' = "idle"
  BY <1>3, <1>4, <1>6, <1>7 DEF SiftOrder, HeapInv
<1>8. CASE pc' = "up" /\ slot' = slot
  <2>1. slot \in 1..n /\ n \in Nat
    BY <1>1
  <2>2. OrderedButUp(Expirations, slot, n)
    <3>1. \A i \in 2..n : i \div 2 = slot /\ slot # 1 => Expirations[slot \div 2] <= Expirations[i]
      BY <1>1 DEF OrderedButDown
    <3> QED BY <1>2, <3>1 DEF OrderedButUp, Ordered
  <2>3. SiftOrder'
    <3> HIDE DEF n
    <3> QED BY <1>4, <1>8, <2>1, <2>2 DEF SiftOrder
  <2> QED BY <1>3, <1>4, <1>6, <2>3 DEF HeapInv
<1> QED BY <1>7, <1>8 DEF FixDone, Return

LEMMA RiseInv == ASSUME HeapInv, Rise PROVE HeapInv'
<1> DEFINE n == Len(expiry)
           p == slot \div 2
<1>1. pc = "up" /\ slot \in 1..n /\ n \in Nat /\ n <= Capacity /\ Capacity \in Nat /\ TypeOK
      /\ OrderedButUp(Expirations, slot, n)
  BY StoreAssumption DEF HeapInv, TypeOK, SiftOrder, Rise
<1>2. slot # 1 /\ At(slot) < At(p) /\ Swap(p, slot) /\ slot' = p
      /\ UNCHANGED <<entries, expiresAt, latestNow, pc, call, start>>
  BY DEF Rise, Rises, Less
<1>3. slot \in 2..n /\ p \in 1..n /\ p \in 0..Capacity
  BY <1>1, <1>2
<1>4. expiry' \in Seq(Identities) /\ Len(expiry') = n /\ index' \in [Identities -> 0..Capacity]
      /\ IndexCoherent' /\ IsFiniteSet(entries)' /\ Expirations' = Exchanged(Expirations, p, slot)
  BY <1>1, <1>2, <1>3, SwapCoherent
<1>5. TypeOK'
  BY <1>1, <1>2, <1>3, <1>4 DEF TypeOK
<1>6. Expirations \in [1..n -> Nat] /\ Expirations[slot] < Expirations[p]
  BY <1>1, <1>2, <1>3, ExpirationsType
<1>7. OrderedButUp(Exchanged(Expirations, p, slot), p, n)
  BY <1>1, <1>3, <1>6, RiseOrder
<1>8. SiftOrder' /\ HeapOrder'
  <2>1. pc' = "up" /\ slot' = p /\ Len(expiry)' = n
    BY <1>1, <1>2, <1>4
  <2> HIDE DEF n, p
  <2> QED BY <1>3, <1>4, <1>7, <2>1 DEF SiftOrder, HeapOrder
<1> QED BY <1>4, <1>5, <1>8 DEF HeapInv

LEMMA UpDoneInv == ASSUME HeapInv, UpDone PROVE HeapInv'
<1> DEFINE n == Len(expiry)
<1>1. pc = "up" /\ slot \in 1..n /\ n \in Nat /\ TypeOK /\ ~Rises(slot)
      /\ OrderedButUp(Expirations, slot, n) /\ pc' = "idle"
      /\ UNCHANGED <<entries, expiresAt, index, expiry, latestNow>>
  BY DEF HeapInv, TypeOK, SiftOrder, UpDone, Return
<1>2. TypeOK'
  BY <1>1, StoreAssumption DEF UpDone, Return, TypeOK
<1>3. IndexCoherent' /\ IsFiniteSet(entries)' /\ Expirations' = Expirations /\ Len(expiry)' = n
  BY <1>1, <1>2, HeapUntouched
<1>4. slot # 1 => Expirations[slot \div 2] <= Expirations[slot]
  <2>1. slot # 1 => slot \div 2 \in 1..n
    BY <1>1
  <2> QED BY <1>1, <2>1, ExpirationsType DEF Rises, Less
<1>5. Ordered(Expirations, n)
  BY <1>1, <1>4, ExpirationsType, RiseStops
<1>6. \A i \in 2..n : At(i \div 2) <= At(i)
  BY <1>1, <1>5, ExpirationsType DEF Ordered
<1>7. HeapOrder' /\ SiftOrder'
  BY <1>1, <1>3, <1>6 DEF HeapOrder, SiftOrder, At
<1> QED BY <1>2, <1>3, <1>7 DEF HeapInv

LEMMA PopCutInv == ASSUME HeapInv, PopCut PROVE HeapInv'
<1> DEFINE n == Len(expiry)
           last == expiry[n]
<1>1. pc = "pop" /\ slot \in 1..n /\ n \in Nat /\ n <= Capacity /\ Capacity \in Nat /\ TypeOK
      /\ n - 1 \in Nat /\ n - 1 <= n
  BY StoreAssumption DEF HeapInv, TypeOK, SiftOrder, PopCut
<1>2. OrderedButDown(Expirations, slot, n - 1) /\ ~Sinks(slot, n - 1)
  BY <1>1 DEF HeapInv, SiftOrder, PopCut
<1>3. Ordered(Expirations, n - 1)
  BY <1>1, <1>2, SinkDone
<1>4. Placed(expiry, index, entries) /\ n = Cardinality(entries) /\ IsFiniteSet(entries)
  BY <1>1, PlacedIsCoherent DEF HeapInv, IndexCoherent, TypeOK
<1>5. /\ expiry' = SubSeq(expiry, 1, n - 1) /\ index' = [index EXCEPT ![last] = 0]
      /\ entries' = entries \ {last} /\ pc' = "lookup" /\ slot' = 0
      /\ UNCHANGED <<expiresAt, latestNow, call, start>>
  BY DEF PopCut
<1>6. /\ expiry' \in Seq(Identities) /\ Len(expiry') = n - 1
      /\ \A i \in 1..(n - 1) : expiry'[i] = expiry[i]
  <2>1. expiry \in Seq(Identities) /\ 1 \in 1..(n + 1) /\ n - 1 \in (1 - 1)..n /\ (n - 1) - 1 + 1 = n - 1
    BY <1>1 DEF TypeOK
  <2>2. \A i \in 1..(n - 1) : 1 + i - 1 = i
    BY <1>1
  <2> QED BY <1>5, <2>1, <2>2, SubSeqProperties
<1>7. last \in entries /\ last \in Identities /\ n \in 1..n
  BY <1>1, <1>4 DEF Placed, TypeOK
<1>8. index' \in [Identities -> 0..Capacity]
      /\ \A id \in Identities : index'[id] = IF id = last THEN 0 ELSE index[id]
  BY <1>1, <1>5, <1>7 DEF TypeOK
<1>9. TypeOK'
  BY <1>1, <1>5, <1>6, <1>8 DEF TypeOK
<1>10. \A i \in 1..n : expiry[i] \in entries /\ index[expiry[i]] = i /\ expiry[i] \in Identities
  BY <1>1, <1>4 DEF Placed, TypeOK
<1> HIDE DEF last
<1>11. \A i \in 1..(n - 1) : i \in 1..n /\ expiry[i] # last
  BY <1>1, <1>7, <1>10 DEF last
<1>12. Placed(expiry', index', entries')
  <2>1. \A i \in 1..(n - 1) : expiry'[i] \in entries' /\ index'[expiry'[i]] = i
    BY <1>5, <1>6, <1>8, <1>10, <1>11
  <2>2. ASSUME NEW id \in entries' PROVE \E i \in 1..(n - 1) : expiry'[i] = id
    <3>1. id \in entries /\ id # last
      BY <1>5
    <3>2. PICK i \in 1..n : expiry[i] = id
      BY <1>4, <3>1 DEF Placed
    <3>3. i # n
      BY <3>1, <3>2 DEF last
    <3>4. i \in 1..(n - 1)
      BY <1>1, <3>3
    <3> QED BY <1>6, <3>2, <3>4
  <2> QED BY <1>6, <2>1, <2>2 DEF Placed
<1>13. IsFiniteSet(entries') /\ Cardinality(entries') = n - 1
  BY <1>4, <1>5, <1>7, FS_RemoveElement
<1>14. IndexCoherent' /\ IsFiniteSet(entries)'
  BY <1>6, <1>12, <1>13, PlacedIsCoherent DEF IndexCoherent
<1>15. HeapOrder'
  <2>1. \A i \in 2..(n - 1) : i \in 1..(n - 1) /\ i \div 2 \in 1..(n - 1) /\ i \in 1..n /\ i \div 2 \in 1..n
    BY <1>1
  <2>2. \A i \in 2..(n - 1) : At(i \div 2) <= At(i)
    BY <1>1, <1>3, <2>1, ExpirationsType DEF Ordered
  <2>3. \A i \in 2..(n - 1) : expiry'[i] = expiry[i] /\ expiry'[i \div 2] = expiry[i \div 2]
    BY <1>6, <2>1
  <2> QED BY <1>5, <1>6, <2>2, <2>3 DEF HeapOrder, At
<1>16. SiftOrder'
  BY <1>5 DEF SiftOrder
<1> QED BY <1>9, <1>14, <1>15, <1>16 DEF HeapInv

LEMMA RefuseInv == ASSUME HeapInv, Refuse PROVE HeapInv'
<1>1. pc = "lookup" /\ pc' = "idle" /\ UNCHANGED <<entries, expiresAt, index, expiry, latestNow>>
  BY DEF Refuse, Return
<1>2. TypeOK'
  BY <1>1, StoreAssumption DEF HeapInv, TypeOK, Refuse, Return
<1>3. IndexCoherent' /\ IsFiniteSet(entries)'
  BY <1>1, <1>2, HeapUntouched
<1>4. HeapOrder' /\ SiftOrder'
  BY <1>1 DEF HeapInv, HeapOrder, SiftOrder, At
<1> QED BY <1>2, <1>3, <1>4 DEF HeapInv

\* The renewed entry expires later than it did, so it is out of order with its
\* children at most.
LEMMA RenewInv == ASSUME HeapInv, CallFresh, Renew PROVE HeapInv'
<1> DEFINE n == Len(expiry)
           k == index[call.id]
<1>1. TypeOK /\ pc = "lookup" /\ call \in Calls /\ n \in Nat /\ n <= Capacity /\ Capacity \in Nat
      /\ call.id \in Identities /\ call.expires \in Times
  BY StoreAssumption DEF HeapInv, TypeOK, Calls, Renew
<1>2. call.id \in entries /\ expiresAt[call.id] <= latestNow /\ slot' = k /\ start' = k /\ pc' = "fix"
      /\ expiresAt' = [expiresAt EXCEPT ![call.id] = call.expires]
      /\ UNCHANGED <<entries, index, expiry, latestNow, call>>
  BY DEF Renew, Known
<1>3. Placed(expiry, index, entries) /\ n = Cardinality(entries) /\ IsFiniteSet(entries)
  BY <1>1, PlacedIsCoherent DEF HeapInv, IndexCoherent, TypeOK
<1>4. k \in 1..n /\ expiry[k] = call.id /\ k \in 0..Capacity
  BY <1>1, <1>2, <1>3 DEF Placed
<1>5. TypeOK'
  BY <1>1, <1>2, <1>4 DEF TypeOK
<1>6. IndexCoherent' /\ IsFiniteSet(entries)'
  BY <1>2 DEF HeapInv, IndexCoherent, Range
<1>7. Ordered(Expirations, n)
  BY <1>1, OrderOfExpirations DEF HeapInv
<1>8. \A i \in 1..n : i # k => expiry[i] # call.id
  BY <1>3, <1>4 DEF Placed
<1>9. \A i \in 1..n : expiry[i] \in Identities
  BY DEF HeapInv, TypeOK
<1>10. Expirations' = [Expirations EXCEPT ![k] = call.expires]
  <2>1. \A i \in 1..n : At(i)' = IF i = k THEN call.expires ELSE At(i)
    BY <1>1, <1>2, <1>4, <1>8, <1>9 DEF At, TypeOK
  <2>2. Expirations' = [i \in 1..n |-> IF i = k THEN call.expires ELSE At(i)]
    BY <1>2, <2>1 DEF Expirations
  <2> QED BY <1>4, <2>2 DEF Expirations
<1>11. call.expires \in Nat /\ Expirations[k] <= call.expires /\ Expirations \in [1..n -> Nat]
  <2>1. Expirations[k] = At(k) /\ At(k) = expiresAt[call.id]
    BY <1>1, <1>4, ExpirationsType DEF At
  <2>2. latestNow \in Nat /\ expiresAt[call.id] \in Nat /\ call.expires \in Nat
    BY <1>1, StoreAssumption DEF TypeOK
  <2>3. call.expires > latestNow
    BY <1>1 DEF CallFresh
  <2> QED BY <1>1, <1>2, <2>1, <2>2, <2>3, ExpirationsType
<1>12. OrderedButDown(Expirations', k, n)
  BY <1>1, <1>4, <1>7, <1>10, <1>11, RaiseOrder
<1>13. SiftOrder' /\ HeapOrder'
  <2>1. pc' = "fix" /\ slot' = k /\ Len(expiry)' = n
    BY <1>2
  <2> HIDE DEF n, k
  <2> QED BY <1>4, <1>12, <2>1 DEF SiftOrder, HeapOrder
<1> QED BY <1>5, <1>6, <1>13 DEF HeapInv

LEMMA InsertInv == ASSUME HeapInv, Insert PROVE HeapInv'
<1> DEFINE n == Len(expiry)
           id == call.id
<1>1. TypeOK /\ pc = "lookup" /\ n \in Nat /\ Capacity \in Nat /\ id \in Identities /\ call.expires \in Times
  BY StoreAssumption DEF HeapInv, TypeOK, Calls, Insert
<1>2. Placed(expiry, index, entries) /\ n = Cardinality(entries) /\ IsFiniteSet(entries)
  BY <1>1, PlacedIsCoherent DEF HeapInv, IndexCoherent, TypeOK
<1>3. /\ id \notin entries /\ Cardinality(entries) < Capacity
      /\ entries' = entries \cup {id}
      /\ expiresAt' = [expiresAt EXCEPT ![id] = call.expires]
      /\ index' = [index EXCEPT ![id] = n + 1]
      /\ expiry' = Append(expiry, id)
      /\ pc' = "up" /\ slot' = n + 1
      /\ UNCHANGED <<latestNow, call, start>>
  BY DEF Insert, Known
<1>4. n + 1 <= Capacity /\ n + 1 \in 0..Capacity /\ n + 1 \in Nat
  BY <1>1, <1>2, <1>3
<1>5. /\ expiry' \in Seq(Identities) /\ Len(expiry') = n + 1 /\ expiry'[n + 1] = id
      /\ \A i \in 1..n : expiry'[i] = expiry[i]
  BY <1>1, <1>3 DEF TypeOK
<1>6. index' \in [Identities -> 0..Capacity]
      /\ \A x \in Identities : index'[x] = IF x = id THEN n + 1 ELSE index[x]
  BY <1>1, <1>3, <1>4 DEF TypeOK
<1>7. expiresAt' \in [Identities -> Times] /\ \A x \in Identities : x # id => expiresAt'[x] = expiresAt[x]
  BY <1>1, <1>3 DEF TypeOK
<1>8. TypeOK'
  BY <1>1, <1>3, <1>4, <1>5, <1>6, <1>7 DEF TypeOK
<1>9. \A i \in 1..n : expiry[i] \in entries /\ expiry[i] \in Identities /\ expiry[i] # id /\ index[expiry[i]] = i
  BY <1>1, <1>2, <1>3 DEF Placed, TypeOK
<1>10. Placed(expiry', index', entries')
  <2>1. ASSUME NEW i \in 1..(n + 1) PROVE expiry'[i] \in entries' /\ index'[expiry'[i]] = i
    <3>1. CASE i = n + 1
      BY <1>1, <1>3, <1>5, <1>6, <3>1
    <3>2. CASE i \in 1..n
      BY <1>3, <1>5, <1>6, <1>9, <3>2
    <3> QED BY <1>1, <3>1, <3>2
  <2>2. ASSUME NEW x \in entries' PROVE \E i \in 1..(n + 1) : expiry'[i] = x
    <3>1. CASE x = id
      BY <1>1, <1>5, <3>1
    <3>2. CASE x \in entries
      <4>1. PICK i \in 1..n : expiry[i] = x
        BY <1>2, <3>2 DEF Placed
      <4>2. i \in 1..(n + 1)
        BY <1>1
      <4> QED BY <1>5, <4>1, <4>2
    <3> QED BY <1>3, <3>1, <3>2
  <2> QED BY <1>5, <2>1, <2>2 DEF Placed
<1>11. IsFiniteSet(entries') /\ Cardinality(entries') = n + 1
  BY <1>2, <1>3, FS_AddElement
<1>12. IndexCoherent' /\ IsFiniteSet(entries)'
  BY <1>5, <1>10, <1>11, PlacedIsCoherent DEF IndexCoherent
<1>13. \A i \in 1..n : At(i)' = At(i)
  BY <1>5, <1>7, <1>9 DEF At
<1>14. Expirations' = [i \in 1..(n + 1) |-> At(i)']
  BY <1>5 DEF Expirations
<1>15. \A i \in 2..n : At(i \div 2) <= At(i)
  BY <1>1 DEF HeapInv, HeapOrder
<1>16. OrderedButUp(Expirations', n + 1, n + 1)
  <2>1. \A i \in 2..(n + 1) : i # n + 1 => i \in 2..n /\ i \in 1..n /\ i \div 2 \in 1..n
    BY <1>1
  <2>2. \A i \in 2..(n + 1) : i \div 2 # n + 1 /\ i \in 1..(n + 1) /\ i \div 2 \in 1..(n + 1)
    BY <1>1
  <2>3. \A i \in 2..(n + 1) : Expirations'[i] = At(i)' /\ Expirations'[i \div 2] = At(i \div 2)'
    BY <1>14, <2>2
  <2>4. ASSUME NEW i \in 2..(n + 1), i # n + 1 PROVE Expirations'[i \div 2] <= Expirations'[i]
    <3>1. At(i)' = At(i) /\ At(i \div 2)' = At(i \div 2) /\ At(i \div 2) <= At(i)
      BY <1>13, <1>15, <2>1, <2>4
    <3> QED BY <2>3, <3>1
  <2> QED BY <2>2, <2>4 DEF OrderedButUp
<1>17. SiftOrder' /\ HeapOrder'
  <2>1. pc' = "up" /\ slot' = n + 1 /\ Len(expiry)' = n + 1 /\ n + 1 \in 1..(n + 1)
    BY <1>1, <1>3, <1>5
  <2> HIDE DEF n
  <2> QED BY <1>16, <2>1 DEF SiftOrder, HeapOrder
<1> QED BY <1>8, <1>12, <1>17 DEF HeapInv

\* The record of a call stays unexpired until the call returns.
LEMMA CallFreshStep == ASSUME TypeOK, CallFresh, Next PROVE CallFresh'
<1>1. ASSUME NEW id \in Identities, NEW expires \in Times, NEW reading \in Times,
             Consume(id, expires, reading)
      PROVE  CallFresh'
  BY <1>1 DEF Consume, CallFresh
<1>2. CASE PopSink \/ FixSink \/ Rise
  BY <1>2 DEF PopSink, FixSink, Rise, Sink, CallFresh
<1>3. CASE PopCut \/ Renew \/ Insert \/ Refuse \/ FixDone \/ UpDone
  BY <1>3 DEF PopCut, Renew, Insert, Refuse, FixDone, UpDone, Return, CallFresh
<1> QED BY <1>1, <1>2, <1>3 DEF Next

IndInv == HeapInv /\ CallFresh

\* Every step of a call keeps the indexes and the order it left at.
THEOREM IndInvStep == IndInv /\ [Next]_vars => IndInv'
<1> SUFFICES ASSUME IndInv, [Next]_vars PROVE IndInv'
  OBVIOUS
<1> USE DEF IndInv
<1>1. CASE UNCHANGED vars
  BY <1>1 DEF vars, HeapInv, CallFresh, TypeOK, IndexCoherent, Range, HeapOrder, SiftOrder, At, Expirations
<1>2. CASE Next
  <2>1. CallFresh'
    BY <1>2, CallFreshStep DEF HeapInv
  <2>2. HeapInv'
    BY <1>2, ConsumeInv, PopSinkInv, PopCutInv, RefuseInv, RenewInv, InsertInv,
       FixSinkInv, FixDoneInv, RiseInv, UpDoneInv DEF Next
  <2> QED BY <2>1, <2>2
<1> QED BY <1>1, <1>2

\* The invariant holds in every reachable state.
THEOREM HeapInvariant == Spec => []IndInv
<1>1. Init => IndInv
  BY InitHeapInv DEF IndInv, CallFresh, Init
<1> QED BY <1>1, IndInvStep, PTL DEF Spec
-----------------------------------------------------------------------------
(* The properties. *)

\* The state of the store keeps its types: the heap never outgrows Capacity and
\* a slot or an index never leaves the heap.
THEOREM HeapTypes == Spec => []TypeOK
<1>1. IndInv => TypeOK
  BY DEF IndInv, HeapInv
<1> QED BY <1>1, HeapInvariant, PTL

\* The slots hold the entries, each once, and the stored indexes are theirs, in
\* the middle of a sift too.
THEOREM IndexesCoherent == Spec => []IndexCoherent
<1>1. IndInv => IndexCoherent
  BY DEF IndInv, HeapInv
<1> QED BY <1>1, HeapInvariant, PTL

\* The heap is ordered whenever Consume looks at its root.
THEOREM HeapOrdered == Spec => []HeapOrder
<1>1. IndInv => HeapOrder
  BY DEF IndInv, HeapInv
<1> QED BY <1>1, HeapInvariant, PTL

\* In the middle of a sift the only disorder is at the slot the sift is at.
THEOREM SiftsOrdered == Spec => []SiftOrder
<1>1. IndInv => SiftOrder
  BY DEF IndInv, HeapInv
<1> QED BY <1>1, HeapInvariant, PTL

\* removeOldestExpired deletes the entry that expires first, and only once it has
\* expired: the last slot, to which heap.Pop has moved the root.  It returns early
\* only if no entry has expired, because the root expires first.
THEOREM OldestEvicted == Spec => EvictsOldest
<1> DEFINE Evicts == (pc # "lookup" /\ pc' = "lookup") \/ ~(entries \subseteq entries')
           OldestGone == \E id \in entries :
                            /\ entries' = entries \ {id}
                            /\ expiresAt[id] <= latestNow'
                            /\ \A other \in entries : expiresAt[id] <= expiresAt[other]
           NoneExpired == entries' = entries /\ \A id \in entries : expiresAt[id] > latestNow'
<1>1. ASSUME IndInv, Next, Evicts PROVE OldestGone \/ NoneExpired
  <2>1. Placed(expiry, index, entries)
    BY <1>1, PlacedIsCoherent DEF IndInv, HeapInv, IndexCoherent, TypeOK
  <2>2. \A other \in entries : \E i \in 1..Len(expiry) : expiry[i] = other
    BY <2>1 DEF Placed
  <2>3. CASE PopCut
    <3>1. pc = "pop" /\ entries' = entries \ {expiry[Len(expiry)]} /\ latestNow' = latestNow
      BY <2>3 DEF PopCut
    <3>2. At(Len(expiry)) <= latestNow /\ \A i \in 1..Len(expiry) : At(Len(expiry)) <= At(i)
      BY <1>1, <3>1 DEF IndInv, HeapInv, SiftOrder
    <3>3. Len(expiry) \in 1..Len(expiry)
      BY <1>1, <3>1 DEF IndInv, HeapInv, SiftOrder, TypeOK
    <3>4. expiry[Len(expiry)] \in entries
      BY <2>1, <3>3 DEF Placed
    <3> QED BY <2>2, <3>1, <3>2, <3>4 DEF At
  <2>4. CASE ~PopCut
    <3>1. PICK id \in Identities, expires \in Times, reading \in Times : Consume(id, expires, reading)
      BY <1>1, <2>4 DEF Next, PopSink, FixSink, Sink, Refuse, Renew, Insert, FixDone, Rise, UpDone, Return
    <3>2. pc = "idle" /\ entries' = entries /\ ~RootExpired(latestNow')
      BY <1>1, <3>1 DEF Consume
    <3>3. \A i \in 1..Len(expiry) : At(1) <= At(i) /\ At(i) \in Nat
      BY <1>1, <3>2, OrderOfExpirations, ExpirationsType DEF IndInv, HeapInv
    <3>4. latestNow' \in Nat /\ Len(expiry) \in Nat
      BY <1>1, <3>1, StoreAssumption DEF Consume, IndInv, HeapInv, TypeOK
    <3>5. ASSUME NEW i \in 1..Len(expiry) PROVE At(i) > latestNow'
      <4>1. expiry # <<>> /\ 1 \in 1..Len(expiry)
        BY <1>1, <3>4, <3>5 DEF IndInv, HeapInv, TypeOK
      <4>2. At(1) > latestNow'
        BY <3>2, <4>1 DEF RootExpired
      <4> QED BY <3>3, <3>4, <4>1, <4>2
    <3> QED BY <2>2, <3>2, <3>5 DEF At
  <2> QED BY <2>3, <2>4
<1>2. IndInv /\ [Next]_vars => [Evicts => OldestGone \/ NoneExpired]_vars
  BY <1>1
<1> QED BY <1>2, HeapInvariant, PTL DEF Spec, EvictsOldest

\* An unexpired reservation outlives every step, with its expiration.
THEOREM ReservationsStable == Spec => ReservationStable
<1> DEFINE Stable == \A id \in entries : expiresAt[id] > latestNow' =>
                        id \in entries' /\ expiresAt'[id] = expiresAt[id]
<1>1. ASSUME IndInv, [Next]_vars PROVE [Stable]_vars
  <2>1. TypeOK /\ latestNow \in Nat /\ \A id \in entries : id \in Identities /\ expiresAt[id] \in Nat
    BY <1>1, StoreAssumption DEF IndInv, HeapInv, TypeOK
  <2>2. CASE PopCut
    <3>1. pc = "pop" /\ entries' = entries \ {expiry[Len(expiry)]} /\ UNCHANGED <<expiresAt, latestNow>>
      BY <2>2 DEF PopCut
    <3>2. At(Len(expiry)) <= latestNow
      BY <1>1, <3>1 DEF IndInv, HeapInv, SiftOrder
    <3> QED BY <2>1, <3>1, <3>2 DEF At
  <2>3. CASE Renew
    BY <2>1, <2>3 DEF Renew, Known, TypeOK
  <2>4. CASE Insert
    BY <2>1, <2>4 DEF Insert, Known, TypeOK
  <2>5. CASE ~PopCut /\ ~Renew /\ ~Insert
    <3>1. entries' = entries /\ expiresAt' = expiresAt
      BY <1>1, <2>5 DEF Next, Consume, PopSink, FixSink, Sink, Refuse, FixDone, Rise, UpDone, vars
    <3> QED BY <3>1
  <2> QED BY <2>2, <2>3, <2>4, <2>5
<1> QED BY <1>1, HeapInvariant, PTL DEF Spec, ReservationStable
=============================================================================
