------------------------ MODULE SignatureBaseProofs ------------------------
(***************************************************************************)
(* Proofs about SignatureBase for every message, component list and limit. *)
(***************************************************************************)
EXTENDS SignatureBase, FiniteSetTheorems, WellFoundedInduction, TLAPS

-----------------------------------------------------------------------------
(* Induction over an interval, and the functions it defines. *)

\* A set that holds the first index and, with each index, the next one, holds all.
LEMMA IntervalInduction ==
    ASSUME NEW m \in Int, NEW n \in Int, NEW T, m \in T,
           \A i \in m .. n : i # m /\ i - 1 \in T => i \in T
    PROVE  m .. n \subseteq T
<1> DEFINE Missing == {k \in Nat : m + k <= n /\ m + k \notin T}
<1>1. Missing = {}
  <2> SUFFICES ASSUME Missing # {} PROVE FALSE
    OBVIOUS
  <2>1. PICK k \in Missing : \A j \in Missing : ~ (<<j, k>> \in OpToRel(<, Nat))
    <3>1. Missing \subseteq Nat
      OBVIOUS
    <3> HIDE DEF Missing
    <3> QED BY <3>1, NatLessThanWellFounded, WFMin
  <2>2. k \in Nat /\ m + k <= n /\ m + k \notin T
    OBVIOUS
  <2>3. k # 0
    BY <2>2
  <2>4. k - 1 \in Nat
    BY <2>2, <2>3
  <2>5. k - 1 \notin Missing
    <3>1. <<k - 1, k>> \in OpToRel(<, Nat)
      BY <2>2, <2>4 DEF OpToRel
    <3> QED BY <2>1, <3>1
  <2>6. m + (k - 1) \in T
    <3>1. m + (k - 1) <= n
      BY <2>2, <2>4
    <3> QED BY <2>4, <2>5, <3>1, Zenon
  <2>7. m + k \in m .. n /\ m + k # m /\ (m + k) - 1 = m + (k - 1)
    BY <2>2, <2>3
  <2> QED BY <2>2, <2>6, <2>7
<1>2. ASSUME NEW i \in m .. n PROVE i \in T
  <2>1. i - m \in Nat /\ m + (i - m) = i /\ i <= n
    BY <1>2
  <2>2. i - m \notin Missing
    BY <1>1
  <2>3. m + (i - m) \in T
    BY <2>1, <2>2, Zenon
  <2> QED BY <2>1, <2>3
<1> QED BY <1>2

Iterates(f, S, m, n, first, Step) ==
    /\ f \in [m .. n -> S] /\ f[m] = first
    /\ \A i \in m .. n : i # m => f[i] = Step[i][f[i - 1]]

\* A function on m .. n is defined by its first value and a step from each to the next.
LEMMA Iteration ==
    ASSUME NEW S, NEW m \in Int, NEW n \in Int, m <= n, NEW first \in S,
           NEW Step \in [m .. n -> [S -> S]]
    PROVE  \E f : Iterates(f, S, m, n, first, Step)
<1> DEFINE Upto(k, f) == f[m] = first /\ \A i \in m + 1 .. k : f[i] = Step[i][f[i - 1]]
           T == {k \in m .. n : \E f \in [m .. k -> S] : Upto(k, f)}
<1>1. m \in T
  <2>1. [i \in m .. m |-> first] \in [m .. m -> S] /\ m \in m .. n
    OBVIOUS
  <2>2. Upto(m, [i \in m .. m |-> first])
    OBVIOUS
  <2> QED BY <2>1, <2>2
<1>2. ASSUME NEW k \in m + 1 .. n, k - 1 \in T PROVE k \in T
  <2>1. PICK f \in [m .. k - 1 -> S] : Upto(k - 1, f)
    BY <1>2
  <2> DEFINE g == [i \in m .. k |-> IF i = k THEN Step[k][f[k - 1]] ELSE f[i]]
  <2>2. Step[k] \in [S -> S] /\ f[k - 1] \in S
    BY <2>1
  <2>3. Step[k][f[k - 1]] \in S
    BY <2>2
  <2>4. g \in [m .. k -> S]
    <3>1. ASSUME NEW i \in m .. k, i # k PROVE f[i] \in S
      <4>1. i \in m .. k - 1
        BY <3>1
      <4> QED BY <4>1
    <3> QED BY <2>3, <3>1
  <2>5. g[m] = first
    BY <2>1
  <2>6. ASSUME NEW i \in m + 1 .. k PROVE g[i] = Step[i][g[i - 1]]
    <3>1. i - 1 \in m .. k - 1 /\ i \in m .. k /\ i - 1 \in m .. k /\ i - 1 # k
      BY <2>6
    <3>2. g[i - 1] = f[i - 1]
      BY <3>1
    <3>3. CASE i = k
      BY <3>1, <3>2, <3>3
    <3>4. CASE i # k
      <4>1. i \in m + 1 .. k - 1
        BY <2>6, <3>4
      <4>2. g[i] = f[i]
        BY <3>1, <3>4
      <4> QED BY <2>1, <3>2, <4>1, <4>2
    <3> QED BY <3>3, <3>4
  <2>7. k \in m .. n
    OBVIOUS
  <2>8. Upto(k, g)
    BY <2>5, <2>6
  <2> HIDE DEF g, Upto
  <2> QED BY <2>4, <2>7, <2>8
<1>3. m .. n \subseteq T
  <2>1. \A i \in m .. n : i # m /\ i - 1 \in T => i \in T
    <3> HIDE DEF T
    <3> QED BY <1>2
  <2> HIDE DEF T
  <2> QED BY <1>1, <2>1, IntervalInduction
<1>4. n \in T
  BY <1>3
<1>5. PICK f \in [m .. n -> S] : Upto(n, f)
  BY <1>4
<1>6. \A i \in m .. n : i # m => f[i] = Step[i][f[i - 1]]
  BY <1>5
<1> QED BY <1>5, <1>6 DEF Iterates
-----------------------------------------------------------------------------
(* The recursive functions of the model. *)

\* Total is the last of the partial sums.
LEMMA PartialSums ==
    ASSUME NEW sizes \in Seq(Int)
    PROVE  \E f \in [0 .. Len(sizes) -> Int] :
              /\ f[0] = 0 /\ \A i \in 1 .. Len(sizes) : f[i] = f[i - 1] + sizes[i]
              /\ Total(sizes) = f[Len(sizes)]
<1> DEFINE n == Len(sizes)
           Step == [i \in 0 .. n |-> [a \in Int |-> IF i = 0 THEN a ELSE a + sizes[i]]]
           Sums(g) == g = [i \in 0 .. n |-> IF i = 0 THEN 0 ELSE g[i - 1] + sizes[i]]
<1>1. n \in Nat /\ n \in Int /\ 0 \in Int /\ 0 <= n /\ \A i \in 1 .. n : sizes[i] \in Int
  OBVIOUS
<1>2. Step \in [0 .. n -> [Int -> Int]]
  BY <1>1
<1> HIDE DEF n
<1>3. PICK f \in [0 .. n -> Int] : f[0] = 0 /\ \A i \in 0 .. n : i # 0 => f[i] = Step[i][f[i - 1]]
  <2> HIDE DEF Step
  <2>1. \E f : Iterates(f, Int, 0, n, 0, Step)
    BY <1>1, <1>2, Iteration, Zenon
  <2> QED BY <2>1 DEF Iterates
<1>4. ASSUME NEW i \in 1 .. n PROVE f[i] = f[i - 1] + sizes[i]
  <2>1. f[i - 1] \in Int /\ i \in 0 .. n /\ i # 0
    BY <1>1, <1>3
  <2> QED BY <1>3, <2>1
<1>5. Sums(f)
  <2>1. ASSUME NEW i \in 0 .. n PROVE f[i] = IF i = 0 THEN 0 ELSE f[i - 1] + sizes[i]
    BY <1>1, <1>3, <1>4
  <2> QED BY <2>1
<1> DEFINE g == CHOOSE g : Sums(g)
<1>6. Sums(g)
  BY <1>5
<1>7. Total(sizes) = g[n]
  BY DEF Total, n
<1> HIDE DEF g
<1>8. g[0] = 0 /\ \A i \in 1 .. n : g[i] = g[i - 1] + sizes[i]
  BY <1>1, <1>6
<1> DEFINE T == {i \in 0 .. n : g[i] = f[i]}
<1>9. 0 .. n \subseteq T
  <2>1. 0 \in T
    BY <1>1, <1>3, <1>8
  <2>2. \A i \in 0 .. n : i # 0 /\ i - 1 \in T => i \in T
    BY <1>1, <1>4, <1>8
  <2> HIDE DEF T
  <2> QED BY <1>1, <2>1, <2>2, IntervalInduction, Zenon
<1>10. Total(sizes) = f[n]
  BY <1>1, <1>7, <1>9
<1> QED BY <1>3, <1>4, <1>10 DEF n

LEMMA TotalType == ASSUME NEW sizes \in Seq(Int) PROVE Total(sizes) \in Int
<1>1. PICK f \in [0 .. Len(sizes) -> Int] : Total(sizes) = f[Len(sizes)]
  BY PartialSums
<1> QED BY <1>1

\* A sequence concatenated from sequences over a set is one over that set.
LEMMA FlattenType ==
    ASSUME NEW M, NEW seqs \in Seq(Seq(M))
    PROVE  FlattenSeq(seqs) \in Seq(M)
<1> DEFINE n == Len(seqs)
           Step == [i \in 1 .. n |-> [a \in Seq(M) |-> a \o seqs[i]]]
           Flat(g) == g = [i \in 1 .. n |-> IF i = 1 THEN seqs[i] ELSE g[i - 1] \o seqs[i]]
<1>0. CASE n = 0
  BY <1>0 DEF FlattenSeq
<1>1. CASE n # 0
  <2>1. n \in Nat /\ n \in Int /\ 1 \in Int /\ 1 <= n /\ \A i \in 1 .. n : seqs[i] \in Seq(M)
    BY <1>1
  <2>2. Step \in [1 .. n -> [Seq(M) -> Seq(M)]]
    BY <2>1
  <2>3. seqs[1] \in Seq(M)
    BY <2>1
  <2>4. FlattenSeq(seqs) = (CHOOSE g : Flat(g))[n]
    BY <1>1 DEF FlattenSeq
  <2> HIDE DEF n
  <2>5. PICK f \in [1 .. n -> Seq(M)] : f[1] = seqs[1] /\ \A i \in 1 .. n : i # 1 => f[i] = Step[i][f[i - 1]]
    <3> HIDE DEF Step
    <3>1. \E f : Iterates(f, Seq(M), 1, n, seqs[1], Step)
      BY <2>1, <2>2, <2>3, Iteration, Zenon
    <3> QED BY <3>1 DEF Iterates
  <2>6. ASSUME NEW i \in 1 .. n, i # 1 PROVE f[i] = f[i - 1] \o seqs[i]
    <3>1. f[i - 1] \in Seq(M)
      BY <2>1, <2>5, <2>6
    <3> QED BY <2>5, <2>6, <3>1
  <2>7. Flat(f)
    <3>1. ASSUME NEW i \in 1 .. n PROVE f[i] = IF i = 1 THEN seqs[i] ELSE f[i - 1] \o seqs[i]
      BY <2>1, <2>5, <2>6
    <3> QED BY <3>1
  <2> DEFINE g == CHOOSE g : Flat(g)
  <2>8. Flat(g)
    BY <2>7
  <2> HIDE DEF g
  <2>9. g[1] = seqs[1] /\ \A i \in 1 .. n : i # 1 => g[i] = g[i - 1] \o seqs[i]
    <3>1. ASSUME NEW i \in 1 .. n PROVE g[i] = IF i = 1 THEN seqs[i] ELSE g[i - 1] \o seqs[i]
      BY <2>8, Zenon
    <3>2. 1 \in 1 .. n
      BY <2>1
    <3> QED BY <3>1, <3>2, Zenon
  <2> DEFINE T == {i \in 1 .. n : g[i] \in Seq(M)}
  <2>10. 1 .. n \subseteq T
    <3>1. 1 \in T
      BY <2>1, <2>3, <2>9
    <3>2. ASSUME NEW i \in 1 .. n, i # 1, i - 1 \in T PROVE i \in T
      <4>1. g[i] = g[i - 1] \o seqs[i] /\ g[i - 1] \in Seq(M) /\ seqs[i] \in Seq(M) /\ i \in 1 .. n
        BY <2>1, <2>9, <3>2
      <4>2. g[i - 1] \o seqs[i] \in Seq(M)
        BY <4>1
      <4> QED BY <4>1, <4>2, Zenon
    <3> HIDE DEF T
    <3>3. \A i \in 1 .. n : i # 1 /\ i - 1 \in T => i \in T
      BY <3>2
    <3> QED BY <2>1, <3>1, <3>3, IntervalInduction, Zenon
  <2>11. n \in 1 .. n
    BY <2>1
  <2>12. g[n] \in Seq(M)
    BY <2>10, <2>11, Zenon
  <2> QED BY <2>4, <2>12, Zenon DEF g
<1> QED BY <1>0, <1>1
-----------------------------------------------------------------------------
(* Arithmetic of the sizes. *)

\* A sum that did not saturate is exact.
LEMMA SaturatingAdd ==
    ASSUME NEW a \in Nat, NEW b \in Nat
    PROVE  /\ saturatingSizeAdd(a, b) \in 0 .. MaxInt
           /\ saturatingSizeAdd(a, b) < MaxInt => saturatingSizeAdd(a, b) = a + b
           /\ a + b <= MaxInt => saturatingSizeAdd(a, b) = a + b
BY SizeAssumption DEF saturatingSizeAdd

LEMMA SaturatingMultiply ==
    ASSUME NEW a \in Nat
    PROVE  /\ saturatingSizeMultiply(a, 3) \in 0 .. MaxInt
           /\ saturatingSizeMultiply(a, 3) < MaxInt => saturatingSizeMultiply(a, 3) = a * 3
           /\ saturatingSizeMultiply(a, 4) \in 0 .. MaxInt
           /\ \A b \in Nat : a <= b => saturatingSizeMultiply(a, 4) <= saturatingSizeMultiply(b, 4)
BY SizeAssumption DEF saturatingSizeMultiply

LEMMA Base64Monotone ==
    ASSUME NEW a \in Nat, NEW b \in Nat, a <= b
    PROVE  /\ base64EncodedLength(a) \in Nat /\ base64EncodedLength(b) \in Nat
           /\ base64EncodedLength(a) <= base64EncodedLength(b)
<1> DEFINE x == saturatingSizeAdd(a, 2) \div 3
           y == saturatingSizeAdd(b, 2) \div 3
<1>1. /\ saturatingSizeAdd(a, 2) \in Nat /\ saturatingSizeAdd(b, 2) \in Nat
      /\ saturatingSizeAdd(a, 2) <= saturatingSizeAdd(b, 2)
  BY SizeAssumption DEF saturatingSizeAdd
<1>2. x \in Nat /\ y \in Nat /\ x <= y
  BY <1>1
<1> HIDE DEF x, y
<1>3. /\ saturatingSizeMultiply(x, 4) \in Nat /\ saturatingSizeMultiply(y, 4) \in Nat
      /\ saturatingSizeMultiply(x, 4) <= saturatingSizeMultiply(y, 4)
  BY <1>2, SaturatingMultiply
<1> QED BY <1>3 DEF base64EncodedLength, x, y

LEMMA MaxOfTwo ==
    ASSUME NEW a \in Int, NEW b \in Int
    PROVE  Max({a, b}) \in {a, b} /\ Max({a, b}) >= a /\ Max({a, b}) >= b
<1>1. \E x \in {a, b} : \A y \in {a, b} : x >= y
  OBVIOUS
<1> QED BY <1>1 DEF Max

\* No length is larger than the sum, and the sum is larger where the lengths are.
LEMMA TotalBounds ==
    ASSUME NEW sizes \in Seq(Nat)
    PROVE  Total(sizes) \in Nat /\ \A i \in 1 .. Len(sizes) : sizes[i] <= Total(sizes)
<1> DEFINE n == Len(sizes)
<1>1. n \in Int /\ n \in Nat /\ 0 \in Int /\ sizes \in Seq(Int) /\ \A i \in 1 .. n : sizes[i] \in Nat
  OBVIOUS
<1>2. PICK f \in [0 .. n -> Int] :
         /\ f[0] = 0 /\ \A i \in 1 .. n : f[i] = f[i - 1] + sizes[i]
         /\ Total(sizes) = f[n]
  BY <1>1, PartialSums
<1> HIDE DEF n
<1> DEFINE T == {k \in 0 .. n : f[k] >= 0 /\ \A i \in 1 .. k : sizes[i] <= f[k]}
<1>3. 0 \in T
  BY <1>1, <1>2
<1>4. ASSUME NEW k \in 0 .. n, k # 0, k - 1 \in T PROVE k \in T
  <2>1. /\ f[k] = f[k - 1] + sizes[k] /\ sizes[k] \in Nat /\ f[k - 1] \in Int /\ f[k - 1] >= 0
        /\ \A i \in 1 .. k - 1 : sizes[i] <= f[k - 1]
    BY <1>1, <1>2, <1>4
  <2>2. ASSUME NEW i \in 1 .. k PROVE sizes[i] <= f[k]
    <3>1. CASE i = k
      BY <2>1, <3>1
    <3>2. CASE i # k
      <4>1. i \in 1 .. k - 1 /\ i \in 1 .. n
        BY <1>1, <2>2, <3>2
      <4>2. sizes[i] <= f[k - 1] /\ sizes[i] \in Nat
        BY <1>1, <2>1, <4>1
      <4> QED BY <2>1, <4>2
    <3> QED BY <3>1, <3>2
  <2> QED BY <2>1, <2>2
<1>5. \A k \in 0 .. n : k # 0 /\ k - 1 \in T => k \in T
  <2> HIDE DEF T
  <2> QED BY <1>4
<1>6. 0 .. n \subseteq T
  <2> HIDE DEF T
  <2> QED BY <1>1, <1>3, <1>5, IntervalInduction, Zenon
<1>7. n \in T
  BY <1>1, <1>6
<1> QED BY <1>1, <1>2, <1>7 DEF n

LEMMA TotalMonotone ==
    ASSUME NEW a \in Seq(Nat), NEW b \in Seq(Nat), Len(a) = Len(b)
    PROVE  /\ (\A i \in 1 .. Len(a) : a[i] <= b[i]) => Total(a) <= Total(b)
           /\ (\A i \in 1 .. Len(a) : a[i] <= 2 * b[i]) => Total(a) <= 2 * Total(b)
<1> DEFINE n == Len(a)
<1>1. /\ n \in Int /\ n \in Nat /\ 0 \in Int /\ n = Len(b) /\ a \in Seq(Int) /\ b \in Seq(Int)
      /\ \A i \in 1 .. n : a[i] \in Nat /\ b[i] \in Nat
  OBVIOUS
<1>2. PICK f \in [0 .. n -> Int] :
         f[0] = 0 /\ (\A i \in 1 .. n : f[i] = f[i - 1] + a[i]) /\ Total(a) = f[n]
  BY <1>1, PartialSums
<1>3. PICK g \in [0 .. n -> Int] :
         g[0] = 0 /\ (\A i \in 1 .. n : g[i] = g[i - 1] + b[i]) /\ Total(b) = g[n]
  BY <1>1, PartialSums
<1> HIDE DEF n
<1>4. ASSUME \A i \in 1 .. n : a[i] <= b[i] PROVE Total(a) <= Total(b)
  <2> DEFINE T == {k \in 0 .. n : f[k] <= g[k]}
  <2>1. 0 \in T
    BY <1>1, <1>2, <1>3
  <2>2. ASSUME NEW k \in 0 .. n, k # 0, k - 1 \in T PROVE k \in T
    <3>0. k \in 1 .. n /\ k - 1 \in 0 .. n
      BY <1>1, <2>2
    <3>1. /\ k \in 1 .. n /\ f[k] \in Int /\ f[k - 1] \in Int
          /\ g[k] \in Int /\ g[k - 1] \in Int /\ a[k] \in Nat /\ b[k] \in Nat
      BY <1>1, <1>2, <1>3, <3>0
    <3>2. /\ f[k] = f[k - 1] + a[k] /\ g[k] = g[k - 1] + b[k]
          /\ a[k] <= b[k] /\ f[k - 1] <= g[k - 1]
      BY <1>2, <1>3, <1>4, <2>2, <3>1
    <3>3. f[k] <= g[k]
      BY <1>1, <3>0, <3>1, <3>2
    <3> QED BY <2>2, <3>3
  <2>3. 0 .. n \subseteq T
    <3> HIDE DEF T
    <3>1. \A k \in 0 .. n : k # 0 /\ k - 1 \in T => k \in T
      BY <2>2
    <3> QED BY <1>1, <2>1, <3>1, IntervalInduction, Zenon
  <2> QED BY <1>1, <1>2, <1>3, <2>3
<1>5. ASSUME \A i \in 1 .. n : a[i] <= 2 * b[i] PROVE Total(a) <= 2 * Total(b)
  <2> DEFINE T == {k \in 0 .. n : f[k] <= 2 * g[k]}
  <2>1. 0 \in T
    BY <1>1, <1>2, <1>3
  <2>2. ASSUME NEW k \in 0 .. n, k # 0, k - 1 \in T PROVE k \in T
    <3>0. k \in 1 .. n /\ k - 1 \in 0 .. n
      BY <1>1, <2>2
    <3>1. /\ k \in 1 .. n /\ f[k] \in Int /\ f[k - 1] \in Int
          /\ g[k] \in Int /\ g[k - 1] \in Int /\ a[k] \in Nat /\ b[k] \in Nat
      BY <1>1, <1>2, <1>3, <3>0
    <3>2. /\ f[k] = f[k - 1] + a[k] /\ g[k] = g[k - 1] + b[k]
          /\ a[k] <= 2 * b[k] /\ f[k - 1] <= 2 * g[k - 1]
      BY <1>2, <1>3, <1>5, <2>2, <3>1
    <3>3. f[k] <= 2 * g[k]
      <4>1. \A x, y, u, v \in Int : x <= 2 * y /\ u <= 2 * v => x + u <= 2 * (y + v)
        OBVIOUS
      <4>2. a[k] \in Int /\ b[k] \in Int
        BY <3>1
      <4>3. f[k - 1] + a[k] <= 2 * (g[k - 1] + b[k])
        BY <3>1, <3>2, <4>1, <4>2, Zenon
      <4> QED BY <3>2, <4>3, Zenon
    <3> QED BY <2>2, <3>3
  <2>3. 0 .. n \subseteq T
    <3> HIDE DEF T
    <3>1. \A k \in 0 .. n : k # 0 /\ k - 1 \in T => k \in T
      BY <2>2
    <3> QED BY <1>1, <2>1, <3>1, IntervalInduction, Zenon
  <2> QED BY <1>1, <1>2, <1>3, <2>3
<1> QED BY <1>4, <1>5 DEF n

LEMMA OneMore ==
    ASSUME NEW S, IsFiniteSet(S), NEW k \in Nat, Cardinality(S) <= k, NEW x
    PROVE  IsFiniteSet(S \cup {x}) /\ Cardinality(S \cup {x}) <= k + 1
<1>1. Cardinality(S) \in Nat
  BY FS_CardinalityType
<1>2. IsFiniteSet(S \cup {x}) /\ Cardinality(S \cup {x}) \in {Cardinality(S), Cardinality(S) + 1}
  BY FS_AddElement
<1> QED BY <1>1, <1>2

LEMMA FlagBound ==
    ASSUME NEW flags \in SUBSET {"bs", "sf", "tr", "req"}
    PROVE  FlagBytes(flags) \in 0 .. 13
<1> DEFINE All == {"bs", "sf", "tr", "req"}
<1>1. IsFiniteSet(All) /\ Cardinality(All) <= 4
  <2>1. IsFiniteSet({"bs"}) /\ Cardinality({"bs"}) = 1
    BY FS_Singleton
  <2> DEFINE S2 == {"bs"} \cup {"sf"}
             S3 == S2 \cup {"tr"}
             S4 == S3 \cup {"req"}
  <2>2. IsFiniteSet(S2) /\ Cardinality(S2) <= 2
    BY <2>1, OneMore
  <2> HIDE DEF S2
  <2>3. IsFiniteSet(S3) /\ Cardinality(S3) <= 3
    <3>1. 2 \in Nat /\ 2 + 1 = 3
      OBVIOUS
    <3>2. IsFiniteSet(S2 \cup {"tr"}) /\ Cardinality(S2 \cup {"tr"}) <= 2 + 1
      BY <2>2, <3>1, OneMore, Zenon
    <3> QED BY <3>1, <3>2
  <2> HIDE DEF S3
  <2>4. IsFiniteSet(S4) /\ Cardinality(S4) <= 4
    BY <2>3, OneMore
  <2>5. All = S4
    BY DEF S2, S3
  <2> HIDE DEF S4, All
  <2> QED BY <2>4, <2>5
<1>2. Cardinality(flags) \in Nat /\ Cardinality(flags) <= Cardinality(All) /\ Cardinality(All) \in Nat
  BY <1>1, FS_Subset, FS_CardinalityType
<1> HIDE DEF All
<1> QED BY <1>1, <1>2 DEF FlagBytes

\* The length of a component identifier, and of what frames it.
LEMMA ItemBound ==
    ASSUME NEW c \in Components
    PROVE  structuredItemUpperBound(c) \in Nat /\ fixedBytes(c) = structuredItemUpperBound(c) + 3
<1>1. NameBytes[c.name] \in 0 .. MaxInt - 35 /\ MaxInt \in Nat
  BY CallAssumption, SizeAssumption DEF Components
<1>2. FlagBytes(c.flags) \in 0 .. 13
  BY FlagBound DEF Components
<1> DEFINE rest == FlagBytes(c.flags) + (IF c.key = 0 THEN 0 ELSE 8) + (IF c.named THEN 9 ELSE 0)
<1>3. rest \in 0 .. 30
  BY <1>2
<1> HIDE DEF rest
<1>4. saturatingSizeAdd(2 + NameBytes[c.name], rest) = 2 + NameBytes[c.name] + rest
  BY <1>1, <1>3 DEF saturatingSizeAdd
<1>5. /\ structuredItemUpperBound(c) = 2 + NameBytes[c.name] + rest
      /\ structuredItemUpperBound(c) \in Nat /\ structuredItemUpperBound(c) + 3 <= MaxInt
  BY <1>1, <1>3, <1>4 DEF structuredItemUpperBound, rest
<1> QED BY <1>1, <1>5, SaturatingAdd DEF fixedBytes

LEMMA ListType == ASSUME NEW components \in Seq(Components) PROVE ListBytes(components) \in Nat
<1> DEFINE sizes == [i \in 1 .. Len(components) |-> structuredItemUpperBound(components[i])]
<1>1. ASSUME NEW i \in 1 .. Len(components) PROVE structuredItemUpperBound(components[i]) \in Nat
  BY ItemBound
<1>2. sizes \in Seq(Nat)
  BY <1>1
<1>3. Total(sizes) \in Nat
  <2> HIDE DEF sizes
  <2> QED BY <1>2, TotalBounds
<1> HIDE DEF sizes
<1>4. 2 + Total(sizes) + (IF Len(components) = 0 THEN 0 ELSE Len(components) - 1) \in Nat
  BY <1>3
<1> QED BY <1>4 DEF ListBytes, sizes
-----------------------------------------------------------------------------
(* What a field resolves to, within the budget its raw values fit. *)

FieldValue ==
    {v \in Values : /\ Len(v.members) > 0 /\ v.gap > 0
                    /\ \A j \in DOMAIN v.members : v.members[j].value <= 3 * v.members[j].bytes}

LEMMA Element == ASSUME NEW M, NEW s \in Seq(M), NEW i \in 1 .. Len(s) PROVE s[i] \in M
OBVIOUS

LEMMA Narrowed ==
    ASSUME NEW M, NEW P, NEW s \in Seq(M), \A i \in 1 .. Len(s) : s[i] \in P
    PROVE  s \in Seq(P)
OBVIOUS

\* Normalizing shortens a value, a comma and a space double it at most, and a member's
\* serialization is three times the value at most.
LEMMA ValueBounds ==
    ASSUME NEW v \in FieldValue
    PROVE  /\ NormalBytes(v) \in Nat /\ RawBytes(v) \in Nat /\ NormalBytes(v) <= RawBytes(v)
           /\ MemberBytes(v) + 2 * (Len(v.members) - 1) \in Nat
           /\ MemberBytes(v) + 2 * (Len(v.members) - 1) <= 2 * RawBytes(v)
           /\ \A j \in 1 .. Len(v.members) : v.members[j].value <= 3 * RawBytes(v)
<1> DEFINE n == Len(v.members)
           sizes == [i \in 1 .. n |-> v.members[i].bytes]
<1>1. /\ v.members \in Seq([bytes : Nat, value : Nat]) /\ v.gap \in Nat /\ v.pad \in Nat
      /\ n > 0 /\ v.gap > 0 /\ n \in Nat
      /\ \A j \in 1 .. n : v.members[j].value <= 3 * v.members[j].bytes
  BY DEF FieldValue, Values
<1>2. ASSUME NEW i \in 1 .. n PROVE v.members[i].bytes \in Nat /\ v.members[i].value \in Nat
  <2>1. v.members[i] \in [bytes : Nat, value : Nat]
    BY <1>1, <1>2, Element, Zenon DEF n
  <2> QED BY <2>1
<1> HIDE DEF n
<1>3. sizes \in Seq(Nat) /\ Len(sizes) = n
  BY <1>1, <1>2
<1>4. MemberBytes(v) = Total(sizes)
  BY DEF MemberBytes, n
<1>5. Total(sizes) \in Nat /\ \A i \in 1 .. n : sizes[i] <= Total(sizes)
  <2> HIDE DEF sizes
  <2> QED BY <1>3, TotalBounds
<1>6. MemberBytes(v) \in Nat /\ \A i \in 1 .. n : v.members[i].bytes <= MemberBytes(v)
  BY <1>4, <1>5
<1> HIDE DEF sizes
<1> DEFINE gaps == (n - 1) * v.gap
<1>7. gaps \in Nat /\ gaps >= n - 1
  <2>1. \A x, g \in Nat : g > 0 => x * g \in Nat /\ x * g >= x
    OBVIOUS
  <2>2. n - 1 \in Nat
    BY <1>1
  <2> QED BY <1>1, <2>1, <2>2
<1> HIDE DEF gaps
<1>8. NormalBytes(v) = MemberBytes(v) + gaps
  BY DEF NormalBytes, gaps, n
<1>9. /\ NormalBytes(v) \in Nat /\ RawBytes(v) \in Nat /\ NormalBytes(v) <= RawBytes(v)
      /\ MemberBytes(v) + (n - 1) <= RawBytes(v)
  BY <1>1, <1>6, <1>7, <1>8 DEF RawBytes
<1>10. /\ MemberBytes(v) + 2 * (n - 1) \in Nat
       /\ MemberBytes(v) + 2 * (n - 1) <= 2 * RawBytes(v)
  BY <1>1, <1>6, <1>9
<1>11. ASSUME NEW j \in 1 .. n PROVE v.members[j].value <= 3 * RawBytes(v)
  <2>1. v.members[j].bytes <= RawBytes(v)
    BY <1>1, <1>2, <1>6, <1>9
  <2>2. /\ v.members[j].value \in Nat /\ v.members[j].bytes \in Nat
        /\ v.members[j].value <= 3 * v.members[j].bytes
    BY <1>1, <1>2, <1>11
  <2> QED BY <1>9, <2>1, <2>2
<1> QED BY <1>9, <1>10, <1>11 DEF n

Raw(values)    == [i \in 1 .. Len(values) |-> RawBytes(values[i])]
Normal(values) == [i \in 1 .. Len(values) |-> NormalBytes(values[i])]
Strict(values) == [i \in 1 .. Len(values) |-> MemberBytes(values[i]) + 2 * (Len(values[i].members) - 1)]

LEMMA SizeSequences ==
    ASSUME NEW values \in Seq(FieldValue)
    PROVE  /\ Raw(values) \in Seq(Nat) /\ Len(Raw(values)) = Len(values)
           /\ Normal(values) \in Seq(Nat) /\ Len(Normal(values)) = Len(values)
           /\ Strict(values) \in Seq(Nat) /\ Len(Strict(values)) = Len(values)
<1>1. ASSUME NEW i \in 1 .. Len(values)
      PROVE  /\ RawBytes(values[i]) \in Nat /\ NormalBytes(values[i]) \in Nat
             /\ MemberBytes(values[i]) + 2 * (Len(values[i].members) - 1) \in Nat
  <2>1. values[i] \in FieldValue
    OBVIOUS
  <2> QED BY <2>1, ValueBounds
<1>2. Raw(values) \in Seq(Nat) /\ Len(Raw(values)) = Len(values)
  BY <1>1 DEF Raw
<1>3. Normal(values) \in Seq(Nat) /\ Len(Normal(values)) = Len(values)
  BY <1>1 DEF Normal
<1>4. Strict(values) \in Seq(Nat) /\ Len(Strict(values)) = Len(values)
  BY <1>1 DEF Strict
<1> QED BY <1>2, <1>3, <1>4

\* Joined, strictly serialized and selected values of a field whose raw values fit.
LEMMA PlainFieldBound ==
    ASSUME NEW values \in Seq(FieldValue), Len(values) > 0, NEW max \in Int,
           fieldValuesFit(values, FALSE, max)
    PROVE  /\ Joined(Normal(values)) \in Nat /\ Joined(Normal(values)) <= max
           /\ StrictBytes(values) \in Nat /\ StrictBytes(values) <= 3 * max
           /\ \A k \in DOMAIN AllMembers(values) :
                 AllMembers(values)[k].value \in Nat /\ AllMembers(values)[k].value <= 3 * max
<1> DEFINE n == Len(values)
           R == Total(Raw(values))
           N == Total(Normal(values))
           S == Total(Strict(values))
<1>1. n \in Nat /\ n > 0 /\ \A i \in 1 .. n : values[i] \in FieldValue
  OBVIOUS
<1>2. max >= 0 /\ R + 2 * (n - 1) <= max
  BY SizeSequences DEF fieldValuesFit, Joined, Raw
<1>3. R \in Nat /\ N \in Nat /\ S \in Nat /\ \A i \in 1 .. n : Raw(values)[i] <= R
  BY SizeSequences, TotalBounds
<1>4. N <= R
  <2>1. \A i \in 1 .. n : Normal(values)[i] <= Raw(values)[i]
    BY <1>1, ValueBounds DEF Normal, Raw
  <2> QED BY <2>1, SizeSequences, TotalMonotone
<1>5. S <= 2 * R
  <2>1. \A i \in 1 .. n : Strict(values)[i] <= 2 * Raw(values)[i]
    BY <1>1, ValueBounds DEF Strict, Raw
  <2> QED BY <2>1, SizeSequences, TotalMonotone
<1>6. Joined(Normal(values)) = N + 2 * (n - 1) /\ StrictBytes(values) = S + 2 * (n - 1)
  BY SizeSequences DEF Joined, StrictBytes, Strict
<1>7. \A i \in 1 .. n : RawBytes(values[i]) \in Nat /\ RawBytes(values[i]) <= R
  BY <1>1, <1>3, ValueBounds DEF Raw
<1> HIDE DEF n, R, N, S
<1>8. /\ Joined(Normal(values)) \in Nat /\ Joined(Normal(values)) <= max
      /\ StrictBytes(values) \in Nat /\ StrictBytes(values) <= 3 * max
  BY <1>1, <1>2, <1>3, <1>4, <1>5, <1>6
<1>9. ASSUME NEW k \in DOMAIN AllMembers(values)
      PROVE  AllMembers(values)[k].value \in Nat /\ AllMembers(values)[k].value <= 3 * max
  <2> DEFINE M == {x \in [bytes : Nat, value : Nat] : x.value <= 3 * R}
             seqs == [i \in 1 .. Len(values) |-> values[i].members]
  <2>1. ASSUME NEW i \in 1 .. n PROVE values[i].members \in Seq(M)
    <3>1. values[i] \in FieldValue /\ values[i].members \in Seq([bytes : Nat, value : Nat])
      BY <1>1, <2>1 DEF FieldValue, Values
    <3>2. ASSUME NEW j \in 1 .. Len(values[i].members) PROVE values[i].members[j] \in M
      <4>1. values[i].members[j] \in [bytes : Nat, value : Nat]
        BY <3>1, <3>2, Element, Zenon
      <4>2. values[i].members[j].value <= 3 * RawBytes(values[i]) /\ values[i].members[j].value \in Nat
        BY <3>1, <4>1, ValueBounds
      <4>3. values[i].members[j].value <= 3 * R
        BY <1>3, <1>7, <4>2
      <4> QED BY <4>1, <4>3
    <3> HIDE DEF M
    <3>3. \A j \in 1 .. Len(values[i].members) : values[i].members[j] \in M
      BY <3>2
    <3> DEFINE s == values[i].members
               Rec == [bytes : Nat, value : Nat]
    <3>4. s \in Seq(Rec) /\ \A j \in 1 .. Len(s) : s[j] \in M
      BY <3>1, <3>3
    <3>5. s \in Seq(M)
      <4> HIDE DEF s, Rec
      <4> QED BY <3>4, Narrowed
    <3> QED BY <3>5
  <2>2. seqs \in Seq(Seq(M))
    <3> HIDE DEF M
    <3> QED BY <1>1, <2>1 DEF n
  <2>3. AllMembers(values) \in Seq(M)
    <3>1. FlattenSeq(seqs) \in Seq(M)
      <4> HIDE DEF seqs, M
      <4> QED BY <2>2, FlattenType
    <3> QED BY <3>1 DEF AllMembers
  <2>4. AllMembers(values)[k] \in M
    <3> HIDE DEF M
    <3> QED BY <1>9, <2>3
  <2> QED BY <1>1, <1>2, <1>3, <2>4
<1> QED BY <1>8, <1>9

Encoded(values) ==
    [i \in 1 .. Len(values) |-> saturatingSizeAdd(base64EncodedLength(RawBytes(values[i])), 2)]
Binary(values)  == [i \in 1 .. Len(values) |-> base64EncodedLength(NormalBytes(values[i])) + 2]

\* The byte sequences of a field whose raw values fit, encoded.
LEMMA BinaryFieldBound ==
    ASSUME NEW values \in Seq(FieldValue), Len(values) > 0, NEW max \in Int, max < MaxInt,
           fieldValuesFit(values, TRUE, max)
    PROVE  Joined(Binary(values)) \in Nat /\ Joined(Binary(values)) <= max
<1> DEFINE n == Len(values)
           E == Total(Encoded(values))
           B == Total(Binary(values))
<1>1. n \in Nat /\ n > 0 /\ \A i \in 1 .. n : values[i] \in FieldValue
  OBVIOUS
<1>2. ASSUME NEW i \in 1 .. n
      PROVE  /\ base64EncodedLength(RawBytes(values[i])) \in Nat
             /\ base64EncodedLength(NormalBytes(values[i])) \in Nat
             /\ base64EncodedLength(NormalBytes(values[i])) <= base64EncodedLength(RawBytes(values[i]))
             /\ saturatingSizeAdd(base64EncodedLength(RawBytes(values[i])), 2) \in Nat
  <2>1. /\ RawBytes(values[i]) \in Nat /\ NormalBytes(values[i]) \in Nat
        /\ NormalBytes(values[i]) <= RawBytes(values[i])
    BY <1>1, <1>2, ValueBounds
  <2>2. /\ base64EncodedLength(RawBytes(values[i])) \in Nat
        /\ base64EncodedLength(NormalBytes(values[i])) \in Nat
        /\ base64EncodedLength(NormalBytes(values[i])) <= base64EncodedLength(RawBytes(values[i]))
    BY <2>1, Base64Monotone
  <2> QED BY <2>2, SizeAssumption DEF saturatingSizeAdd
<1>3. Encoded(values) \in Seq(Nat) /\ Len(Encoded(values)) = n
  BY <1>1, <1>2 DEF Encoded
<1>4. Binary(values) \in Seq(Nat) /\ Len(Binary(values)) = n
  BY <1>1, <1>2 DEF Binary
<1>5. E + 2 * (n - 1) <= max
  BY <1>3 DEF fieldValuesFit, Joined, Encoded
<1>6. E \in Nat /\ B \in Nat /\ \A i \in 1 .. n : Encoded(values)[i] <= E
  BY <1>3, <1>4, TotalBounds
<1>7. E < MaxInt /\ MaxInt \in Nat
  <2> HIDE DEF n, E
  <2> QED BY <1>1, <1>5, <1>6, SizeAssumption
<1>8. ASSUME NEW i \in 1 .. n PROVE Binary(values)[i] <= Encoded(values)[i]
  <2>1. /\ Encoded(values)[i] = saturatingSizeAdd(base64EncodedLength(RawBytes(values[i])), 2)
        /\ Binary(values)[i] = base64EncodedLength(NormalBytes(values[i])) + 2
    BY <1>8 DEF Encoded, Binary
  <2>2. Encoded(values)[i] < MaxInt
    <3>1. Encoded(values)[i] \in Nat /\ Encoded(values)[i] <= E
      BY <1>2, <1>6, <2>1
    <3> HIDE DEF E
    <3> QED BY <1>6, <1>7, <3>1
  <2>3. Encoded(values)[i] = base64EncodedLength(RawBytes(values[i])) + 2
    BY <1>2, <2>1, <2>2, SaturatingAdd
  <2> QED BY <1>2, <2>1, <2>3
<1>9. B <= E
  BY <1>3, <1>4, <1>8, TotalMonotone
<1>10. Joined(Binary(values)) = B + 2 * (n - 1)
  BY <1>4 DEF Joined
<1> HIDE DEF n, E, B
<1> QED BY <1>1, <1>5, <1>6, <1>9, <1>10
-----------------------------------------------------------------------------
(* What a derived component resolves to. *)

UrlShape(url) ==
    /\ url \in Urls /\ url.wellFormed
    /\ IF url.external \/ url.uri # 0
       THEN LET target == IF url.external THEN url.target ELSE url.uri
            IN  target > 0 /\ url.escaped + QueryBytes(url) <= 3 * target
       ELSE url.escaped <= 3 * (IF url.opaque = 0 THEN url.path ELSE url.opaque)

LEMMA UrlType ==
    ASSUME NEW url \in Urls
    PROVE  /\ url.target \in Nat /\ url.uri \in Nat /\ url.path \in Nat /\ url.rawPath \in Nat
           /\ url.query \in Nat /\ url.opaque \in Nat /\ url.scheme \in Nat /\ url.authority \in Nat
           /\ url.escaped \in Nat /\ url.matches \in Nat /\ url.parameter \in Nat
           /\ QueryBytes(url) \in Nat /\ QueryBytes(url) <= 1 + url.query
           /\ 1 + url.query <= QueryBytes(url) \/ url.query = 0
<1>1. url.query \in Nat
  BY DEF Urls
<1>2. QueryBytes(url) \in {0, 1 + url.query} /\ (url.query # 0 => QueryBytes(url) = 1 + url.query)
  BY Zenon DEF QueryBytes
<1>3. QueryBytes(url) \in Nat /\ QueryBytes(url) <= 1 + url.query /\ (1 + url.query <= QueryBytes(url) \/ url.query = 0)
  BY <1>1, <1>2
<1> QED BY <1>3 DEF Urls

\* A size of the target that did not saturate covers what is taken from it.
LEMMA SourceCovers ==
    ASSUME NEW url, UrlShape(url)
    PROVE  /\ TargetSource(url) \in Nat
           /\ TargetSource(url) < MaxInt =>
                /\ TargetSource(url) > 0
                /\ url.escaped + QueryBytes(url) <= 3 * TargetSource(url)
                /\ ~url.external /\ url.uri = 0 =>
                     IF url.opaque = 0 THEN /\ url.escaped + QueryBytes(url) <= TargetSource(url)
                                            /\ 1 + QueryBytes(url) <= TargetSource(url)
                     ELSE url.opaque + url.scheme + 1 + QueryBytes(url) <= TargetSource(url)
                /\ url.external => TargetSource(url) = url.target
                /\ ~url.external /\ url.uri # 0 => TargetSource(url) = url.uri
<1> USE UrlType DEF UrlShape
<1>1. CASE url.external
  BY <1>1 DEF TargetSource
<1>2. CASE ~url.external /\ url.uri # 0
  BY <1>2 DEF TargetSource
<1>3. CASE ~url.external /\ url.uri = 0
  <2> DEFINE q == saturatingSizeMultiply(url.query, 3)
             p == saturatingSizeMultiply(url.path, 3)
             p1 == saturatingSizeAdd(p, url.rawPath)
             p2 == saturatingSizeAdd(p1, q)
             plain == saturatingSizeAdd(p2, 2)
             o1 == saturatingSizeAdd(url.opaque, url.scheme)
             o2 == saturatingSizeAdd(o1, 2)
             opaque == saturatingSizeAdd(o2, q)
  <2>0. /\ MaxInt \in Nat /\ url.path \in Nat /\ url.rawPath \in Nat /\ url.query \in Nat
        /\ url.opaque \in Nat /\ url.scheme \in Nat /\ url.escaped \in Nat
        /\ QueryBytes(url) \in Nat /\ QueryBytes(url) <= 1 + url.query
        /\ url.escaped <= 3 * (IF url.opaque = 0 THEN url.path ELSE url.opaque)
    BY <1>3, SizeAssumption
  <2>1. /\ q \in Nat /\ p \in Nat /\ q <= MaxInt /\ p <= MaxInt
        /\ q < MaxInt => q = url.query * 3
        /\ p < MaxInt => p = url.path * 3
    BY <2>0, SaturatingMultiply
  <2>2. /\ p1 \in Nat /\ p1 <= MaxInt /\ (p1 < MaxInt => p1 = p + url.rawPath)
    <3> HIDE DEF p
    <3> QED BY <2>0, <2>1 DEF saturatingSizeAdd
  <2>3. /\ p2 \in Nat /\ p2 <= MaxInt /\ (p2 < MaxInt => p2 = p1 + q)
    <3> HIDE DEF p1, q
    <3> QED BY <2>0, <2>1, <2>2 DEF saturatingSizeAdd
  <2>4. /\ plain \in Nat /\ plain <= MaxInt /\ (plain < MaxInt => plain = p2 + 2)
    <3> HIDE DEF p2
    <3> QED BY <2>0, <2>3 DEF saturatingSizeAdd
  <2>5. /\ o1 \in Nat /\ o1 <= MaxInt /\ (o1 < MaxInt => o1 = url.opaque + url.scheme)
    BY <2>0 DEF saturatingSizeAdd
  <2>6. /\ o2 \in Nat /\ o2 <= MaxInt /\ (o2 < MaxInt => o2 = o1 + 2)
    <3> HIDE DEF o1
    <3> QED BY <2>0, <2>5 DEF saturatingSizeAdd
  <2>7. /\ opaque \in Nat /\ opaque <= MaxInt /\ (opaque < MaxInt => opaque = o2 + q)
    <3> HIDE DEF o2, q
    <3> QED BY <2>0, <2>1, <2>6 DEF saturatingSizeAdd
  <2>8. TargetSource(url) = IF url.opaque = 0 THEN plain ELSE Max({plain, opaque})
    BY <1>3 DEF TargetSource
  <2> HIDE DEF q, p, p1, p2, plain, o1, o2, opaque
  <2>9. plain < MaxInt =>
          /\ plain > 0 /\ 1 + QueryBytes(url) <= plain
          /\ url.opaque = 0 => url.escaped + QueryBytes(url) <= plain
    BY <2>0, <2>1, <2>2, <2>3, <2>4
  <2>10. opaque < MaxInt => url.opaque + url.scheme + 1 + QueryBytes(url) <= opaque
    BY <2>0, <2>1, <2>5, <2>6, <2>7
  <2>11. /\ TargetSource(url) \in Nat /\ plain <= TargetSource(url)
         /\ url.opaque # 0 => opaque <= TargetSource(url)
    <3>1. /\ Max({plain, opaque}) \in {plain, opaque}
          /\ Max({plain, opaque}) >= plain /\ Max({plain, opaque}) >= opaque
      <4>1. plain \in Int /\ opaque \in Int
        BY <2>4, <2>7
      <4> QED BY <4>1, MaxOfTwo, Zenon
    <3> QED BY <2>4, <2>7, <2>8, <3>1
  <2>12. ASSUME TargetSource(url) < MaxInt
         PROVE  /\ TargetSource(url) > 0
                /\ url.escaped + QueryBytes(url) <= 3 * TargetSource(url)
                /\ IF url.opaque = 0 THEN /\ url.escaped + QueryBytes(url) <= TargetSource(url)
                                          /\ 1 + QueryBytes(url) <= TargetSource(url)
                   ELSE url.opaque + url.scheme + 1 + QueryBytes(url) <= TargetSource(url)
    <3>1. CASE url.opaque = 0
      BY <2>0, <2>4, <2>9, <2>11, <2>12, <3>1
    <3>2. CASE url.opaque # 0
      BY <2>0, <2>4, <2>7, <2>9, <2>10, <2>11, <2>12, <3>2
    <3> QED BY <3>1, <3>2
  <2> QED BY <1>3, <2>11, <2>12
<1> QED BY <1>1, <1>2, <1>3

LEMMA DerivedBound ==
    ASSUME NEW url, UrlShape(url), NEW name \in DerivedNames, NEW max \in Int, 0 <= max, max < MaxInt,
           derivedSourceFits(url, name, max)
    PROVE  DerivedSize(url, name) \in Nat /\ DerivedSize(url, name) <= 3 * max
<1> DEFINE source == TargetSource(url)
<1>0. MaxInt \in Nat /\ url \in Urls
  BY SizeAssumption DEF UrlShape
<1>01. url.scheme \in Nat /\ url.authority \in Nat
  BY <1>0, UrlType
<1>1. source \in Nat /\ source <= max /\ url.scheme <= max /\ url.authority <= max
  BY SourceCovers DEF derivedSourceFits
<1>2. source < MaxInt
  <2> HIDE DEF source
  <2> QED BY <1>0, <1>1
<1>3. /\ source > 0 /\ url.escaped + QueryBytes(url) <= 3 * source
      /\ ~url.external /\ url.uri = 0 =>
           IF url.opaque = 0 THEN url.escaped + QueryBytes(url) <= source /\ 1 + QueryBytes(url) <= source
           ELSE url.opaque + url.scheme + 1 + QueryBytes(url) <= source
      /\ url.external => source = url.target
      /\ ~url.external /\ url.uri # 0 => source = url.uri
  BY <1>2, SourceCovers
<1>4. name = "@target-uri" => url.scheme + 3 + url.authority + source <= max
  <2> SUFFICES ASSUME name = "@target-uri" PROVE url.scheme + 3 + url.authority + source <= max
    OBVIOUS
  <2> DEFINE s1 == saturatingSizeAdd(url.scheme, 3)
             s2 == saturatingSizeAdd(s1, url.authority)
             s3 == saturatingSizeAdd(s2, source)
  <2>1. s3 <= max
    BY DEF derivedSourceFits
  <2> HIDE DEF source
  <2>2. s1 \in Nat /\ s1 <= MaxInt /\ (s1 < MaxInt => s1 = url.scheme + 3)
    BY <1>0, <1>01 DEF saturatingSizeAdd
  <2>3. s2 \in Nat /\ s2 <= MaxInt /\ (s2 < MaxInt => s2 = s1 + url.authority)
    <3> HIDE DEF s1
    <3> QED BY <1>0, <1>01, <2>2 DEF saturatingSizeAdd
  <2>4. s3 \in Nat /\ s3 <= MaxInt /\ (s3 < MaxInt => s3 = s2 + source)
    <3> HIDE DEF s2
    <3> QED BY <1>0, <1>1, <2>3 DEF saturatingSizeAdd
  <2> HIDE DEF s1, s2, s3
  <2> QED BY <1>0, <1>01, <1>1, <2>1, <2>2, <2>3, <2>4
<1>5. /\ url.query \in Nat /\ url.escaped \in Nat /\ url.scheme \in Nat /\ url.authority \in Nat
      /\ url.target \in Nat /\ url.uri \in Nat /\ url.opaque \in Nat
      /\ QueryBytes(url) \in Nat /\ (1 + url.query <= QueryBytes(url) \/ url.query = 0)
  BY <1>0, UrlType
<1> HIDE DEF source
<1>6. Max({url.escaped, 1}) \in {url.escaped, 1}
  <2>1. url.escaped \in Int /\ 1 \in Int
    BY <1>5
  <2> QED BY <2>1, MaxOfTwo, Zenon
<1>7. CASE name = "@target-uri"
  <2>1. DerivedSize(url, name) = url.scheme + 3 + url.authority + url.escaped + QueryBytes(url)
    BY <1>7 DEF DerivedSize
  <2> QED BY <1>1, <1>3, <1>4, <1>5, <1>7, <2>1
<1>8. CASE name = "@request-target"
  <2>1. DerivedSize(url, name) = IF url.external THEN url.target
                                 ELSE IF url.uri # 0 THEN url.uri ELSE RequestURI(url)
    BY <1>8 DEF DerivedSize
  <2>2. ASSUME ~url.external, url.uri = 0 PROVE RequestURI(url) \in Nat /\ RequestURI(url) <= source
    <3>1. CASE url.opaque = 0
      <4>1. RequestURI(url) = QueryBytes(url) + Max({url.escaped, 1})
        BY <3>1 DEF RequestURI
      <4> QED BY <1>1, <1>3, <1>5, <1>6, <2>2, <3>1, <4>1
    <3>2. CASE url.opaque # 0
      <4>1. \/ RequestURI(url) = QueryBytes(url) + (url.opaque + (url.scheme + 1))
            \/ RequestURI(url) = QueryBytes(url) + (url.opaque + 0)
        BY <3>2, Zenon DEF RequestURI
      <4> QED BY <1>1, <1>3, <1>5, <2>2, <3>2, <4>1
    <3> QED BY <3>1, <3>2
  <2> QED BY <1>1, <1>3, <1>5, <2>1, <2>2
<1>9. CASE name = "@path"
  BY <1>1, <1>3, <1>5, <1>6, <1>9 DEF DerivedSize
<1>10. CASE name \notin {"@target-uri", "@request-target", "@path"}
  BY <1>1, <1>3, <1>5, <1>10 DEF DerivedSize
<1> QED BY <1>7, <1>8, <1>9, <1>10
-----------------------------------------------------------------------------
(* The resolver. *)

Bounded(r, max) == r.why = "" => r.size \in Nat /\ (r.size <= 3 * max \/ r.size = 3)

\* A value is at most three times the budget, or a status code.
LEMMA ResolvedBound ==
    ASSUME NEW k \in Calls, NEW c \in Components,
           c.name \in DOMAIN k.message.fields \cup DerivedNames \cup SpecialNames,
           NEW max \in Int, 0 <= max, max < MaxInt
    PROVE  Bounded(resolveComponent(k.message, c, max), max)
<1> DEFINE m == k.message
<1>0. ASSUME NEW why \in {"shape", "invalid", "limit"} PROVE Bounded(Refused(why), max)
  BY DEF Refused, Bounded
<1>1. ASSUME NEW n \in Nat, n <= 3 * max \/ n = 3 PROVE Bounded(Resolved(n), max)
  BY <1>1 DEF Resolved, Bounded
<1>11. ASSUME NEW n \in Nat, n <= max PROVE Bounded(Resolved(n), max)
  <2>1. n <= 3 * max
    BY <1>11
  <2> QED BY <1>1, <2>1
<1>2. m.url \in Urls /\ m.method \in Nat
  BY CallAssumption
<1>3. CASE IsDerived(c.name)
  <2>1. ASSUME m.url.wellFormed PROVE UrlShape(m.url)
    BY <1>2, <2>1, UrlAssumption DEF UrlShape
  <2>2. Bounded(queryParameter(m.url, max), max)
    <3>1. m.url.parameter \in Nat
      BY <1>2, UrlType
    <3>2. CASE ~(m.url.parameter > max)
      <4>1. Bounded(Resolved(m.url.parameter), max)
        <5>1. m.url.parameter <= max
          BY <3>1, <3>2
        <5> QED BY <1>11, <3>1, <5>1
      <4> QED BY <1>0, <4>1 DEF queryParameter
    <3>3. CASE m.url.parameter > max
      <4> QED BY <1>0, <3>3 DEF queryParameter
    <3> QED BY <3>2, <3>3
  <2>3. Bounded(Resolved(3), max)
    BY <1>1
  <2>4. ASSUME ~(m.method > max) PROVE Bounded(Resolved(m.method), max)
    <3>1. m.method <= max
      BY <1>2, <2>4
    <3> QED BY <1>2, <1>11, <3>1
  <2>5. ASSUME c.name \in DerivedNames, derivedSourceFits(m.url, c.name, max), m.url.wellFormed
        PROVE  Bounded(Resolved(DerivedSize(m.url, c.name)), max)
    BY <1>1, <2>1, <2>5, DerivedBound
  <2>6. Bounded(ResolveDerived(m, c, max), max)
    <3> HIDE DEF m
    <3> QED BY <1>0, <2>2, <2>3, <2>4, <2>5 DEF ResolveDerived
  <2> QED BY <1>0, <1>3, <2>6 DEF resolveComponent
<1>4. CASE ~IsDerived(c.name)
  <2> DEFINE values == FieldValues(m, c)
             binary == "bs" \in c.flags
  <2>1. values \in Seq(FieldValue)
    <3>1. c.name \in DOMAIN NameBytes \cap DOMAIN m.fields
      BY <1>4, CallAssumption DEF IsDerived, Components
    <3>2. /\ values \in {m.fields[c.name], m.trailers[c.name]} /\ values \in Seq(Values)
      BY <3>1, CallAssumption DEF FieldValues
    <3>3. \A i \in DOMAIN values :
            /\ Len(values[i].members) > 0 /\ values[i].gap > 0
            /\ \A j \in DOMAIN values[i].members : values[i].members[j].value <= 3 * values[i].members[j].bytes
      BY <3>1, <3>2, FieldAssumption
    <3> HIDE DEF values
    <3>4. ASSUME NEW i \in 1 .. Len(values) PROVE values[i] \in FieldValue
      <4>1. values[i] \in Values /\ i \in DOMAIN values
        <5>1. DOMAIN values = 1 .. Len(values)
          BY <3>2
        <5> QED BY <3>2, <3>4, <5>1, Element, Zenon
      <4> QED BY <3>3, <4>1 DEF FieldValue
    <3> QED BY <3>2, <3>4, Narrowed
  <2> HIDE DEF values
  <2>2. CASE values = <<>>
    <3>1. Bounded(ResolveField(m, c, max), max)
      <4> HIDE DEF m
      <4> QED BY <1>0, <2>2 DEF ResolveField, values
    <3> QED BY <1>0, <1>4, <3>1 DEF resolveComponent
  <2>3. CASE values # <<>>
    <3>1. Len(values) > 0
      <4>1. \A S, s : s \in Seq(S) /\ s # <<>> => Len(s) > 0
        OBVIOUS
      <4> QED BY <2>1, <2>3, <4>1, Zenon
    <3>2. ASSUME fieldValuesFit(values, binary, max), binary
          PROVE  Bounded(Resolved(Joined(Binary(values))), max)
      <4>1. fieldValuesFit(values, TRUE, max)
        BY <3>2 DEF fieldValuesFit
      <4>2. Joined(Binary(values)) \in Nat /\ Joined(Binary(values)) <= max
        BY <2>1, <3>1, <4>1, BinaryFieldBound
      <4> QED BY <1>11, <4>2
    <3>3. ASSUME fieldValuesFit(values, binary, max), ~binary
          PROVE  /\ Bounded(Resolved(Joined(Normal(values))), max)
                 /\ Bounded(Resolved(StrictBytes(values)), max)
                 /\ \A i \in DOMAIN AllMembers(values) : Bounded(Resolved(AllMembers(values)[i].value), max)
      <4>1. fieldValuesFit(values, FALSE, max)
        BY <3>3 DEF fieldValuesFit
      <4>2. /\ Joined(Normal(values)) \in Nat /\ Joined(Normal(values)) <= max
            /\ StrictBytes(values) \in Nat /\ StrictBytes(values) <= 3 * max
            /\ \A i \in DOMAIN AllMembers(values) :
                  AllMembers(values)[i].value \in Nat /\ AllMembers(values)[i].value <= 3 * max
        BY <2>1, <3>1, <4>1, PlainFieldBound
      <4> QED BY <1>1, <1>11, <4>2
    <3>4. Bounded(ResolveField(m, c, max), max)
      <4> HIDE DEF m
      <4> QED BY <1>0, <3>2, <3>3 DEF ResolveField, values, Binary, Normal
    <3> QED BY <1>0, <1>4, <3>4 DEF resolveComponent
  <2> QED BY <2>2, <2>3
<1> QED BY <1>3, <1>4

-----------------------------------------------------------------------------
(* The shape of a component. *)

\* What validProfileComponent must say of a component whose resolver answered r.
ShapeOf(r, c) == (r.why = "" => validProfileComponent(c)) /\ (r.why = "shape" => ~ validProfileComponent(c))

\* A resolver answers with a value only for a component that a profile can hold, and blames the
\* shape only of one that it cannot.
LEMMA ShapeAgreement ==
    ASSUME NEW c \in Components, NEW m, NEW max
    PROVE  ShapeOf(resolveComponent(m, c, max), c)
<1>1. ShapeOf(Refused("invalid"), c) /\ ShapeOf(Refused("limit"), c)
  BY DEF Refused, ShapeOf
<1>2. ASSUME ~ validProfileComponent(c) PROVE ShapeOf(Refused("shape"), c)
  BY <1>2 DEF Refused, ShapeOf
<1>3. ASSUME validProfileComponent(c), NEW n PROVE ShapeOf(Resolved(n), c)
  BY <1>3 DEF Resolved, ShapeOf
<1>4. CASE ~ ParameterSetValid(c)
  <2>1. ~ validProfileComponent(c)
    BY <1>4 DEF validProfileComponent
  <2> QED BY <1>2, <1>4, <2>1 DEF resolveComponent
<1>5. CASE ParameterSetValid(c) /\ ~ IsDerived(c.name)
  <2>1. validProfileComponent(c) <=> ~ c.named
    BY <1>5 DEF validProfileComponent
  <2>2. ShapeOf(ResolveField(m, c, max), c)
    <3> QED BY <1>1, <1>2, <1>3, <2>1 DEF ResolveField
  <2>3. c.name # "@signature-params"
    BY <1>5 DEF IsDerived, SpecialNames
  <2> QED BY <1>5, <2>2, <2>3 DEF resolveComponent
<1>6. CASE ParameterSetValid(c) /\ IsDerived(c.name)
  <2>1. c.flags \subseteq {"req"} <=> c.flags \cap {"bs", "sf", "tr"} = {}
    BY DEF Components
  <2>2. CASE c.flags \cap {"bs", "sf", "tr"} # {} \/ c.key # 0 \/ (c.named /\ c.name # "@query-param")
    <3>1. ~ validProfileComponent(c)
      BY <1>6, <2>1, <2>2 DEF validProfileComponent, DerivedNames
    <3> QED BY <1>2, <1>6, <2>2, <3>1 DEF resolveComponent, ResolveDerived
  <2>3. CASE ~ (c.flags \cap {"bs", "sf", "tr"} # {} \/ c.key # 0 \/ (c.named /\ c.name # "@query-param"))
    <3>1. validProfileComponent(c) <=>
            \/ c.name = "@query-param" /\ c.named
            \/ c.name = "@status" /\ "req" \notin c.flags
            \/ c.name \in DerivedNames
      BY <1>6, <2>1, <2>3 DEF validProfileComponent, DerivedNames
    <3>2. ShapeOf(queryParameter(m.url, max), c) \/ ~ (c.name = "@query-param" /\ c.named)
      <4> QED BY <1>1, <1>3, <3>1 DEF queryParameter
    <3>3. "@method" \in DerivedNames /\ "@status" \notin DerivedNames /\ "@query-param" \notin DerivedNames
          /\ "@signature-params" \notin DerivedNames
      BY DEF DerivedNames
    <3>4. ShapeOf(ResolveDerived(m, c, max), c)
      <4> QED BY <1>1, <1>2, <1>3, <2>3, <3>1, <3>2, <3>3 DEF ResolveDerived
    <3>5. c.name = "@signature-params" => ~ validProfileComponent(c)
      BY <3>1, <3>3
    <3> QED BY <1>2, <1>6, <3>4, <3>5 DEF resolveComponent
  <2> QED BY <2>2, <2>3
<1> QED BY <1>4, <1>5, <1>6

\* A resolver answers with a value or with one of three errors.
LEMMA ResolverAnswers ==
    ASSUME NEW m, NEW c, NEW max
    PROVE  resolveComponent(m, c, max).why \in {"", "limit", "invalid", "shape"}
<1> DEFINE Answer(r) == r.why \in {"", "limit", "invalid", "shape"}
<1>1. /\ Answer(Refused("limit")) /\ Answer(Refused("invalid")) /\ Answer(Refused("shape"))
      /\ \A n : Answer(Resolved(n))
  BY DEF Refused, Resolved
<1> HIDE DEF Answer
<1>2. Answer(ResolveField(m, c, max))
  BY <1>1 DEF ResolveField
<1>3. Answer(queryParameter(m.url, max))
  BY <1>1 DEF queryParameter
<1>4. Answer(ResolveDerived(m, c, max))
  BY <1>1, <1>3 DEF ResolveDerived
<1>5. Answer(resolveComponent(m, c, max))
  BY <1>1, <1>2, <1>4 DEF resolveComponent
<1> QED BY <1>5, Zenon DEF Answer

-----------------------------------------------------------------------------
(* The inductive invariant. *)

\* While the loop runs, what is written and what remains make up the limit, although what remains
\* may be negative; before that nothing larger than the two bounds was ever written.
Accounting ==
  /\ index \in 0 .. Len(call.components) /\ written \in Nat /\ remaining \in Int
  /\ result = "running" => EffectiveLimit >= 0 /\ written + remaining = EffectiveLimit
  /\ EffectiveLimit >= 0 => written <= 3 * EffectiveLimit \/ written <= EffectiveLimit + 3
  /\ result = "base" => written <= EffectiveLimit

\* The components covered so far are well shaped, a base covers all of them, and a call refused for
\* a shape stopped at the component to blame.
Shapes ==
  /\ \A i \in 1 .. index : validProfileComponent(call.components[i])
  /\ result = "base" => index = Len(call.components)
  /\ result = "shape" => index < Len(call.components) /\ ~ validProfileComponent(Component)

IndInv == call \in Calls /\ Accounting /\ Shapes

\* Sizes of a call: the effective limit is an int, and the components have the shape of components.
LEMMA CallType ==
    ASSUME call \in Calls
    PROVE  /\ EffectiveLimit \in Int /\ EffectiveLimit <= MaxInt /\ MaxInt \in Nat
           /\ call.components \in Seq(Components) /\ Len(call.components) \in Nat
           /\ call.params \in Nat
<1>1. call.components \in Seq(Components)
  BY CallAssumption
<1>2. Len(call.components) \in Nat
  BY <1>1
<1> QED BY <1>1, <1>2, SizeAssumption DEF EffectiveLimit

\* A call that is refused has written what it had written before; only a shape needs a reason.
LEMMA RefuseStep ==
    ASSUME IndInv, NEW why \in {"limit", "invalid", "shape"}, Refuse(why), result = "running",
           why = "shape" => index < Len(call.components) /\ ~ validProfileComponent(Component)
    PROVE  IndInv'
<1>1. Accounting'
  BY DEF IndInv, Accounting, Refuse, EffectiveLimit
<1>2. Shapes'
  BY DEF IndInv, Shapes, Refuse, Component
<1> QED BY <1>1, <1>2 DEF IndInv, Refuse

LEMMA InitInv == Init => IndInv
<1> SUFFICES ASSUME Init PROVE IndInv
  OBVIOUS
<1>1. EffectiveLimit \in Int /\ Len(call.components) \in Nat
  BY CallType DEF Init
<1>2. Accounting
  BY <1>1 DEF Init, Accounting
<1>3. Shapes
  BY <1>1 DEF Init, Shapes
<1> QED BY <1>2, <1>3 DEF Init, IndInv

\* One component more.  Its resolver was given what remains after the identifier, max: the value is
\* no longer than 3 * max or a status code, so written' = EffectiveLimit - max + size is within the
\* bounds.
LEMMA CoverStep == IndInv /\ Cover => IndInv'
<1> SUFFICES ASSUME IndInv, Cover PROVE IndInv'
  OBVIOUS
<1> DEFINE c == Component
           item == structuredItemUpperBound(c)
           max == remaining - fixedBytes(c)
           value == resolveComponent(call.message, c, max)
           size == value.size
<1>0. result = "running" /\ index < Len(call.components) /\ IdentifierFits(c)
  BY Zenon DEF Cover
<1>1. /\ EffectiveLimit \in Int /\ EffectiveLimit <= MaxInt /\ MaxInt \in Nat
      /\ call.components \in Seq(Components) /\ Len(call.components) \in Nat
  BY CallType DEF IndInv
<1>2. /\ index \in Nat /\ index < Len(call.components) /\ written \in Nat /\ remaining \in Int
      /\ written + remaining = EffectiveLimit /\ EffectiveLimit >= 0
  BY <1>0, <1>1 DEF IndInv, Accounting
<1>3. /\ c \in Components /\ c.name \in DOMAIN call.message.fields \cup DerivedNames \cup SpecialNames
  <2>1. index + 1 \in 1 .. Len(call.components) /\ DOMAIN call.components = 1 .. Len(call.components)
    BY <1>1, <1>2
  <2> QED BY <1>1, <2>1, CallAssumption, Element DEF IndInv, Component
<1>4. item \in Nat /\ fixedBytes(c) = item + 3
  BY <1>3, ItemBound
<1>5. max \in Int /\ 0 <= max /\ max < MaxInt /\ max <= EffectiveLimit /\ max = remaining - item - 3
  <2>1. fixedBytes(c) <= remaining
    BY <1>0 DEF IdentifierFits, Consumable
  <2> HIDE DEF item, c
  <2> QED BY <1>1, <1>2, <1>4, <2>1
<1>6. Bounded(value, max) /\ ShapeOf(value, c)
  BY <1>3, <1>5, ResolvedBound, ShapeAgreement DEF IndInv
<1>7. /\ index' = index + 1 /\ call' = call /\ result' = result /\ result = "running"
      /\ remaining' = max - size
      /\ written' = written + fixedBytes(c) + size
  BY Zenon DEF Cover
<1>8. size \in Nat /\ (size <= 3 * max \/ size = 3) /\ validProfileComponent(c)
  <2>1. value.why = ""
    BY Zenon DEF Cover
  <2> QED BY <1>6, <2>1, Zenon DEF Bounded, ShapeOf
<1> HIDE DEF size, value
<1>9. EffectiveLimit' = EffectiveLimit
  BY <1>7 DEF EffectiveLimit
<1>10. Accounting'
  <2> DEFINE L == EffectiveLimit
  <2>1. written' \in Nat /\ remaining' \in Int /\ written' + remaining' = L
        /\ (written' <= 3 * L \/ written' <= L + 3)
    <3>1. remaining' = max - size /\ written' = L - max + size
      <4> HIDE DEF c, item, L
      <4> QED BY <1>1, <1>2, <1>4, <1>5, <1>7, <1>8 DEF L
    <3>2. L \in Int /\ L >= 0 /\ size \in Nat /\ max \in Int /\ 0 <= max /\ max <= L
          /\ (size <= 3 * max \/ size = 3)
      BY <1>1, <1>2, <1>5, <1>8
    <3> HIDE DEF max, L
    <3> QED BY <3>1, <3>2
  <2>2. index' \in 0 .. Len(call'.components)
    BY <1>1, <1>2, <1>7
  <2> QED BY <1>2, <1>7, <1>9, <2>1, <2>2 DEF Accounting
<1>11. Shapes'
  <2>1. \A i \in 1 .. index : validProfileComponent(call.components[i])
    BY DEF IndInv, Shapes
  <2>2. validProfileComponent(call.components[index + 1])
    BY <1>8 DEF Component
  <2>3. \A i \in 1 .. index + 1 : i \in 1 .. index \/ i = index + 1
    BY <1>2
  <2>4. \A i \in 1 .. index + 1 : validProfileComponent(call.components[i])
    BY <2>1, <2>2, <2>3, Zenon
  <2> QED BY <1>7, <2>4 DEF Shapes
<1> QED BY <1>7, <1>10, <1>11 DEF IndInv

\* The parameters are written only when prefix, list and parameters fit in what remains.
LEMMA FinishStep == IndInv /\ Finish => IndInv'
<1> SUFFICES ASSUME IndInv, Finish PROVE IndInv'
  OBVIOUS
<1>1. CASE Refuse("limit") \/ Refuse("invalid")
  BY <1>1, RefuseStep DEF Finish
<1>2. CASE /\ Consumable(remaining, PrefixBytes) /\ signatureParametersFit(call, remaining - PrefixBytes)
           /\ remaining' = remaining - PrefixBytes
           /\ written' = written + PrefixBytes + (ListBytes(call.components) + call.params)
           /\ result' = "base"
           /\ UNCHANGED <<call, index>>
  <2> DEFINE list == ListBytes(call.components) + call.params
  <2>1. /\ EffectiveLimit \in Int /\ Len(call.components) \in Nat /\ list \in Nat
    BY CallType, ListType DEF IndInv
  <2>2. list <= remaining - PrefixBytes
    BY <1>2 DEF signatureParametersFit, Consumable
  <2>3. written' = written + PrefixBytes + list
    BY <1>2
  <2>4. written \in Nat /\ remaining \in Int /\ written + remaining = EffectiveLimit /\ EffectiveLimit >= 0
    BY DEF IndInv, Accounting, Finish
  <2> HIDE DEF list
  <2>5. written' \in Nat /\ written' <= EffectiveLimit /\ remaining' \in Int
    BY <1>2, <2>1, <2>2, <2>3, <2>4 DEF PrefixBytes
  <2>6. EffectiveLimit' = EffectiveLimit
    BY <1>2 DEF EffectiveLimit
  <2>7. Accounting'
    BY <1>2, <2>1, <2>4, <2>5, <2>6 DEF IndInv, Accounting
  <2>8. Shapes'
    BY <1>2 DEF IndInv, Shapes, Finish, Component
  <2> QED BY <1>2, <2>7, <2>8 DEF IndInv
<1> QED BY <1>1, <1>2 DEF Finish

LEMMA RefuseIdentifierStep == IndInv /\ RefuseIdentifier => IndInv'
  BY RefuseStep DEF RefuseIdentifier

\* A resolver's refusal names the shape only of a component no profile can hold.
LEMMA RefuseComponentStep == IndInv /\ RefuseComponent => IndInv'
<1> SUFFICES ASSUME IndInv, RefuseComponent PROVE IndInv'
  OBVIOUS
<1> DEFINE value == resolveComponent(call.message, Component, remaining - fixedBytes(Component))
<1>0. index < Len(call.components) /\ result = "running"
  BY Zenon DEF RefuseComponent
<1>1. Component \in Components
  <2>1. call.components \in Seq(Components) /\ index + 1 \in 1 .. Len(call.components)
    BY <1>0, CallType DEF IndInv, Accounting
  <2> QED BY <2>1, Element DEF Component
<1>2. ShapeOf(value, Component)
  BY <1>1, ShapeAgreement
<1>3. value.why \in {"", "limit", "invalid", "shape"}
  BY ResolverAnswers, Zenon
<1>4. value.why # "" /\ Refuse(value.why)
  BY Zenon DEF RefuseComponent
<1>5. value.why = "shape" => ~ validProfileComponent(Component)
  BY <1>2, Zenon DEF ShapeOf
<1> DEFINE why == value.why
<1>6. why \in {"limit", "invalid", "shape"} /\ Refuse(why)
      /\ (why = "shape" => ~ validProfileComponent(Component))
  BY <1>3, <1>4, <1>5, Zenon
<1> HIDE DEF why
<1> QED BY <1>0, <1>6, RefuseStep, Zenon

LEMMA StutterInv == IndInv /\ UNCHANGED vars => IndInv'
<1> SUFFICES ASSUME IndInv, UNCHANGED vars PROVE IndInv'
  OBVIOUS
<1>1. Accounting'
  BY DEF IndInv, Accounting, EffectiveLimit, vars
<1>2. Shapes'
  BY DEF IndInv, Shapes, Component, vars
<1> QED BY <1>1, <1>2 DEF IndInv, vars

LEMMA Invariance == Spec => []IndInv
<1>1. IndInv /\ [Next]_vars => IndInv'
  BY CoverStep, FinishStep, RefuseIdentifierStep, RefuseComponentStep, StutterInv DEF Next
<1> QED BY InitInv, <1>1, PTL DEF Spec

-----------------------------------------------------------------------------
\* A base that CreateSignatureBase returns is within MaxSignatureBaseBytes, for every message, list of
\* components and limit, although a resolver's value may exceed the budget it was given.
THEOREM BaseFits == Spec => []BaseWithinLimit
<1>1. IndInv => BaseWithinLimit
  BY DEF IndInv, Accounting, BaseWithinLimit
<1> QED BY Invariance, <1>1, PTL

\* Until then the strings.Builder never holds more than three times the limit, or the limit and a
\* status code.
THEOREM OvershootIsBounded == Spec => []BoundedOvershoot
<1>1. IndInv => BoundedOvershoot
  <2> SUFFICES ASSUME IndInv, EffectiveLimit >= 0
               PROVE  written <= Max({3 * EffectiveLimit, EffectiveLimit + 3})
    BY DEF BoundedOvershoot
  <2>1. EffectiveLimit \in Int /\ written \in Nat
    BY CallType DEF IndInv, Accounting
  <2>2. written <= 3 * EffectiveLimit \/ written <= EffectiveLimit + 3
    BY DEF IndInv, Accounting
  <2> DEFINE a == 3 * EffectiveLimit
             b == EffectiveLimit + 3
  <2>3. a \in Int /\ b \in Int
    BY <2>1
  <2> HIDE DEF a, b
  <2>4. Max({a, b}) \in Int /\ Max({a, b}) >= a /\ Max({a, b}) >= b
    BY <2>3, MaxOfTwo
  <2>5. written <= a \/ written <= b
    BY <2>2 DEF a, b
  <2>6. written <= Max({a, b})
    BY <2>1, <2>3, <2>4, <2>5
  <2> QED BY <2>6 DEF a, b
<1> QED BY Invariance, <1>1, PTL

\* validProfileComponent (signer.go) and the resolvers of message.go agree on the shapes of all
\* components, with any set of parameters and under any name.
THEOREM ShapesAgree == Spec => []ProfileShapesResolve
<1>1. IndInv => ProfileShapesResolve
  <2> SUFFICES ASSUME IndInv PROVE ProfileShapesResolve
    OBVIOUS
  <2>1. DOMAIN call.components = 1 .. Len(call.components)
    BY CallType DEF IndInv
  <2> QED BY <2>1 DEF IndInv, Shapes, ProfileShapesResolve
<1> QED BY Invariance, <1>1, PTL
=============================================================================
