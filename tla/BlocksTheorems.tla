--------------------------- MODULE BlocksTheorems ---------------------------
(* Facts about the operators of Blocks, cited by the proofs about the      *)
(* modules that use them.                                                  *)
EXTENDS Blocks, FiniteSetTheorems, TLAPS

\* No contents anywhere is the map with no keys.
LEMMA NoBlocksFacts ==
  /\ NoBlocks \in BlockMap
  /\ \A m \in BlockMap : m = NoBlocks <=> Keys(m) = {}
BY DEF NoBlocks, BlockMap, Keys

\* What the operators on maps return.
LEMMA MapTypes ==
  ASSUME NEW m \in BlockMap, NEW S
  PROVE  /\ Restricted(m, S) \in BlockMap
         /\ Keys(Restricted(m, S)) = Keys(m) \cap S
         /\ \A v \in Volume : /\ Overlay(m, v) \in Volume
                              /\ v \in BlockMap
         /\ \A n \in BlockMap : Overlay(m, n) \in BlockMap
BY AbsentAssumption DEF Restricted, Overlay, BlockMap, Volume, Keys

\* A valid write turns a map into a map, a volume into a volume.
LEMMA WrittenTypes ==
  ASSUME NEW r \in Request, r.op = "write", RangeOf(r) \subseteq Lba
  PROVE  /\ \A m \in BlockMap : Written(r, m) \in BlockMap
         /\ \A v \in Volume : Written(r, v) \in Volume
         /\ \A b \in RangeOf(r) : r.data[b - r.start + 1] \in Data
<1>1. \A b \in RangeOf(r) : r.data[b - r.start + 1] \in Data
  BY DEF RangeOf, Request
<1>. QED
  BY <1>1 DEF Written, BlockMap, Volume

\* Writing into the cache writes into what a reader sees.
LEMMA WrittenOverlay ==
  ASSUME NEW r \in Request, r.op = "write", RangeOf(r) \subseteq Lba,
         NEW m \in BlockMap, NEW v \in Volume
  PROVE  /\ Overlay(Written(r, m), v) = Written(r, Overlay(m, v))
         /\ Written(r, Written(r, v)) = Written(r, v)
<1>1. \A b \in RangeOf(r) : r.data[b - r.start + 1] # Absent
  BY WrittenTypes, AbsentAssumption
<1>. QED
  BY <1>1 DEF Overlay, Written

\* Dropping from the cache what the volume holds does not change the view.
LEMMA DropStored ==
  ASSUME NEW m \in BlockMap, NEW w \in BlockMap, NEW v \in Volume,
         \A b \in Keys(w) : m[b] = w[b],
         Overlay(w, v) = v
  PROVE  Overlay(Restricted(m, Lba \ Keys(w)), v) = Overlay(m, v)
<1>1. \A b \in Keys(w) : v[b] = w[b]
  BY DEF Overlay, Keys
<1>. QED
  BY <1>1 DEF Overlay, Restricted, Keys, BlockMap, Volume

\* Storing blocks of a batch that is in the cache does not change the view.
LEMMA StoreCached ==
  ASSUME NEW m \in BlockMap, NEW w \in BlockMap, NEW v \in Volume,
         \A b \in Keys(w) : m[b] = w[b],
         NEW S \in SUBSET Keys(w)
  PROVE  LET u == Overlay(Restricted(w, S), v)
         IN  /\ u \in Volume
             /\ Overlay(m, u) = Overlay(m, v)
             /\ u = [b \in Lba |-> IF b \in S THEN Overlay(m, v)[b] ELSE v[b]]
<1>1. Overlay(Restricted(w, S), v) \in Volume
  BY MapTypes
<1>2. \A b \in S : b \in Lba /\ m[b] # Absent /\ w[b] = m[b]
  BY DEF Keys
<1>. QED
  BY <1>1, <1>2 DEF Overlay, Restricted

\* An empty cache shows the volume.
LEMMA EmptyOverlay ==
  ASSUME NEW v \in Volume
  PROVE  Overlay(NoBlocks, v) = v
BY DEF Overlay, NoBlocks, Volume

\* The keys of a map are finitely many.
LEMMA FiniteKeys ==
  ASSUME NEW m, NEW S \in SUBSET Keys(m)
  PROVE  IsFiniteSet(S) /\ Cardinality(S) \in Nat
<1>1. IsFiniteSet(Lba)
  BY TotalBlocksAssumption, FS_Interval DEF Lba
<1>2. S \in SUBSET Lba
  BY DEF Keys
<1>. QED
  BY <1>1, <1>2, FS_Subset, FS_CardinalityType

\* How many keys are below b: it tells the keys apart, in their order.
Rank(m, b) == Cardinality({k \in Keys(m) : k < b})

LEMMA RankGrows ==
  ASSUME NEW m, NEW j \in Keys(m), NEW k \in Keys(m), j < k
  PROVE  Rank(m, j) \in Nat /\ Rank(m, k) \in Nat /\ Rank(m, j) < Rank(m, k)
<1>. DEFINE J == {i \in Keys(m) : i < j}
            K == {i \in Keys(m) : i < k}
<1>1. J \in SUBSET Keys(m) /\ K \in SUBSET Keys(m)
  OBVIOUS
<1>2. /\ IsFiniteSet(J) /\ Cardinality(J) \in Nat
      /\ IsFiniteSet(K) /\ Cardinality(K) \in Nat
  BY <1>1, FiniteKeys
<1>3. J \cup {j} \in SUBSET K /\ j \notin J
  <2>1. Keys(m) \subseteq Int
    BY DEF Keys, Lba
  <2>. QED
    BY <2>1
<1>4. Cardinality(J \cup {j}) = Cardinality(J) + 1
  <2>. HIDE DEF J, K
  <2>. QED
    BY <1>2, <1>3, FS_AddElement
<1>5. Cardinality(J \cup {j}) <= Cardinality(K)
  <2>. HIDE DEF J, K
  <2>. QED
    BY <1>2, <1>3, FS_Subset
<1>6. Cardinality(J) < Cardinality(K)
  <2>. HIDE DEF J, K
  <2>. QED
    BY <1>2, <1>4, <1>5
<1>. QED
  BY <1>2, <1>6 DEF Rank

\* A rank is less than the number of keys.
LEMMA RankBound ==
  ASSUME NEW m, NEW b \in Keys(m)
  PROVE  Rank(m, b) \in Nat /\ Rank(m, b) < Cardinality(Keys(m))
<1>. DEFINE B == {k \in Keys(m) : k < b}
<1>1. B \in SUBSET Keys(m) /\ b \notin B
  BY DEF Keys, Lba
<1>2. /\ IsFiniteSet(Keys(m)) /\ Cardinality(Keys(m)) \in Nat
      /\ IsFiniteSet(B) /\ Cardinality(B) \in Nat
  BY <1>1, FiniteKeys
<1>3. Cardinality(B) <= Cardinality(Keys(m)) /\ Cardinality(B) # Cardinality(Keys(m))
  <2>. HIDE DEF B
  <2>. QED
    BY <1>1, <1>2, FS_Subset
<1>4. Cardinality(B) < Cardinality(Keys(m))
  <2>. HIDE DEF B
  <2>. QED
    BY <1>2, <1>3
<1>. QED
  BY <1>2, <1>4 DEF Rank

\* The keys of lower rank than n are no more than n.
LEMMA FewOfLowRank ==
  ASSUME NEW m, NEW n \in Nat, NEW S \in SUBSET Keys(m), \A b \in S : Rank(m, b) < n
  PROVE  /\ Cardinality(S) <= n
         /\ Cardinality(S) = n => \A i \in 0 .. n - 1 : \E b \in S : Rank(m, b) = i
<1>. DEFINE f == [b \in S |-> Rank(m, b)]
<1>1. f \in Injection(S, 0 .. n - 1)
  <2>1. \A b \in S : Rank(m, b) \in 0 .. n - 1
    BY RankBound
  <2>2. \A j, k \in S : Rank(m, j) = Rank(m, k) => j = k
    <3>. SUFFICES ASSUME NEW j \in S, NEW k \in S, Rank(m, j) = Rank(m, k), j # k
                  PROVE  FALSE
      OBVIOUS
    <3>1. j < k \/ k < j
      BY DEF Keys, Lba
    <3>. QED
      BY <3>1, RankGrows
  <2>. QED
    BY <2>1, <2>2 DEF Injection, IsInjective
<1>2. IsFiniteSet(0 .. n - 1) /\ Cardinality(0 .. n - 1) = n
  <2>1. /\ IsFiniteSet(0 .. n - 1)
        /\ Cardinality(0 .. n - 1) = IF 0 > n - 1 THEN 0 ELSE n - 1 - 0 + 1
    BY FS_Interval
  <2>. QED
    BY <2>1
<1>3. /\ Cardinality(S) <= n
      /\ Cardinality(S) = n <=> f \in Surjection(S, 0 .. n - 1)
  <2>. HIDE DEF f
  <2>. QED
    BY <1>1, <1>2, FS_Injection
<1>. QED
  BY <1>3 DEF Surjection

\* What LowestKeys returns: at least one key if there is one, at most n, and
\* with a key every lower one.
LEMMA LowestKeysFacts ==
  ASSUME NEW m, NEW n \in Nat \ {0}
  PROVE  /\ LowestKeys(m, n) \subseteq Keys(m)
         /\ Cardinality(LowestKeys(m, n)) \in 0 .. n
         /\ Keys(m) # {} => Cardinality(LowestKeys(m, n)) > 0
         /\ \A b \in LowestKeys(m, n), k \in Keys(m) : k < b => k \in LowestKeys(m, n)
<1>1. LowestKeys(m, n) = {b \in Keys(m) : Rank(m, b) < n}
  BY DEF LowestKeys, Rank
<1>2. LowestKeys(m, n) \in SUBSET Keys(m)
  BY <1>1
<1>3. IsFiniteSet(LowestKeys(m, n)) /\ Cardinality(LowestKeys(m, n)) \in Nat
  BY <1>2, FiniteKeys
<1>4. Cardinality(LowestKeys(m, n)) <= n
  BY <1>1, <1>2, FewOfLowRank
<1>5. ASSUME Keys(m) # {} PROVE LowestKeys(m, n) # {}
  <2>1. IsFiniteSet(Keys(m)) /\ Cardinality(Keys(m)) \in Nat
    BY FiniteKeys
  <2>2. Cardinality(Keys(m)) # 0
    BY <1>5, <2>1, FS_EmptySet
  <2>3. \A i \in 0 .. Cardinality(Keys(m)) - 1 : \E b \in Keys(m) : Rank(m, b) = i
    BY <2>1, RankBound, FewOfLowRank
  <2>4. PICK b \in Keys(m) : Rank(m, b) = 0
    BY <2>1, <2>2, <2>3
  <2>. QED
    BY <1>1, <2>4
<1>6. ASSUME NEW b \in LowestKeys(m, n), NEW k \in Keys(m), k < b
      PROVE  k \in LowestKeys(m, n)
  BY <1>1, <1>6, RankGrows
<1>. QED
  BY <1>2, <1>3, <1>4, <1>5, <1>6, FS_EmptySet
=============================================================================
