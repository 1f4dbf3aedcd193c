-------------------------- MODULE ControllerProofs --------------------------
(***************************************************************************)
(* What the controller's request handlers preserve, for any number of      *)
(* partitions, indexes, samples, fields, tasks and keys: lemmas about the  *)
(* index manager, about a partition's status and about the handlers, which *)
(* the theorems about ControllerRequests and about DataPlane cite.         *)
(***************************************************************************)
EXTENDS Controller, FiniteSetTheorems, SequenceTheorems, TLAPS

-----------------------------------------------------------------------------
(* The index manager: allocating and releasing keep its bookkeeping.       *)

(* The elements of a pool, by position.                                    *)
LEMMA PoolElements ==
  ASSUME NEW s \in Seq(Nat)
  PROVE  /\ Len(s) \in Nat
         /\ \A k \in 1..Len(s) : s[k] \in Nat
         /\ \A x : x \in ToSet(s) <=> \E k \in 1..Len(s) : s[k] = x
         /\ IsInjective(s) <=> \A j, k \in 1..Len(s) : s[j] = s[k] => j = k
<1>1. /\ Len(s) \in Nat
      /\ DOMAIN s = 1..Len(s)
      /\ \A k \in 1..Len(s) : s[k] \in Nat
  BY LenProperties, ElementOfSeq
<1> QED
  BY <1>1 DEF ToSet, IsInjective

(* What is left of a pool when its first r indexes are taken.              *)
LEMMA DropFirst ==
  ASSUME NEW s \in Seq(Nat), NEW r \in 0..Len(s), IsInjective(s)
  PROVE  /\ SubSeq(s, r + 1, Len(s)) \in Seq(Nat)
         /\ IsInjective(SubSeq(s, r + 1, Len(s)))
         /\ ToSet(SubSeq(s, r + 1, Len(s))) = {s[j] : j \in (r + 1)..Len(s)}
<1> DEFINE t == SubSeq(s, r + 1, Len(s))
<1>1. /\ Len(s) \in Nat
      /\ DOMAIN s = 1..Len(s)
      /\ \A k \in 1..Len(s) : s[k] \in Nat
  BY LenProperties, ElementOfSeq
<1>2. \A i \in (r + 1)..Len(s) : s[i] \in Nat
  BY <1>1
<1>3. /\ t \in Seq(Nat)
      /\ Len(t) = IF r + 1 <= Len(s) THEN Len(s) - (r + 1) + 1 ELSE 0
      /\ \A i \in 1..(Len(s) - (r + 1) + 1) : t[i] = s[(r + 1) + i - 1]
  BY <1>1, <1>2, SubSeqProperties
<1> HIDE DEF t
<1>4. Len(t) = Len(s) - r /\ Len(s) - r \in Nat
  <2> DEFINE n == Len(s)
  <2>1. n \in Nat /\ r \in 0..n
    BY <1>1
  <2>2. Len(t) = IF r + 1 <= n THEN n - (r + 1) + 1 ELSE 0
    BY <1>3
  <2> HIDE DEF n
  <2>3. Len(t) = n - r /\ n - r \in Nat
    BY <2>1, <2>2
  <2> QED
    BY <2>3 DEF n
<1>5. ASSUME NEW i \in 1..(Len(s) - r)
      PROVE  t[i] = s[r + i] /\ r + i \in (r + 1)..Len(s)
  <2>1. /\ i \in 1..(Len(s) - (r + 1) + 1)
        /\ (r + 1) + i - 1 = r + i
        /\ r + i \in (r + 1)..Len(s)
    BY <1>1
  <2> QED
    BY <1>3, <2>1
<1>6. \A j, k \in 1..Len(s) : s[j] = s[k] => j = k
  BY PoolElements
<1>7. ASSUME NEW i \in 1..(Len(s) - r), NEW j \in 1..(Len(s) - r), t[i] = t[j]
      PROVE  i = j
  <2>1. /\ r + i \in 1..Len(s) /\ r + j \in 1..Len(s)
        /\ s[r + i] = s[r + j]
    BY <1>1, <1>5, <1>7
  <2>2. r + i = r + j
    BY <1>6, <2>1
  <2> QED
    BY <1>1, <2>2
<1>8. IsInjective(t)
  BY <1>3, <1>4, <1>7, PoolElements
<1>9. \A x : x \in ToSet(t) <=> \E k \in 1..(Len(s) - r) : t[k] = x
  BY <1>3, <1>4, PoolElements
<1>10. ASSUME NEW j \in (r + 1)..Len(s)
       PROVE  s[j] \in ToSet(t)
  <2>1. j - r \in 1..(Len(s) - r) /\ r + (j - r) = j
    BY <1>1
  <2>2. t[j - r] = s[j]
    BY <1>5, <2>1
  <2> QED
    BY <1>9, <2>1, <2>2
<1>11. ToSet(t) = {s[j] : j \in (r + 1)..Len(s)}
  BY <1>5, <1>9, <1>10
<1> QED
  BY <1>3, <1>8, <1>11 DEF t

(* A listing of a finite set holds each of its elements.                   *)
LEMMA ListingIsOnto ==
  ASSUME NEW S, IsFiniteSet(S), NEW e \in SetToSeqs(S)
  PROVE  /\ Cardinality(S) \in Nat
         /\ e \in [1..Cardinality(S) -> S]
         /\ IsInjective(e)
         /\ \A x \in S : \E k \in 1..Cardinality(S) : e[k] = x
<1> DEFINE D == 1..Cardinality(S)
<1>1. Cardinality(S) \in Nat
  BY FS_CardinalityType
<1>2. IsFiniteSet(D) /\ Cardinality(D) = Cardinality(S)
  BY <1>1, FS_Interval
<1>3. e \in [D -> S] /\ IsInjective(e)
  BY DEF SetToSeqs, IsInjective
<1>4. e \in Injection(D, S)
  BY <1>3 DEF Injection
<1>5. e \in Surjection(D, S)
  BY <1>2, <1>4, FS_Injection
<1> QED
  BY <1>1, <1>3, <1>5 DEF Surjection

(* A pool that takes back a set it does not hold, in any order.            *)
LEMMA AppendListing ==
  ASSUME NEW s \in Seq(Nat), IsInjective(s),
         NEW S \in SUBSET Nat, IsFiniteSet(S), S \cap ToSet(s) = {},
         NEW e \in SetToSeqs(S)
  PROVE  /\ s \o e \in Seq(Nat)
         /\ IsInjective(s \o e)
         /\ ToSet(s \o e) = ToSet(s) \cup S
<1> DEFINE n == Len(s)
           m == Cardinality(S)
           t == s \o e
<1>1. /\ n \in Nat
      /\ DOMAIN s = 1..n
      /\ \A k \in 1..n : s[k] \in Nat
  BY LenProperties, ElementOfSeq
<1>2. /\ m \in Nat
      /\ e \in [1..m -> S]
      /\ IsInjective(e)
      /\ \A x \in S : \E k \in 1..m : e[k] = x
  BY ListingIsOnto
<1>3. e \in Seq(Nat) /\ Len(e) = m
  <2> HIDE DEF m
  <2>1. e \in [1..m -> Nat]
    BY <1>2
  <2>2. e \in Seq(Nat)
    BY <1>2, <2>1, SeqDef
  <2> QED
    BY <1>2, <2>1, <2>2, LenProperties
<1>4. /\ t \in Seq(Nat)
      /\ Len(t) = n + m
      /\ \A i \in 1..(n + m) : t[i] = IF i <= n THEN s[i] ELSE e[i - n]
  BY <1>3, ConcatProperties
<1>5. \A x : x \in ToSet(s) <=> \E k \in 1..n : s[k] = x
  BY PoolElements
<1> HIDE DEF t
<1>6. \A x : x \in ToSet(t) <=> \E k \in 1..(n + m) : t[k] = x
  BY <1>4, PoolElements
<1>7. \A j, k \in 1..n : s[j] = s[k] => j = k
  BY PoolElements
<1>8. \A j, k \in 1..m : e[j] = e[k] => j = k
  BY <1>2 DEF IsInjective
<1>9. \A k \in 1..n : s[k] \notin S
  BY <1>5
<1> HIDE DEF n, m
<1>10. ASSUME NEW i \in 1..(n + m), NEW j \in 1..(n + m), t[i] = t[j]
       PROVE  i = j
  <2>1. CASE i <= n /\ j <= n
    <3>1. i \in 1..n /\ j \in 1..n /\ t[i] = s[i] /\ t[j] = s[j]
      BY <1>1, <1>2, <1>4, <2>1
    <3> QED
      BY <1>7, <1>10, <3>1
  <2>2. CASE i > n /\ j > n
    <3>1. /\ i - n \in 1..m /\ j - n \in 1..m
          /\ t[i] = e[i - n] /\ t[j] = e[j - n]
      BY <1>1, <1>2, <1>4, <2>2
    <3>2. i - n = j - n
      BY <1>8, <1>10, <3>1
    <3> QED
      BY <1>1, <3>2
  <2>3. CASE i <= n /\ j > n
    <3>1. i \in 1..n /\ j - n \in 1..m /\ t[i] = s[i] /\ t[j] = e[j - n]
      BY <1>1, <1>2, <1>4, <2>3
    <3> QED
      BY <1>2, <1>9, <1>10, <3>1
  <2>4. CASE i > n /\ j <= n
    <3>1. j \in 1..n /\ i - n \in 1..m /\ t[j] = s[j] /\ t[i] = e[i - n]
      BY <1>1, <1>2, <1>4, <2>4
    <3> QED
      BY <1>2, <1>9, <1>10, <3>1
  <2> QED
    BY <1>1, <1>2, <2>1, <2>2, <2>3, <2>4
<1>11. Len(t) = n + m /\ IsInjective(t)
  BY <1>4, <1>10, PoolElements
<1>12. ASSUME NEW i \in 1..(n + m)
       PROVE  t[i] \in ToSet(s) \cup S
  <2>1. CASE i <= n
    <3>1. i \in 1..n /\ t[i] = s[i]
      BY <1>1, <1>2, <1>4, <2>1
    <3> QED
      BY <1>5, <3>1
  <2>2. CASE i > n
    <3>1. i - n \in 1..m /\ t[i] = e[i - n]
      BY <1>1, <1>2, <1>4, <2>2
    <3> QED
      BY <1>2, <3>1
  <2> QED
    BY <1>1, <1>2, <2>1, <2>2
<1>13. ASSUME NEW x \in ToSet(s)
       PROVE  x \in ToSet(t)
  <2>1. PICK k \in 1..n : s[k] = x
    BY <1>5
  <2>2. k \in 1..(n + m) /\ t[k] = x
    BY <1>1, <1>2, <1>4, <2>1
  <2> QED
    BY <1>6, <2>2
<1>14. ASSUME NEW x \in S
       PROVE  x \in ToSet(t)
  <2>1. PICK k \in 1..m : e[k] = x
    BY <1>2
  <2>2. n + k \in 1..(n + m) /\ t[n + k] = x
    BY <1>1, <1>2, <1>4, <2>1
  <2> QED
    BY <1>6, <2>2
<1>15. ToSet(t) = ToSet(s) \cup S
  BY <1>6, <1>12, <1>13, <1>14
<1> QED
  BY <1>4, <1>11, <1>15 DEF t

-----------------------------------------------------------------------------
(* How many of n indexes the pool gives.                                   *)
LEMMA ReuseCountType ==
  ASSUME IMTypeOK, NEW n \in Nat
  PROVE  /\ ReuseCount(n) \in 0..Len(reusable_indexes)
         /\ n - ReuseCount(n) \in Nat
         /\ n # ReuseCount(n) => ReuseCount(n) = Len(reusable_indexes)
         /\ Len(reusable_indexes) \in Nat
         /\ DOMAIN reusable_indexes = 1..Len(reusable_indexes)
<1>1. /\ Len(reusable_indexes) \in Nat
      /\ DOMAIN reusable_indexes = 1..Len(reusable_indexes)
  BY LenProperties DEF IMTypeOK
<1> QED
  BY <1>1 DEF ReuseCount

(* A batch is made of pooled indexes and of indexes never used before, and *)
(* of these only when the whole pool is taken.                             *)
LEMMA BatchOrigin ==
  ASSUME IMTypeOK, NEW n \in Nat
  PROVE  /\ Batch(n) \subseteq Pooled \cup NewIndexes(n)
         /\ NewIndexes(n) # {} => Pooled \subseteq Batch(n)
         /\ Batch(n) \subseteq Nat
         /\ NewIndexes(n) \cap 0..(global_index_counter - 1) = {}
<1>1. /\ ReuseCount(n) \in 0..Len(reusable_indexes)
      /\ n - ReuseCount(n) \in Nat
      /\ n # ReuseCount(n) => ReuseCount(n) = Len(reusable_indexes)
      /\ Len(reusable_indexes) \in Nat
      /\ DOMAIN reusable_indexes = 1..Len(reusable_indexes)
  BY ReuseCountType
<1>2. \A k \in 1..Len(reusable_indexes) : reusable_indexes[k] \in Nat
  BY ElementOfSeq DEF IMTypeOK
<1>3. global_index_counter \in Nat
  BY DEF IMTypeOK
<1>4. NewIndexes(n) # {} => n # ReuseCount(n)
  BY <1>1, <1>3 DEF NewIndexes
<1>5. Batch(n) \subseteq Pooled \cup NewIndexes(n)
  BY <1>1 DEF Batch, Pooled, ToSet
<1>6. NewIndexes(n) # {} => Pooled \subseteq Batch(n)
  BY <1>1, <1>4 DEF Batch, Pooled, ToSet
<1>7. Batch(n) \subseteq Nat
  BY <1>1, <1>2, <1>3 DEF Batch, NewIndexes
<1>8. NewIndexes(n) \cap 0..(global_index_counter - 1) = {}
  BY <1>1, <1>3 DEF NewIndexes
<1> QED
  BY <1>5, <1>6, <1>7, <1>8

(* Nobody owns an index of a batch.                                        *)
LEMMA BatchIsFree ==
  ASSUME IMTypeOK, IMInv, NEW n \in Nat
  PROVE  Batch(n) \cap Owned = {}
  BY BatchOrigin DEF IMInv, PoolIsFree, IndexesConserved

(* The pool after an allocation: the batch's part is gone, in order.       *)
LEMMA AllocatePool ==
  ASSUME IMTypeOK, IMInv, NEW p \in Partitions, NEW n \in Nat, AllocateIndexes(p, n)
  PROVE  /\ reusable_indexes' \in Seq(Nat)
         /\ IsInjective(reusable_indexes')
         /\ Pooled' = Pooled \ Batch(n)
<1> DEFINE s == reusable_indexes
           r == ReuseCount(n)
<1>1. /\ r \in 0..Len(s)
      /\ Len(s) \in Nat
      /\ DOMAIN s = 1..Len(s)
      /\ s \in Seq(Nat)
      /\ IsInjective(s)
  BY ReuseCountType DEF IMInv, PoolIsFree, IMTypeOK
<1>2. reusable_indexes' = SubSeq(s, r + 1, Len(s))
  BY DEF AllocateIndexes
<1>3. /\ reusable_indexes' \in Seq(Nat)
      /\ IsInjective(reusable_indexes')
      /\ Pooled' = {s[j] : j \in (r + 1)..Len(s)}
  BY <1>1, <1>2, DropFirst DEF Pooled
<1>4. \A i \in NewIndexes(n) : i \notin Pooled
  BY BatchOrigin DEF IMInv, IndexesConserved
<1>5. \A x : x \in Pooled <=> \E k \in 1..Len(s) : s[k] = x
  BY <1>1, PoolElements DEF Pooled
<1>6. \A j, k \in 1..Len(s) : s[j] = s[k] => j = k
  BY <1>1, PoolElements
<1>7. \A x : x \in Batch(n) <=> (\E k \in 1..r : s[k] = x) \/ x \in NewIndexes(n)
  BY DEF Batch
<1> HIDE DEF s, r
<1>8. ASSUME NEW j \in 1..Len(s)
      PROVE  s[j] \notin Batch(n) <=> j \in (r + 1)..Len(s)
  BY <1>1, <1>4, <1>5, <1>6, <1>7
<1>9. Pooled \ Batch(n) = {s[j] : j \in (r + 1)..Len(s)}
  BY <1>1, <1>5, <1>8
<1> QED
  BY <1>3, <1>9 DEF s, r

(* Both facts are about the index manager's variables alone.               *)
LEMMA UnchangedKeepsIMInv ==
  ASSUME IMTypeOK, IMInv, UNCHANGED imVars
  PROVE  IMTypeOK' /\ IMInv'
  BY DEF imVars, IMTypeOK, IMInv, OwnersDisjoint, PoolIsFree, IndexesConserved,
         AllocatedAreOwned, Pooled, Owned

(* allocate_indexes keeps the bookkeeping.                                 *)
LEMMA AllocateKeepsIMInv ==
  ASSUME IMTypeOK, IMInv, NEW p \in Partitions, NEW n \in Nat, AllocateIndexes(p, n)
  PROVE  IMTypeOK' /\ IMInv'
<1>1. /\ Batch(n) \subseteq Pooled \cup NewIndexes(n)
      /\ Batch(n) \subseteq Nat
      /\ Batch(n) \cap Owned = {}
      /\ NewIndexes(n) \subseteq Batch(n)
  BY BatchOrigin, BatchIsFree DEF Batch
<1>2. /\ reusable_indexes' \in Seq(Nat)
      /\ IsInjective(reusable_indexes')
      /\ Pooled' = Pooled \ Batch(n)
  BY AllocatePool
<1>3. /\ n - ReuseCount(n) \in Nat
      /\ global_index_counter \in Nat
      /\ global_index_counter' = global_index_counter + (n - ReuseCount(n))
  BY ReuseCountType DEF AllocateIndexes, IMTypeOK
<1>4. partition_to_indexes' = [partition_to_indexes EXCEPT ![p] = @ \cup Batch(n)]
  BY DEF AllocateIndexes
<1>5. IMTypeOK'
  <2>1. NewIndexes(n) \subseteq Nat
    BY <1>1
  <2>2. (partition_to_indexes \in [Partitions -> SUBSET Nat])'
    BY <1>1, <1>4 DEF IMTypeOK
  <2>3. (allocated_indexes \in SUBSET Nat)'
    BY <2>1 DEF AllocateIndexes, IMTypeOK
  <2> QED
    BY <1>2, <1>3, <2>2, <2>3 DEF IMTypeOK
<1>6. Owned' = Owned \cup Batch(n)
  BY <1>4 DEF Owned, IMTypeOK
<1>7. OwnersDisjoint'
  BY <1>1, <1>4 DEF IMInv, OwnersDisjoint, Owned, IMTypeOK
<1>8. PoolIsFree'
  BY <1>1, <1>2, <1>6 DEF IMInv, PoolIsFree
<1>9. IndexesConserved'
  <2>1. 0..(global_index_counter' - 1) = 0..(global_index_counter - 1) \cup NewIndexes(n)
    BY <1>3 DEF NewIndexes
  <2>2. Pooled' \cup Owned' = Pooled \cup Owned \cup NewIndexes(n)
    BY <1>1, <1>2, <1>6
  <2> QED
    BY <2>1, <2>2 DEF IMInv, IndexesConserved
<1>10. AllocatedAreOwned'
  BY <1>1, <1>6 DEF AllocateIndexes, IMInv, AllocatedAreOwned
<1> QED
  BY <1>5, <1>7, <1>8, <1>9, <1>10 DEF IMInv

(* The indexes of a partition are finitely many.                           *)
LEMMA OwnedIsFinite ==
  ASSUME IMTypeOK, IMInv
  PROVE  IsFiniteSet(Owned)
<1>1. IsFiniteSet(0..(global_index_counter - 1))
  BY FS_Interval DEF IMTypeOK
<1>2. Owned \in SUBSET (0..(global_index_counter - 1))
  BY DEF IMInv, IndexesConserved
<1> QED
  BY <1>1, <1>2, FS_Subset

(* release_partition, and release_indexes for a set the partition owns,    *)
(* keep the bookkeeping, in whatever order the set is listed.              *)
LEMMA ReleaseKeepsIMInv ==
  ASSUME IMTypeOK, IMInv, NEW p \in Partitions,
         NEW S \in SUBSET partition_to_indexes[p], Release(p, S)
  PROVE  IMTypeOK' /\ IMInv'
<1>1. /\ S \subseteq Owned
      /\ S \subseteq Nat
  BY DEF Owned, IMTypeOK
<1>2. IsFiniteSet(S)
  BY <1>1, OwnedIsFinite, FS_Subset
<1>3. PICK e \in SetToSeqs(S) : reusable_indexes' = reusable_indexes \o e
  BY DEF Release
<1>4. S \cap Pooled = {}
  BY <1>1 DEF IMInv, PoolIsFree
<1>5. /\ reusable_indexes' \in Seq(Nat)
      /\ IsInjective(reusable_indexes')
      /\ Pooled' = Pooled \cup S
  BY <1>1, <1>2, <1>3, <1>4, AppendListing DEF IMTypeOK, IMInv, PoolIsFree, Pooled
<1>6. partition_to_indexes' = [partition_to_indexes EXCEPT ![p] = @ \ S]
  BY DEF Release
<1>7. IMTypeOK'
  BY <1>5, <1>6 DEF Release, IMTypeOK
<1>8. Owned' = Owned \ S
  BY <1>6 DEF Owned, IMTypeOK, IMInv, OwnersDisjoint
<1>9. OwnersDisjoint'
  BY <1>6 DEF IMInv, OwnersDisjoint, IMTypeOK
<1>10. PoolIsFree'
  BY <1>5, <1>8 DEF IMInv, PoolIsFree
<1>11. IndexesConserved'
  BY <1>1, <1>5, <1>8 DEF IMInv, IndexesConserved, Release
<1>12. AllocatedAreOwned'
  BY <1>8 DEF IMInv, AllocatedAreOwned, Release
<1> QED
  BY <1>7, <1>9, <1>10, <1>11, <1>12 DEF IMInv

(* release_indexes keeps the bookkeeping also when it raises.              *)
LEMMA ReleaseIndexesKeepsIMInv ==
  ASSUME IMTypeOK, IMInv, NEW p \in Partitions, NEW S, ReleaseIndexes(p, S)
  PROVE  IMTypeOK' /\ IMInv'
<1>1. CASE S \subseteq partition_to_indexes[p]
  BY <1>1, ReleaseKeepsIMInv DEF ReleaseIndexes
<1>2. CASE ~(S \subseteq partition_to_indexes[p])
  <2>1. UNCHANGED imVars
    BY <1>2 DEF ReleaseIndexes
  <2> QED
    BY <2>1, UnchangedKeepsIMInv
<1> QED
  BY <1>1, <1>2

-----------------------------------------------------------------------------
(* A partition's status.                                                   *)

(* A status of the right type whose samples are all drawn from U and whose *)
(* ready cells belong to samples.                                          *)
Sound(st, U) ==
  /\ st \in PartitionStatus
  /\ st.global_indexes \subseteq U
  /\ st.pre_allocated \subseteq U
  /\ \A e \in st.keys_mapping : e[2] \in U
  /\ ReadyCellsAreSamples(st)

(* Growing the tensors preserves it.                                       *)
LEMMA GrowthIsSound ==
  ASSUME NEW U \in SUBSET Nat, NEW st, Sound(st, U), NEW S \in SUBSET Nat
  PROVE  Sound(EnsureSamplesCapacity(st, S), U)
<1>1. UNION {0..i : i \in S} \subseteq Nat
  OBVIOUS
<1> QED
  BY <1>1 DEF Sound, PartitionStatus, EnsureSamplesCapacity, ReadyCellsAreSamples

(* create_partition gives a sound status.                                  *)
LEMMA NewPartitionIsSound ==
  ASSUME NEW U \in SUBSET Nat, NEW S \in SUBSET U
  PROVE  Sound(NewPartition(S), U)
<1>1. UNION {0..i : i \in S} \subseteq Nat /\ 0..(PreAlloc - 1) \subseteq Nat
  BY PartitionAssumption
<1> QED
  BY <1>1 DEF Sound, PartitionStatus, NewPartition, RegisterPreAllocated,
     EnsureSamplesCapacity, ReadyCellsAreSamples

(* A new batch of samples.                                                 *)
LEMMA AddIndexesIsSound ==
  ASSUME NEW U \in SUBSET Nat, NEW st, Sound(st, U), NEW S \in SUBSET U
  PROVE  Sound(AddIndexes(st, S), U)
  BY DEF Sound, PartitionStatus, AddIndexes, ReadyCellsAreSamples

(* update_production_status, of any samples and fields.                    *)
LEMMA UpdateIsSound ==
  ASSUME NEW U \in SUBSET Nat, NEW st, Sound(st, U), NEW S \in SUBSET U,
         NEW fs \in SUBSET Fields, NEW ready \in BOOLEAN
  PROVE  Sound(UpdateProductionStatus(st, S, fs, ready), U)
<1> DEFINE new == UpdateProductionStatus(st, S, fs, ready)
<1>1. UNION {0..i : i \in S} \subseteq Nat
  OBVIOUS
<1>2. new \in PartitionStatus
  BY <1>1 DEF Sound, PartitionStatus, UpdateProductionStatus, EnsureSamplesCapacity
<1>3. /\ new.global_indexes \subseteq U
      /\ new.pre_allocated \subseteq U
      /\ \A e \in new.keys_mapping : e[2] \in U
  BY DEF Sound, PartitionStatus, UpdateProductionStatus, EnsureSamplesCapacity
<1>4. ReadyCellsAreSamples(new)
  <2>1. S \subseteq UNION {0..i : i \in S}
    OBVIOUS
  <2> QED
    BY <2>1 DEF Sound, PartitionStatus, UpdateProductionStatus, EnsureSamplesCapacity,
       ReadyCellsAreSamples
<1> QED
  BY <1>2, <1>3, <1>4 DEF Sound

(* The keys of a new batch.                                                *)
LEMMA AddKeysIsSound ==
  ASSUME NEW U \in SUBSET Nat, NEW st, Sound(st, U),
         NEW ks \in SUBSET Keys, NEW S \in SUBSET U, NEW idx \in [ks -> S]
  PROVE  Sound(AddKeys(st, idx), U)
<1> DEFINE T == {idx[k] : k \in DOMAIN idx}
           keys == {e \in st.keys_mapping : e[1] \notin DOMAIN idx}
                     \cup {<<k, idx[k]>> : k \in DOMAIN idx}
           revert == {e \in st.revert_keys_mapping : e[1] \notin T}
                       \cup {<<idx[k], k>> : k \in DOMAIN idx}
           added == AddIndexes(st, T)
           named == [added EXCEPT !.keys_mapping = keys, !.revert_keys_mapping = revert]
<1>1. T \in SUBSET U
  OBVIOUS
<1>2. /\ keys \in SUBSET (Keys \X Nat)
      /\ \A e \in keys : e[2] \in U
      /\ revert \in SUBSET (Nat \X Keys)
  <2>1. /\ st.keys_mapping \in SUBSET (Keys \X Nat)
        /\ st.revert_keys_mapping \in SUBSET (Nat \X Keys)
        /\ \A e \in st.keys_mapping : e[2] \in U
    BY DEF Sound, PartitionStatus
  <2>2. DOMAIN idx = ks /\ \A k \in ks : k \in Keys /\ idx[k] \in U /\ idx[k] \in Nat
    OBVIOUS
  <2>3. keys \in SUBSET (Keys \X Nat)
    BY <2>1, <2>2
  <2>4. revert \in SUBSET (Nat \X Keys)
    BY <2>1, <2>2
  <2>5. \A e \in keys : e[2] \in U
    BY <2>1, <2>2
  <2> QED
    BY <2>3, <2>4, <2>5
<1>3. Sound(added, U)
  BY <1>1, AddIndexesIsSound
<1> HIDE DEF keys, revert, added, T
<1>4. Sound(named, U)
  BY <1>2, <1>3 DEF Sound, PartitionStatus, ReadyCellsAreSamples
<1>5. AddKeys(st, idx) = EnsureSamplesCapacity(named, T)
  <2>1. added.keys_mapping = st.keys_mapping /\ added.revert_keys_mapping = st.revert_keys_mapping
    BY DEF added, AddIndexes, Sound, PartitionStatus
  <2> QED
    BY <2>1 DEF AddKeys, named, added, keys, revert, T
<1> HIDE DEF named
<1> QED
  BY <1>1, <1>4, <1>5, GrowthIsSound

(* Consumption.                                                            *)
LEMMA ConsumptionIsSound ==
  ASSUME NEW U \in SUBSET Nat, NEW st, Sound(st, U)
  PROVE  /\ \A t \in Tasks : \A S \in SUBSET Nat : Sound(MarkConsumed(st, t, S), U)
         /\ \A ts : Sound(ResetConsumption(st, ts), U)
         /\ Sound(GetConsumptionStatus(st), U)
<1>1. ASSUME NEW t \in Tasks, NEW S \in SUBSET Nat
      PROVE  Sound(MarkConsumed(st, t, S), U)
  BY DEF Sound, PartitionStatus, MarkConsumed, ReadyCellsAreSamples
<1>2. ASSUME NEW ts
      PROVE  Sound(ResetConsumption(st, ts), U)
  BY DEF Sound, PartitionStatus, ResetConsumption, ReadyCellsAreSamples
<1>3. Sound(GetConsumptionStatus(st), U)
  <2>1. st.global_indexes \cup st.pre_allocated \in SUBSET Nat
    BY DEF Sound
  <2> QED
    BY <2>1, GrowthIsSound DEF GetConsumptionStatus
<1> QED
  BY <1>1, <1>2, <1>3

(* Zeroing rows, as mark_clearing does and as clear_data begins.           *)
LEMMA ZeroRowsIsSound ==
  ASSUME NEW U \in SUBSET Nat, NEW st, Sound(st, U), NEW S
  PROVE  /\ Sound(ZeroRows(st, S), U)
         /\ \A z \in PartlyZeroed(st, S) : Sound(z, U)
<1>1. ASSUME NEW Z
      PROVE  Sound(ZeroRows(st, Z), U)
  BY DEF Sound, PartitionStatus, ZeroRows, ReadyCellsAreSamples
<1> QED
  BY <1>1 DEF PartlyZeroed

(* clear_data, whether it succeeds or stops at an index out of range.      *)
LEMMA ClearDataIsSound ==
  ASSUME NEW U \in SUBSET Nat, NEW st, Sound(st, U), NEW S, NEW new \in ClearData(st, S)
  PROVE  Sound(new, U)
<1>1. Sound(Cleared(st, S), U)
  <2> DEFINE metadata == [f \in Fields |-> IF Remaining(st, S) = {} THEN {}
                                          ELSE st.field_metadata[f] \ S]
             consumption == [t \in Tasks |-> st.consumption_status[t] \ S]
  <2>1. /\ metadata \in [Fields -> SUBSET Nat]
        /\ consumption \in [Tasks -> SUBSET Nat]
    BY DEF Sound, PartitionStatus
  <2>2. Cleared(st, S) \in PartitionStatus
    BY <2>1 DEF Sound, PartitionStatus, Cleared, ZeroRows
  <2>3. /\ Cleared(st, S).global_indexes \subseteq U
        /\ Cleared(st, S).pre_allocated \subseteq U
        /\ \A e \in Cleared(st, S).keys_mapping : e[2] \in U
    BY DEF Sound, PartitionStatus, Cleared, ZeroRows
  <2>4. ReadyCellsAreSamples(Cleared(st, S))
    BY DEF Sound, PartitionStatus, Cleared, ZeroRows, ReadyCellsAreSamples, Remaining
  <2> QED
    BY <2>2, <2>3, <2>4 DEF Sound
<1> QED
  BY <1>1, ZeroRowsIsSound DEF ClearData

(* clear_fields.                                                           *)
LEMMA ClearFieldsIsSound ==
  ASSUME NEW U \in SUBSET Nat, NEW st, Sound(st, U), NEW S, NEW fs
  PROVE  Sound(ClearFields(st, S, fs), U)
  BY DEF Sound, PartitionStatus, ClearFields, ReadyCellsAreSamples

(* set_custom_meta.                                                        *)
LEMMA SetCustomMetaIsSound ==
  ASSUME NEW U \in SUBSET Nat, NEW st, Sound(st, U), NEW S \in SUBSET Nat
  PROVE  Sound(SetCustomMeta(st, S), U)
  BY DEF Sound, PartitionStatus, SetCustomMeta, ReadyCellsAreSamples

-----------------------------------------------------------------------------
(* A status in which nothing outlives its sample, keys name samples and    *)
(* reserved indexes are not samples.  Unlike Sound it needs callers that   *)
(* name samples only while they are in the partition.                      *)
Tidy(st) ==
  /\ NothingCarriedOver(st)
  /\ KeysNameSamples(st)
  /\ ReservedIsInactive(st)

(* create_partition gives a tidy status.                                   *)
LEMMA NewPartitionIsTidy ==
  ASSUME NEW S
  PROVE  Tidy(NewPartition(S))
  BY DEF Tidy, NewPartition, RegisterPreAllocated, EnsureSamplesCapacity, NothingCarriedOver,
     KeysNameSamples, ReservedIsInactive

(* Growing the tensors preserves it.                                       *)
LEMMA GrowthIsTidy ==
  ASSUME NEW st \in PartitionStatus, Tidy(st), NEW S
  PROVE  Tidy(EnsureSamplesCapacity(st, S))
  BY DEF Tidy, PartitionStatus, EnsureSamplesCapacity, NothingCarriedOver, KeysNameSamples,
     ReservedIsInactive

(* A new batch.                                                            *)
LEMMA AddIndexesIsTidy ==
  ASSUME NEW st \in PartitionStatus, Tidy(st), NEW S
  PROVE  Tidy(AddIndexes(st, S))
  BY DEF Tidy, PartitionStatus, AddIndexes, NothingCarriedOver, KeysNameSamples,
     ReservedIsInactive

(* New keys for samples that are new: the maps stay each other's inverse.  *)
LEMMA AddKeysIsTidy ==
  ASSUME NEW st \in PartitionStatus, Tidy(st),
         NEW ks \in SUBSET Keys, ks \cap KnownKeys(st) = {},
         NEW S \in SUBSET Nat, S \cap st.global_indexes = {}, NEW idx \in Injection(ks, S)
  PROVE  Tidy(AddKeys(st, idx))
<1> DEFINE T == {idx[k] : k \in DOMAIN idx}
           pairs == {<<k, idx[k]>> : k \in DOMAIN idx}
           keys == {e \in st.keys_mapping : e[1] \notin DOMAIN idx} \cup pairs
           revert == {e \in st.revert_keys_mapping : e[1] \notin T}
                       \cup {<<idx[k], k>> : k \in DOMAIN idx}
           new == AddKeys(st, idx)
<1>1. /\ DOMAIN idx = ks
      /\ \A k \in ks : idx[k] \in S
      /\ \A j, k \in ks : idx[j] = idx[k] => j = k
  BY DEF Injection, IsInjective
<1>2. /\ new.keys_mapping = keys
      /\ new.revert_keys_mapping = revert
      /\ new.global_indexes = st.global_indexes \cup T
      /\ new.pre_allocated = st.pre_allocated \ T
      /\ new.field_metadata = st.field_metadata
      /\ new.consumption_status = st.consumption_status
      /\ new.custom_meta = st.custom_meta
  BY DEF AddKeys, AddIndexes, EnsureSamplesCapacity, PartitionStatus
<1>3. /\ st.revert_keys_mapping = {<<e[2], e[1]>> : e \in st.keys_mapping}
      /\ \A d, e \in st.keys_mapping : (d[1] = e[1]) <=> (d[2] = e[2])
      /\ \A e \in st.keys_mapping : e[2] \in st.global_indexes
      /\ \A e \in st.keys_mapping : e[1] \notin ks
      /\ st.keys_mapping \in SUBSET (Keys \X Nat)
  BY DEF Tidy, KeysNameSamples, KnownKeys, PartitionStatus
<1>4. keys = st.keys_mapping \cup pairs
  BY <1>1, <1>3
<1>5. revert = st.revert_keys_mapping \cup {<<idx[k], k>> : k \in ks}
  BY <1>1, <1>3
<1>6. revert = {<<e[2], e[1]>> : e \in keys}
  <2>1. {<<e[2], e[1]>> : e \in pairs} = {<<idx[k], k>> : k \in ks}
    <3>1. ASSUME NEW k \in ks
          PROVE  \E e \in pairs : <<idx[k], k>> = <<e[2], e[1]>>
      <4>1. <<k, idx[k]>> \in pairs
        BY <1>1
      <4> QED
        BY <4>1
    <3>2. ASSUME NEW e \in pairs
          PROVE  \E k \in ks : <<e[2], e[1]>> = <<idx[k], k>>
      BY <1>1
    <3> HIDE DEF pairs
    <3> QED
      BY <3>1, <3>2
  <2> HIDE DEF pairs
  <2> QED
    BY <1>3, <1>4, <1>5, <2>1
<1>7. \A d, e \in keys : (d[1] = e[1]) <=> (d[2] = e[2])
  <2>1. \A e \in pairs : e[1] \in ks /\ e[2] = idx[e[1]] /\ e[2] \notin st.global_indexes
    BY <1>1
  <2>2. \A d, e \in pairs : (d[1] = e[1]) <=> (d[2] = e[2])
    BY <1>1, <2>1
  <2>3. \A d \in pairs, e \in st.keys_mapping : d[1] # e[1] /\ d[2] # e[2]
    BY <1>3, <2>1
  <2> QED
    BY <1>3, <1>4, <2>2, <2>3
<1>8. \A e \in keys : e[2] \in st.global_indexes \cup T
  BY <1>3, <1>4
<1> HIDE DEF keys, revert, T
<1>9. KeysNameSamples(new)
  BY <1>2, <1>6, <1>7, <1>8 DEF KeysNameSamples
<1>10. NothingCarriedOver(new) /\ ReservedIsInactive(new)
  BY <1>2 DEF Tidy, NothingCarriedOver, ReservedIsInactive
<1> QED
  BY <1>9, <1>10 DEF Tidy

(* update_production_status, and set_custom_meta, of samples.              *)
LEMMA UpdateIsTidy ==
  ASSUME NEW st \in PartitionStatus, Tidy(st), NEW S \in SUBSET st.global_indexes,
         NEW fs \in SUBSET Fields, NEW ready \in BOOLEAN
  PROVE  /\ Tidy(UpdateProductionStatus(st, S, fs, ready))
         /\ UpdateProductionStatus(st, S, fs, ready).global_indexes = st.global_indexes
         /\ UpdateProductionStatus(st, S, fs, ready).pre_allocated = st.pre_allocated
         /\ Tidy(SetCustomMeta(st, S))
<1>1. Tidy(UpdateProductionStatus(st, S, fs, ready))
  BY DEF Tidy, PartitionStatus, UpdateProductionStatus, EnsureSamplesCapacity,
     NothingCarriedOver, KeysNameSamples, ReservedIsInactive
<1>2. /\ UpdateProductionStatus(st, S, fs, ready).global_indexes = st.global_indexes
      /\ UpdateProductionStatus(st, S, fs, ready).pre_allocated = st.pre_allocated
  BY DEF PartitionStatus, UpdateProductionStatus, EnsureSamplesCapacity
<1>3. Tidy(SetCustomMeta(st, S))
  BY DEF Tidy, PartitionStatus, SetCustomMeta, NothingCarriedOver, KeysNameSamples,
     ReservedIsInactive
<1> QED
  BY <1>1, <1>2, <1>3

(* Marking samples consumed, resetting and counting.                       *)
LEMMA ConsumptionIsTidy ==
  ASSUME NEW st \in PartitionStatus, Tidy(st)
  PROVE  /\ \A t \in Tasks : \A S \in SUBSET st.global_indexes : Tidy(MarkConsumed(st, t, S))
         /\ \A ts : Tidy(ResetConsumption(st, ts))
         /\ Tidy(GetConsumptionStatus(st))
<1>1. ASSUME NEW t \in Tasks, NEW S \in SUBSET st.global_indexes
      PROVE  Tidy(MarkConsumed(st, t, S))
  BY DEF Tidy, PartitionStatus, MarkConsumed, NothingCarriedOver, KeysNameSamples,
     ReservedIsInactive
<1>2. ASSUME NEW ts
      PROVE  Tidy(ResetConsumption(st, ts))
  BY DEF Tidy, PartitionStatus, ResetConsumption, NothingCarriedOver, KeysNameSamples,
     ReservedIsInactive
<1>3. Tidy(GetConsumptionStatus(st))
  BY GrowthIsTidy DEF GetConsumptionStatus
<1> QED
  BY <1>1, <1>2, <1>3

(* clear_data of samples in range, clear_fields and zeroed rows.           *)
LEMMA ClearingIsTidy ==
  ASSUME NEW st \in PartitionStatus, Tidy(st), NEW S, NEW fs
  PROVE  /\ Tidy(Cleared(st, S))
         /\ Tidy(ClearFields(st, S, fs))
         /\ Tidy(ZeroRows(st, S))
<1>1. Tidy(Cleared(st, S))
  <2> DEFINE new == Cleared(st, S)
             keys == {e \in st.keys_mapping :
                        \A r \in st.revert_keys_mapping : r[1] \in S => e[1] # r[2]}
             revert == {r \in st.revert_keys_mapping : r[1] \notin S}
  <2>1. /\ new.keys_mapping = keys
        /\ new.revert_keys_mapping = revert
        /\ new.global_indexes = st.global_indexes \ S
    BY DEF Cleared, ZeroRows, PartitionStatus
  <2>2. /\ st.revert_keys_mapping = {<<e[2], e[1]>> : e \in st.keys_mapping}
        /\ \A d, e \in st.keys_mapping : (d[1] = e[1]) <=> (d[2] = e[2])
        /\ \A e \in st.keys_mapping : e[2] \in st.global_indexes
    BY DEF Tidy, KeysNameSamples
  <2>3. keys = {e \in st.keys_mapping : e[2] \notin S}
    <3>1. ASSUME NEW e \in st.keys_mapping
          PROVE  (\A r \in st.revert_keys_mapping : r[1] \in S => e[1] # r[2]) <=> e[2] \notin S
      <4>1. <<e[2], e[1]>> \in st.revert_keys_mapping
        BY <2>2
      <4>2. \A r \in st.revert_keys_mapping : r[2] = e[1] => r[1] = e[2]
        BY <2>2
      <4> QED
        BY <4>1, <4>2
    <3> QED
      BY <3>1
  <2>4. revert = {<<e[2], e[1]>> : e \in keys}
    BY <2>2, <2>3
  <2> HIDE DEF keys, revert
  <2>5. KeysNameSamples(new)
    BY <2>1, <2>2, <2>3, <2>4 DEF KeysNameSamples
  <2>6. NothingCarriedOver(new) /\ ReservedIsInactive(new)
    BY DEF Tidy, NothingCarriedOver, ReservedIsInactive, Cleared, ZeroRows, PartitionStatus,
       Remaining
  <2> QED
    BY <2>5, <2>6 DEF Tidy
<1>2. Tidy(ClearFields(st, S, fs))
  BY DEF Tidy, PartitionStatus, ClearFields, NothingCarriedOver, KeysNameSamples,
     ReservedIsInactive
<1>3. Tidy(ZeroRows(st, S))
  BY DEF Tidy, PartitionStatus, ZeroRows, NothingCarriedOver, KeysNameSamples,
     ReservedIsInactive
<1> QED
  BY <1>1, <1>2, <1>3

-----------------------------------------------------------------------------
(* The controller.                                                         *)

(* The indexes there can be.                                               *)
Universe == 0..(MaxIndexes - 1)

(* Every partition's status is sound.                                      *)
StatusesSound ==
  /\ \E D \in SUBSET Partitions : partitions \in [D -> PartitionStatus]
  /\ \A p \in DOMAIN partitions : Sound(partitions[p], Universe)

(* What the handlers keep whatever samples a request names ...             *)
ControllerSafe ==
  /\ IMTypeOK
  /\ IMInv
  /\ global_index_counter <= MaxIndexes
  /\ StatusesSound

(* ... and what they keep when it names only samples of its partition.     *)
ControllerTidy ==
  /\ OwnershipAgrees
  /\ \A p \in DOMAIN partitions : Tidy(partitions[p])

(* Replacing or adding one sound status.                                   *)
LEMMA WithIsSound ==
  ASSUME StatusesSound, NEW p \in Partitions, NEW st, Sound(st, Universe),
         partitions' = With(p, st)
  PROVE  StatusesSound'
<1>1. PICK D \in SUBSET Partitions : partitions \in [D -> PartitionStatus]
  BY DEF StatusesSound
<1>2. st \in PartitionStatus
  BY DEF Sound
<1>3. partitions' \in [D \cup {p} -> PartitionStatus]
  BY <1>1, <1>2 DEF With
<1>4. \A q \in D \cup {p} : Sound(partitions'[q], Universe)
  BY <1>1 DEF With, StatusesSound
<1> QED
  BY <1>1, <1>3, <1>4 DEF StatusesSound, Universe

(* The status of a partition there is.                                     *)
LEMMA StatusOf ==
  ASSUME StatusesSound, NEW p, Exists(p)
  PROVE  Sound(partitions[p], Universe) /\ p \in Partitions
  BY DEF StatusesSound, Exists

(* What partitions own is in bounds.                                       *)
LEMMA OwnedInUniverse ==
  ASSUME ControllerSafe
  PROVE  Owned \subseteq Universe
  BY IndexManagerAssumption DEF ControllerSafe, IMInv, IndexesConserved, IMTypeOK, Universe

LEMMA UniverseIsFinite == IsFiniteSet(Universe) /\ Universe \in SUBSET Nat
<1>1. MaxIndexes - 1 \in Int /\ 0 \in Int
  BY IndexManagerAssumption
<1>2. IsFiniteSet(Universe)
  BY <1>1, FS_Interval DEF Universe
<1> QED
  BY <1>2 DEF Universe

(* A batch that can be allocated is in bounds.                             *)
LEMMA BatchInUniverse ==
  ASSUME ControllerSafe, NEW n \in Nat, global_index_counter + n - ReuseCount(n) <= MaxIndexes
  PROVE  Batch(n) \subseteq Universe
<1>1. Batch(n) \subseteq Pooled \cup NewIndexes(n)
  BY BatchOrigin DEF ControllerSafe
<1>2. Pooled \subseteq Universe
  BY IndexManagerAssumption DEF ControllerSafe, IMInv, IndexesConserved, IMTypeOK, Universe
<1>3. global_index_counter \in Nat /\ n - ReuseCount(n) \in Nat
  BY ReuseCountType DEF ControllerSafe, IMTypeOK
<1>4. NewIndexes(n) \subseteq Universe
  <2>1. ReuseCount(n) \in Int
    BY ReuseCountType DEF ControllerSafe
  <2> QED
    BY <1>3, <2>1, IndexManagerAssumption DEF NewIndexes, Universe
<1> QED
  BY <1>1, <1>2, <1>4

(* The same number of indexes or fewer can be allocated too: what a new    *)
(* partition sets aside is part of what its first batch allocates.         *)
LEMMA SmallerBatch ==
  ASSUME ControllerSafe, NEW m \in Nat, NEW n \in Nat, m <= n
  PROVE  /\ Batch(m) \subseteq Batch(n)
         /\ n - ReuseCount(n) >= m - ReuseCount(m)
<1>1. /\ ReuseCount(m) \in Nat /\ ReuseCount(n) \in Nat
      /\ Len(reusable_indexes) \in Nat
      /\ global_index_counter \in Nat
  BY ReuseCountType DEF ControllerSafe, IMTypeOK
<1>2. /\ ReuseCount(m) <= ReuseCount(n)
      /\ n - ReuseCount(n) >= m - ReuseCount(m)
  BY <1>1 DEF ReuseCount
<1> QED
  BY <1>1, <1>2 DEF Batch, NewIndexes

(* A batch is finite.                                                      *)
LEMMA BatchIsFinite ==
  ASSUME ControllerSafe, NEW n \in Nat
  PROVE  IsFiniteSet(Batch(n))
<1>1. global_index_counter \in Nat /\ n - ReuseCount(n) \in Nat /\ ReuseCount(n) \in Nat
  BY ReuseCountType DEF ControllerSafe, IMTypeOK
<1>2. Batch(n) \subseteq Pooled \cup NewIndexes(n)
  BY BatchOrigin DEF ControllerSafe
<1>3. Pooled \subseteq 0..(global_index_counter + n)
  BY <1>1 DEF ControllerSafe, IMInv, IndexesConserved
<1>4. NewIndexes(n) \subseteq 0..(global_index_counter + n)
  BY <1>1 DEF NewIndexes
<1>5. IsFiniteSet(0..(global_index_counter + n))
  BY <1>1, FS_Interval
<1> QED
  BY <1>2, <1>3, <1>4, <1>5, FS_Subset

(* The sets Lowest offers.                                                 *)
LEMMA LowestType ==
  ASSUME NEW S, IsFiniteSet(S), NEW n \in Nat, NEW A \in Lowest(S, n)
  PROVE  A \subseteq S /\ Cardinality(A) \in 0..n
<1>1. Cardinality(S) \in Nat
  BY FS_CardinalityType
<1>2. A \in SUBSET S /\ Cardinality(A) = IF n < Cardinality(S) THEN n ELSE Cardinality(S)
  BY DEF Lowest, kSubset
<1> QED
  BY <1>1, <1>2

(* How many indexes a batch of n allocates, and which.                     *)
LEMMA NewBatchType ==
  ASSUME ControllerSafe, NEW p \in Partitions, NEW n \in Nat,
         NEW A \in Activations(p, n),
         AllocateIndexes(p, ToAllocate(p, n, A))
  PROVE  /\ ToAllocate(p, n, A) \in Nat
         /\ Sound(Opened(p), Universe)
         /\ A \subseteq Opened(p).pre_allocated
         /\ NewBatch(p, n, A) \subseteq Universe
<1> DEFINE m == ToAllocate(p, n, A)
<1>1. Reserve(p) \in Nat
  BY PartitionAssumption DEF Reserve
<1>2. IsFiniteSet(Opened(p).pre_allocated)
  <2>1. CASE Exists(p)
    <3>1. Opened(p).pre_allocated \subseteq Universe
      BY <2>1, StatusOf DEF Opened, Sound, ControllerSafe
    <3> QED
      BY <3>1, UniverseIsFinite, FS_Subset
  <2>2. CASE ~Exists(p)
    <3>1. Opened(p).pre_allocated = Batch(PreAlloc)
      BY <2>2 DEF Opened, NewPartition, RegisterPreAllocated, EnsureSamplesCapacity
    <3> QED
      BY <3>1, BatchIsFinite, PartitionAssumption
  <2> QED
    BY <2>1, <2>2
<1>3. A \subseteq Opened(p).pre_allocated /\ Cardinality(A) \in 0..n
  BY <1>2, LowestType DEF Activations
<1>4. m \in Nat /\ Reserve(p) <= m
  BY <1>1, <1>3 DEF ToAllocate
<1>5. Batch(m) \subseteq Universe
  BY <1>4, BatchInUniverse DEF AllocateIndexes
<1>6. Sound(Opened(p), Universe)
  <2>1. CASE Exists(p)
    BY <2>1, StatusOf DEF Opened, ControllerSafe
  <2>2. CASE ~Exists(p)
    <3>1. Batch(PreAlloc) \subseteq Universe
      BY <1>1, <1>4, <1>5, <2>2, SmallerBatch DEF Reserve
    <3> QED
      BY <2>2, <3>1, NewPartitionIsSound, UniverseIsFinite DEF Opened
  <2> QED
    BY <2>1, <2>2
<1>7. A \subseteq Universe
  BY <1>3, <1>6 DEF Sound
<1> QED
  BY <1>3, <1>4, <1>5, <1>6, <1>7 DEF NewBatch

-----------------------------------------------------------------------------
(* What the handlers keep whatever samples they are named.                 *)

(* A step that allocates a batch and adds it to its partition.             *)
LEMMA AllocationIsSafe ==
  ASSUME ControllerSafe, NEW p \in Partitions, NEW m \in Nat, AllocateIndexes(p, m),
         StatusesSound'
  PROVE  ControllerSafe'
<1>1. IMTypeOK' /\ IMInv'
  BY AllocateKeepsIMInv DEF ControllerSafe
<1>2. (global_index_counter <= MaxIndexes)'
  BY DEF AllocateIndexes
<1> QED
  BY <1>1, <1>2 DEF ControllerSafe

(* GET_META, mode "insert".                                                *)
LEMMA InsertIsSafe ==
  ASSUME ControllerSafe, NEW p \in Partitions, NEW n \in Nat, NEW A, GetMetaInsert(p, n, A)
  PROVE  ControllerSafe' /\ NewBatch(p, n, A) \in SUBSET Universe
<1>1. A \in Activations(p, n) /\ AllocateIndexes(p, ToAllocate(p, n, A))
  BY DEF GetMetaInsert
<1>2. /\ ToAllocate(p, n, A) \in Nat
      /\ Sound(Opened(p), Universe)
      /\ NewBatch(p, n, A) \subseteq Universe
  BY <1>1, NewBatchType
<1>3. Sound(AddIndexes(Opened(p), NewBatch(p, n, A)), Universe)
  BY <1>2, AddIndexesIsSound, UniverseIsFinite
<1>4. StatusesSound'
  BY <1>3, WithIsSound DEF GetMetaInsert, ControllerSafe
<1> QED
  BY <1>1, <1>2, <1>4, AllocationIsSafe

(* How many keys there are.                                                *)
LEMMA KeysAreCounted ==
  ASSUME NEW keys \in SUBSET Keys
  PROVE  Cardinality(keys) \in Nat
  BY PartitionAssumption, FS_Subset, FS_CardinalityType

(* KV_RETRIEVE_META (create) and KV_PREPARE_UPDATE.                        *)
LEMMA CreateIsSafe ==
  ASSUME ControllerSafe, NEW p \in Partitions, NEW keys \in SUBSET Keys, NEW A,
         KvCreate(p, keys, A)
  PROVE  ControllerSafe' /\ NewBatch(p, Cardinality(keys), A) \in SUBSET Universe
<1> DEFINE n == Cardinality(keys)
<1>1. n \in Nat
  BY KeysAreCounted
<1>2. A \in Activations(p, n) /\ AllocateIndexes(p, ToAllocate(p, n, A))
  BY DEF KvCreate
<1>3. PICK index_of \in Bijection(keys, NewBatch(p, n, A)) :
        partitions' = With(p, AddKeys(Opened(p), index_of))
  BY DEF KvCreate
<1> HIDE DEF n
<1>4. /\ ToAllocate(p, n, A) \in Nat
      /\ Sound(Opened(p), Universe)
      /\ NewBatch(p, n, A) \subseteq Universe
  BY <1>1, <1>2, NewBatchType
<1>5. index_of \in [keys -> NewBatch(p, n, A)]
  BY <1>3 DEF Bijection, Injection
<1>6. Sound(AddKeys(Opened(p), index_of), Universe)
  BY <1>4, <1>5, AddKeysIsSound, UniverseIsFinite
<1>7. StatusesSound'
  BY <1>3, <1>6, WithIsSound DEF ControllerSafe
<1>8. ControllerSafe'
  BY <1>2, <1>4, <1>7, AllocationIsSafe
<1> QED
  BY <1>4, <1>8 DEF n

(* A step of the status of one partition alone.                            *)
LEMMA StatusStepIsSafe ==
  ASSUME ControllerSafe, UNCHANGED imVars, NEW p \in Partitions,
         NEW st, Sound(st, Universe), partitions' = With(p, st)
  PROVE  ControllerSafe'
<1>1. IMTypeOK' /\ IMInv'
  BY UnchangedKeepsIMInv DEF ControllerSafe
<1>2. (global_index_counter <= MaxIndexes)'
  BY DEF ControllerSafe, imVars
<1>3. StatusesSound'
  BY WithIsSound DEF ControllerSafe
<1> QED
  BY <1>1, <1>2, <1>3 DEF ControllerSafe

LEMMA UnchangedIsSafe ==
  ASSUME ControllerSafe, UNCHANGED controllerVars
  PROVE  ControllerSafe'
<1>1. IMTypeOK' /\ IMInv'
  BY UnchangedKeepsIMInv DEF ControllerSafe, controllerVars
<1> QED
  BY <1>1 DEF ControllerSafe, controllerVars, imVars, StatusesSound, Universe

(* NOTIFY_DATA_UPDATE.                                                     *)
LEMMA NotifyIsSafe ==
  ASSUME ControllerSafe, NEW p \in Partitions, NEW S \in SUBSET Universe,
         NEW fs \in SUBSET Fields, NEW ready \in BOOLEAN, NotifyDataUpdate(p, S, fs, ready)
  PROVE  ControllerSafe'
<1>1. Sound(UpdateProductionStatus(partitions[p], S, fs, ready), Universe)
  BY StatusOf, UpdateIsSound, UniverseIsFinite DEF NotifyDataUpdate, ControllerSafe
<1> QED
  BY <1>1, StatusStepIsSafe DEF NotifyDataUpdate

(* What scan_data_status finds are samples, because ready cells are.       *)
LEMMA FoundAreSamples ==
  ASSUME ControllerSafe, NEW p, Exists(p), NEW fs \in (SUBSET Fields) \ {{}}, NEW t, NEW n,
         NEW B \in Lowest(ScanDataStatus(partitions[p], fs, t), n)
  PROVE  /\ B \in SUBSET partitions[p].global_indexes
         /\ B \in SUBSET Universe
         /\ B \X fs \subseteq partitions[p].production_status
<1>1. Sound(partitions[p], Universe)
  BY StatusOf DEF ControllerSafe
<1>2. B \subseteq ScanDataStatus(partitions[p], fs, t)
  BY DEF Lowest, kSubset
<1>3. \A i \in ScanDataStatus(partitions[p], fs, t) :
        {i} \X fs \subseteq partitions[p].production_status
  BY DEF ScanDataStatus
<1>4. PICK f : f \in fs
  OBVIOUS
<1>5. \A i \in B : <<i, f>> \in partitions[p].production_status
  BY <1>2, <1>3, <1>4
<1>6. \A i \in B : i \in partitions[p].global_indexes
  BY <1>1, <1>5 DEF Sound, ReadyCellsAreSamples
<1>7. B \X fs \subseteq partitions[p].production_status
  BY <1>2, <1>3
<1> QED
  BY <1>1, <1>6, <1>7 DEF Sound

(* GET_META, mode "fetch".                                                 *)
LEMMA FetchIsSafe ==
  ASSUME ControllerSafe, NEW p \in Partitions, NEW fs \in (SUBSET Fields) \ {{}},
         NEW t \in Tasks, NEW n, NEW B, GetMetaFetch(p, fs, t, n, B)
  PROVE  ControllerSafe'
<1>1. Exists(p) /\ B \in Lowest(ScanDataStatus(partitions[p], fs, t), n)
  BY DEF GetMetaFetch
<1>2. B \in SUBSET Nat
  BY <1>1, FoundAreSamples, UniverseIsFinite
<1>3. Sound(MarkConsumed(partitions[p], t, B), Universe)
  BY <1>1, <1>2, StatusOf, ConsumptionIsSound, UniverseIsFinite DEF ControllerSafe
<1> QED
  BY <1>3, StatusStepIsSafe DEF GetMetaFetch

(* GET_CONSUMPTION, RESET_CONSUMPTION and SET_CUSTOM_META.                 *)
LEMMA ConsumptionIsSafe ==
  ASSUME ControllerSafe, NEW p \in Partitions,
         \/ GetConsumption(p)
         \/ \E ts : Reset(p, ts)
         \/ \E S \in SUBSET Nat : SetMeta(p, S)
  PROVE  ControllerSafe'
<1>1. CASE GetConsumption(p)
  <2>1. Sound(GetConsumptionStatus(partitions[p]), Universe)
    BY <1>1, StatusOf, ConsumptionIsSound, UniverseIsFinite DEF GetConsumption, ControllerSafe
  <2> QED
    BY <1>1, <2>1, StatusStepIsSafe DEF GetConsumption
<1>2. ASSUME NEW ts, Reset(p, ts) PROVE ControllerSafe'
  <2>1. Sound(ResetConsumption(partitions[p], ts), Universe)
    BY <1>2, StatusOf, ConsumptionIsSound, UniverseIsFinite DEF Reset, ControllerSafe
  <2> QED
    BY <1>2, <2>1, StatusStepIsSafe DEF Reset
<1>3. ASSUME NEW S \in SUBSET Nat, SetMeta(p, S) PROVE ControllerSafe'
  <2>1. Sound(SetCustomMeta(partitions[p], S), Universe)
    BY <1>3, StatusOf, SetCustomMetaIsSound, UniverseIsFinite DEF SetMeta, ControllerSafe
  <2> QED
    BY <1>3, <2>1, StatusStepIsSafe DEF SetMeta
<1> QED
  BY <1>1, <1>2, <1>3

(* KV_CLEAR_FIELDS.                                                        *)
LEMMA DropIsSafe ==
  ASSUME ControllerSafe, NEW p \in Partitions, NEW keys, NEW fs, KvClearFields(p, keys, fs)
  PROVE  ControllerSafe' /\ IndexesOf(partitions[p], keys) \in SUBSET Universe
<1>1. Sound(partitions[p], Universe)
  BY StatusOf DEF KvClearFields, ControllerSafe
<1>2. IndexesOf(partitions[p], keys) \in SUBSET Universe
  BY <1>1 DEF IndexesOf, Sound
<1>3. PICK held :
        partitions' = With(p, ClearFields(partitions[p], IndexesOf(partitions[p], keys), held))
  BY DEF KvClearFields
<1>4. ControllerSafe'
  BY <1>1, <1>3, ClearFieldsIsSound, UniverseIsFinite, StatusStepIsSafe DEF KvClearFields
<1> QED
  BY <1>2, <1>4

(* MARK_CLEARING, answered or failed.                                      *)
LEMMA MarkIsSafe ==
  ASSUME ControllerSafe, NEW p \in Partitions, NEW S, MarkClearing(p, S)
  PROVE  ControllerSafe'
<1> DEFINE existing == S \cap partitions[p].global_indexes
<1>1. Sound(partitions[p], Universe)
  BY StatusOf DEF MarkClearing, ControllerSafe
<1>2. /\ Sound(ZeroRows(partitions[p], existing), Universe)
      /\ \A z \in PartlyZeroed(partitions[p], existing) : Sound(z, Universe)
  BY <1>1, ZeroRowsIsSound, UniverseIsFinite
<1>3. PICK st : Sound(st, Universe) /\ partitions' = With(p, st)
  BY <1>2 DEF MarkClearing
<1> QED
  BY <1>3, StatusStepIsSafe DEF MarkClearing

(* CLEAR_META, whatever clear_data and release_indexes do.                 *)
LEMMA ClearIsSafe ==
  ASSUME ControllerSafe, NEW p \in Partitions, NEW S, ClearMeta(p, S)
  PROVE  ControllerSafe'
<1> DEFINE existing == S \cap partitions[p].global_indexes
<1>1. Sound(partitions[p], Universe)
  BY StatusOf DEF ClearMeta, ControllerSafe
<1>2. PICK st \in ClearData(partitions[p], existing) : partitions' = With(p, st)
  BY DEF ClearMeta
<1>3. StatusesSound'
  BY <1>1, <1>2, ClearDataIsSound, UniverseIsFinite, WithIsSound DEF ControllerSafe
<1>4. ReleaseIndexes(p, existing)
  BY DEF ClearMeta
<1>5. IMTypeOK' /\ IMInv'
  BY <1>4, ReleaseIndexesKeepsIMInv DEF ControllerSafe
<1>6. (global_index_counter <= MaxIndexes)'
  BY <1>4 DEF ReleaseIndexes, Release, ControllerSafe, imVars
<1> QED
  BY <1>3, <1>5, <1>6 DEF ControllerSafe

(* CLEAR_PARTITION.                                                        *)
LEMMA ClearAllIsSafe ==
  ASSUME ControllerSafe, NEW p \in Partitions, ClearPartition(p)
  PROVE  ControllerSafe'
<1>1. ReleasePartition(p) /\ partitions' = [q \in DOMAIN partitions \ {p} |-> partitions[q]]
  BY DEF ClearPartition
<1>2. IMTypeOK' /\ IMInv'
  BY <1>1, ReleaseKeepsIMInv DEF ReleasePartition, ControllerSafe
<1>3. (global_index_counter <= MaxIndexes)'
  BY <1>1 DEF ReleasePartition, Release, ControllerSafe
<1>4. StatusesSound'
  <2>1. PICK D \in SUBSET Partitions : partitions \in [D -> PartitionStatus]
    BY DEF ControllerSafe, StatusesSound
  <2>2. partitions' \in [D \ {p} -> PartitionStatus]
    BY <1>1, <2>1
  <2>3. \A q \in D \ {p} : Sound(partitions'[q], Universe)
    BY <1>1, <2>1 DEF ControllerSafe, StatusesSound
  <2> QED
    BY <2>1, <2>2, <2>3 DEF StatusesSound, Universe
<1> QED
  BY <1>2, <1>3, <1>4 DEF ControllerSafe

(* The controller starts safe and tidy.                                    *)
LEMMA StartIsSafe ==
  ASSUME ControllerInit
  PROVE  ControllerSafe /\ ControllerTidy
<1>1. IMTypeOK /\ Owned = {} /\ Pooled = {}
  BY DEF ControllerInit, IMInit, IMTypeOK, Owned, Pooled, ToSet
<1>2. IMInv
  BY <1>1 DEF ControllerInit, IMInit, IMInv, OwnersDisjoint, PoolIsFree,
     IndexesConserved, AllocatedAreOwned, IsInjective
<1>3. partitions \in [{} -> PartitionStatus] /\ DOMAIN partitions = {}
  BY DEF ControllerInit
<1>4. ControllerSafe
  BY <1>1, <1>2, <1>3, IndexManagerAssumption
     DEF ControllerSafe, ControllerInit, IMInit, StatusesSound
<1>5. ControllerTidy
  BY <1>3 DEF ControllerInit, IMInit, ControllerTidy, OwnershipAgrees, Exists
<1> QED
  BY <1>4, <1>5

-----------------------------------------------------------------------------
(* What they keep when they are named samples of the partition.            *)

(* A step of one partition that keeps its status tidy, and its samples and *)
(* reserved indexes what the index manager records.                        *)
LEMMA PartitionStepIsTidy ==
  ASSUME ControllerTidy, NEW p \in Partitions, NEW st, Tidy(st), partitions' = With(p, st),
         \A q \in Partitions \ {p} : partition_to_indexes'[q] = partition_to_indexes[q],
         partition_to_indexes'[p] = st.global_indexes \cup st.pre_allocated
  PROVE  ControllerTidy'
<1>1. /\ DOMAIN partitions' = DOMAIN partitions \cup {p}
      /\ partitions'[p] = st
      /\ \A q \in DOMAIN partitions : q # p => partitions'[q] = partitions[q]
  BY DEF With
<1> QED
  BY <1>1 DEF ControllerTidy, OwnershipAgrees, Exists

(* A step of a partition's status alone, its samples the same.             *)
LEMMA StatusStepIsTidy ==
  ASSUME ControllerTidy, UNCHANGED imVars, NEW p \in Partitions, Exists(p), NEW st, Tidy(st),
         partitions' = With(p, st),
         st.global_indexes = partitions[p].global_indexes,
         st.pre_allocated = partitions[p].pre_allocated
  PROVE  ControllerTidy'
  BY PartitionStepIsTidy DEF ControllerTidy, OwnershipAgrees, imVars

LEMMA UnchangedIsTidy ==
  ASSUME ControllerTidy, UNCHANGED <<imVars, partitions>>
  PROVE  ControllerTidy'
  BY DEF ControllerTidy, OwnershipAgrees, Exists, imVars

(* The status of a partition there is.                                     *)
LEMMA TidyStatusOf ==
  ASSUME ControllerSafe, ControllerTidy, NEW p, Exists(p)
  PROVE  /\ partitions[p] \in PartitionStatus
         /\ Tidy(partitions[p])
         /\ ReadyCellsAreSamples(partitions[p])
  BY StatusOf DEF ControllerTidy, ControllerSafe, Sound, Exists

(* A new batch for p: nobody owned it, and it is no sample of p.           *)
LEMMA NewBatchAgrees ==
  ASSUME ControllerSafe, ControllerTidy, NEW p \in Partitions, NEW n \in Nat, NEW A \in Activations(p, n),
         AllocateIndexes(p, ToAllocate(p, n, A))
  PROVE  /\ Opened(p) \in PartitionStatus
         /\ Tidy(Opened(p))
         /\ NewBatch(p, n, A) \cap Opened(p).global_indexes = {}
         /\ partition_to_indexes'[p]
              = Opened(p).global_indexes \cup Opened(p).pre_allocated \cup NewBatch(p, n, A)
         /\ \A q \in Partitions \ {p} : partition_to_indexes'[q] = partition_to_indexes[q]
<1> DEFINE m == ToAllocate(p, n, A)
<1>1. /\ m \in Nat
      /\ Sound(Opened(p), Universe)
      /\ A \subseteq Opened(p).pre_allocated
  BY NewBatchType DEF ControllerSafe
<1>2. Opened(p) \in PartitionStatus
  BY <1>1 DEF Sound
<1>3. Tidy(Opened(p))
  BY NewPartitionIsTidy DEF Opened, ControllerTidy, Exists
<1>4. /\ partition_to_indexes'[p] = partition_to_indexes[p] \cup Batch(m)
      /\ \A q \in Partitions \ {p} : partition_to_indexes'[q] = partition_to_indexes[q]
  BY DEF AllocateIndexes, ControllerSafe, IMTypeOK
<1>5. Batch(m) \cap partition_to_indexes[p] = {}
  BY <1>1, BatchIsFree DEF ControllerSafe, Owned
<1>6. CASE Exists(p)
  <2>1. partition_to_indexes[p] = Opened(p).global_indexes \cup Opened(p).pre_allocated
    BY <1>6 DEF ControllerTidy, OwnershipAgrees, Opened
  <2>2. Batch(Reserve(p)) = {}
    BY <1>6, ReuseCountType DEF Reserve, Batch, NewIndexes, ReuseCount, ControllerSafe, IMTypeOK
  <2>3. NewBatch(p, n, A) = A \cup Batch(m)
    BY <2>2 DEF NewBatch
  <2>4. Opened(p).global_indexes \cap Opened(p).pre_allocated = {}
    BY <1>3 DEF Tidy, ReservedIsInactive
  <2> QED
    BY <1>1, <1>2, <1>3, <1>4, <1>5, <2>1, <2>3, <2>4
<1>7. CASE ~Exists(p)
  <2>1. Opened(p).global_indexes = {} /\ Opened(p).pre_allocated = Batch(PreAlloc)
    BY <1>7 DEF Opened, NewPartition, RegisterPreAllocated, EnsureSamplesCapacity
  <2>2. partition_to_indexes[p] = {}
    BY <1>7 DEF ControllerTidy, OwnershipAgrees
  <2>3. Reserve(p) = PreAlloc /\ m = PreAlloc + (n - Cardinality(A)) /\ Cardinality(A) \in 0..n
    <3>1. IsFiniteSet(Opened(p).pre_allocated)
      BY <2>1, BatchIsFinite, PartitionAssumption DEF ControllerSafe
    <3> QED
      BY <1>7, <3>1, LowestType DEF Reserve, ToAllocate, Activations
  <2>4. Batch(PreAlloc) \subseteq Batch(m)
    BY <1>1, <2>3, SmallerBatch, PartitionAssumption DEF ControllerSafe
  <2>5. NewBatch(p, n, A) \cup Batch(PreAlloc) = Batch(m)
    BY <1>1, <2>1, <2>3, <2>4 DEF NewBatch
  <2> QED
    BY <1>2, <1>3, <1>4, <2>1, <2>2, <2>5
<1> QED
  BY <1>6, <1>7

(* GET_META, mode "insert".                                                *)
LEMMA InsertIsTidy ==
  ASSUME ControllerSafe, ControllerTidy, NEW p \in Partitions, NEW n \in Nat, NEW A,
         GetMetaInsert(p, n, A)
  PROVE  ControllerTidy'
<1>1. A \in Activations(p, n) /\ AllocateIndexes(p, ToAllocate(p, n, A))
  BY DEF GetMetaInsert
<1> DEFINE S  == NewBatch(p, n, A)
           st == AddIndexes(Opened(p), S)
<1>2. /\ Opened(p) \in PartitionStatus
      /\ Tidy(Opened(p))
      /\ partition_to_indexes'[p] = Opened(p).global_indexes \cup Opened(p).pre_allocated \cup S
      /\ \A q \in Partitions \ {p} : partition_to_indexes'[q] = partition_to_indexes[q]
  BY <1>1, NewBatchAgrees
<1>3. Tidy(st)
  BY <1>2, AddIndexesIsTidy
<1>4. st.global_indexes \cup st.pre_allocated = partition_to_indexes'[p]
  BY <1>2 DEF AddIndexes, PartitionStatus
<1>5. partitions' = With(p, st)
  BY DEF GetMetaInsert
<1> HIDE DEF st
<1> QED
  BY <1>2, <1>3, <1>4, <1>5, PartitionStepIsTidy

(* KV_RETRIEVE_META (create) and KV_PREPARE_UPDATE.                        *)
LEMMA CreateIsTidy ==
  ASSUME ControllerSafe, ControllerTidy, NEW p \in Partitions, NEW keys \in SUBSET Keys, NEW A,
         KvCreate(p, keys, A)
  PROVE  ControllerTidy'
<1> DEFINE n == Cardinality(keys)
           S == NewBatch(p, n, A)
<1>1. n \in Nat /\ A \in Activations(p, n) /\ AllocateIndexes(p, ToAllocate(p, n, A))
  BY KeysAreCounted DEF KvCreate
<1>2. /\ Opened(p) \in PartitionStatus
      /\ Tidy(Opened(p))
      /\ S \cap Opened(p).global_indexes = {}
      /\ partition_to_indexes'[p] = Opened(p).global_indexes \cup Opened(p).pre_allocated \cup S
      /\ \A q \in Partitions \ {p} : partition_to_indexes'[q] = partition_to_indexes[q]
      /\ S \in SUBSET Nat
  BY <1>1, NewBatchAgrees, NewBatchType, UniverseIsFinite
<1>3. PICK index_of \in Bijection(keys, S) : partitions' = With(p, AddKeys(Opened(p), index_of))
  BY DEF KvCreate
<1>4. index_of \in Injection(keys, S) /\ {index_of[k] : k \in keys} = S
  BY <1>3 DEF Bijection, Injection, Surjection
<1> DEFINE st == AddKeys(Opened(p), index_of)
<1>5. Tidy(st)
  BY <1>2, <1>4, AddKeysIsTidy DEF KvCreate
<1>6. st.global_indexes \cup st.pre_allocated = partition_to_indexes'[p]
  <2>1. DOMAIN index_of = keys
    BY <1>4 DEF Injection
  <2> QED
    BY <1>2, <1>4, <2>1 DEF AddKeys, AddIndexes, EnsureSamplesCapacity, PartitionStatus
<1> HIDE DEF st
<1> QED
  BY <1>2, <1>3, <1>5, <1>6, PartitionStepIsTidy DEF st

(* NOTIFY_DATA_UPDATE and SET_CUSTOM_META.                                 *)
LEMMA NotifyIsTidy ==
  ASSUME ControllerSafe, ControllerTidy, NEW p \in Partitions,
         NEW S \in SUBSET partitions[p].global_indexes,
         NEW fs \in SUBSET Fields, NEW ready \in BOOLEAN,
         NotifyDataUpdate(p, S, fs, ready) \/ SetMeta(p, S)
  PROVE  ControllerTidy'
<1>1. CASE NotifyDataUpdate(p, S, fs, ready)
  <2> DEFINE st == UpdateProductionStatus(partitions[p], S, fs, ready)
  <2>1. Exists(p) /\ partitions' = With(p, st) /\ UNCHANGED imVars
    BY <1>1 DEF NotifyDataUpdate
  <2>2. /\ Tidy(st)
        /\ st.global_indexes = partitions[p].global_indexes
        /\ st.pre_allocated = partitions[p].pre_allocated
    BY <2>1, TidyStatusOf, UpdateIsTidy
  <2> HIDE DEF st
  <2> QED
    BY <2>1, <2>2, StatusStepIsTidy
<1>2. CASE SetMeta(p, S)
  <2> DEFINE st == SetCustomMeta(partitions[p], S)
  <2>1. Exists(p) /\ partitions' = With(p, st) /\ UNCHANGED imVars
    BY <1>2 DEF SetMeta
  <2>2. Tidy(st)
    BY <2>1, TidyStatusOf, UpdateIsTidy
  <2>3. /\ st.global_indexes = partitions[p].global_indexes
        /\ st.pre_allocated = partitions[p].pre_allocated
    BY <2>1, TidyStatusOf DEF SetCustomMeta, PartitionStatus
  <2> HIDE DEF st
  <2> QED
    BY <2>1, <2>2, <2>3, StatusStepIsTidy
<1> QED
  BY <1>1, <1>2

(* GET_META, mode "fetch": what is consumed is ready, and what is ready is  *)
(* a sample.                                                               *)
LEMMA FetchIsTidy ==
  ASSUME ControllerSafe, ControllerTidy, NEW p \in Partitions,
         NEW fs \in (SUBSET Fields) \ {{}}, NEW t \in Tasks, NEW n, NEW B,
         GetMetaFetch(p, fs, t, n, B)
  PROVE  ControllerTidy'
<1> DEFINE st == MarkConsumed(partitions[p], t, B)
<1>1. /\ Exists(p) /\ B \in Lowest(ScanDataStatus(partitions[p], fs, t), n)
      /\ partitions' = With(p, st) /\ UNCHANGED imVars
  BY DEF GetMetaFetch
<1>2. B \in SUBSET partitions[p].global_indexes
  BY <1>1, FoundAreSamples
<1>3. Tidy(st)
  BY <1>1, <1>2, TidyStatusOf, ConsumptionIsTidy
<1>4. /\ st.global_indexes = partitions[p].global_indexes
      /\ st.pre_allocated = partitions[p].pre_allocated
  BY <1>1, TidyStatusOf DEF MarkConsumed, PartitionStatus
<1> HIDE DEF st
<1> QED
  BY <1>1, <1>3, <1>4, StatusStepIsTidy

(* GET_CONSUMPTION and RESET_CONSUMPTION.                                  *)
LEMMA ConsumptionStepIsTidy ==
  ASSUME ControllerSafe, ControllerTidy, NEW p \in Partitions,
         GetConsumption(p) \/ \E ts : Reset(p, ts)
  PROVE  ControllerTidy'
<1>1. PICK st :
        /\ Exists(p) /\ partitions' = With(p, st) /\ UNCHANGED imVars
        /\ \/ st = GetConsumptionStatus(partitions[p])
           \/ \E ts : st = ResetConsumption(partitions[p], ts)
  BY DEF GetConsumption, Reset
<1>2. Tidy(st)
  BY <1>1, TidyStatusOf, ConsumptionIsTidy
<1>3. /\ st.global_indexes = partitions[p].global_indexes
      /\ st.pre_allocated = partitions[p].pre_allocated
  BY <1>1, TidyStatusOf
     DEF GetConsumptionStatus, EnsureSamplesCapacity, ResetConsumption, PartitionStatus
<1> QED
  BY <1>1, <1>2, <1>3, StatusStepIsTidy

(* KV_CLEAR_FIELDS, and MARK_CLEARING whether it is answered or fails.     *)
LEMMA MarkIsTidy ==
  ASSUME ControllerSafe, ControllerTidy, NEW p \in Partitions,
         (\E keys, fs : KvClearFields(p, keys, fs)) \/ \E S : MarkClearing(p, S)
  PROVE  ControllerTidy'
<1>1. PICK st, S, fs :
        /\ Exists(p)
        /\ st = ClearFields(partitions[p], S, fs) \/ st = ZeroRows(partitions[p], S)
        /\ partitions' = With(p, st)
        /\ UNCHANGED imVars
  BY DEF KvClearFields, MarkClearing, PartlyZeroed
<1>2. Tidy(st)
  BY <1>1, TidyStatusOf, ClearingIsTidy
<1>3. /\ st.global_indexes = partitions[p].global_indexes
      /\ st.pre_allocated = partitions[p].pre_allocated
  BY <1>1, TidyStatusOf DEF ClearFields, ZeroRows, PartitionStatus
<1> QED
  BY <1>1, <1>2, <1>3, StatusStepIsTidy

(* CLEAR_META of samples in range: clear_data does all it has to, and      *)
(* release_indexes releases the same set.                                  *)
LEMMA ClearReleases ==
  ASSUME ControllerSafe, ControllerTidy, NEW p \in Partitions, Exists(p),
         NEW S \in SUBSET partitions[p].global_indexes, InRange(partitions[p], S),
         ClearMeta(p, S)
  PROVE  /\ partitions' = With(p, Cleared(partitions[p], S))
         /\ partition_to_indexes' = [partition_to_indexes EXCEPT ![p] = @ \ S]
<1>1. S \cap partitions[p].global_indexes = S
  OBVIOUS
<1>2. partition_to_indexes[p] = partitions[p].global_indexes \cup partitions[p].pre_allocated
  BY DEF ControllerTidy, OwnershipAgrees
<1> QED
  BY <1>1, <1>2 DEF ClearMeta, ClearData, ReleaseIndexes, Release

LEMMA ClearIsTidy ==
  ASSUME ControllerSafe, ControllerTidy, NEW p \in Partitions, Exists(p),
         NEW S \in SUBSET partitions[p].global_indexes, InRange(partitions[p], S),
         ClearMeta(p, S)
  PROVE  ControllerTidy'
<1> DEFINE st == Cleared(partitions[p], S)
<1>1. /\ partitions' = With(p, st)
      /\ partition_to_indexes' = [partition_to_indexes EXCEPT ![p] = @ \ S]
  BY ClearReleases
<1>2. partition_to_indexes[p] = partitions[p].global_indexes \cup partitions[p].pre_allocated
  BY DEF ControllerTidy, OwnershipAgrees
<1>3. Tidy(st)
  BY TidyStatusOf, ClearingIsTidy
<1>4. partitions[p].global_indexes \cap partitions[p].pre_allocated = {}
  BY TidyStatusOf DEF Tidy, ReservedIsInactive
<1>5. /\ st.global_indexes = partitions[p].global_indexes \ S
      /\ st.pre_allocated = partitions[p].pre_allocated
  BY TidyStatusOf DEF Cleared, ZeroRows, PartitionStatus
<1> HIDE DEF st
<1>6. /\ partition_to_indexes'[p] = st.global_indexes \cup st.pre_allocated
      /\ \A q \in Partitions \ {p} : partition_to_indexes'[q] = partition_to_indexes[q]
  <2>1. partition_to_indexes \in [Partitions -> SUBSET Nat]
    BY DEF ControllerSafe, IMTypeOK
  <2> QED
    BY <1>1, <1>2, <1>4, <1>5, <2>1
<1> QED
  BY <1>1, <1>3, <1>6, PartitionStepIsTidy

(* CLEAR_PARTITION.                                                        *)
LEMMA ClearAllIsTidy ==
  ASSUME ControllerSafe, ControllerTidy, NEW p \in Partitions, ClearPartition(p)
  PROVE  ControllerTidy'
<1>1. /\ partition_to_indexes' = [partition_to_indexes EXCEPT ![p] = @ \ partition_to_indexes[p]]
      /\ partitions' = [q \in DOMAIN partitions \ {p} |-> partitions[q]]
  BY DEF ClearPartition, ReleasePartition, Release
<1>2. partition_to_indexes \in [Partitions -> SUBSET Nat]
  BY DEF ControllerSafe, IMTypeOK
<1>3. /\ partition_to_indexes'[p] = {}
      /\ \A q \in Partitions \ {p} : partition_to_indexes'[q] = partition_to_indexes[q]
  BY <1>1, <1>2
<1> QED
  BY <1>1, <1>3 DEF ControllerTidy, OwnershipAgrees, Exists
=============================================================================
