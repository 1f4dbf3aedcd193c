--------------------------- MODULE RequestProofs ---------------------------
(***************************************************************************)
(* Theorems about the controller under any number of clients, careful or   *)
(* careless, and for any number of partitions, indexes, samples, fields    *)
(* and keys; and, in the second part, about the key-value calls that       *)
(* processes make of such requests and of requests to any number of        *)
(* storage units.                                                          *)
(***************************************************************************)
EXTENDS ControllerRequests, KeyValue, ControllerProofs

(* The inductive invariant behind the theorems that hold for any clients   *)
(* ...                                                                     *)
SafeInv ==
  /\ ControllerSafe
  /\ listed \in SUBSET (Partitions \X Universe)
  /\ marked \in SUBSET listed

(* ... and as long as clients name samples only while they are in the      *)
(* partition.                                                              *)
CarefulInv ==
  /\ SafeInv
  /\ ControllerTidy

-----------------------------------------------------------------------------
(* Learning samples in bounds.                                             *)
LEMMA LearnIsSafe ==
  ASSUME SafeInv, NEW p \in Partitions, NEW S \in SUBSET Universe, Learn(p, S),
         ControllerSafe'
  PROVE  SafeInv'
<1>1. listed' = listed \/ listed' = listed \cup ({p} \X S)
  BY DEF Learn
<1>2. marked' = marked
  BY DEF Learn
<1>3. {p} \X S \subseteq Partitions \X Universe
  OBVIOUS
<1> QED
  BY <1>1, <1>2, <1>3 DEF SafeInv, Universe

(* A step that teaches the clients nothing.                                *)
LEMMA NoClientStep ==
  ASSUME SafeInv, UNCHANGED clientVars, ControllerSafe'
  PROVE  SafeInv'
  BY DEF SafeInv, clientVars, Universe

(* The samples a request may name are in bounds.                           *)
LEMMA NamedInUniverse ==
  ASSUME SafeInv, NEW p
  PROVE  Named(p) \subseteq Universe
  BY StatusOf DEF Named, SafeInv, ControllerSafe, Sound, Universe

(* Each request, whatever it names.                                        *)
LEMMA BatchStepIsSafe ==
  ASSUME SafeInv, NEW p \in Partitions, Insert(p) \/ Retrieve(p)
  PROVE  SafeInv'
<1>1. CASE Insert(p)
  <2>1. PICK n, A : n \in 0..MaxBatch /\ GetMetaInsert(p, n, A) /\ Learn(p, NewBatch(p, n, A))
    BY <1>1 DEF Insert
  <2>2. n \in Nat
    BY <2>1, RequestsAssumption
  <2> QED
    BY <2>1, <2>2, InsertIsSafe, LearnIsSafe DEF SafeInv
<1>2. CASE Retrieve(p)
  <2>1. PICK keys, A :
          /\ keys \in NonEmpty(Keys) /\ KvCreate(p, keys, A)
          /\ Learn(p, NewBatch(p, Cardinality(keys), A))
    BY <1>2 DEF Retrieve
  <2>2. keys \in SUBSET Keys
    BY <2>1 DEF NonEmpty
  <2> QED
    BY <2>1, <2>2, CreateIsSafe, LearnIsSafe DEF SafeInv
<1> QED
  BY <1>1, <1>2

LEMMA ListIsSafe ==
  ASSUME SafeInv, NEW p \in Partitions, List(p)
  PROVE  SafeInv'
<1>1. partition_to_indexes[p] \in SUBSET Universe
  BY OwnedInUniverse DEF Owned, SafeInv
<1>2. ControllerSafe'
  BY UnchangedIsSafe DEF List, SafeInv
<1> QED
  BY <1>1, <1>2, LearnIsSafe DEF List

LEMMA FetchStepIsSafe ==
  ASSUME SafeInv, NEW p \in Partitions, Fetch(p)
  PROVE  SafeInv'
<1>1. PICK fs, t, n, B :
        /\ fs \in NonEmpty(Fields) /\ t \in Tasks
        /\ B \in Lowest(ScanDataStatus(partitions[p], fs, t), n)
        /\ GetMetaFetch(p, fs, t, n, B)
        /\ Learn(p, B)
  BY DEF Fetch
<1>2. fs \in (SUBSET Fields) \ {{}} /\ Exists(p)
  BY <1>1 DEF NonEmpty, GetMetaFetch
<1>3. B \in SUBSET Universe
  BY <1>1, <1>2, FoundAreSamples DEF SafeInv
<1>4. ControllerSafe'
  BY <1>1, <1>2, FetchIsSafe DEF SafeInv
<1> QED
  BY <1>1, <1>3, <1>4, LearnIsSafe

LEMMA StatusRequestIsSafe ==
  ASSUME SafeInv, NEW p \in Partitions,
         Notify(p) \/ CheckConsumption(p) \/ ResetTasks(p) \/ Tag(p)
  PROVE  SafeInv'
<1>1. CASE Notify(p)
  <2>1. PICK S \in NonEmpty(Named(p)), fs \in NonEmpty(Fields), ready \in BOOLEAN :
          NotifyDataUpdate(p, S, fs, ready)
    BY <1>1 DEF Notify
  <2>2. S \in SUBSET Universe /\ fs \in SUBSET Fields
    BY NamedInUniverse DEF NonEmpty
  <2>3. ControllerSafe'
    BY <2>1, <2>2, NotifyIsSafe DEF SafeInv
  <2> QED
    BY <1>1, <2>3, NoClientStep DEF Notify
<1>2. CASE CheckConsumption(p) \/ ResetTasks(p)
  BY <1>2, ConsumptionIsSafe, NoClientStep DEF CheckConsumption, ResetTasks, SafeInv
<1>3. CASE Tag(p)
  <2>1. PICK S \in NonEmpty(Named(p)) : SetMeta(p, S)
    BY <1>3 DEF Tag
  <2>2. S \in SUBSET Nat
    BY NamedInUniverse, UniverseIsFinite DEF NonEmpty
  <2>3. ControllerSafe'
    BY <2>1, <2>2, ConsumptionIsSafe DEF SafeInv
  <2> QED
    BY <1>3, <2>3, NoClientStep DEF Tag
<1> QED
  BY <1>1, <1>2, <1>3

LEMMA DropFieldsIsSafe ==
  ASSUME SafeInv, NEW p \in Partitions, DropFields(p)
  PROVE  SafeInv'
<1>1. PICK keys \in NonEmpty(Keys), fs \in NonEmpty(Fields) :
        KvClearFields(p, keys, fs) /\ Learn(p, IndexesOf(partitions[p], keys))
  BY DEF DropFields
<1> QED
  BY <1>1, DropIsSafe, LearnIsSafe DEF SafeInv

LEMMA MarkStepIsSafe ==
  ASSUME SafeInv, NEW p \in Partitions, Mark(p)
  PROVE  SafeInv'
<1>1. PICK S \in NonEmpty(Named(p)) :
        /\ MarkClearing(p, S)
        /\ marked' = IF Careless /\ InRange(partitions[p], S \cap partitions[p].global_indexes)
                     THEN marked \cup ({p} \X S)
                     ELSE marked
        /\ UNCHANGED listed
  BY DEF Mark
<1>2. ControllerSafe'
  BY <1>1, MarkIsSafe DEF SafeInv
<1>3. marked' \in SUBSET listed'
  <2>1. CASE Careless
    <3>1. \A i \in S : <<p, i>> \in listed
      BY <1>1, <2>1 DEF Named, NonEmpty
    <3> QED
      BY <1>1, <3>1 DEF SafeInv
  <2>2. CASE ~Careless
    BY <1>1, <2>2 DEF SafeInv
  <2> QED
    BY <2>1, <2>2
<1> QED
  BY <1>1, <1>2, <1>3 DEF SafeInv, Universe

LEMMA ClearStepIsSafe ==
  ASSUME SafeInv, NEW p \in Partitions, Clear(p) \/ ClearAll(p)
  PROVE  SafeInv'
  BY ClearIsSafe, ClearAllIsSafe, NoClientStep DEF Clear, ClearAll, SafeInv

-----------------------------------------------------------------------------
(* SafeInv holds at the start, and every request keeps it.                 *)
LEMMA InitIsSafe == Init => SafeInv
  BY StartIsSafe DEF Init, SafeInv

LEMMA StepIsSafe == SafeInv /\ [Next]_vars => SafeInv'
<1> SUFFICES ASSUME SafeInv, [Next]_vars PROVE SafeInv'
  OBVIOUS
<1>1. CASE UNCHANGED vars
  BY <1>1, UnchangedIsSafe, NoClientStep DEF vars, SafeInv
<1>2. ASSUME NEW p \in Partitions, Insert(p) \/ Retrieve(p) PROVE SafeInv'
  BY <1>2, BatchStepIsSafe
<1>3. ASSUME NEW p \in Partitions, List(p) PROVE SafeInv'
  BY <1>3, ListIsSafe
<1>4. ASSUME NEW p \in Partitions, Fetch(p) PROVE SafeInv'
  BY <1>4, FetchStepIsSafe
<1>5. ASSUME NEW p \in Partitions, Notify(p) \/ CheckConsumption(p) \/ ResetTasks(p) \/ Tag(p)
      PROVE  SafeInv'
  BY <1>5, StatusRequestIsSafe
<1>6. ASSUME NEW p \in Partitions, DropFields(p) PROVE SafeInv'
  BY <1>6, DropFieldsIsSafe
<1>7. ASSUME NEW p \in Partitions, Mark(p) PROVE SafeInv'
  BY <1>7, MarkStepIsSafe
<1>8. ASSUME NEW p \in Partitions, Clear(p) \/ ClearAll(p) PROVE SafeInv'
  BY <1>8, ClearStepIsSafe
<1> QED
  BY <1>1, <1>2, <1>3, <1>4, <1>5, <1>6, <1>7, <1>8 DEF Next

(* The invariant of every behaviour.                                       *)
THEOREM Safety == Spec => []SafeInv
<1> QED
  BY InitIsSafe, StepIsSafe, PTL DEF Spec

(* Whatever clients send, in any order, the state keeps its type: every    *)
(* index is one the manager handed out.                                    *)
THEOREM TypeCorrect == Spec => []TypeOK
<1>1. SafeInv => TypeOK
  BY DEF SafeInv, ControllerSafe, StatusesSound, TypeOK, ControllerTypeOK, Universe
<1> QED
  BY <1>1, Safety, PTL

(* Whatever clients send, no index has two owners, none is offered while   *)
(* it is owned, and none leaks (PartitionIndexManager).                    *)
THEOREM IndexesAreSafe == Spec => []IMInv
<1>1. SafeInv => IMInv
  BY DEF SafeInv, ControllerSafe
<1> QED
  BY <1>1, Safety, PTL

(* Whatever clients send, a ready cell - what scan_data_status hands to    *)
(* consumers - is a sample of its partition, with a schema.                *)
THEOREM ReadyCellsAreSafe == Spec => []CellsAreMembers
<1>1. SafeInv => CellsAreMembers
  BY DEF SafeInv, ControllerSafe, StatusesSound, Sound, CellsAreMembers
<1> QED
  BY <1>1, Safety, PTL

-----------------------------------------------------------------------------
(* What a batch takes from the pool and beyond is what IndexOwnership      *)
(* allows.                                                                 *)
LEMMA AllocationImplementsAssign ==
  ASSUME SafeInv, NEW p \in Partitions, NEW m \in Nat, AllocateIndexes(p, m)
  PROVE  Ownership!OwnershipNext
<1> DEFINE S == Batch(m)
<1>1. S \in SUBSET (0..(MaxIndexes - 1))
  BY BatchInUniverse DEF AllocateIndexes, Universe, SafeInv
<1>2. /\ S \subseteq Pooled \cup NewIndexes(m)
      /\ NewIndexes(m) # {} => Pooled \subseteq S
      /\ NewIndexes(m) \subseteq S
      /\ S \cap Owned = {}
  BY BatchOrigin, BatchIsFree DEF SafeInv, ControllerSafe, Batch
<1>3. Pooled \cup Owned = 0..(global_index_counter - 1)
  BY DEF SafeInv, ControllerSafe, IMInv, IndexesConserved
<1>4. Ownership!Taken = Owned
  BY DEF Ownership!Taken, Owned
<1>5. S \subseteq 0..(global_index_counter - 1) \/ 0..(global_index_counter - 1) \subseteq Owned \cup S
  BY <1>2, <1>3
<1>6. 0..(global_index_counter' - 1) = 0..(global_index_counter - 1) \cup S
  <2>1. /\ global_index_counter \in Nat
        /\ m - ReuseCount(m) \in Nat
        /\ global_index_counter' = global_index_counter + (m - ReuseCount(m))
    BY ReuseCountType DEF SafeInv, ControllerSafe, IMTypeOK, AllocateIndexes
  <2>2. 0..(global_index_counter' - 1) = 0..(global_index_counter - 1) \cup NewIndexes(m)
    BY <2>1 DEF NewIndexes
  <2> QED
    BY <1>2, <1>3, <2>2
<1>7. Ownership!Assign(p, S)
  BY <1>2, <1>4, <1>5, <1>6 DEF Ownership!Assign, AllocateIndexes
<1> QED
  BY <1>1, <1>7 DEF Ownership!OwnershipNext

(* Releasing what a partition owns is giving it back.                      *)
LEMMA ReleaseImplementsGiveBack ==
  ASSUME SafeInv, NEW p \in Partitions, NEW S \in SUBSET partition_to_indexes[p], Release(p, S)
  PROVE  Ownership!OwnershipNext
<1>1. S \in SUBSET (0..(MaxIndexes - 1))
  BY OwnedInUniverse DEF Owned, Universe, SafeInv
<1>2. Ownership!GiveBack(p, S)
  BY DEF Ownership!GiveBack, Release
<1> QED
  BY <1>1, <1>2 DEF Ownership!OwnershipNext

(* A step that leaves the index manager alone is a stutter.                *)
LEMMA OtherStepsStutter ==
  ASSUME UNCHANGED imVars
  PROVE  UNCHANGED Ownership!ownershipVars
  BY DEF imVars, Ownership!ownershipVars

(* Every request maps to a step of IndexOwnership or to a stutter.         *)
LEMMA StepImplementsOwnership ==
  ASSUME SafeInv, [Next]_vars
  PROVE  [Ownership!OwnershipNext]_(Ownership!ownershipVars)
<1>1. CASE UNCHANGED vars
  BY <1>1, OtherStepsStutter DEF vars, controllerVars
<1>2. ASSUME NEW p \in Partitions, Insert(p)
      PROVE  Ownership!OwnershipNext
  <2>1. PICK n, A : n \in 0..MaxBatch /\ A \in Activations(p, n) /\ GetMetaInsert(p, n, A)
    BY <1>2 DEF Insert
  <2>2. AllocateIndexes(p, ToAllocate(p, n, A)) /\ n \in Nat
    BY <2>1, RequestsAssumption DEF GetMetaInsert
  <2> QED
    BY <2>1, <2>2, NewBatchType, AllocationImplementsAssign DEF SafeInv
<1>3. ASSUME NEW p \in Partitions, Retrieve(p)
      PROVE  Ownership!OwnershipNext
  <2>1. PICK keys, A :
          /\ keys \in NonEmpty(Keys)
          /\ A \in Activations(p, Cardinality(keys)) /\ KvCreate(p, keys, A)
    BY <1>3 DEF Retrieve
  <2>2. AllocateIndexes(p, ToAllocate(p, Cardinality(keys), A)) /\ Cardinality(keys) \in Nat
    BY <2>1, PartitionAssumption, FS_Subset, FS_CardinalityType DEF KvCreate, NonEmpty
  <2> QED
    BY <2>1, <2>2, NewBatchType, AllocationImplementsAssign DEF SafeInv
<1>4. ASSUME NEW p \in Partitions, Clear(p)
      PROVE  Ownership!OwnershipNext \/ UNCHANGED Ownership!ownershipVars
  <2>1. PICK S : ReleaseIndexes(p, S)
    BY <1>4 DEF Clear, ClearMeta
  <2>2. CASE S \subseteq partition_to_indexes[p]
    BY <2>1, <2>2, ReleaseImplementsGiveBack DEF ReleaseIndexes
  <2>3. CASE ~(S \subseteq partition_to_indexes[p])
    BY <2>1, <2>3, OtherStepsStutter DEF ReleaseIndexes
  <2> QED
    BY <2>2, <2>3
<1>5. ASSUME NEW p \in Partitions, ClearAll(p)
      PROVE  Ownership!OwnershipNext
  BY <1>5, ReleaseImplementsGiveBack DEF ClearAll, ClearPartition, ReleasePartition
<1>6. ASSUME NEW p \in Partitions,
             List(p) \/ Notify(p) \/ Fetch(p) \/ CheckConsumption(p) \/ ResetTasks(p)
               \/ Tag(p) \/ DropFields(p) \/ Mark(p)
      PROVE  UNCHANGED imVars
  BY <1>6 DEF List, controllerVars, Notify, NotifyDataUpdate, Fetch, GetMetaFetch,
     CheckConsumption, GetConsumption, ResetTasks, Reset, Tag, SetMeta, DropFields,
     KvClearFields, Mark, MarkClearing
<1> QED
  BY <1>1, <1>2, <1>3, <1>4, <1>5, <1>6, OtherStepsStutter DEF Next

(* The controller's index management implements IndexOwnership, whatever   *)
(* clients send: exclusive owners, and no new index while a used one is    *)
(* free.                                                                   *)
THEOREM OwnershipImplemented == Spec => ImplementsOwnership
<1>1. Init => Ownership!OwnershipInit
  BY DEF Init, ControllerInit, IMInit, Ownership!OwnershipInit
<1>2. SafeInv /\ [Next]_vars => [Ownership!OwnershipNext]_(Ownership!ownershipVars)
  BY StepImplementsOwnership
<1> QED
  BY <1>1, <1>2, Safety, PTL DEF Spec, ImplementsOwnership, Ownership!OwnershipSpec

-----------------------------------------------------------------------------
(* No request but a reset takes a consumption mark from a sample that      *)
(* stays.                                                                  *)

MarksStay ==
  \A q \in DOMAIN partitions \cap DOMAIN partitions', t \in Tasks :
    (partitions[q].consumption_status[t] \ partitions'[q].consumption_status[t])
      \cap partitions'[q].global_indexes = {}

LEMMA StatusStepKeepsMarks ==
  ASSUME NEW p, NEW st, partitions' = With(p, st),
         Exists(p) => \A t \in Tasks :
           (partitions[p].consumption_status[t] \ st.consumption_status[t])
             \cap st.global_indexes = {}
  PROVE  MarksStay
<1>1. /\ partitions'[p] = st
      /\ \A q \in DOMAIN partitions : q # p => partitions'[q] = partitions[q]
  BY DEF With
<1> QED
  BY <1>1 DEF MarksStay, Exists

(* What the methods of a partition do to its marks.                        *)
LEMMA MethodsKeepMarks ==
  ASSUME NEW st \in PartitionStatus
  PROVE  /\ \A S : AddIndexes(st, S).consumption_status = st.consumption_status
         /\ \A idx : AddKeys(st, idx).consumption_status = st.consumption_status
         /\ \A S, fs, ready :
              UpdateProductionStatus(st, S, fs, ready).consumption_status = st.consumption_status
         /\ \A t, u \in Tasks : \A S :
              st.consumption_status[t] \subseteq MarkConsumed(st, u, S).consumption_status[t]
         /\ GetConsumptionStatus(st).consumption_status = st.consumption_status
         /\ \A S : SetCustomMeta(st, S).consumption_status = st.consumption_status
         /\ \A S, fs : ClearFields(st, S, fs).consumption_status = st.consumption_status
         /\ \A S : ZeroRows(st, S).consumption_status = st.consumption_status
         /\ \A S : \A t \in Tasks :
              (st.consumption_status[t] \ Cleared(st, S).consumption_status[t])
                \cap Cleared(st, S).global_indexes = {}
<1>1. \A t, u \in Tasks : \A S :
        st.consumption_status[t] \subseteq MarkConsumed(st, u, S).consumption_status[t]
  BY DEF PartitionStatus, MarkConsumed
<1>2. \A S : \A t \in Tasks :
        (st.consumption_status[t] \ Cleared(st, S).consumption_status[t])
          \cap Cleared(st, S).global_indexes = {}
  BY DEF PartitionStatus, Cleared, ZeroRows
<1>3. \A idx : AddKeys(st, idx).consumption_status = st.consumption_status
  BY DEF PartitionStatus, AddKeys, AddIndexes, EnsureSamplesCapacity
<1>4. /\ \A S : AddIndexes(st, S).consumption_status = st.consumption_status
      /\ \A S, fs, ready :
           UpdateProductionStatus(st, S, fs, ready).consumption_status = st.consumption_status
      /\ GetConsumptionStatus(st).consumption_status = st.consumption_status
      /\ \A S : SetCustomMeta(st, S).consumption_status = st.consumption_status
      /\ \A S, fs : ClearFields(st, S, fs).consumption_status = st.consumption_status
      /\ \A S : ZeroRows(st, S).consumption_status = st.consumption_status
  BY DEF PartitionStatus, AddIndexes, UpdateProductionStatus, EnsureSamplesCapacity,
     GetConsumptionStatus, SetCustomMeta, ClearFields, ZeroRows
<1> QED
  BY <1>1, <1>2, <1>3, <1>4

(* A request that allocates starts from the partition there is, or adds    *)
(* one; one that does not reset changes the status by one of the methods.  *)
LEMMA StepKeepsMarks ==
  ASSUME SafeInv, NEW p \in Partitions,
         \/ Insert(p) \/ Retrieve(p) \/ List(p) \/ Notify(p) \/ Fetch(p) \/ CheckConsumption(p)
         \/ Tag(p) \/ DropFields(p) \/ Mark(p) \/ Clear(p) \/ ClearAll(p)
  PROVE  MarksStay
<1>1. ASSUME NEW q, Exists(q) PROVE partitions[q] \in PartitionStatus
  BY <1>1, StatusOf DEF SafeInv, ControllerSafe, Sound
<1>2. Exists(p) => Opened(p) = partitions[p]
  BY DEF Opened
<1>3. CASE Insert(p)
  <2>1. PICK S : partitions' = With(p, AddIndexes(Opened(p), S))
    BY <1>3 DEF Insert, GetMetaInsert
  <2> QED
    BY <1>1, <1>2, <2>1, MethodsKeepMarks, StatusStepKeepsMarks
<1>4. CASE Retrieve(p)
  <2>1. PICK idx : partitions' = With(p, AddKeys(Opened(p), idx))
    BY <1>4 DEF Retrieve, KvCreate
  <2> QED
    BY <1>1, <1>2, <2>1, MethodsKeepMarks, StatusStepKeepsMarks
<1>5. CASE List(p)
  BY <1>5 DEF List, controllerVars, MarksStay
<1>6. CASE Notify(p)
  <2>1. PICK S, fs, ready :
          Exists(p) /\ partitions' = With(p, UpdateProductionStatus(partitions[p], S, fs, ready))
    BY <1>6 DEF Notify, NotifyDataUpdate
  <2> QED
    BY <1>1, <2>1, MethodsKeepMarks, StatusStepKeepsMarks
<1>7. CASE Fetch(p)
  <2>1. PICK t, B :
          t \in Tasks /\ Exists(p) /\ partitions' = With(p, MarkConsumed(partitions[p], t, B))
    BY <1>7 DEF Fetch, GetMetaFetch
  <2>2. partitions[p] \in PartitionStatus
    BY <1>1, <2>1
  <2>3. \A u \in Tasks :
          partitions[p].consumption_status[u]
            \subseteq MarkConsumed(partitions[p], t, B).consumption_status[u]
    BY <2>1, <2>2, MethodsKeepMarks
  <2> QED
    BY <2>1, <2>3, StatusStepKeepsMarks
<1>8. CASE CheckConsumption(p)
  BY <1>1, <1>8, MethodsKeepMarks, StatusStepKeepsMarks DEF CheckConsumption, GetConsumption
<1>9. CASE Tag(p)
  <2>1. PICK S : Exists(p) /\ partitions' = With(p, SetCustomMeta(partitions[p], S))
    BY <1>9 DEF Tag, SetMeta
  <2> QED
    BY <1>1, <2>1, MethodsKeepMarks, StatusStepKeepsMarks
<1>10. CASE DropFields(p)
  <2>1. PICK S, fs : Exists(p) /\ partitions' = With(p, ClearFields(partitions[p], S, fs))
    BY <1>10 DEF DropFields, KvClearFields
  <2> QED
    BY <1>1, <2>1, MethodsKeepMarks, StatusStepKeepsMarks
<1>11. CASE Mark(p)
  <2>1. PICK S : MarkClearing(p, S)
    BY <1>11 DEF Mark
  <2>2. PICK Z : Exists(p) /\ partitions' = With(p, ZeroRows(partitions[p], Z))
    BY <2>1 DEF MarkClearing, PartlyZeroed
  <2> QED
    BY <1>1, <2>2, MethodsKeepMarks, StatusStepKeepsMarks
<1>12. CASE Clear(p)
  <2>1. PICK S : ClearMeta(p, S)
    BY <1>12 DEF Clear
  <2>2. PICK st, Z :
          /\ Exists(p) /\ partitions' = With(p, st)
          /\ st = Cleared(partitions[p], Z) \/ st = ZeroRows(partitions[p], Z)
    BY <2>1 DEF ClearMeta, ClearData, PartlyZeroed
  <2>3. partitions[p] \in PartitionStatus
    BY <1>1, <2>2
  <2>4. \A t \in Tasks :
          (partitions[p].consumption_status[t] \ st.consumption_status[t])
            \cap st.global_indexes = {}
    <3>1. CASE st = Cleared(partitions[p], Z)
      BY <2>3, <3>1, MethodsKeepMarks
    <3>2. CASE st = ZeroRows(partitions[p], Z)
      <4>1. st.consumption_status = partitions[p].consumption_status
        BY <2>3, <3>2, MethodsKeepMarks
      <4> QED
        BY <4>1
    <3> QED
      BY <2>2, <3>1, <3>2
  <2> QED
    BY <2>2, <2>4, StatusStepKeepsMarks
<1>13. CASE ClearAll(p)
  BY <1>13 DEF ClearAll, ClearPartition, MarksStay
<1> QED
  BY <1>3, <1>4, <1>5, <1>6, <1>7, <1>8, <1>9, <1>10, <1>11, <1>12, <1>13

(* A reset of one partition leaves the marks of the others.                *)
LEMMA ResetKeepsOtherMarks ==
  ASSUME NEW p, ResetTasks(p)
  PROVE  \A q \in DOMAIN partitions : q # p => partitions'[q] = partitions[q]
  BY DEF ResetTasks, Reset, With

(* Whatever clients send, a sample that stays in its partition is handed   *)
(* to a task again only after a reset (consumption_status).                *)
THEOREM NothingIsRedelivered == Spec => NoRedelivery
<1> DEFINE Kept ==
      \A p \in DOMAIN partitions \cap DOMAIN partitions', t \in Tasks :
        LET lost == partitions[p].consumption_status[t] \ partitions'[p].consumption_status[t]
        IN  lost \cap partitions'[p].global_indexes # {} => ResetTasks(p)
<1>1. SafeInv /\ [Next]_vars => [Kept]_vars
  <2> SUFFICES ASSUME SafeInv, Next PROVE Kept
    OBVIOUS
  <2>1. PICK p \in Partitions : ResetTasks(p) \/ MarksStay
    BY StepKeepsMarks DEF Next
  <2>2. CASE MarksStay
    BY <2>2 DEF MarksStay
  <2>3. CASE ResetTasks(p)
    BY <2>3, ResetKeepsOtherMarks
  <2> QED
    BY <2>1, <2>2, <2>3
<1>2. Spec => [][Next]_vars
  BY DEF Spec
<1> QED
  BY <1>1, <1>2, Safety, PTL DEF NoRedelivery

-----------------------------------------------------------------------------
(* Careful clients.                                                        *)

(* What a careful client may name are samples of the partition.            *)
LEMMA NamedAreSamples ==
  ASSUME ~Careless, NEW p, Exists(p), NEW S \in NonEmpty(Named(p))
  PROVE  S \in SUBSET partitions[p].global_indexes
  BY DEF Named, NonEmpty

(* Each request of a careful client.                                       *)
LEMMA BatchStepIsTidy ==
  ASSUME CarefulInv, NEW p \in Partitions, Insert(p) \/ Retrieve(p)
  PROVE  ControllerTidy'
<1>1. CASE Insert(p)
  <2>1. PICK n, A : n \in 0..MaxBatch /\ GetMetaInsert(p, n, A)
    BY <1>1 DEF Insert
  <2>2. n \in Nat
    BY <2>1, RequestsAssumption
  <2> QED
    BY <2>1, <2>2, InsertIsTidy DEF CarefulInv, SafeInv
<1>2. CASE Retrieve(p)
  <2>1. PICK keys, A : keys \in NonEmpty(Keys) /\ KvCreate(p, keys, A)
    BY <1>2 DEF Retrieve
  <2>2. keys \in SUBSET Keys
    BY <2>1 DEF NonEmpty
  <2> QED
    BY <2>1, <2>2, CreateIsTidy DEF CarefulInv, SafeInv
<1> QED
  BY <1>1, <1>2

LEMMA NotifyStepIsTidy ==
  ASSUME CarefulInv, ~Careless, NEW p \in Partitions, Notify(p) \/ Tag(p)
  PROVE  ControllerTidy'
<1>1. CASE Notify(p)
  <2>1. PICK S \in NonEmpty(Named(p)), fs \in NonEmpty(Fields), ready \in BOOLEAN :
          NotifyDataUpdate(p, S, fs, ready)
    BY <1>1 DEF Notify
  <2>2. fs \in SUBSET Fields /\ S \in SUBSET partitions[p].global_indexes
    BY <2>1, NamedAreSamples DEF NonEmpty, NotifyDataUpdate
  <2> QED
    BY <2>1, <2>2, NotifyIsTidy DEF CarefulInv, SafeInv
<1>2. CASE Tag(p)
  <2>1. PICK S \in NonEmpty(Named(p)) : SetMeta(p, S)
    BY <1>2 DEF Tag
  <2>2. S \in SUBSET partitions[p].global_indexes
    BY <2>1, NamedAreSamples DEF SetMeta
  <2> QED
    BY <2>1, <2>2, NotifyIsTidy DEF CarefulInv, SafeInv
<1> QED
  BY <1>1, <1>2

LEMMA FetchStepIsTidy ==
  ASSUME CarefulInv, NEW p \in Partitions, Fetch(p)
  PROVE  ControllerTidy'
<1>1. PICK fs, t, n, B :
        fs \in NonEmpty(Fields) /\ t \in Tasks /\ GetMetaFetch(p, fs, t, n, B)
  BY DEF Fetch
<1>2. fs \in (SUBSET Fields) \ {{}}
  BY <1>1 DEF NonEmpty
<1> QED
  BY <1>1, <1>2, FetchIsTidy DEF CarefulInv, SafeInv

LEMMA ClearStepIsTidy ==
  ASSUME CarefulInv, ~Careless, NEW p \in Partitions, Clear(p) \/ ClearAll(p)
  PROVE  ControllerTidy'
<1>1. CASE Clear(p)
  <2>1. PICK S \in NonEmpty(Named(p)) : Exists(p) /\ MayClear(p, S) /\ ClearMeta(p, S)
    BY <1>1 DEF Clear
  <2>2. S \in SUBSET partitions[p].global_indexes /\ InRange(partitions[p], S)
    BY <2>1, NamedAreSamples DEF MayClear
  <2> QED
    BY <2>1, <2>2, ClearIsTidy DEF CarefulInv, SafeInv
<1>2. CASE ClearAll(p)
  BY <1>2, ClearAllIsTidy DEF ClearAll, CarefulInv, SafeInv
<1> QED
  BY <1>1, <1>2

LEMMA InitIsCareful == Init => CarefulInv
  BY InitIsSafe, StartIsSafe DEF Init, CarefulInv

LEMMA StepIsCareful ==
  ASSUME CarefulInv, ~Careless, [Next]_vars
  PROVE  CarefulInv'
<1>1. SafeInv'
  BY StepIsSafe DEF CarefulInv
<1> SUFFICES ControllerTidy'
  BY <1>1 DEF CarefulInv
<1>2. CASE UNCHANGED vars
  BY <1>2, UnchangedIsTidy DEF vars, controllerVars, CarefulInv
<1>3. ASSUME NEW p \in Partitions, Insert(p) \/ Retrieve(p) PROVE ControllerTidy'
  BY <1>3, BatchStepIsTidy
<1>4. ASSUME NEW p \in Partitions, List(p) PROVE ControllerTidy'
  BY <1>4, UnchangedIsTidy DEF List, controllerVars, CarefulInv
<1>5. ASSUME NEW p \in Partitions, Notify(p) \/ Tag(p) PROVE ControllerTidy'
  BY <1>5, NotifyStepIsTidy
<1>6. ASSUME NEW p \in Partitions, Fetch(p) PROVE ControllerTidy'
  BY <1>6, FetchStepIsTidy
<1>7. ASSUME NEW p \in Partitions, CheckConsumption(p) \/ ResetTasks(p) PROVE ControllerTidy'
  BY <1>7, ConsumptionStepIsTidy DEF CheckConsumption, ResetTasks, CarefulInv, SafeInv
<1>8. ASSUME NEW p \in Partitions, DropFields(p) \/ Mark(p) PROVE ControllerTidy'
  BY <1>8, MarkIsTidy DEF DropFields, Mark, CarefulInv, SafeInv
<1>9. ASSUME NEW p \in Partitions, Clear(p) \/ ClearAll(p) PROVE ControllerTidy'
  BY <1>9, ClearStepIsTidy
<1> QED
  BY <1>2, <1>3, <1>4, <1>5, <1>6, <1>7, <1>8, <1>9 DEF Next

(* The invariant of every behaviour of careful clients.                    *)
THEOREM CarefulSafety == ~Careless /\ Spec => []CarefulInv
<1>1. CASE ~Careless
  <2>1. CarefulInv /\ [Next]_vars => CarefulInv'
    BY <1>1, StepIsCareful
  <2> QED
    BY <2>1, InitIsCareful, PTL DEF Spec
<1>2. CASE Careless
  BY <1>2
<1> QED
  BY <1>1, <1>2

(* With careful clients, what the controller records as a partition's -    *)
(* its samples and its reserve - is what the index manager records: no     *)
(* clear releases less or more than clear_data removed.                    *)
THEOREM OwnershipIsAgreed == ~Careless /\ Spec => []OwnershipAgrees
<1>1. CarefulInv => OwnershipAgrees
  BY DEF CarefulInv, ControllerTidy
<1> QED
  BY <1>1, CarefulSafety, PTL

(* With careful clients, an index comes clean to its next owner.           *)
THEOREM NothingOutlivesItsSample == ~Careless /\ Spec => []CleanSlate
<1>1. CarefulInv => CleanSlate
  BY DEF CarefulInv, ControllerTidy, Tidy, CleanSlate
<1> QED
  BY <1>1, CarefulSafety, PTL

(* With careful clients, no two keys ever share a sample.                  *)
THEOREM KeysStayInjective == ~Careless /\ Spec => []KeysAreInjective
<1>1. CarefulInv => KeysAreInjective
  BY DEF CarefulInv, ControllerTidy, Tidy, KeysAreInjective
<1> QED
  BY <1>1, CarefulSafety, PTL

(* With careful clients, an insert never takes a sample for a new one.     *)
THEOREM ReserveStaysInactive == ~Careless /\ Spec => []ReservedAreInactive
<1>1. CarefulInv => ReservedAreInactive
  BY DEF CarefulInv, ControllerTidy, Tidy, ReservedAreInactive
<1> QED
  BY <1>1, CarefulSafety, PTL

(* With careful clients cells, schemas, marks, tags, keys and the reserve   *)
(* of a partition are those of its samples (clear_data, kv_retrieve_meta,  *)
(* activate_pre_allocated_indexes).                                        *)
THEOREM SamplesStaySound == ~Careless /\ Spec => []SamplesAreSound
<1>1. CellsAreMembers /\ CleanSlate /\ KeysAreInjective /\ ReservedAreInactive
        => SamplesAreSound
  BY DEF SamplesAreSound
<1> QED
  BY <1>1, ReadyCellsAreSafe, NothingOutlivesItsSample, KeysStayInjective,
     ReserveStaysInactive, PTL

(* With careful clients every index has one owner, the partition that      *)
(* lists it, or waits in the pool once (allocate_indexes, release_indexes, *)
(* _update_global_indexes).                                                *)
THEOREM IndexesStayOwned == ~Careless /\ Spec => []IndexesAreOwned
<1>1. IMInv /\ OwnershipAgrees => IndexesAreOwned
  BY DEF IndexesAreOwned
<1> QED
  BY <1>1, IndexesAreSafe, OwnershipIsAgreed, PTL

-----------------------------------------------------------------------------
(* Key-value calls.  What the controller has of the keys, and of their     *)
(* cells.                                                                  *)
KeyNames == Status.keys_mapping
Filled(i, f) == i \in Status.field_metadata[f]
IsFinal(i, f) == <<i, f>> \in Status.production_status

Marks     == [number : Nat, key : Keys, draft : BOOLEAN]
Histories == Seq(Marks)

(* A call, as a record.                                                    *)
IsCall(x) ==
  /\ x = [op |-> x.op, phase |-> x.phase, finalize |-> x.finalize, index |-> x.index, fs |-> x.fs,
          held |-> x.held, number |-> x.number, open |-> x.open, attempt |-> x.attempt,
          failed |-> x.failed, got |-> x.got, may |-> x.may]
  /\ x.finalize \in BOOLEAN /\ x.failed \in BOOLEAN /\ x.number \in Nat
  /\ DOMAIN x.index \subseteq Keys /\ x.index \in [DOMAIN x.index -> Nat]
  /\ x.fs \subseteq Fields
  /\ x.open \subseteq Units
  /\ x.attempt \in [Units -> Nat]

Writes(x) == x.op \in {"put", "update"}

(* Where a call stands: its keys name what they named when it began, and   *)
(* only puts are repeated.                                                 *)
InItsPlace(x) ==
  /\ x.op \in {"none", "put", "update", "get"}
  /\ x.op = "none" => x = Free
  /\ x.op # "none" => x.phase \in {"units", "tag", "ended"}
  /\ \A k \in DOMAIN x.index : <<k, x.index[k]>> \in KeyNames
  /\ x.op = "put" => x.finalize = TRUE
  /\ x.op = "update" => \A u \in x.open : x.attempt[u] = 1
  /\ x.op = "get" => x.phase = "units"

StoreTypes ==
  /\ values = [x \in DOMAIN values |-> values[x]]
  /\ \A x \in DOMAIN values : values[x] \in Histories /\ values[x] # << >>
  /\ writes \in Nat
  /\ could = [e \in Keys \X Fields |-> could[e]]
  /\ \A e \in Keys \X Fields : could[e] \in SUBSET Histories /\ could[e] # {}

KeyValueTypes ==
  /\ StoreTypes
  /\ deployment \in Deployments
  /\ calls = [c \in Slots |-> calls[c]] /\ \A c \in Slots : IsCall(calls[c])

(* A request is one of the call in its slot; an update is sent once.       *)
RequestsAreOf(c, x) ==
  \A r \in inbox : r[1] = c => x.op # "none" /\ (x.op = "update" => r[3] = 1)

OneWriterAKey ==
  \A c, d \in Slots : Writes(calls[c]) /\ Writes(calls[d]) /\ DOMAIN calls[c].index \cap DOMAIN calls[d].index # {}
                        => c = d

RowsAreThere == \A n \in KeyNames : n[2] \in Status.rows

CallsInv ==
  /\ ControllerSafe /\ ControllerTidy /\ RowsAreThere
  /\ KeyValueTypes
  /\ \A c \in Slots : InItsPlace(calls[c]) /\ RequestsAreOf(c, calls[c])
  /\ \A r \in inbox : r \in Slots \X Units \X Nat
  /\ OneWriterAKey

-----------------------------------------------------------------------------
(* What the cell of sample i in field f holds is one of X.                 *)
CellIn(i, f, X) == IF Filled(i, f) THEN values[<<i, f>>] \in X ELSE << >> \in X

KeyIn(k, f, X) ==
  /\ \A i : <<k, i>> \in KeyNames => CellIn(i, f, X)
  /\ (\A i : <<k, i>> \notin KeyNames) => << >> \in X

(* Call x writes field f of key k and has not been notified, nor failed.   *)
IsWriting(x, k, f) == Writes(x) /\ x.phase = "units" /\ k \in DOMAIN x.index /\ f \in x.fs

(* What a write has made, or may still make, of a cell of its own.         *)
WriteFits(c, x, k, f) ==
  LET i    == x.index[k]
      u    == UnitOf(x.index[k])
      now  == could[<<k, f>>]
      left == \E n : <<c, u, n>> \in inbox
  IN  /\ x.phase = "units" =>
           /\ CellIn(i, f, now \cup Effects(x, k, now))
           /\ x.op = "update" => (<<i, f>> \in x.held <=> Filled(i, f))
           /\ x.op = "update" /\ left => CellIn(i, f, now)
           /\ u \notin x.open /\ x.failed = FALSE =>
                /\ <<i, f>> \in DOMAIN values /\ values[<<i, f>>] \in Effects(x, k, now)
                /\ x.op = "update" => ~left
      /\ x.phase # "units" =>
           /\ x.op = "update" /\ left =>
                /\ <<i, f>> \in x.held <=> Filled(i, f)
                /\ Filled(i, f) => Merged(x, k, values[<<i, f>>], TRUE) \in now
                /\ ~Filled(i, f) => Merged(x, k, << >>, FALSE) \in now
           /\ x.op = "put" => Merged(x, k, << >>, FALSE) \in now

WritesFit(c, x, k, f) == Writes(x) /\ k \in DOMAIN x.index /\ f \in x.fs => WriteFits(c, x, k, f)

(* What is recorded is stored, and what is ready is no draft.              *)
IsStored(k, f) ==
  \A i : <<k, i>> \in KeyNames /\ Filled(i, f) =>
    /\ <<i, f>> \in DOMAIN values
    /\ IsFinal(i, f) => Last(values[<<i, f>>]).draft = FALSE

CellInv(k, f) ==
  /\ IsStored(k, f)
  /\ (\A c \in Slots : ~IsWriting(calls[c], k, f)) => KeyIn(k, f, could[<<k, f>>])
  /\ \A c \in Slots : WritesFit(c, calls[c], k, f)

CellsInv == \A k \in Keys, f \in Fields : CellInv(k, f)

-----------------------------------------------------------------------------
(* What a get may read, and has read.                                      *)
MayRead(x, k, f) ==
  /\ Filled(x.index[k], f) /\ Last(values[<<x.index[k], f>>]).draft = FALSE
  /\ could[<<k, f>>] \subseteq x.may[<<k, f>>]
  /\ \A d \in Slots : IsWriting(calls[d], k, f) => Effects(calls[d], k, could[<<k, f>>]) \subseteq x.may[<<k, f>>]

GetFits(x) ==
  x.op = "get" =>
    /\ \A k \in DOMAIN x.index, f \in x.fs : MayRead(x, k, f)
    /\ x.may = [e \in (DOMAIN x.index) \X x.fs |-> x.may[e]]
    /\ x.got = [e \in DOMAIN x.got |-> x.got[e]] /\ DOMAIN x.got \subseteq (DOMAIN x.index) \X x.fs
    /\ \A e \in DOMAIN x.got : x.got[e] \in x.may[e] /\ Last(x.got[e]).draft = FALSE

GetsInv == \A c \in Slots : GetFits(calls[c])

KeyValueInv == CallsInv /\ CellsInv /\ GetsInv

-----------------------------------------------------------------------------
(* The controller, as key-value calls see it.                              *)
World == ControllerSafe /\ ControllerTidy /\ RowsAreThere

LEMMA PartitionIsThere ==
  Partition \in Partitions
BY KeyValueAssumption

LEMMA NewIsEmpty ==
  ASSUME NEW S
  PROVE  /\ NewPartition(S).keys_mapping = {} /\ NewPartition(S).production_status = {}
         /\ NewPartition(S).field_metadata = [f \in Fields |-> {}] /\ NewPartition(S).global_indexes = {}
BY DEF NewPartition, RegisterPreAllocated, EnsureSamplesCapacity

LEMMA StatusFacts ==
  ASSUME World
  PROVE  /\ KeyNames \subseteq Keys \X Nat
         /\ \A m, n \in KeyNames : m[1] = n[1] <=> m[2] = n[2]
         /\ \A n \in KeyNames : n[2] \in Status.global_indexes /\ n[2] \in Status.rows
         /\ Status.field_metadata \in [Fields -> SUBSET Nat]
         /\ \A f \in Fields : Status.field_metadata[f] \subseteq Status.global_indexes
         /\ \A i, f : IsFinal(i, f) => f \in Fields /\ Filled(i, f)
<1>1. \A n \in KeyNames : n[2] \in Status.rows
  BY DEF World, RowsAreThere
<1>2. CASE Exists(Partition)
  <2>1. PICK st : st = partitions[Partition]
    OBVIOUS
  <2>2. st \in PartitionStatus /\ Tidy(st) /\ ReadyCellsAreSamples(st) /\ Status = st
    BY <1>2, <2>1, TidyStatusOf DEF World, Status
  <2>3. /\ st.keys_mapping \subseteq Keys \X Nat /\ st.field_metadata \in [Fields -> SUBSET Nat]
        /\ st.production_status \subseteq Nat \X Fields
    BY <2>2 DEF PartitionStatus
  <2>4. /\ \A m, n \in st.keys_mapping : m[1] = n[1] <=> m[2] = n[2]
        /\ \A n \in st.keys_mapping : n[2] \in st.global_indexes
        /\ \A f \in Fields : st.field_metadata[f] \subseteq st.global_indexes
    BY <2>2 DEF Tidy, KeysNameSamples, NothingCarriedOver
  <2>5. \A i, f : <<i, f>> \in st.production_status => f \in Fields /\ i \in st.field_metadata[f]
    BY <2>2, <2>3 DEF ReadyCellsAreSamples
  <2> QED
    BY <1>1, <2>2, <2>3, <2>4, <2>5 DEF KeyNames, IsFinal, Filled
<1>3. CASE ~Exists(Partition)
  <2>1. Status = NewPartition({})
    BY <1>3 DEF Status
  <2> QED
    BY <1>1, <2>1, NewIsEmpty DEF KeyNames, IsFinal, Filled
<1> QED
  BY <1>2, <1>3

KeysAreSound ==
  /\ KeyNames \subseteq Keys \X Nat
  /\ \A m, n \in KeyNames : m[1] = n[1] <=> m[2] = n[2]
  /\ \A i, f : IsFinal(i, f) => f \in Fields /\ Filled(i, f)

LEMMA StatusFactsAfter ==
  World' => KeysAreSound'
<1>1. World => KeysAreSound
  BY StatusFacts DEF KeysAreSound
<1> QED
  BY <1>1, PTL

(* A key names one sample, which is what kv_retrieve_indexes answers.      *)
LEMMA IndexIsNamed ==
  ASSUME World, NEW n \in KeyNames
  PROVE  n = <<n[1], n[2]>> /\ n[1] \in Keys /\ n[2] \in Nat /\ IndexOf(Status, n[1]) = n[2]
<1>1. \A m \in KeyNames : m[1] = n[1] => m[2] = n[2]
  BY StatusFacts
<1>2. PICK e : e = CHOOSE o \in Status.keys_mapping : o[1] = n[1]
  OBVIOUS
<1>3. e \in KeyNames /\ e[1] = n[1]
  BY <1>2 DEF KeyNames
<1> QED
  BY <1>1, <1>2, <1>3, StatusFacts DEF IndexOf

LEMMA StatusAfter ==
  ASSUME NEW st, partitions' = With(Partition, st)
  PROVE  Status' = st
BY DEF Status, With, Exists

LEMMA KnownAreNamed ==
  /\ KnownKeys(Status) = {n[1] : n \in KeyNames}
  /\ \A keys : IndexesOf(Status, keys) = {n[2] : n \in {m \in KeyNames : m[1] \in keys}}
BY DEF KnownKeys, KeyNames, IndexesOf

(* What the calls do not see of a step of the controller.                  *)
SameView ==
  /\ KeyNames' = KeyNames /\ Status'.field_metadata = Status.field_metadata
  /\ Status'.production_status = Status.production_status

LEMMA UnchangedView ==
  ASSUME World, UNCHANGED controllerVars
  PROVE  World' /\ SameView
<1>1. ControllerSafe' /\ ControllerTidy'
  BY UnchangedIsSafe, UnchangedIsTidy DEF World, controllerVars
<1>2. Status' = Status
  BY DEF Status, controllerVars, Exists
<1> QED
  BY <1>1, <1>2 DEF World, SameView, RowsAreThere, KeyNames

(* The missing keys are given samples that hold nothing.                   *)
LEMMA RegisteredView ==
  ASSUME World, NEW keys \in SUBSET Keys, Registered(keys)
  PROVE  /\ World' /\ KeyNames \subseteq KeyNames'
         /\ \A k \in keys : \E n \in KeyNames' : n[1] = k
         /\ \A n \in KeyNames' : n \notin KeyNames =>
              n[1] \in keys /\ (\A m \in KeyNames : m[1] # n[1]) /\ \A f \in Fields : ~Filled(n[2], f)
         /\ Status'.field_metadata = Status.field_metadata
         /\ Status'.production_status = Status.production_status
<1> DEFINE missing == keys \ KnownKeys(Status)
<1>1. CASE missing = {}
  <2>1. UNCHANGED controllerVars
    BY <1>1 DEF Registered
  <2>2. \A k \in keys : \E n \in KeyNames : n[1] = k
    BY <1>1, KnownAreNamed
  <2> QED
    BY <2>1, <2>2, UnchangedView DEF SameView
<1>2. CASE missing # {}
  <2>1. PICK A : KvCreate(Partition, missing, A)
    BY <1>2 DEF Registered
  <2>2. World /\ Partition \in Partitions /\ missing \in SUBSET Keys
    BY PartitionIsThere
  <2>3. ControllerSafe' /\ ControllerTidy'
    BY <2>1, <2>2, CreateIsSafe, CreateIsTidy DEF World
  <2> DEFINE n == Cardinality(missing)
             S == NewBatch(Partition, n, A)
  <2>4. n \in Nat /\ A \in Activations(Partition, n) /\ AllocateIndexes(Partition, ToAllocate(Partition, n, A))
    BY <2>1, <2>2, KeysAreCounted DEF KvCreate
  <2>5. PICK old : old = Opened(Partition)
    OBVIOUS
  <2>6. /\ old \in PartitionStatus /\ S \cap old.global_indexes = {} /\ S \subseteq Universe
    BY <2>2, <2>4, <2>5, NewBatchAgrees, NewBatchType DEF World
  <2>7. PICK T : T = S
    OBVIOUS
  <2>8. PICK idx \in Bijection(missing, T) : partitions' = With(Partition, AddKeys(old, idx))
    BY <2>1, <2>5, <2>7 DEF KvCreate
  <2>9. idx \in [missing -> T] /\ DOMAIN idx = missing
    BY <2>8 DEF Bijection, Injection
  <2>10. Status' = AddKeys(old, idx)
    BY <2>8, StatusAfter
  <2>11. /\ old.keys_mapping = KeyNames /\ old.field_metadata = Status.field_metadata
         /\ old.production_status = Status.production_status /\ old.global_indexes = Status.global_indexes
    BY <2>5, NewIsEmpty DEF Opened, Status, KeyNames
  <2>12. /\ Status'.keys_mapping = {e \in KeyNames : e[1] \notin missing} \cup {<<k, idx[k]>> : k \in missing}
         /\ Status'.field_metadata = Status.field_metadata
         /\ Status'.production_status = Status.production_status
         /\ Status'.rows = old.rows \cup UNION {0..i : i \in {idx[k] : k \in missing}}
    BY <2>6, <2>9, <2>10, <2>11 DEF AddKeys, AddIndexes, EnsureSamplesCapacity, PartitionStatus
  <2>13. \A m \in KeyNames : m[1] \notin missing
    BY KnownAreNamed
  <2>14. KeyNames' = KeyNames \cup {<<k, idx[k]>> : k \in missing}
    BY <2>12, <2>13 DEF KeyNames
  <2>15. \A k \in missing : idx[k] \in Nat /\ idx[k] \notin Status.global_indexes
    BY <2>6, <2>7, <2>9, <2>11, UniverseIsFinite
  <2>16. \A k \in missing : \A f \in Fields : ~Filled(idx[k], f)
    BY <2>15, StatusFacts DEF Filled
  <2>17. \A m \in KeyNames : m[2] \in old.rows
    <3>1. CASE Exists(Partition)
      BY <2>5, <3>1, StatusFacts DEF Opened, Status
    <3>2. CASE ~Exists(Partition)
      BY <3>2, NewIsEmpty DEF Status, KeyNames
    <3> QED
      BY <3>1, <3>2
  <2>18. RowsAreThere'
    <3> SUFFICES ASSUME NEW m \in KeyNames' PROVE m[2] \in Status'.rows
      BY DEF RowsAreThere
    <3>1. CASE m \in KeyNames
      BY <2>12, <2>17, <3>1
    <3>2. ASSUME NEW k \in missing, m = <<k, idx[k]>> PROVE m[2] \in Status'.rows
      <4>1. idx[k] \in 0..idx[k]
        BY <2>15
      <4> QED
        BY <2>12, <3>2, <4>1
    <3> QED
      BY <2>14, <3>1, <3>2
  <2>19. World'
    BY <2>3, <2>18 DEF World
  <2>20. \A k \in keys : \E m \in KeyNames' : m[1] = k
    <3> SUFFICES ASSUME NEW k \in keys PROVE \E m \in KeyNames' : m[1] = k
      OBVIOUS
    <3>1. CASE k \in missing
      <4>1. <<k, idx[k]>> \in KeyNames'
        BY <2>14, <3>1
      <4> QED
        BY <4>1
    <3>2. CASE k \notin missing
      <4>1. PICK m \in KeyNames : m[1] = k
        BY <3>2, KnownAreNamed
      <4> QED
        BY <2>14, <4>1
    <3> QED
      BY <3>1, <3>2
  <2>21. ASSUME NEW m \in KeyNames', m \notin KeyNames
         PROVE  m[1] \in keys /\ (\A o \in KeyNames : o[1] # m[1]) /\ \A f \in Fields : ~Filled(m[2], f)
    <3>1. PICK k \in missing : m = <<k, idx[k]>>
      BY <2>14, <2>21
    <3> QED
      BY <2>13, <2>16, <3>1
  <2> QED
    BY <2>12, <2>14, <2>19, <2>20, <2>21
<1> QED
  BY <1>1, <1>2

(* A notification of cells whose samples keys name.                        *)
Notified(S, fs, ready) ==
  /\ \A i : \A f \in Fields : Filled(i, f)' <=> Filled(i, f) \/ (i \in S /\ f \in fs)
  /\ \A i : \A f \in Fields :
       IsFinal(i, f)' <=> IF i \in S /\ f \in fs THEN ready = TRUE ELSE IsFinal(i, f)

LEMMA NotifyView ==
  ASSUME World, NEW S \in SUBSET Nat, S \subseteq Status.global_indexes, NEW fs \in SUBSET Fields,
         NEW ready \in BOOLEAN, NotifyDataUpdate(Partition, S, fs, ready)
  PROVE  World' /\ KeyNames' = KeyNames /\ Notified(S, fs, ready)
<1>1. Partition \in Partitions /\ Exists(Partition)
  BY PartitionIsThere DEF NotifyDataUpdate
<1>2. PICK old : old = partitions[Partition]
  OBVIOUS
<1>3. Status = old /\ old \in PartitionStatus
  BY <1>1, <1>2, TidyStatusOf DEF World, Status
<1>4. S \in SUBSET Universe
  <2>1. Sound(old, Universe)
    BY <1>1, <1>2, StatusOf DEF World, ControllerSafe
  <2> QED
    BY <1>3, <2>1 DEF Sound
<1>5. ControllerSafe' /\ ControllerTidy'
  BY <1>1, <1>2, <1>3, <1>4, NotifyIsSafe, NotifyIsTidy DEF World
<1>6. Status' = UpdateProductionStatus(old, S, fs, ready)
  BY <1>2, StatusAfter DEF NotifyDataUpdate
<1>7. /\ Status'.keys_mapping = old.keys_mapping /\ old.rows \subseteq Status'.rows
      /\ Status'.field_metadata = [f \in Fields |-> IF f \in fs THEN old.field_metadata[f] \cup S ELSE old.field_metadata[f]]
      /\ Status'.production_status = IF ready THEN old.production_status \cup (S \X fs) ELSE old.production_status \ (S \X fs)
  BY <1>3, <1>6 DEF UpdateProductionStatus, EnsureSamplesCapacity, PartitionStatus
<1>8. KeyNames' = KeyNames /\ World'
  BY <1>3, <1>5, <1>7 DEF World, RowsAreThere, KeyNames
<1>9. \A i : \A f \in Fields : Filled(i, f)' <=> Filled(i, f) \/ (i \in S /\ f \in fs)
  BY <1>3, <1>7 DEF Filled
<1>10. \A i : \A f \in Fields : IsFinal(i, f)' <=> IF i \in S /\ f \in fs THEN ready = TRUE ELSE IsFinal(i, f)
  BY <1>3, <1>7 DEF IsFinal
<1> QED
  BY <1>8, <1>9, <1>10 DEF Notified

LEMMA SetMetaView ==
  ASSUME World, NEW S \in SUBSET Nat, S \subseteq Status.global_indexes, SetMeta(Partition, S)
  PROVE  World' /\ SameView
<1>1. Partition \in Partitions /\ Exists(Partition)
  BY PartitionIsThere DEF SetMeta
<1>2. PICK old : old = partitions[Partition]
  OBVIOUS
<1>3. Status = old /\ old \in PartitionStatus
  BY <1>1, <1>2, TidyStatusOf DEF World, Status
<1>4. ControllerTidy'
  <2>1. {} \in SUBSET Fields /\ TRUE \in BOOLEAN
    OBVIOUS
  <2> QED
    BY <1>1, <1>2, <1>3, <2>1, NotifyIsTidy DEF World
<1>5. ControllerSafe'
  BY <1>1, ConsumptionIsSafe DEF World
<1>6. Status' = SetCustomMeta(old, S)
  BY <1>2, StatusAfter DEF SetMeta
<1>7. /\ Status'.keys_mapping = old.keys_mapping /\ old.rows = Status'.rows
      /\ Status'.field_metadata = old.field_metadata /\ Status'.production_status = old.production_status
  BY <1>3, <1>6 DEF SetCustomMeta, PartitionStatus
<1> QED
  BY <1>3, <1>4, <1>5, <1>7 DEF World, SameView, RowsAreThere, KeyNames

(* KV_CLEAR_FIELDS                                                         *)
LEMMA DropView ==
  ASSUME World, NEW keys, NEW fs \in SUBSET Fields, KvClearFields(Partition, keys, fs)
  PROVE  /\ World' /\ KeyNames' = KeyNames
         /\ \A i : \A f \in Fields : Filled(i, f)' <=> Filled(i, f) /\ ~(i \in IndexesOf(Status, keys) /\ f \in fs)
         /\ \A i : \A f \in Fields : IsFinal(i, f)' => IsFinal(i, f)
<1>1. Partition \in Partitions /\ Exists(Partition)
  BY PartitionIsThere DEF KvClearFields
<1>2. PICK old : old = partitions[Partition]
  OBVIOUS
<1>3. Status = old /\ old \in PartitionStatus
  BY <1>1, <1>2, TidyStatusOf DEF World, Status
<1>4. ControllerSafe' /\ ControllerTidy'
  BY <1>1, DropIsSafe, MarkIsTidy DEF World
<1>5. PICK S, held : S = IndexesOf(old, keys) /\ held = {f \in fs : old.field_metadata[f] # {}}
  OBVIOUS
<1>6. Status' = ClearFields(old, S, held)
  BY <1>2, <1>5, StatusAfter DEF KvClearFields
<1>7. /\ Status'.keys_mapping = old.keys_mapping /\ old.rows = Status'.rows
      /\ Status'.field_metadata = [f \in Fields |-> IF f \in held THEN old.field_metadata[f] \ S ELSE old.field_metadata[f]]
      /\ Status'.production_status = old.production_status \ (S \X held)
  BY <1>3, <1>6 DEF ClearFields, PartitionStatus
<1>8. KeyNames' = KeyNames /\ World'
  BY <1>3, <1>4, <1>7 DEF World, RowsAreThere, KeyNames
<1>9. \A i : \A f \in Fields : Filled(i, f)' <=> Filled(i, f) /\ ~(i \in S /\ f \in fs)
  BY <1>3, <1>5, <1>7 DEF Filled
<1>10. \A i : \A f \in Fields : IsFinal(i, f)' => IsFinal(i, f)
  BY <1>3, <1>7 DEF IsFinal
<1> QED
  BY <1>3, <1>5, <1>8, <1>9, <1>10

(* CLEAR_META: the keys are gone; what is left to the others is the same.  *)
LEMMA ClearView ==
  ASSUME World, NEW keys, ClearMeta(Partition, IndexesOf(Status, keys))
  PROVE  /\ World' /\ KeyNames' = {n \in KeyNames : n[1] \notin keys}
         /\ \A n \in KeyNames' : \A f \in Fields : (Filled(n[2], f)' <=> Filled(n[2], f)) /\ (IsFinal(n[2], f)' => IsFinal(n[2], f))
<1>1. Partition \in Partitions /\ Exists(Partition)
  BY PartitionIsThere DEF ClearMeta
<1>2. PICK old : old = partitions[Partition]
  OBVIOUS
<1>3. Status = old /\ old \in PartitionStatus /\ Tidy(old)
  BY <1>1, <1>2, TidyStatusOf DEF World, Status
<1>4. PICK S : S = IndexesOf(Status, keys)
  OBVIOUS
<1>5. S = {n[2] : n \in {m \in KeyNames : m[1] \in keys}}
  BY <1>4, KnownAreNamed
<1>6. S \in SUBSET old.global_indexes /\ InRange(old, S)
  BY <1>3, <1>5, StatusFacts DEF InRange
<1>7. ClearMeta(Partition, S)
  BY <1>4
<1>8. ControllerSafe' /\ ControllerTidy'
  BY <1>1, <1>2, <1>6, <1>7, ClearIsSafe, ClearIsTidy DEF World
<1>9. Status' = Cleared(old, S)
  BY <1>1, <1>2, <1>6, <1>7, ClearReleases, StatusAfter DEF World
<1>10. /\ Status'.keys_mapping = {e \in old.keys_mapping : \A r \in old.revert_keys_mapping : r[1] \in S => e[1] # r[2]}
       /\ Status'.rows = old.rows
       /\ Status'.field_metadata = [f \in Fields |-> IF Remaining(old, S) = {} THEN {} ELSE old.field_metadata[f] \ S]
       /\ Status'.production_status = {c \in old.production_status : c[1] \notin S}
  BY <1>3, <1>9 DEF Cleared, ZeroRows, PartitionStatus
<1>11. old.revert_keys_mapping = {<<e[2], e[1]>> : e \in KeyNames}
  BY <1>3 DEF Tidy, KeysNameSamples, KeyNames
<1>12. \A e \in KeyNames : (\A r \in old.revert_keys_mapping : r[1] \in S => e[1] # r[2]) <=> e[1] \notin keys
  <2> SUFFICES ASSUME NEW e \in KeyNames
               PROVE  (\A r \in old.revert_keys_mapping : r[1] \in S => e[1] # r[2]) <=> e[1] \notin keys
    OBVIOUS
  <2>1. ASSUME e[1] \in keys
        PROVE  \E r \in old.revert_keys_mapping : r[1] \in S /\ e[1] = r[2]
    <3>1. <<e[2], e[1]>> \in old.revert_keys_mapping /\ e[2] \in S
      BY <1>5, <1>11, <2>1
    <3> QED
      BY <3>1
  <2>2. ASSUME NEW r \in old.revert_keys_mapping, r[1] \in S, e[1] = r[2]
        PROVE  e[1] \in keys
    <3>1. PICK m \in KeyNames : r = <<m[2], m[1]>>
      BY <1>11, <2>2
    <3>2. PICK o \in KeyNames : o[1] \in keys /\ o[2] = r[1]
      BY <1>5, <2>2
    <3> QED
      BY <2>2, <3>1, <3>2, StatusFacts
  <2> QED
    BY <2>1, <2>2
<1>13. KeyNames' = {n \in KeyNames : n[1] \notin keys}
  BY <1>3, <1>10, <1>12 DEF KeyNames
<1>14. World'
  BY <1>3, <1>8, <1>10, <1>13 DEF World, RowsAreThere
<1>15. ASSUME NEW n \in KeyNames', NEW f \in Fields
       PROVE  (Filled(n[2], f)' <=> Filled(n[2], f)) /\ (IsFinal(n[2], f)' => IsFinal(n[2], f))
  <2>1. n \in KeyNames /\ n[1] \notin keys
    BY <1>13, <1>15
  <2>2. n[2] \notin S
    BY <1>5, <2>1, StatusFacts
  <2>3. n[2] \in Remaining(old, S)
    BY <1>3, <2>1, <2>2, StatusFacts DEF Remaining
  <2> QED
    BY <1>3, <1>10, <2>2, <2>3 DEF Filled, IsFinal
<1> QED
  BY <1>13, <1>14, <1>15

-----------------------------------------------------------------------------
(* Calls come, go on, and go.                                              *)
LEMMA SlotFacts ==
  ASSUME CallsInv, NEW c \in Slots
  PROVE  /\ IsCall(calls[c]) /\ InItsPlace(calls[c]) /\ RequestsAreOf(c, calls[c])
         /\ World /\ StoreTypes /\ OneWriterAKey /\ \A r \in inbox : r \in Slots \X Units \X Nat
BY DEF CallsInv, KeyValueTypes, World

(* A unit there is, for every sample.                                      *)
LEMMA UnitIsThere ==
  ASSUME CallsInv, NEW i \in Nat
  PROVE  UnitOf(i) \in Units
<1>1. deployment.units \in Nat \ {0}
  BY KeyValueAssumption DEF CallsInv, KeyValueTypes
<1>2. PICK n : n = deployment.units
  OBVIOUS
<1>3. n \in Nat /\ n > 0 /\ i % n \in 0..(n - 1)
  BY <1>1, <1>2
<1> QED
  BY <1>2, <1>3 DEF UnitOf, Units, NumUnits

(* The samples that a call's keys name.                                    *)
LEMMA SamplesOfCall ==
  ASSUME CallsInv, NEW c \in Slots, NEW x, x = calls[c]
  PROVE  /\ {x.index[k] : k \in DOMAIN x.index} \in SUBSET Nat
         /\ {x.index[k] : k \in DOMAIN x.index} \subseteq Status.global_indexes
<1>1. World /\ InItsPlace(x)
  BY SlotFacts
<1>2. \A n \in KeyNames : n[2] \in Nat /\ n[2] \in Status.global_indexes
  BY <1>1, StatusFacts
<1>3. ASSUME NEW k \in DOMAIN x.index PROVE x.index[k] \in Nat /\ x.index[k] \in Status.global_indexes
  <2>1. PICK n : n = <<k, x.index[k]>>
    OBVIOUS
  <2>2. n \in KeyNames /\ n[2] = x.index[k]
    BY <1>1, <2>1 DEF InItsPlace
  <2> QED
    BY <1>2, <2>2
<1> QED
  BY <1>3

LEMMA CallsStep ==
  ASSUME CallsInv, NEW c \in Slots, UNCHANGED deployment, World', StoreTypes',
         NEW new, IsCall(new), InItsPlace(new)', RequestsAreOf(c, new)',
         calls' = [d \in Slots |-> calls'[d]], calls'[c] = new,
         \A d \in Slots \ {c} :
           /\ calls'[d] = calls[d] \/ \E may : calls'[d] = [calls[d] EXCEPT !.may = may]
           /\ calls[d] = Free => calls'[d] = Free
           /\ \A k \in DOMAIN calls[d].index : <<k, calls[d].index[k]>> \in KeyNames',
         \A r \in inbox' : r \in Slots \X Units \X Nat /\ (r \in inbox \/ r[1] = c),
         Writes(new) => \A d \in Slots \ {c} : Writes(calls[d]) => DOMAIN calls[d].index \cap DOMAIN new.index = {}
  PROVE  CallsInv'
<1>1. Units' = Units /\ Free' = Free
  BY DEF Units, NumUnits, Free
<1>2. ASSUME NEW d \in Slots \ {c}
      PROVE  /\ IsCall(calls'[d]) /\ calls'[d].op = calls[d].op /\ calls'[d].phase = calls[d].phase
             /\ calls'[d].index = calls[d].index /\ calls'[d].finalize = calls[d].finalize
             /\ calls'[d].open = calls[d].open /\ calls'[d].attempt = calls[d].attempt
  <2>1. IsCall(calls[d])
    BY SlotFacts
  <2>2. CASE calls'[d] = calls[d]
    BY <2>1, <2>2
  <2>3. ASSUME NEW may, calls'[d] = [calls[d] EXCEPT !.may = may]
        PROVE  <1>2!2
    <3>1. PICK x, y : x = calls[d] /\ y = calls'[d]
      OBVIOUS
    <3>2. y = [op |-> x.op, phase |-> x.phase, finalize |-> x.finalize, index |-> x.index, fs |-> x.fs,
               held |-> x.held, number |-> x.number, open |-> x.open, attempt |-> x.attempt,
               failed |-> x.failed, got |-> x.got, may |-> may]
      BY <2>1, <2>3, <3>1 DEF IsCall
    <3>3. IsCall(y)
      BY <2>1, <3>1, <3>2 DEF IsCall
    <3> QED
      BY <3>1, <3>2, <3>3
  <2> QED
    BY <2>2, <2>3
<1>3. KeyValueTypes'
  <2>1. \A d \in Slots : IsCall(calls'[d])
    BY <1>2
  <2>2. \A d \in Slots : IsCall(calls[d])'
    BY <1>1, <2>1 DEF IsCall
  <2>3. deployment \in Deployments
    BY DEF CallsInv, KeyValueTypes
  <2> QED
    BY <2>2, <2>3 DEF KeyValueTypes
<1>4. ASSUME NEW d \in Slots
      PROVE  InItsPlace(calls[d])' /\ RequestsAreOf(d, calls[d])'
  <2>1. CASE d = c
    BY <2>1
  <2>2. CASE d # c
    <3>1. PICK x, y : x = calls[d] /\ y = calls'[d]
      OBVIOUS
    <3>2. /\ y.op = x.op /\ y.phase = x.phase /\ y.index = x.index /\ y.finalize = x.finalize
          /\ y.open = x.open /\ y.attempt = x.attempt /\ (x = Free => y = Free)
          /\ \A k \in DOMAIN x.index : <<k, x.index[k]>> \in KeyNames'
      BY <1>2, <2>2, <3>1
    <3>3. InItsPlace(x) /\ RequestsAreOf(d, x)
      BY <3>1, SlotFacts
    <3>4. InItsPlace(y)'
      BY <1>1, <3>2, <3>3 DEF InItsPlace
    <3>5. \A r \in inbox' : r[1] = d => r \in inbox
      BY <2>2
    <3>6. RequestsAreOf(d, y)'
      BY <3>2, <3>3, <3>5 DEF RequestsAreOf
    <3> QED
      BY <3>1, <3>4, <3>6
  <2> QED
    BY <2>1, <2>2
<1>5. OneWriterAKey'
  <2> SUFFICES ASSUME NEW a \in Slots, NEW b \in Slots, Writes(calls'[a]), Writes(calls'[b]),
                      DOMAIN calls'[a].index \cap DOMAIN calls'[b].index # {}, a # b
               PROVE  FALSE
    BY DEF OneWriterAKey, Writes
  <2>1. OneWriterAKey
    BY DEF CallsInv
  <2>2. \A d \in Slots \ {c} : (Writes(calls'[d]) <=> Writes(calls[d])) /\ calls'[d].index = calls[d].index
    BY <1>2 DEF Writes
  <2>3. CASE a # c /\ b # c
    BY <2>1, <2>2, <2>3 DEF OneWriterAKey
  <2>4. CASE a = c \/ b = c
    BY <2>2, <2>4
  <2> QED
    BY <2>3, <2>4
<1>6. \A r \in inbox' : r \in Slots \X Units' \X Nat
  BY <1>1
<1> QED
  BY <1>3, <1>4, <1>5, <1>6 DEF CallsInv, World

LEMMA FreeIsACall ==
  /\ IsCall(Free) /\ Free.op = "none" /\ Free.index = << >> /\ Free.fs = {} /\ Free.phase = "free"
  /\ Free.may = << >> /\ Free.open = {} /\ Free.failed = FALSE /\ InItsPlace(Free)
<1>1. PICK none, at : none = << >> /\ at = [u \in Units |-> 0]
  OBVIOUS
<1>2. Free = [op |-> "none", phase |-> "free", finalize |-> TRUE, index |-> none, fs |-> {},
              held |-> {}, number |-> 0, open |-> {}, attempt |-> at, failed |-> FALSE,
              got |-> none, may |-> none]
  BY <1>1 DEF Free
<1>3. DOMAIN none = {} /\ none \in [{} -> Nat]
  BY <1>1
<1>4. IsCall(Free)
  BY <1>1, <1>2, <1>3 DEF IsCall
<1> QED
  BY <1>1, <1>2, <1>3, <1>4 DEF InItsPlace

LEMMA Settles ==
  ASSUME NEW c, NEW y, NEW box
  PROVE  \/ Settle(c, y, box) = y
         \/ /\ Settle(c, y, box) = Free /\ y.phase = "ended" /\ y.open = {}
            /\ \A r \in box : r[1] # c
BY DEF Settle

LEMMA CallContinues ==
  ASSUME CallsInv, NEW c \in Slots, NEW y, IsCall(y), UNCHANGED deployment, World', KeyNames' = KeyNames, StoreTypes',
         calls[c].op # "none", y.op = calls[c].op, y.index = calls[c].index, y.finalize = calls[c].finalize,
         y.phase \in {"units", "tag", "ended"}, y.op = "get" => y.phase = "units",
         y.op = "update" => y.open \subseteq calls[c].open /\ y.attempt = calls[c].attempt,
         calls' = [calls EXCEPT ![c] = Settle(c, y, inbox')],
         \A r \in inbox' : r \in inbox \/ (y.op # "update" /\ r \in {c} \X Units \X Nat)
  PROVE  CallsInv'
<1>1. PICK new : new = Settle(c, y, inbox')
  OBVIOUS
<1>2. /\ calls' = [d \in Slots |-> calls'[d]] /\ calls'[c] = new
      /\ \A d \in Slots \ {c} : calls'[d] = calls[d]
  BY <1>1 DEF CallsInv, KeyValueTypes
<1>3. IsCall(calls[c]) /\ InItsPlace(calls[c]) /\ RequestsAreOf(c, calls[c])
  BY SlotFacts
<1>4. Units' = Units /\ Free' = Free
  BY DEF Units, NumUnits, Free
<1>5. InItsPlace(y)
  BY <1>3 DEF InItsPlace
<1>6. RequestsAreOf(c, y)'
  <2> SUFFICES ASSUME NEW r \in inbox', r[1] = c PROVE y.op # "none" /\ (y.op = "update" => r[3] = 1)
    BY DEF RequestsAreOf
  <2>1. CASE r \in inbox
    BY <1>3, <2>1 DEF RequestsAreOf
  <2>2. CASE r \notin inbox
    BY <2>2
  <2> QED
    BY <2>1, <2>2
<1>7. IsCall(new) /\ InItsPlace(new) /\ RequestsAreOf(c, new)'
  <2>1. CASE new = y
    BY <1>5, <1>6, <2>1
  <2>2. CASE new = Free /\ \A r \in inbox' : r[1] # c
    BY <2>2, FreeIsACall DEF RequestsAreOf
  <2> QED
    BY <1>1, <2>1, <2>2, Settles
<1>8. InItsPlace(new)'
  BY <1>4, <1>7 DEF InItsPlace
<1>9. \A r \in inbox' : r \in Slots \X Units \X Nat /\ (r \in inbox \/ r[1] = c)
  <2> SUFFICES ASSUME NEW r \in inbox' PROVE r \in Slots \X Units \X Nat /\ (r \in inbox \/ r[1] = c)
    OBVIOUS
  <2>1. CASE r \in inbox
    BY <2>1, SlotFacts
  <2>2. CASE r \in {c} \X Units \X Nat
    BY <2>2
  <2> QED
    BY <2>1, <2>2
<1>10. Writes(new) => \A d \in Slots \ {c} : Writes(calls[d]) => DOMAIN calls[d].index \cap DOMAIN new.index = {}
  <2>1. Writes(new) => new.index = calls[c].index /\ Writes(calls[c])
    <3>1. CASE new = y
      BY <3>1 DEF Writes
    <3>2. CASE new = Free
      BY <3>2, FreeIsACall DEF Writes
    <3> QED
      BY <1>1, <3>1, <3>2, Settles
  <2>2. OneWriterAKey
    BY SlotFacts
  <2> QED
    BY <2>1, <2>2 DEF OneWriterAKey
<1>11. \A d \in Slots \ {c} : /\ calls'[d] = calls[d] /\ (calls[d] = Free => calls'[d] = Free)
                              /\ \A k \in DOMAIN calls[d].index : <<k, calls[d].index[k]>> \in KeyNames'
  <2>1. \A d \in Slots : InItsPlace(calls[d])
    BY SlotFacts
  <2> QED
    BY <1>2, <2>1 DEF InItsPlace
<1> QED
  BY <1>2, <1>7, <1>8, <1>9, <1>10, <1>11, CallsStep

-----------------------------------------------------------------------------
(* Values.                                                                 *)
LEMMA MergedIs ==
  ASSUME NEW x, IsCall(x), NEW k \in Keys, NEW old \in Histories
  PROVE  /\ Merged(x, k, old, FALSE) \in Histories /\ Merged(x, k, old, FALSE) # << >>
         /\ old # << >> => Merged(x, k, old, TRUE) \in Histories /\ Merged(x, k, old, TRUE) # << >>
         /\ x.finalize = TRUE => Last(Merged(x, k, old, FALSE)).draft = FALSE
         /\ x.finalize = TRUE /\ old # << >> => Last(Merged(x, k, old, TRUE)).draft = FALSE
         /\ old # << >> /\ Last(old).draft = FALSE /\ x.op = "update" => Last(Merged(x, k, old, TRUE)).draft = FALSE
<1> DEFINE fresh == [number |-> x.number, key |-> k, draft |-> TRUE /\ ~x.finalize]
           next  == [number |-> x.number, key |-> k, draft |-> Last(old).draft /\ ~x.finalize]
<1>1. Merged(x, k, old, FALSE) = << fresh >>
  BY DEF Merged
<1>2. Merged(x, k, old, TRUE) = IF x.op = "update" THEN Append(old, next) ELSE << fresh >>
  BY DEF Merged
<1>3. fresh \in Marks /\ (x.finalize = TRUE => fresh.draft = FALSE)
  BY DEF Marks, IsCall
<1>4. ASSUME old # << >>
      PROVE  /\ next \in Marks /\ (x.finalize = TRUE => next.draft = FALSE)
             /\ Last(old).draft = FALSE => next.draft = FALSE
  <2>1. Last(old) \in Marks
    BY <1>4 DEF Histories, Last
  <2> QED
    BY <2>1 DEF Marks, IsCall
<1> HIDE DEF fresh, next
<1>5. << fresh >> \in Histories /\ << fresh >> # << >> /\ Last(<< fresh >>) = fresh
  BY <1>3 DEF Histories, Last
<1>6. ASSUME old # << >>
      PROVE  Append(old, next) \in Histories /\ Append(old, next) # << >> /\ Last(Append(old, next)) = next
  BY <1>4, <1>6 DEF Histories, Last
<1> QED
  BY <1>1, <1>2, <1>3, <1>4, <1>5, <1>6

(* A put stores the same whatever there was.                               *)
LEMMA PutsAreAlike ==
  ASSUME NEW x, x.op = "put", NEW k, NEW old, NEW held
  PROVE  Merged(x, k, old, held) = Merged(x, k, << >>, FALSE)
BY DEF Merged

LEMMA NoneHeld ==
  ASSUME NEW x, NEW k, NEW old
  PROVE  Merged(x, k, old, FALSE) = Merged(x, k, << >>, FALSE)
BY DEF Merged

LEMMA EffectsAre ==
  ASSUME NEW x, NEW k, NEW olds
  PROVE  /\ << >> \in olds => Merged(x, k, << >>, FALSE) \in Effects(x, k, olds)
         /\ \A v \in olds : v # << >> => Merged(x, k, v, TRUE) \in Effects(x, k, olds)
         /\ \A w \in Effects(x, k, olds) : \E v \in olds :
              \/ v = << >> /\ w = Merged(x, k, << >>, FALSE)
              \/ v # << >> /\ w = Merged(x, k, v, TRUE)
<1>1. Effects(x, k, olds) = {Merged(x, k, v, v # << >>) : v \in olds}
  BY DEF Effects
<1>2. \A v \in olds : v # << >> => (v # << >>) = TRUE
  OBVIOUS
<1>3. (<< >> # << >>) = FALSE
  OBVIOUS
<1>4. ASSUME NEW v \in olds, v # << >> PROVE Merged(x, k, v, v # << >>) = Merged(x, k, v, TRUE)
  BY <1>4 DEF Merged
<1>5. ASSUME NEW v \in olds, v = << >> PROVE Merged(x, k, v, v # << >>) = Merged(x, k, << >>, FALSE)
  BY <1>5 DEF Merged
<1>6. ASSUME NEW w \in Effects(x, k, olds)
      PROVE  \E v \in olds : \/ v = << >> /\ w = Merged(x, k, << >>, FALSE)
                             \/ v # << >> /\ w = Merged(x, k, v, TRUE)
  <2>1. PICK v \in olds : w = Merged(x, k, v, v # << >>)
    BY <1>1, Zenon
  <2> QED
    BY <1>4, <1>5, <2>1
<1>7. \A v \in olds : Merged(x, k, v, v # << >>) \in Effects(x, k, olds)
  BY <1>1, Zenon
<1> QED
  BY <1>4, <1>5, <1>6, <1>7

LEMMA EffectsTyped ==
  ASSUME NEW x, IsCall(x), NEW k \in Keys, NEW olds \in SUBSET Histories
  PROVE  /\ Effects(x, k, olds) \in SUBSET Histories /\ << >> \notin Effects(x, k, olds)
         /\ olds # {} => Effects(x, k, olds) # {}
         /\ x.finalize = TRUE => \A w \in Effects(x, k, olds) : Last(w).draft = FALSE
         /\ olds # {} /\ x.op = "put" => Merged(x, k, << >>, FALSE) \in Effects(x, k, olds)
<1>1. << >> \in Histories
  BY DEF Histories
<1>2. ASSUME NEW w \in Effects(x, k, olds)
      PROVE  w \in Histories /\ w # << >> /\ (x.finalize = TRUE => Last(w).draft = FALSE)
  <2>1. PICK v \in olds : \/ v = << >> /\ w = Merged(x, k, << >>, FALSE)
                          \/ v # << >> /\ w = Merged(x, k, v, TRUE)
    BY EffectsAre
  <2>2. v \in Histories
    BY <2>1
  <2>3. CASE v = << >>
    BY <1>1, <2>1, <2>3, MergedIs
  <2>4. CASE v # << >>
    <3>1. w = Merged(x, k, v, TRUE)
      BY <2>1, <2>4
    <3>2. /\ Merged(x, k, v, TRUE) \in Histories /\ Merged(x, k, v, TRUE) # << >>
          /\ x.finalize = TRUE => Last(Merged(x, k, v, TRUE)).draft = FALSE
      BY <2>2, <2>4, MergedIs, Zenon
    <3> QED
      BY <3>1, <3>2
  <2> QED
    BY <2>3, <2>4
<1>3. ASSUME olds # {} PROVE Effects(x, k, olds) # {}
  <2>1. PICK v \in olds : TRUE
    BY <1>3
  <2>2. CASE v = << >>
    BY <2>2, EffectsAre
  <2>3. CASE v # << >>
    BY <2>3, EffectsAre
  <2> QED
    BY <2>2, <2>3
<1>4. ASSUME NEW v \in olds, x.op = "put" PROVE Merged(x, k, << >>, FALSE) \in Effects(x, k, olds)
  <2>1. CASE v = << >>
    BY <2>1, EffectsAre
  <2>2. CASE v # << >>
    <3>1. Merged(x, k, v, TRUE) \in Effects(x, k, olds)
      BY <2>2, EffectsAre
    <3>2. Merged(x, k, v, TRUE) = Merged(x, k, << >>, FALSE)
      BY <1>4, PutsAreAlike
    <3> QED
      BY <3>1, <3>2
  <2> QED
    BY <2>1, <2>2
<1> QED
  BY <1>2, <1>3, <1>4

-----------------------------------------------------------------------------
(* What a call becomes.                                                    *)
SameCall(y, x) ==
  /\ y.op = x.op /\ y.finalize = x.finalize /\ y.index = x.index /\ y.fs = x.fs /\ y.held = x.held
  /\ y.number = x.number /\ y.may = x.may /\ y.got = x.got

GoesOn(c, x, y) ==
  /\ calls' = [calls EXCEPT ![c] = Settle(c, y, inbox')]
  /\ IsCall(y) /\ SameCall(y, x)

LEMMA FailingIs ==
  ASSUME CallsInv, NEW x, IsCall(x)
  PROVE  /\ IsCall(Failing(x)) /\ SameCall(Failing(x), x) /\ Failing(x).phase = x.phase
         /\ Failing(x).open = x.open /\ Failing(x).attempt = x.attempt
         /\ Failing(x).failed = (x.phase = "units")
<1>1. PICK b \in BOOLEAN : b = (x.phase = "units")
  OBVIOUS
<1>2. PICK y : y = [x EXCEPT !.failed = b]
  OBVIOUS
<1>3. Failing(x) = y
  BY <1>1, <1>2 DEF Failing
<1>4. y = [op |-> x.op, phase |-> x.phase, finalize |-> x.finalize, index |-> x.index, fs |-> x.fs,
           held |-> x.held, number |-> x.number, open |-> x.open, attempt |-> x.attempt,
           failed |-> b, got |-> x.got, may |-> x.may]
  BY <1>2 DEF IsCall
<1>5. IsCall(y) /\ SameCall(y, x)
  BY <1>4 DEF IsCall, SameCall
<1> QED
  BY <1>1, <1>3, <1>4, <1>5

LEMMA ClosingIs ==
  ASSUME CallsInv, NEW x, IsCall(x), NEW u
  PROVE  \E y : /\ y = [x EXCEPT !.open = @ \ {u}] /\ IsCall(y) /\ SameCall(y, x) /\ y.phase = x.phase
                /\ y.open = x.open \ {u} /\ y.attempt = x.attempt /\ y.failed = x.failed
<1>1. PICK y : y = [x EXCEPT !.open = @ \ {u}]
  OBVIOUS
<1>2. y = [op |-> x.op, phase |-> x.phase, finalize |-> x.finalize, index |-> x.index, fs |-> x.fs,
           held |-> x.held, number |-> x.number, open |-> x.open \ {u}, attempt |-> x.attempt,
           failed |-> x.failed, got |-> x.got, may |-> x.may]
  BY <1>1 DEF IsCall
<1>3. IsCall(y) /\ SameCall(y, x)
  BY <1>2 DEF IsCall, SameCall
<1>4. y.phase = x.phase /\ y.open = x.open \ {u} /\ y.attempt = x.attempt /\ y.failed = x.failed
  BY <1>2
<1> QED
  BY <1>1, <1>3, <1>4, Zenon

(* Call y is call x in another phase.                                      *)
Moved(y, x, phase) ==
  /\ y = [x EXCEPT !.phase = phase] /\ IsCall(y) /\ SameCall(y, x) /\ y.phase = phase
  /\ y.open = x.open /\ y.attempt = x.attempt /\ y.failed = x.failed

LEMMA EndingIs ==
  ASSUME CallsInv, NEW x, IsCall(x), NEW phase
  PROVE  \E y : Moved(y, x, phase)
<1>1. PICK y : y = [x EXCEPT !.phase = phase]
  OBVIOUS
<1>2. y = [op |-> x.op, phase |-> phase, finalize |-> x.finalize, index |-> x.index, fs |-> x.fs,
           held |-> x.held, number |-> x.number, open |-> x.open, attempt |-> x.attempt,
           failed |-> x.failed, got |-> x.got, may |-> x.may]
  BY <1>1 DEF IsCall
<1>3. IsCall(y) /\ SameCall(y, x)
  BY <1>2 DEF IsCall, SameCall
<1>4. y.phase = phase /\ y.open = x.open /\ y.attempt = x.attempt /\ y.failed = x.failed
  BY <1>2
<1>5. Moved(y, x, phase)
  BY <1>1, <1>3, <1>4 DEF Moved
<1> QED
  BY <1>5, Zenon

(* Either an answer is not heard, or its unit is not waited for any more.  *)
LEMMA AnswerGives ==
  ASSUME CallsInv, NEW c \in Slots, NEW u, NEW n, NEW success \in BOOLEAN, Answer(c, u, n, success)
  PROVE  \E y : /\ GoesOn(c, calls[c], y) /\ y.phase = calls[c].phase /\ y.attempt = calls[c].attempt
                /\ \/ y.open = calls[c].open /\ y.failed = calls[c].failed
                   \/ /\ y.open = calls[c].open \ {u}
                      /\ y.failed = IF success THEN calls[c].failed ELSE calls[c].phase = "units"
<1>1. PICK heard \in BOOLEAN :
        calls' = [calls EXCEPT ![c] =
          Settle(c, IF heard THEN Answered(c, u, n, IF success THEN @ ELSE Failing(@)) ELSE @, inbox')]
  BY DEF Answer
<1>2. PICK x : x = calls[c]
  OBVIOUS
<1>3. IsCall(x)
  BY <1>2, SlotFacts
<1>4. PICK z : z = IF success THEN x ELSE Failing(x)
  OBVIOUS
<1>5. /\ IsCall(z) /\ SameCall(z, x) /\ z.phase = x.phase /\ z.open = x.open /\ z.attempt = x.attempt
      /\ z.failed = IF success THEN x.failed ELSE x.phase = "units"
  BY <1>3, <1>4, FailingIs DEF SameCall
<1>6. PICK w : /\ w = [z EXCEPT !.open = @ \ {u}] /\ IsCall(w) /\ SameCall(w, z) /\ w.phase = z.phase
               /\ w.open = z.open \ {u} /\ w.attempt = z.attempt /\ w.failed = z.failed
  BY <1>5, ClosingIs
<1>7. PICK y : y = IF heard /\ Hears(x, u, n) THEN w ELSE x
  OBVIOUS
<1>8. calls' = [calls EXCEPT ![c] = Settle(c, y, inbox')]
  BY <1>1, <1>2, <1>4, <1>6, <1>7 DEF Answered
<1>9. IsCall(y) /\ SameCall(y, x)
  BY <1>3, <1>5, <1>6, <1>7 DEF SameCall
<1>10. /\ y.phase = x.phase /\ y.attempt = x.attempt
       /\ \/ y.open = x.open /\ y.failed = x.failed
          \/ y.open = x.open \ {u} /\ y.failed = IF success THEN x.failed ELSE x.phase = "units"
  BY <1>5, <1>6, <1>7
<1> QED
  BY <1>2, <1>8, <1>9, <1>10 DEF GoesOn

-----------------------------------------------------------------------------
(* What is stored, and what there could be.                                *)
LEMMA OutcomeIs ==
  ASSUME CallsInv, NEW c \in Slots, NEW certain \in BOOLEAN, Outcome(c, certain)
  PROVE  /\ could' = [e \in Keys \X Fields |-> could'[e]]
         /\ \A e \in Keys \X Fields : could'[e] \in SUBSET Histories /\ could'[e] # {}
         /\ \A k \in Keys, f \in Fields :
              could'[<<k, f>>] =
                IF k \notin DOMAIN calls[c].index \/ f \notin calls[c].fs THEN could[<<k, f>>]
                ELSE IF certain THEN Effects(calls[c], k, could[<<k, f>>])
                ELSE could[<<k, f>>] \cup Effects(calls[c], k, could[<<k, f>>])
<1>1. PICK x : x = calls[c]
  OBVIOUS
<1>2. IsCall(x)
  BY <1>1, SlotFacts
<1>3. /\ could = [e \in Keys \X Fields |-> could[e]]
      /\ \A e \in Keys \X Fields : could[e] \in SUBSET Histories /\ could[e] # {}
  BY SlotFacts DEF StoreTypes
<1>4. could' = [e \in Keys \X Fields |->
                  IF e[1] \notin DOMAIN x.index \/ e[2] \notin x.fs THEN could[e]
                  ELSE IF certain THEN Effects(x, e[1], could[e]) ELSE could[e] \cup Effects(x, e[1], could[e])]
  BY <1>1, <1>3 DEF Outcome, KeysOf
<1>5. ASSUME NEW e \in Keys \X Fields PROVE could'[e] \in SUBSET Histories /\ could'[e] # {}
  <2>1. Effects(x, e[1], could[e]) \in SUBSET Histories /\ Effects(x, e[1], could[e]) # {}
    <3>1. e[1] \in Keys /\ could[e] \in SUBSET Histories /\ could[e] # {}
      BY <1>3
    <3> QED
      BY <1>2, <3>1, EffectsTyped
  <2> QED
    BY <1>3, <1>4, <2>1
<1>6. could' = [e \in Keys \X Fields |-> could'[e]]
  BY <1>4
<1>7. ASSUME NEW k \in Keys, NEW f \in Fields
      PROVE  could'[<<k, f>>] = IF k \notin DOMAIN x.index \/ f \notin x.fs THEN could[<<k, f>>]
                                ELSE IF certain THEN Effects(x, k, could[<<k, f>>])
                                ELSE could[<<k, f>>] \cup Effects(x, k, could[<<k, f>>])
  BY <1>4
<1> QED
  BY <1>1, <1>5, <1>6, <1>7

(* What write x stores of key k in cell e.                                 *)
MergedOf(x, k, e) ==
  IF x.op = "update" /\ e \in x.held THEN Merged(x, k, values[e], TRUE) ELSE Merged(x, k, << >>, FALSE)

IndexOnce(x) == \A k, l \in DOMAIN x.index : x.index[k] = x.index[l] => k = l

LEMMA OneKeyASample ==
  ASSUME CallsInv, NEW c \in Slots
  PROVE  IndexOnce(calls[c])
<1>1. \A k \in DOMAIN calls[c].index : <<k, calls[c].index[k]>> \in KeyNames
  BY SlotFacts DEF InItsPlace
<1>2. \A m, n \in KeyNames : m[1] = n[1] <=> m[2] = n[2]
  BY SlotFacts, StatusFacts
<1> QED
  BY <1>1, <1>2 DEF IndexOnce

StoredAll(x, u) ==
  \A k \in DOMAIN x.index, f \in x.fs :
    UnitOf(x.index[k]) = u => /\ <<x.index[k], f>> \in DOMAIN values'
                              /\ values'[<<x.index[k], f>>] = MergedOf(x, k, <<x.index[k], f>>)

LEMMA StoredIs ==
  ASSUME CallsInv, NEW c \in Slots, NEW x, x = calls[c], Writes(x), NEW u,
         x.op = "put" \/ CanMerge(x, u), values' = Over(values, Stored(x, u))
  PROVE  /\ values' = [e \in DOMAIN values' |-> values'[e]]
         /\ \A e \in DOMAIN values' : values'[e] \in Histories /\ values'[e] # << >>
         /\ StoredAll(x, u)
         /\ DOMAIN values \subseteq DOMAIN values'
<1>1. IsCall(x) /\ StoreTypes /\ IndexOnce(x)
  BY SlotFacts, OneKeyASample
<1>2. PICK D, T : D = RowsOf(x, u) \X x.fs /\ T = Stored(x, u)
  OBVIOUS
<1>3. T = [e \in D |-> LET k == CHOOSE y \in KeysOf(x) : x.index[y] = e[1]
                       IN  Merged(x, k, IF e \in DOMAIN values THEN values[e] ELSE << >>, e \in x.held)]
  BY <1>2 DEF Stored
<1>4. \A e : e \in D <=> \E k \in DOMAIN x.index, f \in x.fs : UnitOf(x.index[k]) = u /\ e = <<x.index[k], f>>
  BY <1>2 DEF RowsOf, KeysOf
<1>5. ASSUME NEW k \in DOMAIN x.index, NEW f \in x.fs, UnitOf(x.index[k]) = u
      PROVE  LET e == <<x.index[k], f>> IN
             e \in D /\ T[e] = MergedOf(x, k, e) /\ T[e] \in Histories /\ T[e] # << >>
  <2>1. PICK e : e = <<x.index[k], f>>
    OBVIOUS
  <2>2. e \in D /\ e[1] = x.index[k]
    BY <1>4, <1>5, <2>1
  <2>3. (CHOOSE y \in KeysOf(x) : x.index[y] = e[1]) = k
    BY <1>1, <2>2 DEF KeysOf, IndexOnce
  <2>4. T[e] = Merged(x, k, IF e \in DOMAIN values THEN values[e] ELSE << >>, e \in x.held)
    BY <1>3, <2>2, <2>3
  <2>5. k \in Keys /\ << >> \in Histories
    BY <1>1 DEF IsCall, Histories
  <2>6. CASE x.op = "put"
    <3>1. T[e] = Merged(x, k, << >>, FALSE) /\ MergedOf(x, k, e) = Merged(x, k, << >>, FALSE)
      <4>1. PICK old, isHeld : T[e] = Merged(x, k, old, isHeld)
        BY <2>4, Zenon
      <4>2. Merged(x, k, old, isHeld) = Merged(x, k, << >>, FALSE)
        BY <2>6, PutsAreAlike
      <4>3. MergedOf(x, k, e) = Merged(x, k, << >>, FALSE)
        BY <2>6 DEF MergedOf
      <4> QED
        BY <4>1, <4>2, <4>3
    <3>2. Merged(x, k, << >>, FALSE) \in Histories /\ Merged(x, k, << >>, FALSE) # << >>
      BY <1>1, <2>5, MergedIs
    <3> QED
      BY <2>1, <2>2, <3>1, <3>2
  <2>7. CASE x.op = "update" /\ e \notin x.held
    <3>1. (e \in x.held) = FALSE
      BY <2>7
    <3>2. T[e] = Merged(x, k, << >>, FALSE) /\ MergedOf(x, k, e) = Merged(x, k, << >>, FALSE)
      BY <2>4, <2>7, <3>1, NoneHeld DEF MergedOf
    <3>3. Merged(x, k, << >>, FALSE) \in Histories /\ Merged(x, k, << >>, FALSE) # << >>
      BY <1>1, <2>5, MergedIs
    <3> QED
      BY <2>1, <2>2, <3>2, <3>3
  <2>8. CASE x.op = "update" /\ e \in x.held
    <3>1. (e \in x.held) = TRUE /\ e \in DOMAIN values
      BY <1>5, <2>2, <2>8 DEF CanMerge
    <3>2. T[e] = Merged(x, k, values[e], TRUE) /\ MergedOf(x, k, e) = Merged(x, k, values[e], TRUE)
      BY <2>4, <2>8, <3>1 DEF MergedOf
    <3>3. values[e] \in Histories /\ values[e] # << >>
      BY <1>1, <3>1 DEF StoreTypes
    <3>4. Merged(x, k, values[e], TRUE) \in Histories /\ Merged(x, k, values[e], TRUE) # << >>
      BY <1>1, <2>5, <3>3, MergedIs
    <3> QED
      BY <2>1, <2>2, <3>2, <3>4
  <2> QED
    BY <2>6, <2>7, <2>8 DEF Writes
<1>6. values' = [e \in DOMAIN values \cup D |-> IF e \in D THEN T[e] ELSE values[e]]
  <2>1. DOMAIN T = D
    BY <1>3
  <2> QED
    BY <1>2, <2>1 DEF Over
<1>7. ASSUME NEW e \in DOMAIN values' PROVE values'[e] \in Histories /\ values'[e] # << >>
  <2>1. CASE e \in D
    <3>1. PICK k \in DOMAIN x.index, f \in x.fs : UnitOf(x.index[k]) = u /\ e = <<x.index[k], f>>
      BY <1>4, <2>1
    <3>2. T[e] \in Histories /\ T[e] # << >>
      BY <1>5, <3>1
    <3> QED
      BY <1>6, <2>1, <3>2
  <2>2. CASE e \notin D
    BY <1>1, <1>6, <2>2 DEF StoreTypes
  <2> QED
    BY <2>1, <2>2
<1>8. ASSUME NEW k \in DOMAIN x.index, NEW f \in x.fs, UnitOf(x.index[k]) = u
      PROVE  /\ <<x.index[k], f>> \in DOMAIN values'
             /\ values'[<<x.index[k], f>>] = MergedOf(x, k, <<x.index[k], f>>)
  BY <1>5, <1>6, <1>8
<1>9. DOMAIN values \subseteq DOMAIN values' /\ values' = [e \in DOMAIN values' |-> values'[e]]
  BY <1>6
<1>10. StoredAll(x, u)
  BY <1>8 DEF StoredAll
<1> QED
  BY <1>7, <1>9, <1>10

LEMMA StoredElsewhere ==
  ASSUME CallsInv, NEW c \in Slots, NEW x, x = calls[c], Writes(x), NEW u,
         x.op = "put" \/ CanMerge(x, u), values' = Over(values, Stored(x, u)),
         NEW i, NEW f, f \notin x.fs \/ \A k \in DOMAIN x.index : x.index[k] = i => UnitOf(i) # u
  PROVE  /\ <<i, f>> \in DOMAIN values' <=> <<i, f>> \in DOMAIN values
         /\ <<i, f>> \in DOMAIN values => values'[<<i, f>>] = values[<<i, f>>]
<1>1. PICK D, T : D = RowsOf(x, u) \X x.fs /\ T = Stored(x, u)
  OBVIOUS
<1>2. DOMAIN T = D
  BY <1>1 DEF Stored
<1>3. values' = [e \in DOMAIN values \cup D |-> IF e \in D THEN T[e] ELSE values[e]]
  BY <1>1, <1>2 DEF Over
<1>4. <<i, f>> \notin D
  BY <1>1 DEF RowsOf, KeysOf
<1> QED
  BY <1>3, <1>4

-----------------------------------------------------------------------------
(* A write begins.                                                         *)
Began(x, op, keys, fs, finalize) ==
  /\ IsCall(x) /\ x.op = op /\ x.phase = (IF fs = {} THEN "tag" ELSE "units") /\ x.finalize = finalize
  /\ DOMAIN x.index = keys /\ x.fs = fs /\ x.failed = FALSE
  /\ x.held = (IF op = "update" THEN Held(Status, {x.index[k] : k \in keys}, fs) ELSE {})
  /\ x.open = (IF fs = {} THEN {} ELSE Targets(x))
  /\ \A u \in x.open : x.attempt[u] = 1
  /\ \A k \in keys : <<k, x.index[k]>> \in KeyNames
  /\ x.may = << >>

LEMMA FreeHasNoRequests ==
  ASSUME CallsInv, NEW c \in Slots, calls[c] = Free
  PROVE  \A r \in inbox : r[1] # c
BY SlotFacts, FreeIsACall DEF RequestsAreOf

LEMMA AskingIs ==
  ASSUME CallsInv, NEW x, IsCall(x), NEW y, y = Asking(x)
  PROVE  /\ SameCall(y, x) /\ y.phase = x.phase /\ y.failed = x.failed
         /\ y.open = Targets(x) /\ \A u \in Units : y.attempt[u] = 1
         /\ IsCall(y)
<1>1. PICK open, attempt : open = Targets(x) /\ attempt = [u \in Units |-> 1]
  OBVIOUS
<1>2. y = [x EXCEPT !.open = open, !.attempt = attempt]
  BY <1>1 DEF Asking
<1>3. y = [op |-> x.op, phase |-> x.phase, finalize |-> x.finalize, index |-> x.index, fs |-> x.fs,
           held |-> x.held, number |-> x.number, open |-> open, attempt |-> attempt,
           failed |-> x.failed, got |-> x.got, may |-> x.may]
  BY <1>2 DEF IsCall
<1>4. open \subseteq Units
  <2>1. \A k \in DOMAIN x.index : UnitOf(x.index[k]) \in Units
    <3> SUFFICES ASSUME NEW k \in DOMAIN x.index PROVE UnitOf(x.index[k]) \in Units
      OBVIOUS
    <3>1. x.index[k] \in Nat
      BY DEF IsCall
    <3> QED
      BY <3>1, UnitIsThere
  <2> QED
    BY <1>1, <2>1 DEF Targets, KeysOf
<1>5. attempt \in [Units -> Nat] /\ \A u \in Units : attempt[u] = 1
  BY <1>1
<1>6. IsCall(y)
  BY <1>3, <1>4, <1>5 DEF IsCall
<1> QED
  BY <1>1, <1>3, <1>5, <1>6 DEF SameCall

Begun(c, x, op, keys, fs, finalize) ==
  /\ Began(x, op, keys, fs, finalize)'
  /\ calls' = [d \in Slots |-> calls'[d]] /\ calls'[c] = x
  /\ inbox' = inbox \cup {r \in {c} \X x.open \X {1} : TRUE}
  /\ \A d \in Slots \ {c} :
       IF fs = {} THEN calls'[d] = calls[d]
       ELSE LET may == [e \in DOMAIN calls[d].may |->
                          IF e[1] \in keys /\ e[2] \in fs
                          THEN calls[d].may[e] \cup Effects(x, e[1], could[e]) ELSE calls[d].may[e]]
            IN  calls'[d] = [calls[d] EXCEPT !.may = may]

LEMMA BeginWriteIs ==
  ASSUME CallsInv, UNCHANGED deployment, NEW c \in Slots, NEW op \in {"put", "update"},
         NEW keys \in SUBSET Keys, keys # {}, NEW fs \in SUBSET Fields, NEW finalize \in BOOLEAN,
         BeginWrite(c, op, keys, fs, finalize)
  PROVE  \E x : Begun(c, x, op, keys, fs, finalize)
<1>1. Registered(keys) /\ World
  BY SlotFacts DEF BeginWrite
<1>2. /\ World' /\ \A k \in keys : \E n \in KeyNames' : n[1] = k
  BY <1>1, RegisteredView
<1> DEFINE there  == partitions'[Partition]
           named  == [k \in keys |-> IndexOf(there, k)]
           filled == IF op = "update" THEN Held(there, {named[k] : k \in keys}, fs) ELSE {}
           begun  == [Free EXCEPT !.op = op, !.phase = IF fs = {} THEN "tag" ELSE "units",
                        !.finalize = finalize, !.index = named, !.fs = fs, !.number = writes + 1,
                        !.held = filled]
<1>3. /\ IF fs = {} THEN calls' = [calls EXCEPT ![c] = begun] /\ UNCHANGED inbox
          ELSE /\ calls' = [Expecting(begun, keys) EXCEPT ![c] = Asking(begun)]
               /\ inbox' = inbox \cup Requests(c, begun)
       /\ calls[c] = Free /\ UNCHANGED could
  BY Zenon DEF BeginWrite
<1> PICK st : st = there
  OBVIOUS
<1>4. st = Status'
  <2>1. PICK k \in keys : TRUE
    OBVIOUS
  <2>2. Status'.keys_mapping # {}
    BY <1>2, <2>1 DEF KeyNames
  <2>3. CASE Exists(Partition)'
    BY <2>3 DEF Status
  <2>4. CASE ~Exists(Partition)'
    <3>1. Status' = NewPartition({})
      BY <2>4 DEF Status
    <3> QED
      BY <2>2, <3>1, NewIsEmpty
  <2> QED
    BY <2>3, <2>4
<1>5. PICK index : index = named
  OBVIOUS
<1>6. index = [k \in keys |-> IndexOf(st, k)]
  BY <1>5
<1>7. ASSUME NEW k \in keys
      PROVE  <<k, index[k]>> \in KeyNames' /\ index[k] \in Nat
  <2>1. PICK n \in KeyNames' : n[1] = k
    BY <1>2
  <2>2. KeyNames' = st.keys_mapping
    BY <1>4 DEF KeyNames
  <2>3. /\ KeyNames' \subseteq Keys \X Nat /\ \A m, o \in KeyNames' : m[1] = o[1] => m[2] = o[2]
    <3>1. Status'.keys_mapping = KeyNames'
      BY DEF KeyNames
    <3> QED
      BY <1>2, StatusFactsAfter DEF KeysAreSound
  <2>4. PICK e : e = CHOOSE o \in st.keys_mapping : o[1] = k
    OBVIOUS
  <2>5. e \in KeyNames' /\ e[1] = k
    BY <2>1, <2>2, <2>4
  <2>6. index[k] = e[2]
    BY <1>6, <2>4 DEF IndexOf
  <2> QED
    BY <2>3, <2>5, <2>6
<1>8. PICK held : held = filled
  OBVIOUS
<1>9. held = IF op = "update" THEN Held(st, {index[k] : k \in keys}, fs) ELSE {}
  BY <1>5, <1>8
<1>10. PICK phase : phase = IF fs = {} THEN "tag" ELSE "units"
  OBVIOUS
<1>11. PICK call : call = begun
  OBVIOUS
<1>12. call = [Free EXCEPT !.op = op, !.phase = phase, !.finalize = finalize, !.index = index,
                           !.fs = fs, !.number = writes + 1, !.held = held]
  BY <1>5, <1>8, <1>10, <1>11
<1> HIDE DEF there, named, filled, begun
<1>13. PICK none, at : none = << >> /\ at = [u \in Units |-> 0]
  OBVIOUS
<1>14. call = [op |-> op, phase |-> phase, finalize |-> finalize, index |-> index, fs |-> fs,
               held |-> held, number |-> writes + 1, open |-> {}, attempt |-> at, failed |-> FALSE,
               got |-> none, may |-> none]
  BY <1>12, <1>13 DEF Free
<1>15. IsCall(call)
  <2>1. DOMAIN index = keys /\ index \in [keys -> Nat] /\ at \in [Units -> Nat]
    BY <1>6, <1>7, <1>13
  <2>2. writes + 1 \in Nat
    BY SlotFacts DEF StoreTypes
  <2> QED
    BY <1>14, <2>1, <2>2 DEF IsCall
<1>16. PICK x : x = IF fs = {} THEN call ELSE Asking(call)
  OBVIOUS
<1>17. /\ IsCall(x) /\ SameCall(x, call) /\ x.phase = phase /\ x.failed = FALSE
       /\ x.open = (IF fs = {} THEN {} ELSE Targets(call))
       /\ \A u \in x.open : x.attempt[u] = 1
  <2>1. CASE fs = {}
    BY <1>14, <1>15, <1>16, <2>1 DEF SameCall
  <2>2. CASE fs # {}
    <3>1. x = Asking(call)
      BY <1>16, <2>2
    <3>2. /\ SameCall(x, call) /\ x.phase = call.phase /\ x.failed = call.failed
          /\ x.open = Targets(call) /\ \A u \in Units : x.attempt[u] = 1
          /\ IsCall(x)
      BY <1>15, <3>1, AskingIs
    <3>3. x.open \subseteq Units
      BY <3>2 DEF IsCall
    <3>4. call.phase = phase /\ call.failed = FALSE
      BY <1>14
    <3> QED
      BY <2>2, <3>2, <3>3, <3>4
  <2> QED
    BY <2>1, <2>2
<1>18. /\ x.op = op /\ x.finalize = finalize /\ x.index = index /\ x.fs = fs /\ x.held = held /\ x.may = none
       /\ x.number = call.number
  BY <1>14, <1>17 DEF SameCall
<1>19. Targets(x) = Targets(call)
  BY <1>14, <1>18 DEF Targets, KeysOf
<1>20. Began(x, op, keys, fs, finalize)'
  <2>1. IsCall(x)'
    BY <1>17 DEF IsCall, Units, NumUnits
  <2>2. Targets(x)' = Targets(x)
    BY DEF Targets, UnitOf, NumUnits
  <2>3. DOMAIN x.index = keys
    BY <1>6, <1>18
  <2>4. x.held = IF op = "update" THEN Held(Status', {x.index[k] : k \in keys}, fs) ELSE {}
    BY <1>4, <1>9, <1>18
  <2>5. \A k \in keys : <<k, x.index[k]>> \in KeyNames'
    BY <1>7, <1>18
  <2>6. x.open = (IF fs = {} THEN {} ELSE Targets(x)')
    BY <1>17, <1>19, <2>2
  <2>7. Held(Status, {x.index[k] : k \in keys}, fs)' = Held(Status', {x.index[k] : k \in keys}, fs)
    BY DEF Held, Described
  <2> QED
    BY <1>10, <1>13, <1>17, <1>18, <2>1, <2>3, <2>4, <2>5, <2>6, <2>7 DEF Began
<1>21. calls = [d \in Slots |-> calls[d]]
  BY DEF CallsInv, KeyValueTypes
<1>22. calls' = [d \in Slots |-> calls'[d]] /\ calls'[c] = x
  BY <1>11, <1>3, <1>16, <1>21 DEF Expecting
<1>23. inbox' = inbox \cup {r \in {c} \X x.open \X {1} : TRUE}
  <2>1. CASE fs = {}
    BY <1>11, <1>3, <1>17, <2>1
  <2>2. CASE fs # {}
    <3>1. Requests(c, call) = {<<c, u, 1>> : u \in x.open}
      BY <1>17, <2>2 DEF Requests
    <3>2. {<<c, u, 1>> : u \in x.open} = {r \in {c} \X x.open \X {1} : TRUE}
      OBVIOUS
    <3> QED
      BY <1>11, <1>3, <2>2, <3>1, <3>2
  <2> QED
    BY <2>1, <2>2
<1>24. ASSUME NEW d \in Slots \ {c}
       PROVE  IF fs = {} THEN calls'[d] = calls[d]
              ELSE LET may == [e \in DOMAIN calls[d].may |->
                                 IF e[1] \in keys /\ e[2] \in fs
                                 THEN calls[d].may[e] \cup Effects(x, e[1], could[e]) ELSE calls[d].may[e]]
                   IN  calls'[d] = [calls[d] EXCEPT !.may = may]
  <2>1. CASE fs = {}
    BY <1>11, <1>3, <1>21, <2>1
  <2>2. CASE fs # {}
    <3>1. \A k, olds : Effects(x, k, olds) = Effects(call, k, olds)
      BY <1>14, <1>18 DEF Effects, Merged
    <3>2. call.fs = fs
      BY <1>14
    <3> DEFINE may == [e \in DOMAIN calls[d].may |->
                         IF e[1] \in keys /\ e[2] \in fs
                         THEN calls[d].may[e] \cup Effects(x, e[1], could[e]) ELSE calls[d].may[e]]
               now == [e \in DOMAIN calls[d].may |->
                         IF e[1] \in keys /\ e[2] \in fs
                         THEN calls[d].may[e] \cup Effects(call, e[1], could[e]) ELSE calls[d].may[e]]
    <3>3. calls' = [Expecting(call, keys) EXCEPT ![c] = Asking(call)]
      BY <1>3, <1>11, <2>2
    <3>4. calls'[d] = Expecting(call, keys)[d]
      BY <3>3 DEF Expecting
    <3>5. Expecting(call, keys)[d] =
            [calls[d] EXCEPT !.may = [e \in DOMAIN calls[d].may |->
               IF e[1] \in keys /\ e[2] \in call.fs
               THEN calls[d].may[e] \cup Effects(call, e[1], could[e]) ELSE calls[d].may[e]]]
      BY DEF Expecting
    <3>6. calls'[d] = [calls[d] EXCEPT !.may = now]
      BY <3>2, <3>4, <3>5
    <3>7. may = now
      BY <3>1
    <3> QED
      BY <2>2, <3>6, <3>7
  <2> QED
    BY <2>1, <2>2
<1> QED
  BY <1>20, <1>22, <1>23, <1>24 DEF Begun

-----------------------------------------------------------------------------
(* What a step leaves as it was: a cell, and the writes that are about it. *)
WritesCell(x, k, f) == Writes(x) /\ k \in DOMAIN x.index /\ f \in x.fs

SameWrite(x, y, k) ==
  /\ y.op = x.op /\ y.index = x.index /\ y.fs = x.fs /\ y.held = x.held /\ y.finalize = x.finalize
  /\ y.number = x.number
  /\ y.phase = "units" <=> x.phase = "units"
  /\ (y.phase = "units" /\ UnitOf(x.index[k]) \notin y.open /\ y.failed = FALSE) =>
       (UnitOf(x.index[k]) \notin x.open /\ x.failed = FALSE)

SameWriter(d, x, y, k, f) ==
  \/ ~WritesCell(x, k, f) /\ ~WritesCell(y, k, f)
  \/ x.phase # "units" /\ y = Free
  \/ SameWrite(x, y, k) /\ \A u, n : <<d, u, n>> \in inbox' /\ x.op = "update" => <<d, u, n>> \in inbox

SameNames(k) == \A i : <<k, i>> \in KeyNames' <=> <<k, i>> \in KeyNames

SameCell(k, f) ==
  /\ \A i : <<k, i>> \in KeyNames =>
       /\ Filled(i, f)' <=> Filled(i, f)
       /\ IsFinal(i, f)' => IsFinal(i, f)
       /\ <<i, f>> \in DOMAIN values => <<i, f>> \in DOMAIN values' /\ values'[<<i, f>>] = values[<<i, f>>]
  /\ could'[<<k, f>>] = could[<<k, f>>]

LEMMA SameWriteMerges ==
  ASSUME NEW x, NEW y, y.op = x.op, y.finalize = x.finalize, y.number = x.number, NEW k
  PROVE  /\ \A old, held : Merged(y, k, old, held) = Merged(x, k, old, held)
         /\ \A olds : Effects(y, k, olds) = Effects(x, k, olds)
BY DEF Merged, Effects

LEMMA CellFrame ==
  ASSUME CallsInv, UNCHANGED deployment, NEW k \in Keys, NEW f \in Fields, CellInv(k, f),
         SameNames(k), SameCell(k, f), \A d \in Slots : SameWriter(d, calls[d], calls'[d], k, f)
  PROVE  CellInv(k, f)'
<1>1. IsStored(k, f)'
  BY DEF CellInv, IsStored, SameNames, SameCell
<1>2. PICK now : now = could[<<k, f>>]
  OBVIOUS
<1>3. could'[<<k, f>>] = now
  BY <1>2 DEF SameCell
<1>4. ASSUME NEW i, <<k, i>> \in KeyNames, NEW X
      PROVE  CellIn(i, f, X) => CellIn(i, f, X)'
  BY <1>4 DEF CellIn, SameCell, CellInv, IsStored
<1>5. ASSUME \A d \in Slots : ~IsWriting(calls'[d], k, f)
      PROVE  KeyIn(k, f, now)'
  <2>1. ASSUME NEW d \in Slots PROVE ~IsWriting(calls[d], k, f)
    <3>1. PICK x, y : x = calls[d] /\ y = calls'[d]
      OBVIOUS
    <3>2. SameWriter(d, x, y, k, f) /\ ~IsWriting(y, k, f)
      BY <1>5, <3>1
    <3>3. ~IsWriting(x, k, f)
      BY <3>2 DEF SameWriter, IsWriting, SameWrite, WritesCell, Writes
    <3> QED
      BY <3>1, <3>3
  <2>2. KeyIn(k, f, now)
    BY <1>2, <2>1 DEF CellInv
  <2>3. \A i : <<k, i>> \in KeyNames => CellIn(i, f, now)'
    BY <1>4, <2>2 DEF KeyIn
  <2> QED
    BY <2>2, <2>3 DEF KeyIn, SameNames
<1>6. ASSUME NEW d \in Slots
      PROVE  WritesFit(d, calls[d], k, f)'
  <2>1. PICK x, y : x = calls[d] /\ y = calls'[d]
    OBVIOUS
  <2>2. SameWriter(d, x, y, k, f) /\ WritesFit(d, x, k, f) /\ InItsPlace(x)
    BY <2>1, SlotFacts DEF CellInv
  <2>3. CASE ~WritesCell(y, k, f)
    BY <2>1, <2>3 DEF WritesFit, WritesCell, Writes
  <2>4. CASE WritesCell(y, k, f)
    <3>1. y # Free
      BY <2>4, FreeIsACall DEF WritesCell, Writes
    <3>2. SameWrite(x, y, k) /\ \A u, n : <<d, u, n>> \in inbox' /\ x.op = "update" => <<d, u, n>> \in inbox
      BY <2>2, <2>4, <3>1 DEF SameWriter
    <3>3. WriteFits(d, x, k, f)
      BY <2>2, <2>4, <3>2 DEF WritesFit, SameWrite, WritesCell, Writes
    <3>4. PICK i, u : i = x.index[k] /\ u = UnitOf(i)
      OBVIOUS
    <3>5. y.index[k] = i /\ UnitOf(i)' = u /\ <<k, i>> \in KeyNames
      BY <2>2, <2>4, <3>2, <3>4 DEF SameWrite, UnitOf, NumUnits, InItsPlace, WritesCell
    <3>6. /\ \A old, held : Merged(y, k, old, held) = Merged(x, k, old, held)
          /\ \A olds : Effects(y, k, olds) = Effects(x, k, olds)
      BY <3>2, SameWriteMerges DEF SameWrite
    <3>7. /\ \A X : CellIn(i, f, X) => CellIn(i, f, X)'
          /\ Filled(i, f)' <=> Filled(i, f)
          /\ <<i, f>> \in DOMAIN values => <<i, f>> \in DOMAIN values' /\ values'[<<i, f>>] = values[<<i, f>>]
          /\ Filled(i, f) => <<i, f>> \in DOMAIN values
      BY <1>4, <3>5 DEF SameCell, CellInv, IsStored
    <3>8. PICK left, left1 \in BOOLEAN :
            (left <=> \E n : <<d, u, n>> \in inbox) /\ (left1 <=> \E n : <<d, u, n>> \in inbox')
      OBVIOUS
    <3>9. x.op = "update" /\ left1 => left
      BY <3>2, <3>8
    <3>10. y.phase = "units" =>
             /\ CellIn(i, f, now \cup Effects(y, k, now))'
             /\ y.op = "update" => (<<i, f>> \in y.held <=> Filled(i, f)')
             /\ y.op = "update" /\ left1 => CellIn(i, f, now)'
             /\ u \notin y.open /\ y.failed = FALSE =>
                  /\ <<i, f>> \in DOMAIN values' /\ values'[<<i, f>>] \in Effects(y, k, now)
                  /\ y.op = "update" => ~left1
      BY <1>2, <3>2, <3>3, <3>4, <3>6, <3>7, <3>8, <3>9 DEF WriteFits, SameWrite
    <3>11. y.phase # "units" =>
             /\ y.op = "update" /\ left1 =>
                  /\ <<i, f>> \in y.held <=> Filled(i, f)'
                  /\ Filled(i, f)' => Merged(y, k, values'[<<i, f>>], TRUE) \in now
                  /\ ~Filled(i, f)' => Merged(y, k, << >>, FALSE) \in now
             /\ y.op = "put" => Merged(y, k, << >>, FALSE) \in now
      BY <1>2, <3>2, <3>3, <3>4, <3>6, <3>7, <3>8, <3>9 DEF WriteFits, SameWrite
    <3>12. WriteFits(d, y, k, f)'
      BY <1>3, <3>5, <3>8, <3>10, <3>11 DEF WriteFits
    <3> QED
      BY <2>1, <3>12 DEF WritesFit
  <2> QED
    BY <2>3, <2>4
<1>7. (\A d \in Slots : ~IsWriting(calls[d], k, f))' => KeyIn(k, f, could[<<k, f>>])'
  BY <1>3, <1>5 DEF KeyIn, CellIn
<1>8. \A d \in Slots : WritesFit(d, calls[d], k, f)'
  BY <1>6
<1> QED
  BY <1>1, <1>7, <1>8 DEF CellInv

-----------------------------------------------------------------------------
(* What a get may read stays so, and what it has read is kept.             *)
SameWriters(k, f) == \A d \in Slots : SameWriter(d, calls[d], calls'[d], k, f)

SameGet(x, y) ==
  y.op = "get" => x.op = "get" /\ y.index = x.index /\ y.fs = x.fs /\ y.may = x.may /\ y.got = x.got

LEMMA MayReadFrame ==
  ASSUME CallsInv, NEW k \in Keys, NEW f \in Fields, CellInv(k, f), SameCell(k, f), SameWriters(k, f),
         NEW x, <<k, x.index[k]>> \in KeyNames, MayRead(x, k, f)
  PROVE  MayRead(x, k, f)'
<1>1. PICK i : i = x.index[k]
  OBVIOUS
<1>2. /\ Filled(i, f)' <=> Filled(i, f)
      /\ Filled(i, f) => values'[<<i, f>>] = values[<<i, f>>]
  BY <1>1 DEF SameCell, CellInv, IsStored
<1>3. Filled(i, f)' /\ Last(values'[<<i, f>>]).draft = FALSE
  BY <1>1, <1>2 DEF MayRead
<1>4. could'[<<k, f>>] = could[<<k, f>>]
  BY DEF SameCell
<1>5. ASSUME NEW d \in Slots, IsWriting(calls'[d], k, f)
      PROVE  Effects(calls'[d], k, could[<<k, f>>]) \subseteq x.may[<<k, f>>]
  <2>1. PICK y, z : y = calls[d] /\ z = calls'[d]
    OBVIOUS
  <2>2. SameWriter(d, y, z, k, f) /\ IsWriting(z, k, f)
    BY <1>5, <2>1 DEF SameWriters
  <2>3. SameWrite(y, z, k) /\ IsWriting(y, k, f)
    <3>1. z # Free
      BY <2>2, FreeIsACall DEF IsWriting, Writes
    <3> QED
      BY <2>2, <3>1 DEF SameWriter, SameWrite, IsWriting, WritesCell, Writes
  <2>4. Effects(z, k, could[<<k, f>>]) = Effects(y, k, could[<<k, f>>])
    BY <2>3, SameWriteMerges DEF SameWrite
  <2>5. Effects(y, k, could[<<k, f>>]) \subseteq x.may[<<k, f>>]
    BY <2>1, <2>3 DEF MayRead
  <2> QED
    BY <2>1, <2>4, <2>5
<1>6. ASSUME NEW d \in Slots
      PROVE  (IsWriting(calls[d], k, f) => Effects(calls[d], k, could[<<k, f>>]) \subseteq x.may[<<k, f>>])'
  <2>1. PICK z : z = calls'[d]
    OBVIOUS
  <2>2. IsWriting(z, k, f) => Effects(z, k, could'[<<k, f>>]) \subseteq x.may[<<k, f>>]
    BY <1>4, <1>5, <2>1
  <2> QED
    BY <2>1, <2>2 DEF IsWriting, Effects, Merged, Writes
<1> QED
  BY <1>1, <1>3, <1>4, <1>6 DEF MayRead

LEMMA GetStays ==
  ASSUME NEW x, NEW y, SameGet(x, y), GetFits(x), x.op = "get" => \A k \in DOMAIN x.index, f \in x.fs : MayRead(x, k, f)'
  PROVE  GetFits(y)'
<1> SUFFICES ASSUME y.op = "get" PROVE GetFits(y)'
  BY DEF GetFits
<1>1. x.op = "get" /\ y.index = x.index /\ y.fs = x.fs /\ y.may = x.may /\ y.got = x.got
  BY DEF SameGet
<1>2. \A k \in DOMAIN y.index, f \in y.fs : MayRead(y, k, f)'
  BY <1>1 DEF MayRead
<1> QED
  BY <1>1, <1>2 DEF GetFits

LEMMA GetFrame ==
  ASSUME CallsInv, CellsInv, NEW d \in Slots, NEW x, x = calls[d], NEW y, y = calls'[d], SameGet(x, y), GetFits(x),
         x.op = "get" => \A k \in DOMAIN x.index, f \in x.fs : SameCell(k, f) /\ SameWriters(k, f)
  PROVE  GetFits(calls[d])'
<1>1. ASSUME x.op = "get", NEW k \in DOMAIN x.index, NEW f \in x.fs
      PROVE  MayRead(x, k, f)'
  <2>1. IsCall(x) /\ InItsPlace(x)
    BY SlotFacts
  <2>2. k \in Keys /\ f \in Fields /\ <<k, x.index[k]>> \in KeyNames
    BY <2>1 DEF IsCall, InItsPlace
  <2>3. CellInv(k, f) /\ MayRead(x, k, f)
    BY <1>1, <2>2 DEF CellsInv, GetFits
  <2> QED
    BY <1>1, <2>2, <2>3, MayReadFrame
<1>2. GetFits(y)'
  BY <1>1, GetStays
<1>3. GetFits(y)' <=> GetFits(calls[d])'
  BY DEF GetFits, MayRead
<1> QED
  BY <1>2, <1>3

(* A call that continues leaves the cells as they were.                    *)
LEMMA WriterGoesOn ==
  ASSUME CallsInv, NEW c \in Slots, NEW x, x = calls[c], NEW y, NEW k, NEW f,
         calls' = [calls EXCEPT ![c] = Settle(c, y, inbox')],
         y.op = x.op, y.index = x.index, y.fs = x.fs, y.phase = "units" <=> x.phase = "units",
         WritesCell(x, k, f) => SameWrite(x, y, k),
         \A r \in inbox' : r[1] # c \/ x.op = "update" => r \in inbox
  PROVE  SameWriters(k, f)
<1>1. calls = [d \in Slots |-> calls[d]]
  BY DEF CallsInv, KeyValueTypes
<1>2. ASSUME NEW d \in Slots, d # c
      PROVE  SameWriter(d, calls[d], calls'[d], k, f)
  <2>1. calls'[d] = calls[d]
    BY <1>1, <1>2
  <2>2. \A u, n : <<d, u, n>> \in inbox' => <<d, u, n>> \in inbox
    <3>1. \A u, n : <<d, u, n>>[1] = d
      OBVIOUS
    <3> QED
      BY <1>2, <3>1
  <2> QED
    BY <2>1, <2>2 DEF SameWriter, SameWrite
<1>3. SameWriter(c, calls[c], calls'[c], k, f)
  <2>1. calls'[c] = Settle(c, y, inbox')
    BY <1>1
  <2>2. CASE Settle(c, y, inbox') = y
    <3>1. CASE WritesCell(x, k, f)
      BY <2>1, <2>2, <3>1 DEF SameWriter
    <3>2. CASE ~WritesCell(x, k, f)
      <4>1. ~WritesCell(y, k, f)
        BY <3>2 DEF WritesCell, Writes
      <4> QED
        BY <2>1, <2>2, <3>2, <4>1 DEF SameWriter
    <3> QED
      BY <3>1, <3>2
  <2>3. CASE Settle(c, y, inbox') = Free /\ y.phase = "ended"
    BY <2>1, <2>3 DEF SameWriter
  <2> QED
    BY <2>2, <2>3, Settles
<1> QED
  BY <1>2, <1>3 DEF SameWriters

LEMMA GetGoesOn ==
  ASSUME CallsInv, NEW c \in Slots, NEW x, x = calls[c], NEW y, GoesOn(c, x, y), NEW d \in Slots
  PROVE  SameGet(calls[d], calls'[d])
<1>1. calls = [e \in Slots |-> calls[e]]
  BY DEF CallsInv, KeyValueTypes
<1>2. CASE d # c
  BY <1>1, <1>2 DEF GoesOn, SameGet
<1>3. CASE d = c
  <2>1. calls'[c] = y \/ calls'[c] = Free
    BY <1>1, Settles DEF GoesOn
  <2> QED
    BY <1>3, <2>1, FreeIsACall DEF GoesOn, SameCall, SameGet
<1> QED
  BY <1>2, <1>3

(* A step that changes no cell.                                            *)
NoCellChanges == SameView /\ UNCHANGED <<deployment, values, could>>

LEMMA CellsKept ==
  ASSUME NoCellChanges, NEW k, NEW f
  PROVE  SameNames(k) /\ SameCell(k, f)
BY DEF NoCellChanges, SameView, SameNames, SameCell, KeyNames, Filled, IsFinal

LEMMA QuietStep ==
  ASSUME KeyValueInv, NoCellChanges, \A k, f : SameWriters(k, f)
  PROVE  /\ CellsInv'
         /\ (\A d \in Slots : SameGet(calls[d], calls'[d])) => GetsInv'
<1>1. ASSUME NEW k \in Keys, NEW f \in Fields PROVE CellInv(k, f)'
  <2>1. CallsInv /\ CellInv(k, f) /\ UNCHANGED deployment
    BY DEF KeyValueInv, CellsInv, NoCellChanges
  <2>2. \A d \in Slots : SameWriter(d, calls[d], calls'[d], k, f)
    BY DEF SameWriters
  <2> QED
    BY <2>1, <2>2, CellsKept, CellFrame
<1>2. ASSUME NEW d \in Slots, SameGet(calls[d], calls'[d]) PROVE GetFits(calls[d])'
  <2>1. PICK x, y : x = calls[d] /\ y = calls'[d]
    OBVIOUS
  <2>2. CallsInv /\ CellsInv /\ GetFits(x) /\ SameGet(x, y)
    BY <1>2, <2>1 DEF KeyValueInv, GetsInv
  <2>3. \A k, f : SameCell(k, f)
    BY CellsKept
  <2> QED
    BY <2>1, <2>2, <2>3, GetFrame
<1> QED
  BY <1>1, <1>2 DEF CellsInv, GetsInv

-----------------------------------------------------------------------------
(* The steps that change no cell.                                          *)
LEMMA SameStore ==
  ASSUME CallsInv, UNCHANGED <<controllerVars, values, writes, could, deployment>>
  PROVE  World' /\ KeyNames' = KeyNames /\ StoreTypes' /\ NoCellChanges
<1>1. World' /\ SameView
  BY UnchangedView DEF CallsInv, World
<1> QED
  BY <1>1 DEF CallsInv, KeyValueTypes, SameView, StoreTypes, NoCellChanges

LEMMA LoseKeeps ==
  ASSUME KeyValueInv, NEW r \in inbox, Lose(r), UNCHANGED deployment
  PROVE  KeyValueInv'
<1>1. CallsInv
  BY DEF KeyValueInv
<1>2. PICK c \in Slots : c = r[1]
  BY <1>1 DEF CallsInv
<1>3. PICK x : x = calls[c]
  OBVIOUS
<1>4. IsCall(x) /\ InItsPlace(x) /\ x.op # "none"
  BY <1>1, <1>2, <1>3, SlotFacts DEF RequestsAreOf
<1>5. calls' = [calls EXCEPT ![c] = Settle(c, x, inbox')] /\ inbox' \subseteq inbox
  BY <1>2, <1>3 DEF Lose
<1>6. World' /\ KeyNames' = KeyNames /\ StoreTypes' /\ NoCellChanges
  BY <1>1, SameStore DEF Lose
<1>7. CallsInv'
  BY <1>1, <1>3, <1>4, <1>5, <1>6, CallContinues DEF InItsPlace
<1>8. ASSUME NEW k, NEW f PROVE SameWriters(k, f)
  BY <1>1, <1>3, <1>5, WriterGoesOn DEF SameWrite
<1>9. \A d \in Slots : SameGet(calls[d], calls'[d])
  BY <1>1, <1>3, <1>4, <1>5, GetGoesOn DEF GoesOn, SameCall
<1> QED
  BY <1>6, <1>7, <1>8, <1>9, QuietStep DEF KeyValueInv

LEMMA TimeoutKeeps ==
  ASSUME KeyValueInv, NEW c \in Slots, NEW u \in Units, Timeout(c, u), UNCHANGED deployment
  PROVE  KeyValueInv'
<1>1. CallsInv
  BY DEF KeyValueInv
<1>2. PICK x : x = calls[c]
  OBVIOUS
<1>3. IsCall(x) /\ InItsPlace(x) /\ u \in x.open
  BY <1>1, <1>2, SlotFacts DEF Timeout
<1>4. x.op # "none"
  BY <1>1, <1>3, FreeIsACall DEF InItsPlace
<1>5. World' /\ KeyNames' = KeyNames /\ StoreTypes' /\ NoCellChanges
  BY <1>1, SameStore DEF Timeout
<1>6. CASE x.attempt[u] < Attempts(x.op)
  <2>1. PICK attempt : attempt = [x.attempt EXCEPT ![u] = @ + 1]
    OBVIOUS
  <2>2. PICK y : y = [x EXCEPT !.attempt = attempt]
    OBVIOUS
  <2>3. calls' = [calls EXCEPT ![c] = y] /\ inbox' = inbox \cup {<<c, u, x.attempt[u] + 1>>}
    BY <1>2, <1>6, <2>1, <2>2 DEF Timeout
  <2>4. y = [op |-> x.op, phase |-> x.phase, finalize |-> x.finalize, index |-> x.index, fs |-> x.fs,
             held |-> x.held, number |-> x.number, open |-> x.open, attempt |-> attempt,
             failed |-> x.failed, got |-> x.got, may |-> x.may]
    BY <1>3, <2>2 DEF IsCall
  <2>5. attempt \in [Units -> Nat] /\ x.attempt[u] \in Nat
    BY <1>3, <2>1 DEF IsCall
  <2>6. IsCall(y) /\ SameCall(y, x)
    BY <1>3, <2>4, <2>5 DEF IsCall, SameCall
  <2>7. Settle(c, y, inbox') = y
    BY <1>3, <2>4 DEF Settle
  <2>8. x.op # "update"
    <3>1. x.op = "update" => x.attempt[u] = 1 /\ Attempts(x.op) = 1
      BY <1>3 DEF InItsPlace, Attempts
    <3> QED
      BY <1>6, <3>1
  <2>9. GoesOn(c, x, y)
    BY <2>3, <2>6, <2>7 DEF GoesOn
  <2>10. \A r \in inbox' : r \in inbox \/ r \in {c} \X Units \X Nat
    BY <2>3, <2>5
  <2>11. CallsInv'
    BY <1>1, <1>2, <1>3, <1>4, <1>5, <2>4, <2>6, <2>8, <2>9, <2>10, CallContinues DEF InItsPlace, SameCall, GoesOn
  <2>12. ASSUME NEW k, NEW f PROVE SameWriters(k, f)
    <3>1. SameWrite(x, y, k)
      BY <2>4 DEF SameWrite
    <3>2. \A r \in inbox' : r[1] # c => r \in inbox
      BY <2>3
    <3> QED
      BY <1>1, <1>2, <2>4, <2>8, <2>9, <3>1, <3>2, WriterGoesOn DEF GoesOn
  <2>13. \A d \in Slots : SameGet(calls[d], calls'[d])
    BY <1>1, <1>2, <2>9, GetGoesOn
  <2> QED
    BY <1>5, <2>11, <2>12, <2>13, QuietStep DEF KeyValueInv
<1>7. CASE ~(x.attempt[u] < Attempts(x.op))
  <2>1. PICK w : /\ w = [x EXCEPT !.open = @ \ {u}] /\ IsCall(w) /\ SameCall(w, x) /\ w.phase = x.phase
                 /\ w.open = x.open \ {u} /\ w.attempt = x.attempt /\ w.failed = x.failed
    BY <1>1, <1>3, ClosingIs, Zenon
  <2>2. PICK y : y = Failing(w)
    OBVIOUS
  <2>3. /\ IsCall(y) /\ SameCall(y, w) /\ y.phase = w.phase /\ y.open = w.open /\ y.attempt = w.attempt
        /\ y.failed = (w.phase = "units")
    BY <1>1, <2>1, <2>2, FailingIs, Zenon
  <2>4. /\ IsCall(y) /\ SameCall(y, x) /\ y.phase = x.phase /\ y.open = x.open \ {u} /\ y.attempt = x.attempt
        /\ y.failed = (x.phase = "units")
    <3>1. SameCall(y, x)
      BY <2>1, <2>3 DEF SameCall
    <3> QED
      BY <2>1, <2>3, <3>1, Zenon
  <2>5. calls' = [calls EXCEPT ![c] = Settle(c, y, inbox')] /\ inbox' = inbox
    <3>1. /\ calls' = [calls EXCEPT ![c] = Settle(c, Failing([calls[c] EXCEPT !.open = @ \ {u}]), inbox)]
          /\ inbox' = inbox
      <4>1. ~(calls[c].attempt[u] < Attempts(calls[c].op))
        BY <1>2, <1>7
      <4> QED
        BY <4>1, Zenon DEF Timeout
    <3> QED
      BY <1>2, <2>1, <2>2, <3>1
  <2>6. GoesOn(c, x, y)
    BY <2>4, <2>5 DEF GoesOn
  <2>7. CallsInv'
    BY <1>1, <1>2, <1>3, <1>4, <1>5, <2>4, <2>5, CallContinues DEF InItsPlace, SameCall
  <2>8. ASSUME NEW k, NEW f PROVE SameWriters(k, f)
    <3>1. SameWrite(x, y, k)
      BY <2>4 DEF SameWrite, SameCall
    <3> QED
      BY <1>1, <1>2, <2>4, <2>5, <3>1, WriterGoesOn DEF SameCall
  <2>9. \A d \in Slots : SameGet(calls[d], calls'[d])
    BY <1>1, <1>2, <2>6, GetGoesOn
  <2> QED
    BY <1>5, <2>7, <2>8, <2>9, QuietStep DEF KeyValueInv
<1> QED
  BY <1>6, <1>7

LEMMA SetTagsKeeps ==
  ASSUME KeyValueInv, NEW c \in Slots, SetTags(c), UNCHANGED deployment
  PROVE  KeyValueInv'
<1>1. CallsInv
  BY DEF KeyValueInv
<1>2. PICK x : x = calls[c]
  OBVIOUS
<1>3. IsCall(x) /\ InItsPlace(x) /\ x.phase = "tag"
  BY <1>1, <1>2, SlotFacts DEF SetTags
<1>4. x.op # "none" /\ x.op # "get"
  BY <1>1, <1>3, FreeIsACall DEF InItsPlace
<1>5. PICK S : S = {x.index[k] : k \in DOMAIN x.index}
  OBVIOUS
<1>6. SetMeta(Partition, S)
  BY <1>2, <1>5 DEF SetTags, KeysOf
<1>7. S \in SUBSET Nat /\ S \subseteq Status.global_indexes
  BY <1>1, <1>2, <1>5, SamplesOfCall
<1>8. World' /\ SameView
  <2>1. World
    BY <1>1 DEF CallsInv, World
  <2> QED
    BY <1>6, <1>7, <2>1, SetMetaView
<1>9. PICK y : /\ y = [x EXCEPT !.phase = "ended"] /\ IsCall(y) /\ SameCall(y, x) /\ y.phase = "ended"
               /\ y.open = x.open /\ y.attempt = x.attempt /\ y.failed = x.failed
  <2>1. PICK phase : phase = "ended"
    OBVIOUS
  <2>2. IsCall(x)
    BY <1>3
  <2>3. PICK y : Moved(y, x, phase)
    BY <1>1, <2>2, EndingIs, Zenon
  <2> QED
    BY <2>1, <2>3 DEF Moved
<1>10. calls' = [calls EXCEPT ![c] = Settle(c, y, inbox')] /\ inbox' = inbox
  BY <1>2, <1>9 DEF SetTags, End
<1>11. NoCellChanges /\ StoreTypes' /\ KeyNames' = KeyNames
  BY <1>1, <1>8 DEF SetTags, NoCellChanges, SameView, CallsInv, KeyValueTypes, StoreTypes
<1>12. CallsInv'
  <2>1. x.op \in {"put", "update"}
    BY <1>3, <1>4 DEF InItsPlace
  <2>2. y.op = x.op /\ y.index = x.index /\ y.finalize = x.finalize
    BY <1>9 DEF SameCall
  <2> QED
    BY <1>1, <1>2, <1>8, <1>9, <1>10, <1>11, <2>1, <2>2, CallContinues
<1>13. ASSUME NEW k, NEW f PROVE SameWriters(k, f)
  <2>1. SameWrite(x, y, k)
    BY <1>3, <1>9 DEF SameWrite, SameCall
  <2> QED
    BY <1>1, <1>2, <1>3, <1>9, <1>10, <2>1, WriterGoesOn DEF SameCall
<1>14. \A d \in Slots : SameGet(calls[d], calls'[d])
  BY <1>1, <1>2, <1>9, <1>10, GetGoesOn DEF GoesOn
<1> QED
  BY <1>11, <1>12, <1>13, <1>14, QuietStep DEF KeyValueInv

LEMMA EndGetKeeps ==
  ASSUME KeyValueInv, NEW c \in Slots, EndGet(c), UNCHANGED deployment
  PROVE  KeyValueInv'
<1>1. CallsInv
  BY DEF KeyValueInv
<1>2. PICK x : x = calls[c]
  OBVIOUS
<1>3. IsCall(x) /\ InItsPlace(x) /\ x.op = "get"
  BY <1>1, <1>2, SlotFacts DEF EndGet
<1>4. World' /\ KeyNames' = KeyNames /\ StoreTypes' /\ NoCellChanges
  BY <1>1, SameStore DEF EndGet
<1>5. calls' = [calls EXCEPT ![c] = Free] /\ inbox' = {r \in inbox : r[1] # c}
  BY DEF EndGet
<1>6. calls = [d \in Slots |-> calls[d]]
  BY <1>1 DEF CallsInv, KeyValueTypes
<1>7. /\ calls' = [d \in Slots |-> calls'[d]] /\ calls'[c] = Free
      /\ \A d \in Slots \ {c} : calls'[d] = calls[d]
  BY <1>5, <1>6
<1>8. CallsInv'
  <2>1. PICK new : new = Free
    OBVIOUS
  <2>2. Units' = Units /\ Free' = Free
    BY <1>4 DEF NoCellChanges, Units, NumUnits, Free
  <2>3. IsCall(new) /\ InItsPlace(new)' /\ ~Writes(new)
    BY <1>1, <1>4, <2>1, <2>2, FreeIsACall DEF InItsPlace, Writes
  <2>4. RequestsAreOf(c, new)'
    BY <1>5 DEF RequestsAreOf
  <2>5. \A d \in Slots \ {c} : \A k \in DOMAIN calls[d].index : <<k, calls[d].index[k]>> \in KeyNames'
    BY <1>1, <1>4, SlotFacts DEF InItsPlace
  <2>6. \A d \in Slots \ {c} : calls[d] = Free => calls'[d] = Free'
    BY <1>7, <2>2
  <2>7. \A r \in inbox' : r \in Slots \X Units \X Nat /\ (r \in inbox \/ r[1] = c)
    BY <1>1, <1>5, SlotFacts
  <2> QED
    BY <1>1, <1>4, <1>7, <2>1, <2>2, <2>3, <2>4, <2>5, <2>6, <2>7, CallsStep
<1>9. ASSUME NEW k, NEW f PROVE SameWriters(k, f)
  <2>1. \A r : r \in inbox' => r \in inbox
    BY <1>5
  <2>2. SameWriter(c, calls[c], calls'[c], k, f)
    BY <1>1, <1>2, <1>3, <1>7, FreeIsACall DEF SameWriter, WritesCell, Writes
  <2>3. \A d \in Slots \ {c} : SameWriter(d, calls[d], calls'[d], k, f)
    BY <1>7, <2>1 DEF SameWriter, SameWrite
  <2> QED
    BY <2>2, <2>3 DEF SameWriters
<1>10. \A d \in Slots : SameGet(calls[d], calls'[d])
  BY <1>1, <1>7, FreeIsACall DEF SameGet
<1> QED
  BY <1>4, <1>8, <1>9, <1>10, QuietStep DEF KeyValueInv

(* What a get may read is what it finds.                                   *)
LEMMA GetReads ==
  ASSUME CallsInv, CellsInv, NEW x, NEW k \in Keys, NEW f \in Fields,
         <<k, x.index[k]>> \in KeyNames, MayRead(x, k, f)
  PROVE  LET e == <<x.index[k], f>>
         IN  e \in DOMAIN values /\ values[e] \in x.may[<<k, f>>] /\ Last(values[e]).draft = FALSE
<1>1. PICK i : i = x.index[k]
  OBVIOUS
<1>2. CellInv(k, f) /\ Filled(i, f) /\ Last(values[<<i, f>>]).draft = FALSE
  BY <1>1 DEF CellsInv, MayRead
<1>3. <<i, f>> \in DOMAIN values
  BY <1>1, <1>2 DEF CellInv, IsStored
<1>4. CASE \A d \in Slots : ~IsWriting(calls[d], k, f)
  <2>1. CellIn(i, f, could[<<k, f>>])
    BY <1>1, <1>2, <1>4 DEF CellInv, KeyIn
  <2>2. values[<<i, f>>] \in could[<<k, f>>]
    BY <1>2, <2>1 DEF CellIn
  <2> QED
    BY <1>1, <1>2, <1>3, <2>2 DEF MayRead
<1>5. ASSUME NEW d \in Slots, IsWriting(calls[d], k, f)
      PROVE  values[<<i, f>>] \in x.may[<<k, f>>]
  <2>1. PICK y : y = calls[d]
    OBVIOUS
  <2>2. InItsPlace(y) /\ WriteFits(d, y, k, f) /\ y.phase = "units" /\ k \in DOMAIN y.index
    BY <1>1, <1>2, <1>5, <2>1, SlotFacts DEF CellInv, WritesFit, IsWriting
  <2>3. y.index[k] = i
    <3>1. <<k, y.index[k]>> \in KeyNames /\ <<k, i>> \in KeyNames /\ \A m, n \in KeyNames : m[1] = n[1] => m[2] = n[2]
      BY <1>1, <2>2, StatusFacts DEF InItsPlace, CallsInv, World
    <3> QED
      BY <3>1
  <2>4. CellIn(i, f, could[<<k, f>>] \cup Effects(y, k, could[<<k, f>>]))
    BY <2>2, <2>3 DEF WriteFits
  <2>5. values[<<i, f>>] \in could[<<k, f>>] \cup Effects(y, k, could[<<k, f>>])
    BY <1>2, <2>4 DEF CellIn
  <2> QED
    BY <1>5, <2>1, <2>5 DEF MayRead
<1> QED
  BY <1>1, <1>2, <1>3, <1>4, <1>5

(* A get has what it had, and what the unit answered with for some keys.   *)
GotMore(x, y) ==
  \/ y.got = x.got
  \/ \E keys \in SUBSET DOMAIN x.index :
       y.got = Over(x.got, [e \in keys \X x.fs |-> values[<<x.index[e[1]], e[2]>>]])

LEMMA ServeGetIs ==
  ASSUME CallsInv, NEW c \in Slots, NEW u, NEW n, NEW x, x = calls[c], ServeGet(c, u, n), x.op = "get"
  PROVE  \E y : /\ calls' = [calls EXCEPT ![c] = y] /\ IsCall(y)
                /\ y.op = x.op /\ y.phase = x.phase /\ y.finalize = x.finalize /\ y.index = x.index
                /\ y.fs = x.fs /\ y.may = x.may /\ GotMore(x, y)
<1>1. IsCall(x) /\ InItsPlace(x)
  BY SlotFacts
<1>2. PICK keys : keys = {k \in DOMAIN x.index : UnitOf(x.index[k]) = u}
  OBVIOUS
<1>3. PICK got : got = Over(x.got, [e \in keys \X x.fs |-> values[<<x.index[e[1]], e[2]>>]])
  OBVIOUS
<1>4. PICK w : w = [x EXCEPT !.got = got]
  OBVIOUS
<1>5. w = [op |-> x.op, phase |-> x.phase, finalize |-> x.finalize, index |-> x.index, fs |-> x.fs,
           held |-> x.held, number |-> x.number, open |-> x.open, attempt |-> x.attempt,
           failed |-> x.failed, got |-> got, may |-> x.may]
  BY <1>1, <1>4 DEF IsCall
<1>6. PICK z : z = IF RowsOf(x, u) \X x.fs \subseteq DOMAIN values THEN w ELSE Failing(x)
  OBVIOUS
<1>7. /\ IsCall(z) /\ z.op = x.op /\ z.phase = x.phase /\ z.finalize = x.finalize /\ z.index = x.index
      /\ z.fs = x.fs /\ z.may = x.may /\ (z.got = x.got \/ z.got = got)
  <2>1. CASE z = w
    BY <1>1, <1>5, <2>1 DEF IsCall
  <2>2. CASE z = Failing(x)
    BY <1>1, <2>2, FailingIs DEF SameCall
  <2> QED
    BY <1>6, <2>1, <2>2
<1>8. PICK v : /\ v = [z EXCEPT !.open = @ \ {u}] /\ IsCall(v) /\ SameCall(v, z) /\ v.phase = z.phase
               /\ v.open = z.open \ {u} /\ v.attempt = z.attempt /\ v.failed = z.failed
  BY <1>7, ClosingIs
<1>9. PICK y : y = IF Hears(x, u, n) THEN v ELSE x
  OBVIOUS
<1>10. calls' = [calls EXCEPT ![c] = Settle(c, y, inbox')]
  <2>1. calls' = [calls EXCEPT ![c] = Settle(c, Answered(c, u, n, z), inbox')]
    BY <1>2, <1>3, <1>4, <1>6 DEF ServeGet, KeysOf
  <2>2. Answered(c, u, n, z) = y
    BY <1>8, <1>9 DEF Answered
  <2> QED
    BY <2>1, <2>2
<1>11. /\ IsCall(y) /\ y.op = x.op /\ y.phase = x.phase /\ y.finalize = x.finalize /\ y.index = x.index
       /\ y.fs = x.fs /\ y.may = x.may /\ (y.got = x.got \/ y.got = got)
  BY <1>1, <1>7, <1>8, <1>9 DEF SameCall
<1>12. Settle(c, y, inbox') = y
  BY <1>1, <1>11 DEF Settle, InItsPlace
<1>13. keys \in SUBSET DOMAIN x.index
  BY <1>2
<1>14. calls' = [calls EXCEPT ![c] = y]
  BY <1>10, <1>12
<1>15. GotMore(x, y)
  BY <1>3, <1>11, <1>13, Zenon DEF GotMore
<1> QED
  BY <1>11, <1>14, <1>15, Zenon

LEMMA ServeGetKeeps ==
  ASSUME KeyValueInv, NEW c \in Slots, NEW u, NEW n, ServeGet(c, u, n), UNCHANGED deployment
  PROVE  KeyValueInv'
<1>1. CallsInv /\ CellsInv
  BY DEF KeyValueInv
<1>2. PICK x : x = calls[c]
  OBVIOUS
<1>3. IsCall(x) /\ InItsPlace(x) /\ x.op = "get" /\ GetFits(x)
  BY <1>1, <1>2, SlotFacts DEF ServeGet, KeyValueInv, GetsInv
<1>4. World' /\ KeyNames' = KeyNames /\ StoreTypes' /\ NoCellChanges
  BY <1>1, SameStore DEF ServeGet
<1>5. PICK y : /\ calls' = [calls EXCEPT ![c] = y] /\ IsCall(y)
               /\ y.op = x.op /\ y.phase = x.phase /\ y.finalize = x.finalize /\ y.index = x.index
               /\ y.fs = x.fs /\ y.may = x.may /\ GotMore(x, y)
  BY <1>1, <1>2, <1>3, ServeGetIs, Zenon
<1>6. Settle(c, y, inbox') = y /\ \A r \in inbox' : r \in inbox
  BY <1>3, <1>5 DEF Settle, InItsPlace, ServeGet
<1>7. CallsInv'
  BY <1>1, <1>2, <1>3, <1>4, <1>5, <1>6, CallContinues DEF InItsPlace
<1>8. \A k, f : SameWriters(k, f)
  <2> SUFFICES ASSUME NEW k, NEW f PROVE SameWriters(k, f)
    OBVIOUS
  <2>1. ~WritesCell(x, k, f)
    BY <1>3 DEF WritesCell, Writes
  <2> QED
    BY <1>1, <1>2, <1>5, <1>6, <2>1, WriterGoesOn
<1>9. calls = [d \in Slots |-> calls[d]]
  BY <1>1 DEF CallsInv, KeyValueTypes
<1>10. ASSUME NEW d \in Slots, d # c PROVE GetFits(calls[d])'
  <2>1. SameGet(calls[d], calls'[d])
    BY <1>5, <1>9, <1>10 DEF SameGet
  <2> QED
    BY <1>1, <1>4, <1>8, <2>1, CellsKept, GetFrame DEF KeyValueInv, GetsInv
<1>11. GetFits(y)'
  <2>1. ASSUME NEW k \in DOMAIN x.index, NEW f \in x.fs
        PROVE  MayRead(x, k, f)' /\ LET e == <<x.index[k], f>> IN values[e] \in x.may[<<k, f>>] /\ Last(values[e]).draft = FALSE
    <3>1. k \in Keys /\ f \in Fields /\ <<k, x.index[k]>> \in KeyNames
      BY <1>3 DEF IsCall, InItsPlace
    <3>2. MayRead(x, k, f) /\ CellInv(k, f)
      BY <1>1, <1>3, <3>1 DEF GetFits, CellsInv
    <3>3. MayRead(x, k, f)'
      BY <1>1, <1>4, <1>8, <3>1, <3>2, CellsKept, MayReadFrame
    <3> QED
      BY <1>1, <3>1, <3>2, <3>3, GetReads
  <2>2. \A k \in DOMAIN y.index, f \in y.fs : MayRead(y, k, f)'
    BY <1>5, <2>1 DEF MayRead
  <2>3. /\ y.got = [e \in DOMAIN y.got |-> y.got[e]] /\ DOMAIN y.got \subseteq (DOMAIN y.index) \X y.fs
        /\ \A e \in DOMAIN y.got : y.got[e] \in y.may[e] /\ Last(y.got[e]).draft = FALSE
    <3>1. CASE y.got = x.got
      BY <1>3, <1>5, <3>1 DEF GetFits
    <3>2. ASSUME NEW keys \in SUBSET DOMAIN x.index,
                 y.got = Over(x.got, [e \in keys \X x.fs |-> values[<<x.index[e[1]], e[2]>>]])
          PROVE  <2>3!1 /\ <2>3!2
      <4>1. y.got = [e \in DOMAIN x.got \cup (keys \X x.fs) |->
                       IF e \in keys \X x.fs THEN values[<<x.index[e[1]], e[2]>>] ELSE x.got[e]]
        BY <3>2 DEF Over
      <4>2. DOMAIN x.got \subseteq (DOMAIN x.index) \X x.fs
        BY <1>3 DEF GetFits
      <4>3. ASSUME NEW e \in DOMAIN y.got PROVE y.got[e] \in y.may[e] /\ Last(y.got[e]).draft = FALSE
        <5>1. CASE e \in keys \X x.fs
          <6>1. e = <<e[1], e[2]>> /\ e[1] \in DOMAIN x.index /\ e[2] \in x.fs
            BY <5>1
          <6>2. y.got[e] = values[<<x.index[e[1]], e[2]>>]
            BY <4>1, <5>1
          <6> QED
            BY <1>5, <2>1, <6>1, <6>2
        <5>2. CASE e \notin keys \X x.fs
          BY <1>3, <1>5, <4>1, <5>2 DEF GetFits
        <5> QED
          BY <5>1, <5>2
      <4>4. DOMAIN y.got \subseteq (DOMAIN y.index) \X y.fs
        BY <1>5, <4>1, <4>2
      <4>5. y.got = [e \in DOMAIN y.got |-> y.got[e]]
        BY <4>1
      <4> QED
        BY <4>3, <4>4, <4>5
    <3> QED
      BY <1>5, <3>1, <3>2 DEF GotMore
  <2>4. y.may = [e \in (DOMAIN y.index) \X y.fs |-> y.may[e]]
    BY <1>3, <1>5 DEF GetFits
  <2> QED
    BY <2>2, <2>3, <2>4 DEF GetFits
<1>12. GetFits(calls[c])'
  <2>1. y = calls'[c]
    BY <1>5, <1>9
  <2> QED
    BY <1>11, <2>1 DEF GetFits, MayRead
<1>13. CellsInv'
  BY <1>4, <1>8, QuietStep
<1> QED
  BY <1>7, <1>10, <1>12, <1>13 DEF KeyValueInv, GetsInv

(* A get begins.                                                           *)
LEMMA GetIs ==
  ASSUME CallsInv, NEW c \in Slots, Get(c)
  PROVE  \E x :
           /\ IsCall(x) /\ x.op = "get" /\ x.phase = "units" /\ x.finalize = TRUE /\ x.got = << >>
           /\ x.may = [e \in (DOMAIN x.index) \X x.fs |-> x.may[e]]
           /\ \A k \in DOMAIN x.index, f \in x.fs :
                /\ IsFinal(x.index[k], f)
                /\ could[<<k, f>>] \subseteq x.may[<<k, f>>]
                /\ \A d \in Slots : IsWriting(calls[d], k, f) =>
                     Effects(calls[d], k, could[<<k, f>>]) \subseteq x.may[<<k, f>>]
           /\ \A k \in DOMAIN x.index : <<k, x.index[k]>> \in KeyNames
           /\ calls' = [calls EXCEPT ![c] = x]
           /\ \A r \in inbox' : r \in inbox \/ r \in {c} \X Units \X Nat
<1>1. PICK keys \in SomeOf(Keys), fs \in SomeOf(Fields) :
        /\ keys \subseteq KnownKeys(Status)
        /\ LET index   == [k \in keys |-> IndexOf(Status, k)]
               writer(e) == {d \in At({e[1]}, {"put", "update"}) : e[2] \in calls[d].fs}
               call == [Free EXCEPT !.op = "get", !.phase = "units", !.index = index, !.fs = fs,
                          !.may = [e \in keys \X fs |->
                            could[e] \cup UNION {Effects(calls[d], e[1], could[e]) : d \in writer(e)}]]
           IN  /\ ReadyInAll(Status, {index[k] : k \in keys}, fs)
               /\ calls' = [calls EXCEPT ![c] = Asking(call)]
               /\ inbox' = inbox \cup Requests(c, call)
  BY Zenon DEF Get
<1> DEFINE named     == [k \in keys |-> IndexOf(Status, k)]
           writer(e) == {d \in At({e[1]}, {"put", "update"}) : e[2] \in calls[d].fs}
           possible  == [e \in keys \X fs |->
                           could[e] \cup UNION {Effects(calls[d], e[1], could[e]) : d \in writer(e)}]
           begun     == [Free EXCEPT !.op = "get", !.phase = "units", !.index = named, !.fs = fs, !.may = possible]
<1>2. /\ ReadyInAll(Status, {named[k] : k \in keys}, fs)
      /\ calls' = [calls EXCEPT ![c] = Asking(begun)]
      /\ inbox' = inbox \cup Requests(c, begun)
  BY <1>1, Zenon
<1>3. PICK index, may : index = named /\ may = possible
  OBVIOUS
<1>4. DOMAIN index = keys /\ DOMAIN may = keys \X fs /\ may = [e \in keys \X fs |-> may[e]]
  BY <1>3
<1>5. ASSUME NEW k \in keys, NEW f \in fs
      PROVE  /\ could[<<k, f>>] \subseteq may[<<k, f>>]
             /\ \A d \in Slots : IsWriting(calls[d], k, f) =>
                  Effects(calls[d], k, could[<<k, f>>]) \subseteq may[<<k, f>>]
  <2>1. PICK e : e = <<k, f>>
    OBVIOUS
  <2>2. may[e] = could[e] \cup UNION {Effects(calls[d], k, could[e]) : d \in writer(e)}
    BY <1>3, <2>1
  <2>3. ASSUME NEW d \in Slots, IsWriting(calls[d], k, f) PROVE d \in writer(e)
    BY <2>1, <2>3 DEF IsWriting, Writes, At, KeysOf
  <2> HIDE DEF writer
  <2> QED
    BY <2>1, <2>2, <2>3
<1>6. ASSUME NEW k \in keys PROVE <<k, index[k]>> \in KeyNames /\ index[k] \in Nat
  <2>1. PICK n \in KeyNames : n[1] = k
    BY <1>1, KnownAreNamed DEF SomeOf
  <2>2. n = <<n[1], n[2]>> /\ n[2] \in Nat /\ IndexOf(Status, n[1]) = n[2]
    BY IndexIsNamed DEF CallsInv, World
  <2>3. index[k] = n[2]
    BY <1>3, <2>1, <2>2
  <2> QED
    BY <2>1, <2>2, <2>3
<1>7. PICK call : call = begun
  OBVIOUS
<1>8. call = [Free EXCEPT !.op = "get", !.phase = "units", !.index = index, !.fs = fs, !.may = may]
  BY <1>3, <1>7
<1>9. ReadyInAll(Status, {index[k] : k \in keys}, fs)
  BY <1>2, <1>3
<1>10. calls' = [calls EXCEPT ![c] = Asking(call)] /\ inbox' = inbox \cup Requests(c, call)
  BY <1>2, <1>7
<1> HIDE DEF named, writer, possible, begun
<1>11. PICK none, at : none = << >> /\ at = [u \in Units |-> 0]
  OBVIOUS
<1>12. call = [op |-> "get", phase |-> "units", finalize |-> TRUE, index |-> index, fs |-> fs,
               held |-> {}, number |-> 0, open |-> {}, attempt |-> at, failed |-> FALSE,
               got |-> none, may |-> may]
  BY <1>8, <1>11 DEF Free
<1>13. IsCall(call)
  <2>1. index = [k \in keys |-> index[k]]
    BY <1>3 DEF named
  <2>2. index \in [keys -> Nat] /\ at \in [Units -> Nat] /\ keys \subseteq Keys /\ fs \subseteq Fields
    BY <1>1, <1>6, <1>11, <2>1 DEF SomeOf
  <2> QED
    BY <1>4, <1>12, <2>2 DEF IsCall
<1>14. PICK x : x = Asking(call)
  OBVIOUS
<1>15. IsCall(x) /\ SameCall(x, call) /\ x.phase = "units" /\ x.open = Targets(call)
  BY <1>12, <1>13, <1>14, AskingIs
<1>16. /\ x.op = "get" /\ x.finalize = TRUE /\ x.got = << >> /\ x.index = index /\ x.fs = fs /\ x.may = may
  BY <1>11, <1>12, <1>15 DEF SameCall
<1>17. \A k \in keys, f \in fs : IsFinal(index[k], f)
  BY <1>9 DEF ReadyInAll, IsFinal
<1>18. \A r \in inbox' : r \in inbox \/ r \in {c} \X Units \X Nat
  <2>1. Requests(c, call) = {<<c, u, 1>> : u \in x.open} /\ x.open \subseteq Units
    BY <1>15 DEF Requests, IsCall
  <2> QED
    BY <1>10, <2>1
<1>19. /\ calls' = [calls EXCEPT ![c] = x]
       /\ DOMAIN x.index = keys
       /\ x.may = [e \in (DOMAIN x.index) \X x.fs |-> x.may[e]]
  BY <1>4, <1>10, <1>14, <1>16
<1> QED
  BY <1>5, <1>6, <1>15, <1>16, <1>17, <1>18, <1>19

LEMMA GetKeeps ==
  ASSUME KeyValueInv, NEW c \in Slots, Get(c), UNCHANGED deployment
  PROVE  KeyValueInv'
<1>1. CallsInv /\ CellsInv
  BY DEF KeyValueInv
<1>2. World' /\ KeyNames' = KeyNames /\ StoreTypes' /\ NoCellChanges
  BY <1>1, SameStore DEF Get
<1>3. PICK x :
        /\ IsCall(x) /\ x.op = "get" /\ x.phase = "units" /\ x.finalize = TRUE /\ x.got = << >>
        /\ x.may = [e \in (DOMAIN x.index) \X x.fs |-> x.may[e]]
        /\ \A k \in DOMAIN x.index, f \in x.fs :
             /\ IsFinal(x.index[k], f)
             /\ could[<<k, f>>] \subseteq x.may[<<k, f>>]
             /\ \A d \in Slots : IsWriting(calls[d], k, f) =>
                  Effects(calls[d], k, could[<<k, f>>]) \subseteq x.may[<<k, f>>]
        /\ \A k \in DOMAIN x.index : <<k, x.index[k]>> \in KeyNames
        /\ calls' = [calls EXCEPT ![c] = x]
        /\ \A r \in inbox' : r \in inbox \/ r \in {c} \X Units \X Nat
  BY <1>1, GetIs, Zenon
<1>4. calls = [d \in Slots |-> calls[d]] /\ calls[c] = Free
  BY <1>1 DEF CallsInv, KeyValueTypes, Get
<1>5. /\ calls' = [d \in Slots |-> calls'[d]] /\ calls'[c] = x
      /\ \A d \in Slots \ {c} : calls'[d] = calls[d]
  BY <1>3, <1>4
<1>6. Units' = Units /\ Free' = Free
  BY <1>2 DEF NoCellChanges, Units, NumUnits, Free
<1>7. CallsInv'
  <2>1. InItsPlace(x)'
    BY <1>2, <1>3, <1>6 DEF InItsPlace
  <2>2. RequestsAreOf(c, x)'
    BY <1>3 DEF RequestsAreOf
  <2>3. \A d \in Slots \ {c} : \A k \in DOMAIN calls[d].index : <<k, calls[d].index[k]>> \in KeyNames'
    BY <1>1, <1>2, SlotFacts DEF InItsPlace
  <2>4. ASSUME NEW r \in inbox' PROVE r \in Slots \X Units \X Nat /\ (r \in inbox \/ r[1] = c)
    <3>1. CASE r \in inbox
      BY <1>1, <3>1, SlotFacts
    <3>2. CASE r \in {c} \X Units \X Nat
      BY <3>2
    <3> QED
      BY <1>3, <3>1, <3>2
  <2>5. ~Writes(x)
    BY <1>3 DEF Writes
  <2>6. UNCHANGED deployment /\ \A d \in Slots \ {c} : calls[d] = Free => calls'[d] = Free'
    BY <1>5, <1>6
  <2> QED
    BY <1>1, <1>2, <1>3, <1>5, <1>6, <2>1, <2>2, <2>3, <2>4, <2>5, <2>6, CallsStep
<1>8. ASSUME NEW k, NEW f PROVE SameWriters(k, f)
  <2>1. SameWriter(c, calls[c], calls'[c], k, f)
    BY <1>1, <1>3, <1>4, <1>5, FreeIsACall DEF SameWriter, WritesCell, Writes
  <2>2. ASSUME NEW d \in Slots \ {c} PROVE SameWriter(d, calls[d], calls'[d], k, f)
    <3>1. \A u, n : <<d, u, n>>[1] = d
      OBVIOUS
    <3>2. \A u, n : <<d, u, n>> \in inbox' => <<d, u, n>> \in inbox
      <4> SUFFICES ASSUME NEW u, NEW n, <<d, u, n>> \in inbox' PROVE <<d, u, n>> \in inbox
        OBVIOUS
      <4>1. <<d, u, n>> \notin {c} \X Units \X Nat
        BY <3>1
      <4> QED
        BY <1>3, <4>1
    <3> QED
      BY <1>5, <3>2 DEF SameWriter, SameWrite
  <2> QED
    BY <2>1, <2>2 DEF SameWriters
<1>9. CellsInv'
  BY <1>2, <1>8, QuietStep
<1>10. ASSUME NEW d \in Slots, d # c PROVE GetFits(calls[d])'
  <2>1. SameGet(calls[d], calls'[d])
    BY <1>5, <1>10 DEF SameGet
  <2> QED
    BY <1>1, <1>2, <1>8, <2>1, CellsKept, GetFrame DEF KeyValueInv, GetsInv
<1>11. ASSUME NEW k \in DOMAIN x.index, NEW f \in x.fs PROVE MayRead(x, k, f)'
  <2>1. k \in Keys /\ f \in Fields /\ <<k, x.index[k]>> \in KeyNames /\ IsFinal(x.index[k], f)
    BY <1>3 DEF IsCall
  <2>2. CellInv(k, f)
    BY <1>1, <2>1 DEF CellsInv
  <2>3. Filled(x.index[k], f)
    BY <1>1, <2>1, StatusFacts DEF CallsInv, World
  <2>4. Last(values[<<x.index[k], f>>]).draft = FALSE
    BY <2>1, <2>2, <2>3 DEF CellInv, IsStored
  <2>5. MayRead(x, k, f)
    BY <1>3, <2>3, <2>4 DEF MayRead
  <2> QED
    BY <1>1, <1>2, <1>8, <2>1, <2>2, <2>5, CellsKept, MayReadFrame
<1>12. GetFits(x)'
  <2>1. DOMAIN x.got = {}
    BY <1>3
  <2> QED
    BY <1>3, <1>11, <2>1 DEF GetFits
<1>13. GetFits(calls[c])'
  BY <1>5, <1>12 DEF GetFits, MayRead
<1> QED
  BY <1>7, <1>9, <1>10, <1>13 DEF KeyValueInv, GetsInv

-----------------------------------------------------------------------------
(* A unit serves a write.                                                  *)
LEMMA MayReadAfter ==
  ASSUME NEW x, NEW k, NEW f, MayRead(x, k, f), could'[<<k, f>>] = could[<<k, f>>],
         Filled(x.index[k], f)', Last(values'[<<x.index[k], f>>]).draft = FALSE,
         \A d \in Slots : IsWriting(calls'[d], k, f) =>
           /\ IsWriting(calls[d], k, f) /\ calls'[d].op = calls[d].op
           /\ calls'[d].finalize = calls[d].finalize /\ calls'[d].number = calls[d].number
  PROVE  MayRead(x, k, f)'
<1>1. ASSUME NEW d \in Slots
      PROVE  (IsWriting(calls[d], k, f) => Effects(calls[d], k, could[<<k, f>>]) \subseteq x.may[<<k, f>>])'
  <2>1. PICK y, z : y = calls[d] /\ z = calls'[d]
    OBVIOUS
  <2>2. ASSUME IsWriting(z, k, f) PROVE Effects(z, k, could'[<<k, f>>]) \subseteq x.may[<<k, f>>]
    <3>1. IsWriting(y, k, f) /\ z.op = y.op /\ z.finalize = y.finalize /\ z.number = y.number
      BY <2>1, <2>2
    <3>2. Effects(z, k, could'[<<k, f>>]) = Effects(y, k, could[<<k, f>>])
      BY <3>1, SameWriteMerges
    <3> QED
      BY <2>1, <3>1, <3>2 DEF MayRead
  <2> QED
    BY <2>1, <2>2 DEF IsWriting, Effects, Merged, Writes
<1>2. could'[<<k, f>>] \subseteq x.may[<<k, f>>]
  BY DEF MayRead
<1> QED
  BY <1>1, <1>2 DEF MayRead

(* The cells a request to unit u writes.                                   *)
Touched(x, u, k, f) == WritesCell(x, k, f) /\ UnitOf(x.index[k]) = u

(* What a write makes of a cell, of what it is ready for.                  *)
Made(x, k, f, e) ==
  /\ x.phase = "units" => MergedOf(x, k, e) \in Effects(x, k, could[<<k, f>>])
  /\ x.phase # "units" /\ Filled(e[1], f) => MergedOf(x, k, e) \in could[<<k, f>>]
  /\ Filled(e[1], f) =>
       /\ e \in DOMAIN values
       /\ Last(values[e]).draft = FALSE => Last(MergedOf(x, k, e)).draft = FALSE

LEMMA WriteMakes ==
  ASSUME CallsInv, CellsInv, NEW c \in Slots, NEW x, x = calls[c], NEW u \in Units, NEW n, <<c, u, n>> \in inbox,
         x.op = "put" \/ CanMerge(x, u), NEW k \in Keys, NEW f \in Fields, Touched(x, u, k, f),
         NEW e, e = <<x.index[k], f>>
  PROVE  Made(x, k, f, e)
<1> PICK now, new : now = could[<<k, f>>] /\ new = MergedOf(x, k, e)
  OBVIOUS
<1>1. IsCall(x) /\ InItsPlace(x) /\ WriteFits(c, x, k, f) /\ CellInv(k, f)
  BY SlotFacts DEF CellsInv, CellInv, WritesFit, Touched, WritesCell
<1>2. PICK i : i = x.index[k]
  OBVIOUS
<1>3. /\ k \in DOMAIN x.index /\ f \in x.fs /\ UnitOf(i) = u /\ <<k, i>> \in KeyNames
  BY <1>1, <1>2 DEF Touched, WritesCell, InItsPlace
<1>4. \E m : <<c, UnitOf(i), m>> \in inbox
  BY <1>3
<1>5. now \in SUBSET Histories /\ now # {} /\ << >> \in Histories
  BY SlotFacts DEF StoreTypes, Histories
<1>6. Filled(i, f) => e \in DOMAIN values /\ values[e] \in Histories /\ values[e] # << >>
  BY <1>1, <1>2, <1>3, SlotFacts DEF CellInv, IsStored, StoreTypes
<1>7. ASSUME x.op = "put"
      PROVE  /\ x.phase = "units" => new \in Effects(x, k, now)
             /\ x.phase # "units" /\ Filled(i, f) => new \in now
             /\ Filled(i, f) => e \in DOMAIN values /\ (Last(values[e]).draft = FALSE => Last(new).draft = FALSE)
  <2>1. new = Merged(x, k, << >>, FALSE) /\ x.finalize = TRUE
    BY <1>1, <1>7 DEF MergedOf, InItsPlace
  <2>2. new \in Effects(x, k, now)
    <3>1. Merged(x, k, << >>, FALSE) \in Effects(x, k, now)
      BY <1>1, <1>5, <1>7, EffectsTyped, Zenon
    <3> QED
      BY <2>1, <3>1, Zenon
  <2>3. Last(new).draft = FALSE
    <3>1. Last(Merged(x, k, << >>, FALSE)).draft = FALSE
      BY <1>1, <1>5, <2>1, MergedIs, Zenon
    <3> QED
      BY <2>1, <3>1, Zenon
  <2>4. x.phase # "units" => new \in now
    BY <1>1, <1>7, <2>1 DEF WriteFits
  <2> QED
    BY <1>2, <1>6, <2>2, <2>3, <2>4
<1>8. ASSUME x.op = "update"
      PROVE  /\ x.phase = "units" => new \in Effects(x, k, now)
             /\ x.phase # "units" /\ Filled(i, f) => new \in now
             /\ Filled(i, f) => e \in DOMAIN values /\ (Last(values[e]).draft = FALSE => Last(new).draft = FALSE)
  <2>1. e \in x.held <=> Filled(i, f)
    BY <1>1, <1>2, <1>4, <1>8 DEF WriteFits
  <2>2. CASE Filled(i, f)
    <3>1. new = Merged(x, k, values[e], TRUE)
      BY <1>8, <2>1, <2>2 DEF MergedOf
    <3>2. Last(values[e]).draft = FALSE => Last(new).draft = FALSE
      BY <1>1, <1>6, <1>8, <2>2, <3>1, MergedIs
    <3>3. x.phase # "units" => new \in now
      BY <1>1, <1>2, <1>4, <1>8, <2>2, <3>1 DEF WriteFits
    <3>4. ASSUME x.phase = "units" PROVE new \in Effects(x, k, now)
      <4>1. CellIn(i, f, now)
        BY <1>1, <1>2, <1>4, <1>8, <3>4 DEF WriteFits
      <4>2. values[e] \in now
        BY <1>2, <2>2, <4>1 DEF CellIn
      <4>3. values[e] # << >>
        BY <1>6, <2>2
      <4>4. \A v \in now : v # << >> => Merged(x, k, v, TRUE) \in Effects(x, k, now)
        BY EffectsAre
      <4>5. Merged(x, k, values[e], TRUE) \in Effects(x, k, now)
        BY <4>2, <4>3, <4>4, Zenon
      <4> QED
        BY <3>1, <4>5, Zenon
    <3> QED
      BY <1>2, <1>6, <2>2, <3>2, <3>3, <3>4
  <2>3. CASE ~Filled(i, f)
    <3>1. new = Merged(x, k, << >>, FALSE)
      BY <2>1, <2>3 DEF MergedOf
    <3>2. ASSUME x.phase = "units" PROVE new \in Effects(x, k, now)
      <4>1. CellIn(i, f, now)
        BY <1>1, <1>2, <1>4, <1>8, <3>2 DEF WriteFits
      <4>2. << >> \in now
        BY <2>3, <4>1 DEF CellIn
      <4>3. Merged(x, k, << >>, FALSE) \in Effects(x, k, now)
        BY <4>2, EffectsAre
      <4> QED
        BY <3>1, <4>3, Zenon
    <3> QED
      BY <1>2, <2>3, <3>2
  <2> QED
    BY <2>2, <2>3
<1>9. /\ x.phase = "units" => new \in Effects(x, k, now)
      /\ x.phase # "units" /\ Filled(i, f) => new \in now
      /\ Filled(i, f) => e \in DOMAIN values /\ (Last(values[e]).draft = FALSE => Last(new).draft = FALSE)
  BY <1>7, <1>8 DEF Touched, WritesCell, Writes
<1> QED
  BY <1>2, <1>9 DEF Made

(* A request that is served: `done` says that it took place.               *)
Served(c, x, u, n, done) ==
  /\ <<c, u, n>> \in inbox /\ Answer(c, u, n, done)
  /\ IF done THEN (x.op = "put" \/ CanMerge(x, u)) /\ values' = Over(values, Stored(x, u))
     ELSE x.op = "update" /\ UNCHANGED values

LEMMA ServedIsTyped ==
  ASSUME CallsInv, NEW c \in Slots, NEW x, x = calls[c], Writes(x), NEW u \in Units, NEW n,
         NEW done \in BOOLEAN, Served(c, x, u, n, done), UNCHANGED deployment
  PROVE  World' /\ SameView /\ CallsInv'
<1>1. World' /\ SameView
  BY UnchangedView DEF CallsInv, World, Served, Answer
<1>2. StoreTypes'
  <2>1. StoreTypes /\ UNCHANGED <<writes, could>>
    BY DEF CallsInv, KeyValueTypes, Served, Answer
  <2>2. CASE done
    <3>1. (x.op = "put" \/ CanMerge(x, u)) /\ values' = Over(values, Stored(x, u))
      BY <2>2 DEF Served
    <3>2. /\ values' = [e \in DOMAIN values' |-> values'[e]]
          /\ \A e \in DOMAIN values' : values'[e] \in Histories /\ values'[e] # << >>
      BY <3>1, StoredIs
    <3> QED
      BY <2>1, <3>2 DEF StoreTypes
  <2>3. CASE ~done
    BY <2>1, <2>3 DEF Served, StoreTypes
  <2> QED
    BY <2>2, <2>3
<1>3. PICK y : /\ GoesOn(c, x, y) /\ y.phase = x.phase /\ y.attempt = x.attempt
               /\ \/ y.open = x.open /\ y.failed = x.failed
                  \/ /\ y.open = x.open \ {u}
                     /\ y.failed = IF done THEN x.failed ELSE x.phase = "units"
  BY AnswerGives DEF Served
<1>4. InItsPlace(x) /\ IsCall(y) /\ SameCall(y, x) /\ calls' = [calls EXCEPT ![c] = Settle(c, y, inbox')]
  BY <1>3, SlotFacts DEF GoesOn
<1>5. inbox' \subseteq inbox
  BY DEF Served, Answer
<1>6. y.op = x.op /\ y.index = x.index /\ y.finalize = x.finalize /\ x.op # "none" /\ x.op # "get"
  BY <1>4 DEF SameCall, Writes
<1>7. y.phase \in {"units", "tag", "ended"} /\ y.open \subseteq x.open
  BY <1>3, <1>4, <1>6 DEF InItsPlace
<1>8. KeyNames' = KeyNames
  BY <1>1 DEF SameView
<1>9. CallsInv'
  BY <1>1, <1>2, <1>3, <1>4, <1>5, <1>6, <1>7, <1>8, CallContinues
<1> QED
  BY <1>1, <1>9

LEMMA ServedElsewhere ==
  ASSUME CallsInv, NEW c \in Slots, NEW x, x = calls[c], Writes(x), NEW u \in Units, NEW n,
         NEW done \in BOOLEAN, Served(c, x, u, n, done), UNCHANGED deployment,
         NEW k, NEW f, ~(done /\ Touched(x, u, k, f))
  PROVE  SameNames(k) /\ SameCell(k, f) /\ SameWriters(k, f)
<1>1. World' /\ SameView
  BY UnchangedView DEF CallsInv, World, Served, Answer
<1>2. UNCHANGED could
  BY DEF Served, Answer
<1>3. InItsPlace(x) /\ \A m, o \in KeyNames : m[1] = o[1] <=> m[2] = o[2]
  BY SlotFacts, StatusFacts
<1>4. ASSUME NEW i, <<k, i>> \in KeyNames, <<i, f>> \in DOMAIN values
      PROVE  <<i, f>> \in DOMAIN values' /\ values'[<<i, f>>] = values[<<i, f>>]
  <2>1. CASE done
    <3>1. f \notin x.fs \/ \A l \in DOMAIN x.index : x.index[l] = i => UnitOf(i) # u
      <4> SUFFICES ASSUME f \in x.fs, NEW l \in DOMAIN x.index, x.index[l] = i, UnitOf(i) = u
                   PROVE  FALSE
        OBVIOUS
      <4>1. <<l, i>> \in KeyNames
        BY <1>3 DEF InItsPlace
      <4>2. l = k
        BY <1>3, <1>4, <4>1
      <4> QED
        BY <2>1, <4>2 DEF Touched, WritesCell
    <3>2. (x.op = "put" \/ CanMerge(x, u)) /\ values' = Over(values, Stored(x, u))
      BY <2>1 DEF Served
    <3> QED
      BY <1>4, <3>1, <3>2, StoredElsewhere
  <2>2. CASE ~done
    BY <1>4, <2>2 DEF Served
  <2> QED
    BY <2>1, <2>2
<1>5. SameNames(k) /\ SameCell(k, f)
  BY <1>1, <1>2, <1>4 DEF SameNames, SameCell, SameView, Filled, IsFinal
<1>6. PICK y : /\ GoesOn(c, x, y) /\ y.phase = x.phase /\ y.attempt = x.attempt
               /\ \/ y.open = x.open /\ y.failed = x.failed
                  \/ /\ y.open = x.open \ {u}
                     /\ y.failed = IF done THEN x.failed ELSE x.phase = "units"
  BY AnswerGives DEF Served
<1>7. WritesCell(x, k, f) => SameWrite(x, y, k)
  <2> SUFFICES ASSUME WritesCell(x, k, f), x.phase = "units", UnitOf(x.index[k]) \notin y.open, y.failed = FALSE
               PROVE  UnitOf(x.index[k]) \notin x.open /\ x.failed = FALSE
    BY <1>6 DEF SameWrite, GoesOn, SameCall
  <2>1. CASE done
    <3>1. UnitOf(x.index[k]) # u
      BY <2>1 DEF Touched
    <3> QED
      BY <1>6, <2>1, <3>1
  <2>2. CASE ~done
    BY <1>6, <2>2
  <2> QED
    BY <2>1, <2>2
<1>8. \A r \in inbox' : r \in inbox
  BY DEF Served, Answer
<1>9. SameWriters(k, f)
  BY <1>6, <1>7, <1>8, WriterGoesOn DEF GoesOn, SameCall
<1> QED
  BY <1>5, <1>9

LEMMA StoredThere ==
  ASSUME CallsInv, NEW c \in Slots, NEW x, x = calls[c], Writes(x), NEW u,
         x.op = "put" \/ CanMerge(x, u), values' = Over(values, Stored(x, u)),
         NEW k, NEW f, Touched(x, u, k, f), NEW e, e = <<x.index[k], f>>
  PROVE  e \in DOMAIN values' /\ values'[e] = MergedOf(x, k, e)
<1>1. k \in DOMAIN x.index /\ f \in x.fs /\ UnitOf(x.index[k]) = u
  BY DEF Touched, WritesCell
<1>2. StoredAll(x, u)
  BY StoredIs
<1> QED
  BY <1>1, <1>2 DEF StoredAll

(* The cell a request wrote, after it.                                     *)
LEMMA ServedHere ==
  ASSUME CallsInv, CellsInv, NEW c \in Slots, NEW x, x = calls[c], Writes(x), NEW u \in Units, NEW n,
         Served(c, x, u, n, TRUE), UNCHANGED deployment,
         NEW k \in Keys, NEW f \in Fields, Touched(x, u, k, f), NEW i, i = x.index[k]
  PROVE  /\ CellInv(k, f)'
         /\ Filled(i, f) /\ Last(values[<<i, f>>]).draft = FALSE => Last(values'[<<i, f>>]).draft = FALSE
<1>1. World' /\ SameView
  BY UnchangedView DEF CallsInv, World, Served, Answer
<1>2. PICK e, new, now : e = <<i, f>> /\ new = MergedOf(x, k, e) /\ now = could[<<k, f>>]
  OBVIOUS
<1>3. /\ <<c, u, n>> \in inbox /\ (x.op = "put" \/ CanMerge(x, u))
      /\ values' = Over(values, Stored(x, u)) /\ Answer(c, u, n, TRUE)
      /\ UNCHANGED could /\ inbox' = inbox \ {<<c, u, n>>}
  BY DEF Served, Answer
<1>4. /\ x.phase = "units" => new \in Effects(x, k, now)
      /\ x.phase # "units" /\ Filled(i, f) => new \in now
      /\ Filled(i, f) =>
           /\ e \in DOMAIN values
           /\ Last(values[e]).draft = FALSE => Last(new).draft = FALSE
  <2>1. e = <<x.index[k], f>> /\ e[1] = i
    BY <1>2
  <2>2. Made(x, k, f, e)
    BY <1>3, <2>1, WriteMakes
  <2> QED
    BY <1>2, <2>1, <2>2 DEF Made
<1>5. e \in DOMAIN values' /\ values'[e] = new
  BY <1>2, <1>3, StoredThere
<1>6. /\ IsCall(x) /\ InItsPlace(x) /\ RequestsAreOf(c, x) /\ CellInv(k, f) /\ WriteFits(c, x, k, f)
      /\ k \in DOMAIN x.index /\ f \in x.fs /\ UnitOf(i) = u
  BY SlotFacts DEF CellsInv, CellInv, WritesFit, Touched, WritesCell
<1>7. <<k, i>> \in KeyNames /\ \A j : <<k, j>> \in KeyNames => j = i
  <2>1. \A m, o \in KeyNames : m[1] = o[1] => m[2] = o[2]
    BY SlotFacts, StatusFacts
  <2>2. <<k, i>> \in KeyNames
    BY <1>6 DEF InItsPlace
  <2> QED
    BY <2>1, <2>2
<1>8. KeyNames' = KeyNames /\ (Filled(i, f)' <=> Filled(i, f)) /\ (IsFinal(i, f)' <=> IsFinal(i, f))
  BY <1>1 DEF SameView, Filled, IsFinal
<1>9. IsFinal(i, f) => Filled(i, f) /\ Last(values[e]).draft = FALSE
  <2>1. IsFinal(i, f) => Filled(i, f)
    BY SlotFacts, StatusFacts
  <2> QED
    BY <1>2, <1>6, <1>7, <2>1 DEF CellInv, IsStored
<1>10. IsStored(k, f)'
  <2> SUFFICES ASSUME NEW j, <<k, j>> \in KeyNames', Filled(j, f)'
               PROVE  <<j, f>> \in DOMAIN values' /\ (IsFinal(j, f)' => Last(values'[<<j, f>>]).draft = FALSE)
    BY DEF IsStored
  <2>1. j = i
    BY <1>7, <1>8
  <2> QED
    BY <1>2, <1>4, <1>5, <1>8, <1>9, <2>1
<1>11. PICK y : /\ GoesOn(c, x, y) /\ y.phase = x.phase /\ y.attempt = x.attempt
                /\ \/ y.open = x.open /\ y.failed = x.failed
                   \/ y.open = x.open \ {u} /\ y.failed = x.failed
  <2>1. PICK done \in BOOLEAN : done = TRUE
    OBVIOUS
  <2>2. Answer(c, u, n, done)
    BY <1>3, <2>1
  <2>3. PICK y : /\ GoesOn(c, calls[c], y) /\ y.phase = calls[c].phase /\ y.attempt = calls[c].attempt
                 /\ \/ y.open = calls[c].open /\ y.failed = calls[c].failed
                    \/ /\ y.open = calls[c].open \ {u}
                       /\ y.failed = IF done THEN calls[c].failed ELSE calls[c].phase = "units"
    BY <2>2, AnswerGives
  <2> QED
    BY <2>1, <2>3
<1>12. /\ calls'[c] = y \/ (calls'[c] = Free /\ x.phase # "units")
       /\ \A d \in Slots \ {c} : calls'[d] = calls[d]
  <2>1. calls = [d \in Slots |-> calls[d]]
    BY DEF CallsInv, KeyValueTypes
  <2> QED
    BY <1>11, <2>1, Settles DEF GoesOn
<1>13. /\ y.op = x.op /\ y.index = x.index /\ y.fs = x.fs /\ y.held = x.held /\ y.finalize = x.finalize
       /\ y.number = x.number
  BY <1>11 DEF GoesOn, SameCall
<1>14. /\ \A old, held : Merged(y, k, old, held) = Merged(x, k, old, held)
       /\ \A olds : Effects(y, k, olds) = Effects(x, k, olds)
  BY <1>13, SameWriteMerges
<1>15. ASSUME \A d \in Slots : ~IsWriting(calls'[d], k, f)
       PROVE  KeyIn(k, f, now)'
  <2>1. x.phase # "units"
    <3> SUFFICES ASSUME x.phase = "units" PROVE FALSE
      OBVIOUS
    <3>1. calls'[c] = y /\ IsWriting(y, k, f)
      BY <1>6, <1>11, <1>12, <1>13 DEF IsWriting, Writes
    <3> QED
      BY <1>15, <3>1
  <2>2. \A d \in Slots : ~IsWriting(calls[d], k, f)
    BY <1>12, <1>15, <2>1 DEF IsWriting
  <2>3. CellIn(i, f, now)
    BY <1>2, <1>6, <1>7, <2>2 DEF CellInv, KeyIn
  <2>4. CellIn(i, f, now)'
    BY <1>2, <1>4, <1>5, <1>8, <2>1, <2>3 DEF CellIn
  <2> QED
    BY <1>7, <1>8, <2>4 DEF KeyIn
<1>16. ASSUME NEW d \in Slots
       PROVE  WritesFit(d, calls[d], k, f)'
  <2>1. CASE d # c
    <3>1. PICK z : z = calls[d]
      OBVIOUS
    <3>2. ~(Writes(z) /\ k \in DOMAIN z.index)
      <4>1. OneWriterAKey
        BY DEF CallsInv
      <4> QED
        BY <1>6, <2>1, <3>1, <4>1 DEF OneWriterAKey
    <3> QED
      BY <1>12, <2>1, <3>1, <3>2 DEF WritesFit, Writes
  <2>2. CASE calls'[c] = Free
    BY <1>12, <2>1, <2>2, FreeIsACall DEF WritesFit, Writes
  <2>3. CASE d = c /\ calls'[c] = y
    <3>1. ~\E m : x.op = "update" /\ <<c, u, m>> \in inbox'
      <4> SUFFICES ASSUME NEW m, x.op = "update", <<c, u, m>> \in inbox' PROVE FALSE
        OBVIOUS
      <4>1. m = 1 /\ n = 1
        <5>1. <<c, u, m>> \in inbox
          BY <1>3
        <5>2. <<c, u, m>>[1] = c /\ <<c, u, m>>[3] = m /\ <<c, u, n>>[1] = c /\ <<c, u, n>>[3] = n
          OBVIOUS
        <5> QED
          BY <1>3, <1>6, <5>1, <5>2 DEF RequestsAreOf
      <4> QED
        BY <1>3, <4>1
    <3>2. y.index[k] = i /\ UnitOf(i)' = u /\ (now \cup Effects(y, k, now) = now \cup Effects(x, k, now))
      BY <1>6, <1>13, <1>14 DEF UnitOf, NumUnits
    <3>3. x.phase = "units" =>
            /\ CellIn(i, f, now \cup Effects(y, k, now))'
            /\ y.op = "update" => (e \in y.held <=> Filled(i, f)')
            /\ e \in DOMAIN values' /\ values'[e] \in Effects(y, k, now)
      <4> SUFFICES ASSUME x.phase = "units" PROVE <3>3!2
        OBVIOUS
      <4>1. x.op = "update" => (e \in x.held <=> Filled(i, f))
        BY <1>2, <1>6 DEF WriteFits
      <4>2. CellIn(i, f, now \cup Effects(x, k, now))
        BY <1>2, <1>6 DEF WriteFits
      <4>3. CellIn(i, f, now \cup Effects(y, k, now))'
        BY <1>2, <1>4, <1>5, <1>8, <3>2, <4>2 DEF CellIn
      <4> QED
        BY <1>4, <1>5, <1>8, <1>13, <1>14, <4>1, <4>3
    <3>4. x.phase # "units" /\ y.op = "put" => Merged(y, k, << >>, FALSE) \in now
      BY <1>2, <1>6, <1>13, <1>14 DEF WriteFits
    <3>5. WriteFits(d, y, k, f)'
      BY <1>2, <1>3, <1>11, <1>13, <2>3, <3>1, <3>2, <3>3, <3>4 DEF WriteFits
    <3> QED
      BY <2>3, <3>5 DEF WritesFit
  <2> QED
    BY <1>12, <2>1, <2>2, <2>3
<1>17. (\A d \in Slots : ~IsWriting(calls[d], k, f))' => KeyIn(k, f, could[<<k, f>>])'
  BY <1>2, <1>3, <1>15 DEF KeyIn, CellIn
<1>18. CellInv(k, f)'
  BY <1>10, <1>16, <1>17 DEF CellInv
<1> QED
  BY <1>2, <1>4, <1>5, <1>18

LEMMA ServedKeeps ==
  ASSUME KeyValueInv, NEW c \in Slots, NEW x, x = calls[c], Writes(x), NEW u \in Units, NEW n,
         NEW done \in BOOLEAN, Served(c, x, u, n, done), UNCHANGED deployment
  PROVE  KeyValueInv'
<1>1. CallsInv /\ CellsInv /\ GetsInv
  BY DEF KeyValueInv
<1>2. World' /\ SameView /\ CallsInv'
  BY <1>1, ServedIsTyped
<1>3. ASSUME NEW k \in Keys, NEW f \in Fields
      PROVE  CellInv(k, f)'
  <2>1. CASE done /\ Touched(x, u, k, f)
    <3>1. Served(c, x, u, n, TRUE)
      <4>1. done = TRUE
        BY <2>1
      <4> QED
        BY <4>1
    <3> QED
      BY <1>1, <2>1, <3>1, ServedHere
  <2>2. CASE ~(done /\ Touched(x, u, k, f))
    <3>1. SameNames(k) /\ SameCell(k, f) /\ SameWriters(k, f)
      BY <1>1, <2>2, ServedElsewhere
    <3>2. CellInv(k, f)
      BY <1>1 DEF CellsInv
    <3> QED
      BY <1>1, <3>1, <3>2, CellFrame DEF SameWriters
  <2> QED
    BY <2>1, <2>2
<1>4. PICK y : /\ GoesOn(c, x, y) /\ y.phase = x.phase /\ y.attempt = x.attempt
               /\ \/ y.open = x.open /\ y.failed = x.failed
                  \/ /\ y.open = x.open \ {u}
                     /\ y.failed = IF done THEN x.failed ELSE x.phase = "units"
  BY <1>1, AnswerGives DEF Served
<1>5. \A d \in Slots : /\ SameGet(calls[d], calls'[d])
                       /\ calls'[d] = calls[d] \/ (d = c /\ (calls'[d] = y \/ calls'[d] = Free))
  <2>1. calls = [d \in Slots |-> calls[d]]
    BY <1>1 DEF CallsInv, KeyValueTypes
  <2> QED
    BY <1>1, <1>4, <2>1, GetGoesOn, Settles DEF GoesOn
<1>6. UNCHANGED could
  BY DEF Served, Answer
<1>7. ASSUME NEW d \in Slots
      PROVE  GetFits(calls[d])'
  <2>1. PICK z, w : z = calls[d] /\ w = calls'[d]
    OBVIOUS
  <2>2. GetFits(z) /\ SameGet(z, w) /\ IsCall(z) /\ InItsPlace(z)
    BY <1>1, <1>5, <2>1, SlotFacts DEF GetsInv
  <2>3. ASSUME z.op = "get", NEW k \in DOMAIN z.index, NEW f \in z.fs
        PROVE  MayRead(z, k, f)'
    <3>1. k \in Keys /\ f \in Fields /\ <<k, z.index[k]>> \in KeyNames /\ MayRead(z, k, f)
      BY <2>2, <2>3 DEF IsCall, InItsPlace, GetFits
    <3>2. CASE done /\ Touched(x, u, k, f)
      <4>1. Served(c, x, u, n, TRUE)
        <5>1. done = TRUE
          BY <3>2
        <5> QED
          BY <5>1
      <4>2. x.index[k] = z.index[k]
        <5>1. k \in DOMAIN x.index /\ InItsPlace(x)
          BY <1>1, <3>2, SlotFacts DEF Touched, WritesCell
        <5>2. <<k, x.index[k]>> \in KeyNames /\ \A m, o \in KeyNames : m[1] = o[1] => m[2] = o[2]
          BY <1>1, <5>1, SlotFacts, StatusFacts DEF InItsPlace
        <5> QED
          BY <3>1, <5>2
      <4>3. PICK i : i = x.index[k]
        OBVIOUS
      <4>4. Filled(i, f) /\ Last(values[<<i, f>>]).draft = FALSE => Last(values'[<<i, f>>]).draft = FALSE
        BY <1>1, <3>1, <3>2, <4>1, <4>3, ServedHere
      <4>5. Filled(i, f)' /\ Last(values'[<<i, f>>]).draft = FALSE
        BY <1>2, <3>1, <4>2, <4>3, <4>4 DEF MayRead, SameView, Filled
      <4>6. ASSUME NEW e \in Slots, IsWriting(calls'[e], k, f)
            PROVE  /\ IsWriting(calls[e], k, f) /\ calls'[e].op = calls[e].op
                   /\ calls'[e].finalize = calls[e].finalize /\ calls'[e].number = calls[e].number
        <5>1. CASE calls'[e] = calls[e]
          BY <4>6, <5>1
        <5>2. CASE e = c /\ calls'[e] = y
          BY <1>4, <4>6, <5>2 DEF GoesOn, SameCall, IsWriting, Writes
        <5>3. CASE calls'[e] = Free
          BY <1>1, <4>6, <5>3, FreeIsACall DEF IsWriting, Writes
        <5> QED
          BY <1>5, <5>1, <5>2, <5>3
      <4> QED
        BY <1>6, <3>1, <4>2, <4>3, <4>5, <4>6, MayReadAfter
    <3>3. CASE ~(done /\ Touched(x, u, k, f))
      <4>1. SameCell(k, f) /\ SameWriters(k, f)
        BY <1>1, <3>3, ServedElsewhere
      <4>2. CellInv(k, f)
        BY <1>1, <3>1 DEF CellsInv
      <4> QED
        BY <1>1, <3>1, <4>1, <4>2, MayReadFrame
    <3> QED
      BY <3>2, <3>3
  <2>4. GetFits(w)'
    BY <2>2, <2>3, GetStays
  <2> QED
    BY <2>1, <2>4 DEF GetFits, MayRead
<1> QED
  BY <1>2, <1>3, <1>7 DEF KeyValueInv, CellsInv, GetsInv

LEMMA ServePutKeeps ==
  ASSUME KeyValueInv, NEW c \in Slots, NEW u \in Units, NEW n, ServePut(c, u, n), UNCHANGED deployment
  PROVE  KeyValueInv'
<1>1. PICK x : x = calls[c]
  OBVIOUS
<1>2. Writes(x) /\ Served(c, x, u, n, TRUE)
  BY <1>1 DEF ServePut, Writes, Served
<1>3. PICK done \in BOOLEAN : done = TRUE
  OBVIOUS
<1>4. Served(c, x, u, n, done)
  BY <1>2, <1>3
<1> QED
  BY <1>1, <1>2, <1>4, ServedKeeps

LEMMA ServeUpdateKeeps ==
  ASSUME KeyValueInv, NEW c \in Slots, NEW u \in Units, NEW n, ServeUpdate(c, u, n), UNCHANGED deployment
  PROVE  KeyValueInv'
<1>1. PICK x : x = calls[c]
  OBVIOUS
<1>2. Writes(x) /\ x.op = "update" /\ <<c, u, n>> \in inbox
  BY <1>1 DEF ServeUpdate, Writes
<1>3. PICK done \in BOOLEAN : done = CanMerge(x, u)
  BY DEF CanMerge
<1>4. Answer(c, u, n, done)
  BY <1>1, <1>3 DEF ServeUpdate
<1>5. values' = IF done THEN Over(values, Stored(x, u)) ELSE values
  BY <1>1, <1>3 DEF ServeUpdate
<1>6. Served(c, x, u, n, done)
  BY <1>2, <1>3, <1>4, <1>5 DEF Served
<1> QED
  BY <1>1, <1>2, <1>6, ServedKeeps

-----------------------------------------------------------------------------
(* A write that ends, with its notification or without it.                 *)
Concluded(c, x, y, recorded, certain) ==
  /\ Writes(x) /\ x.phase = "units" /\ GoesOn(c, x, y) /\ y.phase \in {"tag", "ended"}
  /\ y.open = x.open /\ y.attempt = x.attempt
  /\ Outcome(c, certain) /\ UNCHANGED <<inbox, values, writes, deployment>>
  /\ IF recorded
     THEN /\ x.open = {} /\ x.failed = FALSE
          /\ NotifyDataUpdate(Partition, {x.index[k] : k \in DOMAIN x.index}, x.fs, x.finalize)
     ELSE certain = FALSE /\ UNCHANGED controllerVars

LEMMA ConcludedView ==
  ASSUME CallsInv, NEW c \in Slots, NEW x, x = calls[c], NEW y, NEW recorded \in BOOLEAN, NEW certain \in BOOLEAN,
         Concluded(c, x, y, recorded, certain)
  PROVE  /\ World' /\ KeyNames' = KeyNames
         /\ \A k, f, i : <<k, i>> \in KeyNames /\ f \in Fields =>
              /\ ~(recorded /\ WritesCell(x, k, f)) => (Filled(i, f)' <=> Filled(i, f)) /\ (IsFinal(i, f)' <=> IsFinal(i, f))
              /\ recorded /\ WritesCell(x, k, f) => Filled(i, f)' /\ (IsFinal(i, f)' <=> x.finalize = TRUE)
<1>1. CASE ~recorded
  <2>1. UNCHANGED controllerVars
    BY <1>1 DEF Concluded
  <2>2. World' /\ SameView
    BY <2>1, UnchangedView DEF CallsInv, World
  <2> QED
    BY <1>1, <2>2 DEF SameView, Filled, IsFinal
<1>2. CASE recorded
  <2>1. IsCall(x) /\ InItsPlace(x) /\ World /\ Writes(x)
    BY SlotFacts DEF Concluded
  <2>2. PICK S, fs, ready : S = {x.index[k] : k \in DOMAIN x.index} /\ fs = x.fs /\ ready = x.finalize
    OBVIOUS
  <2>3. NotifyDataUpdate(Partition, S, fs, ready)
    BY <1>2, <2>2 DEF Concluded
  <2>4. /\ S \in SUBSET Nat /\ fs \in SUBSET Fields /\ ready \in BOOLEAN
        /\ S \subseteq Status.global_indexes
    BY <2>1, <2>2, SamplesOfCall DEF IsCall
  <2>5. World' /\ KeyNames' = KeyNames /\ Notified(S, fs, ready)
    BY <2>1, <2>3, <2>4, NotifyView
  <2>6. ASSUME NEW k, NEW f, NEW i, <<k, i>> \in KeyNames
        PROVE  i \in S /\ f \in fs <=> WritesCell(x, k, f)
    <3>1. \A m, n \in KeyNames : m[1] = n[1] <=> m[2] = n[2]
      BY <2>1, StatusFacts
    <3>2. \A l \in DOMAIN x.index : <<l, x.index[l]>> \in KeyNames
      BY <2>1 DEF InItsPlace
    <3>3. ASSUME NEW l \in DOMAIN x.index, x.index[l] = i PROVE l = k
      BY <2>6, <3>1, <3>2, <3>3
    <3>4. ASSUME k \in DOMAIN x.index PROVE x.index[k] = i
      BY <2>6, <3>1, <3>2, <3>4
    <3> QED
      BY <2>1, <2>2, <3>3, <3>4 DEF WritesCell
  <2> QED
    BY <1>2, <2>2, <2>5, <2>6 DEF Notified
<1> QED
  BY <1>1, <1>2

LEMMA ConcludedIsTyped ==
  ASSUME CallsInv, NEW c \in Slots, NEW x, x = calls[c], NEW y, NEW recorded \in BOOLEAN, NEW certain \in BOOLEAN,
         Concluded(c, x, y, recorded, certain)
  PROVE  CallsInv'
<1>1. World' /\ KeyNames' = KeyNames
  BY ConcludedView
<1>2. StoreTypes'
  <2>1. StoreTypes /\ UNCHANGED <<values, writes>> /\ Outcome(c, certain)
    BY SlotFacts DEF Concluded
  <2>2. /\ could' = [e \in Keys \X Fields |-> could'[e]]
        /\ \A e \in Keys \X Fields : could'[e] \in SUBSET Histories /\ could'[e] # {}
    BY <2>1, OutcomeIs
  <2> QED
    BY <2>1, <2>2 DEF StoreTypes
<1>3. /\ IsCall(y) /\ SameCall(y, x) /\ calls' = [calls EXCEPT ![c] = Settle(c, y, inbox')] /\ InItsPlace(x)
      /\ inbox' = inbox /\ deployment' = deployment /\ Writes(x) /\ y.phase \in {"tag", "ended"}
      /\ y.open = x.open /\ y.attempt = x.attempt
  BY SlotFacts DEF Concluded, GoesOn
<1>4. /\ y.op = x.op /\ y.index = x.index /\ y.finalize = x.finalize /\ x.op # "none" /\ x.op # "get"
      /\ y.phase \in {"units", "tag", "ended"}
  BY <1>3 DEF SameCall, Writes
<1> QED
  BY <1>1, <1>2, <1>3, <1>4, CallContinues

LEMMA ConcludedElsewhere ==
  ASSUME CallsInv, NEW c \in Slots, NEW x, x = calls[c], NEW y, NEW recorded \in BOOLEAN, NEW certain \in BOOLEAN,
         Concluded(c, x, y, recorded, certain), NEW k \in Keys, NEW f \in Fields, ~WritesCell(x, k, f)
  PROVE  SameNames(k) /\ SameCell(k, f) /\ SameWriters(k, f)
<1>1. /\ KeyNames' = KeyNames
      /\ \A i : <<k, i>> \in KeyNames => (Filled(i, f)' <=> Filled(i, f)) /\ (IsFinal(i, f)' <=> IsFinal(i, f))
  BY ConcludedView
<1>2. UNCHANGED values /\ Outcome(c, certain) /\ Writes(x)
  BY DEF Concluded
<1>3. could'[<<k, f>>] = could[<<k, f>>]
  BY <1>2, OutcomeIs DEF WritesCell
<1>4. SameNames(k) /\ SameCell(k, f)
  BY <1>1, <1>2, <1>3 DEF SameNames, SameCell
<1>5. /\ SameCall(y, x) /\ calls' = [calls EXCEPT ![c] = Settle(c, y, inbox')] /\ inbox' = inbox
  BY DEF Concluded, GoesOn
<1>6. calls = [d \in Slots |-> calls[d]]
  BY DEF CallsInv, KeyValueTypes
<1>7. ~WritesCell(y, k, f) /\ ~WritesCell(Free, k, f)
  BY <1>5, FreeIsACall DEF SameCall, WritesCell, Writes
<1>8. SameWriter(c, calls[c], calls'[c], k, f)
  BY <1>5, <1>6, <1>7, Settles DEF SameWriter
<1>9. \A d \in Slots \ {c} : SameWriter(d, calls[d], calls'[d], k, f)
  BY <1>5, <1>6 DEF SameWriter, SameWrite
<1> QED
  BY <1>4, <1>8, <1>9 DEF SameWriters

(* The cells it wrote.                                                     *)
LEMMA ConcludedHere ==
  ASSUME CallsInv, CellsInv, NEW c \in Slots, NEW x, x = calls[c], NEW y, NEW recorded \in BOOLEAN,
         NEW certain \in BOOLEAN, Concluded(c, x, y, recorded, certain),
         NEW k \in Keys, NEW f \in Fields, WritesCell(x, k, f), NEW i, i = x.index[k]
  PROVE  /\ CellInv(k, f)'
         /\ could'[<<k, f>>] \subseteq could[<<k, f>>] \cup Effects(x, k, could[<<k, f>>])
         /\ \A d \in Slots : ~IsWriting(calls'[d], k, f)
         /\ Filled(i, f) => Filled(i, f)'
<1>1. PICK e, u, now, made, now1 :
        /\ e = <<i, f>> /\ u = UnitOf(i) /\ now = could[<<k, f>>] /\ made = Effects(x, k, now)
        /\ now1 = could'[<<k, f>>]
  OBVIOUS
<1>2. /\ IsCall(x) /\ InItsPlace(x) /\ CellInv(k, f) /\ WriteFits(c, x, k, f)
      /\ k \in DOMAIN x.index /\ f \in x.fs /\ x.phase = "units" /\ Writes(x)
  BY SlotFacts DEF CellsInv, CellInv, WritesFit, WritesCell, Concluded
<1>3. now1 = IF certain THEN made ELSE now \cup made
  <2>1. Outcome(c, certain)
    BY DEF Concluded
  <2>2. \A l \in Keys, g \in Fields :
          could'[<<l, g>>] =
            IF l \notin DOMAIN calls[c].index \/ g \notin calls[c].fs THEN could[<<l, g>>]
            ELSE IF certain THEN Effects(calls[c], l, could[<<l, g>>])
            ELSE could[<<l, g>>] \cup Effects(calls[c], l, could[<<l, g>>])
    BY <2>1, OutcomeIs
  <2> QED
    BY <1>1, <1>2, <2>2
<1>4. <<k, i>> \in KeyNames /\ \A j : <<k, j>> \in KeyNames => j = i
  <2>1. \A m, o \in KeyNames : m[1] = o[1] => m[2] = o[2]
    BY SlotFacts, StatusFacts
  <2>2. <<k, i>> \in KeyNames
    BY <1>2 DEF InItsPlace
  <2> QED
    BY <2>1, <2>2
<1>5. /\ KeyNames' = KeyNames
      /\ ~recorded => (Filled(i, f)' <=> Filled(i, f)) /\ (IsFinal(i, f)' <=> IsFinal(i, f))
      /\ recorded => Filled(i, f)' /\ (IsFinal(i, f)' <=> x.finalize = TRUE)
  BY <1>4, ConcludedView
<1>6. /\ values' = values /\ inbox' = inbox
      /\ ~recorded => certain = FALSE
      /\ recorded => x.open = {} /\ x.failed = FALSE
      /\ GoesOn(c, x, y) /\ y.phase \in {"tag", "ended"} /\ deployment' = deployment
  BY DEF Concluded
<1>7. PICK left \in BOOLEAN : left <=> \E n : <<c, u, n>> \in inbox
  OBVIOUS
<1>8. /\ CellIn(i, f, now \cup made)
      /\ x.op = "update" => (e \in x.held <=> Filled(i, f))
      /\ x.op = "update" /\ left => CellIn(i, f, now)
      /\ recorded => e \in DOMAIN values /\ values[e] \in made /\ (x.op = "update" => ~left)
  <2>1. CellIn(i, f, now \cup made) /\ (x.op = "update" => (e \in x.held <=> Filled(i, f)))
    BY <1>1, <1>2 DEF WriteFits
  <2>2. x.op = "update" /\ left => CellIn(i, f, now)
    BY <1>1, <1>2, <1>7 DEF WriteFits
  <2>3. u \notin x.open /\ x.failed = FALSE =>
          e \in DOMAIN values /\ values[e] \in made /\ (x.op = "update" => ~left)
    BY <1>1, <1>2, <1>7 DEF WriteFits
  <2> QED
    BY <1>6, <2>1, <2>2, <2>3
<1>9. now \in SUBSET Histories /\ now # {}
  BY <1>1, SlotFacts DEF StoreTypes
<1>10. /\ x.finalize = TRUE => \A w \in made : Last(w).draft = FALSE
       /\ x.op = "put" => Merged(x, k, << >>, FALSE) \in made
  <2>1. /\ x.finalize = TRUE => \A w \in Effects(x, k, now) : Last(w).draft = FALSE
        /\ now # {} /\ x.op = "put" => Merged(x, k, << >>, FALSE) \in Effects(x, k, now)
    BY <1>2, <1>9, EffectsTyped, Zenon
  <2> QED
    BY <1>1, <1>9, <2>1, Zenon
<1>11. IsStored(k, f)'
  <2> SUFFICES ASSUME NEW j, <<k, j>> \in KeyNames', Filled(j, f)'
               PROVE  <<j, f>> \in DOMAIN values' /\ (IsFinal(j, f)' => Last(values'[<<j, f>>]).draft = FALSE)
    BY DEF IsStored
  <2>1. j = i
    BY <1>4, <1>5
  <2>2. CASE recorded
    BY <1>1, <1>5, <1>6, <1>8, <1>10, <2>1, <2>2
  <2>3. CASE ~recorded
    BY <1>2, <1>4, <1>5, <1>6, <2>1, <2>3 DEF CellInv, IsStored
  <2> QED
    BY <2>2, <2>3
<1>12. KeyIn(k, f, now1)'
  <2>1. CellIn(i, f, now1)'
    <3>1. CASE recorded
      BY <1>1, <1>3, <1>5, <1>6, <1>8, <3>1 DEF CellIn
    <3>2. CASE ~recorded
      BY <1>3, <1>5, <1>6, <1>8, <3>2 DEF CellIn
    <3> QED
      BY <3>1, <3>2
  <2> QED
    BY <1>4, <1>5, <2>1 DEF KeyIn
<1>13. /\ calls'[c] = y \/ calls'[c] = Free
       /\ \A d \in Slots \ {c} : calls'[d] = calls[d]
  <2>1. calls = [d \in Slots |-> calls[d]]
    BY DEF CallsInv, KeyValueTypes
  <2> QED
    BY <1>6, <2>1, Settles DEF GoesOn
<1>14. ASSUME NEW d \in Slots, d # c PROVE ~(Writes(calls'[d]) /\ k \in DOMAIN calls'[d].index)
  <2>1. OneWriterAKey
    BY DEF CallsInv
  <2> QED
    BY <1>2, <1>13, <1>14, <2>1 DEF OneWriterAKey
<1>15. \A d \in Slots : ~IsWriting(calls'[d], k, f)
  BY <1>6, <1>13, <1>14, FreeIsACall DEF IsWriting, Writes
<1>16. /\ y.op = x.op /\ y.index = x.index /\ y.fs = x.fs /\ y.held = x.held /\ y.finalize = x.finalize
       /\ y.number = x.number
  BY <1>6 DEF GoesOn, SameCall
<1>17. \A old, held : Merged(y, k, old, held) = Merged(x, k, old, held)
  BY <1>16, SameWriteMerges
<1>18. WriteFits(c, y, k, f)'
  <2>1. y.index[k] = i /\ UnitOf(i)' = u
    BY <1>1, <1>6, <1>16 DEF UnitOf, NumUnits
  <2>2. ASSUME x.op = "update", left
        PROVE  /\ e \in x.held <=> Filled(i, f)'
               /\ Filled(i, f)' => Merged(x, k, values'[e], TRUE) \in now1
               /\ ~Filled(i, f)' => Merged(x, k, << >>, FALSE) \in now1
    <3>1. ~recorded /\ (Filled(i, f)' <=> Filled(i, f)) /\ CellIn(i, f, now) /\ now1 = now \cup made
      BY <1>3, <1>5, <1>6, <1>8, <2>2
    <3>2. CASE Filled(i, f)
      <4>1. values[e] \in now
        BY <1>1, <3>1, <3>2 DEF CellIn
      <4>2. values[e] # << >>
        <5>1. e \in DOMAIN values
          BY <1>1, <1>2, <1>4, <3>2 DEF CellInv, IsStored
        <5> QED
          BY <5>1, SlotFacts DEF StoreTypes
      <4>3. \A v \in now : v # << >> => Merged(x, k, v, TRUE) \in Effects(x, k, now)
        BY EffectsAre
      <4>4. Merged(x, k, values[e], TRUE) \in made
        BY <1>1, <4>1, <4>2, <4>3
      <4> QED
        BY <1>6, <1>8, <2>2, <3>1, <3>2, <4>4
    <3>3. CASE ~Filled(i, f)
      <4>1. << >> \in now
        BY <3>1, <3>3 DEF CellIn
      <4>2. Merged(x, k, << >>, FALSE) \in Effects(x, k, now)
        BY <4>1, EffectsAre
      <4> QED
        BY <1>1, <1>8, <2>2, <3>1, <3>3, <4>2
    <3> QED
      BY <3>2, <3>3
  <2>3. x.op = "put" => Merged(x, k, << >>, FALSE) \in now1
    BY <1>3, <1>10
  <2>4. (\E n : <<c, u, n>> \in inbox') <=> left
    BY <1>6, <1>7
  <2>5. y.phase # "units" /\ could'[<<k, f>>] = now1
    BY <1>1, <1>6
  <2>6. y.op = "update" /\ (\E n : <<c, u, n>> \in inbox') =>
          /\ <<i, f>> \in y.held <=> Filled(i, f)'
          /\ Filled(i, f)' => Merged(y, k, values'[<<i, f>>], TRUE) \in now1
          /\ ~Filled(i, f)' => Merged(y, k, << >>, FALSE) \in now1
    BY <1>1, <1>16, <1>17, <2>2, <2>4
  <2>7. y.op = "put" => Merged(y, k, << >>, FALSE) \in now1
    BY <1>16, <1>17, <2>3
  <2> QED
    BY <2>1, <2>5, <2>6, <2>7 DEF WriteFits
<1>19. ASSUME NEW d \in Slots PROVE WritesFit(d, calls[d], k, f)'
  <2>1. CASE d # c
    BY <1>14, <2>1 DEF WritesFit, Writes
  <2>2. CASE d = c /\ calls'[d] = Free
    BY <2>2, FreeIsACall DEF WritesFit, Writes
  <2>3. CASE d = c /\ calls'[d] = y
    BY <1>18, <2>3 DEF WritesFit
  <2> QED
    BY <1>13, <2>1, <2>2, <2>3
<1>20. (\A d \in Slots : ~IsWriting(calls[d], k, f))' => KeyIn(k, f, could[<<k, f>>])'
  BY <1>1, <1>12 DEF KeyIn, CellIn
<1>21. CellInv(k, f)'
  BY <1>11, <1>19, <1>20 DEF CellInv
<1>22. now1 \subseteq now \cup made /\ (Filled(i, f) => Filled(i, f)')
  BY <1>3, <1>5
<1> QED
  BY <1>1, <1>15, <1>21, <1>22

LEMMA ConcludedKeeps ==
  ASSUME KeyValueInv, NEW c \in Slots, NEW x, x = calls[c], NEW y, NEW recorded \in BOOLEAN,
         NEW certain \in BOOLEAN, Concluded(c, x, y, recorded, certain)
  PROVE  KeyValueInv'
<1>1. CallsInv /\ CellsInv /\ GetsInv
  BY DEF KeyValueInv
<1>2. CallsInv'
  BY <1>1, ConcludedIsTyped
<1>3. ASSUME NEW k \in Keys, NEW f \in Fields
      PROVE  CellInv(k, f)'
  <2>1. CASE WritesCell(x, k, f)
    BY <1>1, <2>1, ConcludedHere
  <2>2. CASE ~WritesCell(x, k, f)
    <3>1. SameNames(k) /\ SameCell(k, f) /\ SameWriters(k, f)
      BY <1>1, <2>2, ConcludedElsewhere
    <3>2. CellInv(k, f) /\ UNCHANGED deployment
      BY <1>1 DEF CellsInv, Concluded
    <3> QED
      BY <1>1, <3>1, <3>2, CellFrame DEF SameWriters
  <2> QED
    BY <2>1, <2>2
<1>4. \A d \in Slots : SameGet(calls[d], calls'[d])
  BY <1>1, GetGoesOn DEF Concluded
<1>5. ASSUME NEW d \in Slots
      PROVE  GetFits(calls[d])'
  <2>1. PICK z, w : z = calls[d] /\ w = calls'[d]
    OBVIOUS
  <2>2. GetFits(z) /\ SameGet(z, w) /\ IsCall(z) /\ InItsPlace(z)
    BY <1>1, <1>4, <2>1, SlotFacts DEF GetsInv
  <2>3. ASSUME z.op = "get", NEW k \in DOMAIN z.index, NEW f \in z.fs
        PROVE  MayRead(z, k, f)'
    <3>1. k \in Keys /\ f \in Fields /\ <<k, z.index[k]>> \in KeyNames /\ MayRead(z, k, f)
      BY <2>2, <2>3 DEF IsCall, InItsPlace, GetFits
    <3>2. CASE WritesCell(x, k, f)
      <4>1. PICK i : i = x.index[k]
        OBVIOUS
      <4>2. i = z.index[k]
        <5>1. k \in DOMAIN x.index /\ InItsPlace(x)
          BY <1>1, <3>2, SlotFacts DEF WritesCell
        <5>2. <<k, x.index[k]>> \in KeyNames /\ \A m, o \in KeyNames : m[1] = o[1] => m[2] = o[2]
          BY <1>1, <5>1, SlotFacts, StatusFacts DEF InItsPlace
        <5> QED
          BY <3>1, <4>1, <5>2
      <4>3. /\ could'[<<k, f>>] \subseteq could[<<k, f>>] \cup Effects(x, k, could[<<k, f>>])
            /\ \A e \in Slots : ~IsWriting(calls'[e], k, f)
            /\ Filled(i, f) => Filled(i, f)'
        BY <1>1, <3>1, <3>2, <4>1, ConcludedHere
      <4>4. IsWriting(calls[c], k, f)
        BY <3>2 DEF IsWriting, WritesCell, Concluded
      <4>5. could'[<<k, f>>] \subseteq z.may[<<k, f>>]
        BY <3>1, <4>3, <4>4 DEF MayRead
      <4>6. Filled(i, f)' /\ Last(values'[<<i, f>>]).draft = FALSE
        BY <3>1, <4>2, <4>3 DEF MayRead, Concluded
      <4>7. ASSUME NEW e \in Slots
            PROVE  (IsWriting(calls[e], k, f) => Effects(calls[e], k, could[<<k, f>>]) \subseteq z.may[<<k, f>>])'
        BY <4>3 DEF IsWriting, Writes
      <4> QED
        BY <4>2, <4>5, <4>6, <4>7 DEF MayRead
    <3>3. CASE ~WritesCell(x, k, f)
      <4>1. SameCell(k, f) /\ SameWriters(k, f)
        BY <1>1, <3>1, <3>3, ConcludedElsewhere
      <4>2. CellInv(k, f)
        BY <1>1, <3>1 DEF CellsInv
      <4> QED
        BY <1>1, <3>1, <4>1, <4>2, MayReadFrame
    <3> QED
      BY <3>2, <3>3
  <2>4. GetFits(w)'
    BY <2>2, <2>3, GetStays
  <2> QED
    BY <2>1, <2>4 DEF GetFits, MayRead
<1> QED
  BY <1>2, <1>3, <1>5 DEF KeyValueInv, CellsInv, GetsInv

LEMMA NotifyWrittenKeeps ==
  ASSUME KeyValueInv, NEW c \in Slots, NotifyWritten(c), UNCHANGED deployment
  PROVE  KeyValueInv'
<1>1. CallsInv
  BY DEF KeyValueInv
<1>2. PICK x : x = calls[c]
  OBVIOUS
<1>3. IsCall(x) /\ Writes(x) /\ x.phase = "units" /\ x.open = {} /\ x.failed = FALSE
  BY <1>1, <1>2, SlotFacts DEF NotifyWritten, Writes, IsCall
<1>4. PICK recorded \in BOOLEAN, acked \in BOOLEAN :
        /\ IF recorded
           THEN NotifyDataUpdate(Partition, {calls[c].index[k] : k \in KeysOf(calls[c])}, calls[c].fs, Ready(calls[c]))
           ELSE UNCHANGED controllerVars
        /\ Outcome(c, recorded /\ acked)
        /\ IF calls[c].op = "put" /\ acked
           THEN calls' = [calls EXCEPT ![c].phase = "tag"]
           ELSE End(c)
  BY Zenon DEF NotifyWritten
<1>5. PICK certain \in BOOLEAN : certain = (recorded /\ acked)
  OBVIOUS
<1>6. Outcome(c, certain) /\ UNCHANGED <<inbox, values, writes, deployment>>
  BY <1>4, <1>5 DEF NotifyWritten
<1>7. IF recorded
      THEN NotifyDataUpdate(Partition, {x.index[k] : k \in DOMAIN x.index}, x.fs, x.finalize)
      ELSE UNCHANGED controllerVars
  BY <1>2, <1>4 DEF KeysOf, Ready
<1>8. PICK phase \in {"tag", "ended"} : phase = IF x.op = "put" /\ acked THEN "tag" ELSE "ended"
  OBVIOUS
<1>9. PICK y : /\ y = [x EXCEPT !.phase = phase] /\ IsCall(y) /\ SameCall(y, x) /\ y.phase = phase
               /\ y.open = x.open /\ y.attempt = x.attempt /\ y.failed = x.failed
  <2>1. IsCall(x)
    BY <1>3
  <2>2. PICK y : Moved(y, x, phase)
    BY <1>1, <2>1, EndingIs, Zenon
  <2> QED
    BY <2>2 DEF Moved
<1>10. calls' = [calls EXCEPT ![c] = Settle(c, y, inbox')]
  <2>1. CASE x.op = "put" /\ acked
    <3>1. Settle(c, y, inbox') = y
      BY <1>8, <1>9, <2>1 DEF Settle
    <3>2. calls' = [calls EXCEPT ![c] = y]
      BY <1>2, <1>4, <1>8, <1>9, <2>1
    <3> QED
      BY <3>1, <3>2
  <2>2. CASE ~(x.op = "put" /\ acked)
    BY <1>2, <1>4, <1>6, <1>8, <1>9, <2>2 DEF End
  <2> QED
    BY <2>1, <2>2
<1>11. ~recorded => certain = FALSE
  BY <1>5
<1>12. Concluded(c, x, y, recorded, certain)
  BY <1>3, <1>6, <1>7, <1>8, <1>9, <1>10, <1>11 DEF Concluded, GoesOn
<1> QED
  BY <1>2, <1>12, ConcludedKeeps

LEMMA FailKeeps ==
  ASSUME KeyValueInv, NEW c \in Slots, Fail(c), UNCHANGED deployment
  PROVE  KeyValueInv'
<1>1. CallsInv
  BY DEF KeyValueInv
<1>2. PICK x : x = calls[c]
  OBVIOUS
<1>3. IsCall(x) /\ Writes(x) /\ x.phase = "units"
  BY <1>1, <1>2, SlotFacts DEF Fail, Writes
<1>4. PICK y : y = [x EXCEPT !.phase = "ended", !.failed = FALSE]
  OBVIOUS
<1>5. y = [op |-> x.op, phase |-> "ended", finalize |-> x.finalize, index |-> x.index, fs |-> x.fs,
           held |-> x.held, number |-> x.number, open |-> x.open, attempt |-> x.attempt,
           failed |-> FALSE, got |-> x.got, may |-> x.may]
  BY <1>3, <1>4 DEF IsCall
<1>6. IsCall(y) /\ SameCall(y, x) /\ y.phase = "ended" /\ y.open = x.open /\ y.attempt = x.attempt
  BY <1>3, <1>5 DEF IsCall, SameCall
<1>7. calls' = [calls EXCEPT ![c] = Settle(c, y, inbox')]
  BY <1>2, <1>4 DEF Fail
<1>8. PICK recorded, certain \in BOOLEAN : recorded = FALSE /\ certain = FALSE
  OBVIOUS
<1>9. Outcome(c, certain) /\ UNCHANGED <<controllerVars, inbox, values, writes, deployment>>
  BY <1>8 DEF Fail
<1>10. Concluded(c, x, y, recorded, certain)
  BY <1>3, <1>6, <1>7, <1>8, <1>9 DEF Concluded, GoesOn
<1> QED
  BY <1>2, <1>8, <1>10, ConcludedKeeps

-----------------------------------------------------------------------------
(* What a beginning write changes.                                         *)
Informed(x, keys, fs, z, w) ==
  /\ IsCall(w) /\ w.op = z.op /\ w.phase = z.phase /\ w.finalize = z.finalize /\ w.index = z.index /\ w.fs = z.fs
  /\ w.held = z.held /\ w.number = z.number /\ w.open = z.open /\ w.failed = z.failed /\ w.got = z.got
  /\ w = z \/ \E may : w = [z EXCEPT !.may = may]
  /\ z = Free => w = Free
  /\ z.may = [e \in DOMAIN z.may |-> z.may[e]] =>
       /\ w.may = [e \in DOMAIN z.may |-> w.may[e]]
       /\ \A e \in DOMAIN z.may :
            /\ z.may[e] \subseteq w.may[e]
            /\ e[1] \in keys /\ e[2] \in fs => Effects(x, e[1], could[e]) \subseteq w.may[e]

(* A step that begins a write x in slot c.                                 *)
Begins(c, x, op, keys, fs, finalize) ==
  /\ Began(x, op, keys, fs, finalize)'
  /\ World' /\ KeyNames \subseteq KeyNames'
  /\ \A n \in KeyNames' : n \notin KeyNames => n[1] \in keys /\ (\A m \in KeyNames : m[1] # n[1]) /\ \A f \in Fields : ~Filled(n[2], f)
  /\ Status'.field_metadata = Status.field_metadata /\ Status'.production_status = Status.production_status
  /\ calls' = [d \in Slots |-> calls'[d]] /\ calls'[c] = x
  /\ \A r \in inbox' : r \in inbox \/ (r \in {c} \X x.open \X {1})
  /\ \A d \in Slots \ {c} : Informed(x, keys, fs, calls[d], calls'[d])
  /\ \A d \in Slots : Writes(calls[d]) => DOMAIN calls[d].index \cap keys = {}
  /\ calls[c] = Free /\ UNCHANGED <<values, could, deployment>> /\ writes' = writes + 1

LEMMA InformedIs ==
  ASSUME CallsInv, NEW x, NEW keys, NEW fs, NEW z, IsCall(z), NEW w,
         IF fs = {} THEN w = z
         ELSE LET may == [e \in DOMAIN z.may |->
                            IF e[1] \in keys /\ e[2] \in fs
                            THEN z.may[e] \cup Effects(x, e[1], could[e]) ELSE z.may[e]]
              IN  w = [z EXCEPT !.may = may]
  PROVE  Informed(x, keys, fs, z, w)
<1>1. CASE fs = {}
  BY <1>1 DEF Informed
<1>2. CASE fs # {}
  <2>1. PICK may : may = [e \in DOMAIN z.may |->
                            IF e[1] \in keys /\ e[2] \in fs
                            THEN z.may[e] \cup Effects(x, e[1], could[e]) ELSE z.may[e]]
    OBVIOUS
  <2>2. w = [z EXCEPT !.may = may]
    BY <1>2, <2>1
  <2>3. w = [op |-> z.op, phase |-> z.phase, finalize |-> z.finalize, index |-> z.index, fs |-> z.fs,
             held |-> z.held, number |-> z.number, open |-> z.open, attempt |-> z.attempt,
             failed |-> z.failed, got |-> z.got, may |-> may]
    BY <2>2 DEF IsCall
  <2>4. IsCall(w)
    BY <2>3 DEF IsCall
  <2>5. ASSUME z = Free PROVE w = Free
    <3>1. DOMAIN z.may = {} /\ z.may = << >>
      BY <2>5, FreeIsACall
    <3>2. may = [e \in {} |-> z.may[e]]
      BY <2>1, <3>1
    <3>3. may = << >>
      BY <3>2
    <3>4. w = z
      BY <2>3, <3>1, <3>3 DEF IsCall
    <3> QED
      BY <2>5, <3>4
  <2>6. /\ may = [e \in DOMAIN z.may |-> may[e]]
        /\ \A e \in DOMAIN z.may :
             /\ z.may[e] \subseteq may[e]
             /\ e[1] \in keys /\ e[2] \in fs => Effects(x, e[1], could[e]) \subseteq may[e]
    BY <2>1
  <2>7. w.may = may
    BY <2>3
  <2> QED
    BY <2>2, <2>3, <2>4, <2>5, <2>6, <2>7 DEF Informed
<1> QED
  BY <1>1, <1>2

LEMMA WriteBegins ==
  ASSUME CallsInv, Patient = TRUE, UNCHANGED deployment, NEW c \in Slots, NEW op \in {"put", "update"},
         NEW keys \in SUBSET Keys, keys # {}, NEW fs \in SUBSET Fields, NEW finalize \in BOOLEAN,
         BeginWrite(c, op, keys, fs, finalize)
  PROVE  \E x : Begins(c, x, op, keys, fs, finalize)
<1>1. PICK x : Begun(c, x, op, keys, fs, finalize)
  BY BeginWriteIs
<1>2. ASSUME NEW d \in Slots \ {c} PROVE Informed(x, keys, fs, calls[d], calls'[d])
  <2>1. PICK z, w : z = calls[d] /\ w = calls'[d]
    OBVIOUS
  <2>2. IsCall(z)
    BY <2>1, SlotFacts
  <2>3. IF fs = {} THEN w = z
        ELSE LET may == [e \in DOMAIN z.may |->
                           IF e[1] \in keys /\ e[2] \in fs
                           THEN z.may[e] \cup Effects(x, e[1], could[e]) ELSE z.may[e]]
             IN  w = [z EXCEPT !.may = may]
    BY <1>1, <2>1, Zenon DEF Begun
  <2>4. Informed(x, keys, fs, z, w)
    BY <2>2, <2>3, InformedIs, Zenon
  <2> QED
    BY <2>1, <2>4
<1>3. Registered(keys) /\ World
  BY SlotFacts DEF BeginWrite
<1>4. /\ World' /\ KeyNames \subseteq KeyNames'
      /\ \A n \in KeyNames' : n \notin KeyNames =>
           n[1] \in keys /\ (\A m \in KeyNames : m[1] # n[1]) /\ \A f \in Fields : ~Filled(n[2], f)
      /\ Status'.field_metadata = Status.field_metadata /\ Status'.production_status = Status.production_status
  BY <1>3, RegisteredView
<1>5. MayWrite(keys) /\ calls[c] = Free /\ UNCHANGED <<values, could>> /\ writes' = writes + 1
  BY DEF BeginWrite
<1>6. \A d \in Slots : Writes(calls[d]) => DOMAIN calls[d].index \cap keys = {}
  BY <1>5 DEF MayWrite, At, Writes, KeysOf
<1>7. \A r \in inbox' : r \in inbox \/ (r \in {c} \X x.open \X {1})
  BY <1>1 DEF Begun
<1> QED
  BY <1>1, <1>2, <1>4, <1>5, <1>6, <1>7 DEF Begins, Begun

BeginsAs(x, op, keys, fs, finalize) ==
  /\ UNCHANGED <<deployment, values, could>> /\ IsCall(x) /\ x.op = op /\ Writes(x) /\ x.finalize = finalize
  /\ x.phase = (IF fs = {} THEN "tag" ELSE "units") /\ DOMAIN x.index = keys /\ x.fs = fs
  /\ x.open = (IF fs = {} THEN {} ELSE Targets(x)) /\ x.open \subseteq Units
  /\ \A u \in x.open : x.attempt[u] = 1
  /\ \A k \in keys : <<k, x.index[k]>> \in KeyNames'
  /\ op = "update" =>
       \A k \in keys, f \in fs : <<x.index[k], f>> \in x.held <=> Filled(x.index[k], f)
  /\ \A i, f : (Filled(i, f)' <=> Filled(i, f)) /\ (IsFinal(i, f)' <=> IsFinal(i, f))

LEMMA BeganFacts ==
  ASSUME CallsInv, NEW c \in Slots, NEW x, NEW op \in {"put", "update"}, NEW keys \in SUBSET Keys,
         NEW fs \in SUBSET Fields, NEW finalize, Begins(c, x, op, keys, fs, finalize)
  PROVE  BeginsAs(x, op, keys, fs, finalize)
<1>1. UNCHANGED <<deployment, values, could>>
  BY DEF Begins
<1>2. Units' = Units /\ Targets(x)' = Targets(x)
  BY <1>1 DEF Units, NumUnits, Targets, UnitOf
<1>3. Began(x, op, keys, fs, finalize)' /\ Status'.field_metadata = Status.field_metadata
      /\ Status'.production_status = Status.production_status
  BY DEF Begins
<1>4. \A i, f : (Filled(i, f)' <=> Filled(i, f)) /\ (IsFinal(i, f)' <=> IsFinal(i, f))
  BY <1>3 DEF Filled, IsFinal
<1>5. IsCall(x)
  BY <1>2, <1>3 DEF Began, IsCall
<1>6. /\ x.op = op /\ x.finalize = finalize /\ x.phase = (IF fs = {} THEN "tag" ELSE "units")
      /\ DOMAIN x.index = keys /\ x.fs = fs /\ x.open = (IF fs = {} THEN {} ELSE Targets(x))
      /\ \A u \in x.open : x.attempt[u] = 1
      /\ \A k \in keys : <<k, x.index[k]>> \in KeyNames'
  BY <1>2, <1>3 DEF Began
<1>7. ASSUME op = "update", NEW k \in keys, NEW f \in fs
      PROVE  <<x.index[k], f>> \in x.held <=> Filled(x.index[k], f)
  <2>1. x.held = Held(Status', {x.index[l] : l \in keys}, fs)
    BY <1>3, <1>7 DEF Began, Held, Described
  <2>2. x.held = {e \in {x.index[l] : l \in keys} \X fs : e[2] \in Described(Status', e[1])}
    BY <2>1 DEF Held
  <2> QED
    BY <1>3, <2>2 DEF Described, Filled
<1> QED
  BY <1>1, <1>4, <1>5, <1>6, <1>7 DEF BeginsAs, IsCall, Writes

LEMMA BeginElsewhere ==
  ASSUME CallsInv, NEW c \in Slots, NEW x, NEW op \in {"put", "update"}, NEW keys \in SUBSET Keys,
         NEW fs \in SUBSET Fields, NEW finalize, Begins(c, x, op, keys, fs, finalize),
         NEW k \in Keys, NEW f \in Fields, CellInv(k, f), k \notin keys
  PROVE  CellInv(k, f)'
<1>1. BeginsAs(x, op, keys, fs, finalize)
  BY BeganFacts, Zenon
<1>2. /\ UNCHANGED <<deployment, values, could>> /\ DOMAIN x.index = keys
      /\ \A i : (Filled(i, f)' <=> Filled(i, f)) /\ (IsFinal(i, f)' <=> IsFinal(i, f))
  BY <1>1, Zenon DEF BeginsAs
<1>3. SameNames(k)
  <2>1. \A i : <<k, i>>[1] = k
    OBVIOUS
  <2> QED
    BY <2>1 DEF SameNames, Begins
<1>4. SameCell(k, f)
  BY <1>2 DEF SameCell
<1>5. SameWriter(c, calls[c], calls'[c], k, f)
  <2>1. calls[c] = Free /\ calls'[c] = x
    BY DEF Begins
  <2>2. ~WritesCell(Free, k, f)
    BY FreeIsACall DEF WritesCell, Writes
  <2> QED
    BY <1>2, <2>1, <2>2 DEF SameWriter, WritesCell
<1>6. ASSUME NEW d \in Slots \ {c} PROVE SameWriter(d, calls[d], calls'[d], k, f)
  <2>1. Informed(x, keys, fs, calls[d], calls'[d])
    BY DEF Begins
  <2>2. SameWrite(calls[d], calls'[d], k)
    BY <2>1 DEF Informed, SameWrite
  <2>3. ASSUME NEW u, NEW n, <<d, u, n>> \in inbox' PROVE <<d, u, n>> \in inbox
    <3>1. <<d, u, n>> \notin {c} \X x.open \X {1}
      OBVIOUS
    <3> QED
      BY <2>3, <3>1 DEF Begins
  <2> QED
    BY <2>2, <2>3 DEF SameWriter
<1> QED
  BY <1>2, <1>3, <1>4, <1>5, <1>6, CellFrame

(* The cells of the keys: none of them was being written.                  *)
LEMMA BeginHere ==
  ASSUME CallsInv, NEW c \in Slots, NEW x, NEW op \in {"put", "update"}, NEW keys \in SUBSET Keys,
         NEW fs \in SUBSET Fields, NEW finalize, Begins(c, x, op, keys, fs, finalize),
         NEW k \in Keys, NEW f \in Fields, CellInv(k, f), k \in keys
  PROVE  CellInv(k, f)'
<1>1. BeginsAs(x, op, keys, fs, finalize)
  BY BeganFacts, Zenon
<1>2. /\ UNCHANGED <<deployment, values, could>> /\ IsCall(x) /\ x.op = op /\ Writes(x)
      /\ x.phase = (IF fs = {} THEN "tag" ELSE "units") /\ DOMAIN x.index = keys /\ x.fs = fs
      /\ x.open = (IF fs = {} THEN {} ELSE Targets(x))
      /\ \A l \in keys : <<l, x.index[l]>> \in KeyNames'
      /\ op = "update" =>
           \A l \in keys, g \in fs : <<x.index[l], g>> \in x.held <=> Filled(x.index[l], g)
      /\ \A i : (Filled(i, f)' <=> Filled(i, f)) /\ (IsFinal(i, f)' <=> IsFinal(i, f))
  BY <1>1, Zenon DEF BeginsAs
<1>3. PICK now : now = could[<<k, f>>]
  OBVIOUS
<1>4. KeyIn(k, f, now)
  <2>1. \A d \in Slots : Writes(calls[d]) => k \notin DOMAIN calls[d].index
    BY DEF Begins
  <2> QED
    BY <1>3, <2>1 DEF CellInv, IsWriting
<1>5. ASSUME NEW i, <<k, i>> \in KeyNames', <<k, i>> \notin KeyNames
      PROVE  ~Filled(i, f) /\ \A j : <<k, j>> \notin KeyNames
  <2>1. PICK n : n = <<k, i>>
    OBVIOUS
  <2>2. (\A m \in KeyNames : m[1] # n[1]) /\ ~Filled(n[2], f)
    BY <1>5, <2>1 DEF Begins
  <2>3. n[1] = k /\ n[2] = i /\ \A j : <<k, j>>[1] = k
    BY <2>1
  <2> QED
    BY <2>2, <2>3
<1>6. ASSUME NEW i, <<k, i>> \in KeyNames' PROVE CellIn(i, f, now)
  <2>1. CASE <<k, i>> \in KeyNames
    BY <1>4, <2>1 DEF KeyIn
  <2>2. CASE <<k, i>> \notin KeyNames
    BY <1>4, <1>5, <1>6, <2>2 DEF KeyIn, CellIn
  <2> QED
    BY <2>1, <2>2
<1>7. IsStored(k, f)'
  <2> SUFFICES ASSUME NEW i, <<k, i>> \in KeyNames', Filled(i, f)'
               PROVE  /\ <<i, f>> \in DOMAIN values'
                      /\ IsFinal(i, f)' => Last(values'[<<i, f>>]).draft = FALSE
    BY DEF IsStored
  <2>1. <<k, i>> \in KeyNames /\ Filled(i, f)
    BY <1>2, <1>5
  <2> QED
    BY <1>2, <2>1 DEF CellInv, IsStored
<1>8. ASSUME NEW i, <<k, i>> \in KeyNames', NEW X, now \subseteq X PROVE CellIn(i, f, X)'
  BY <1>2, <1>6, <1>8 DEF CellIn
<1>9. KeyIn(k, f, could[<<k, f>>])'
  <2>1. KeyIn(k, f, now)'
    BY <1>2, <1>8 DEF KeyIn
  <2> QED
    BY <1>2, <1>3, <2>1 DEF KeyIn, CellIn
<1>10. ASSUME NEW d \in Slots \ {c} PROVE WritesFit(d, calls[d], k, f)'
  <2>1. Writes(calls[d]) => k \notin DOMAIN calls[d].index
    BY DEF Begins
  <2>2. calls'[d].op = calls[d].op /\ calls'[d].index = calls[d].index
    BY DEF Begins, Informed
  <2> QED
    BY <2>1, <2>2 DEF WritesFit, Writes
<1>11. WritesFit(c, x, k, f)'
  <2> SUFFICES ASSUME f \in fs PROVE WriteFits(c, x, k, f)'
    BY <1>2 DEF WritesFit
  <2>1. x.phase = "units" /\ <<k, x.index[k]>> \in KeyNames'
    BY <1>2
  <2>2. PICK i : i = x.index[k]
    OBVIOUS
  <2>3. CellIn(i, f, now)'
    BY <1>8, <2>1, <2>2
  <2>4. PICK effects : effects = Effects(x, k, now)
    OBVIOUS
  <2>5. CellIn(i, f, now \cup effects)'
    <3>1. PICK X : X = now \cup effects
      OBVIOUS
    <3>2. CellIn(i, f, X)'
      BY <1>8, <2>1, <2>2, <3>1
    <3> QED
      BY <3>1, <3>2
  <2>6. UnitOf(i)' \in x.open
    BY <1>2, <2>2 DEF Targets, UnitOf, NumUnits, KeysOf
  <2>7. x.op = "update" => (<<i, f>> \in x.held <=> Filled(i, f)')
    BY <1>2, <2>2
  <2>8. now = could'[<<k, f>>]
    BY <1>2, <1>3
  <2>9. effects = Effects(x, k, could'[<<k, f>>])
    BY <2>4, <2>8
  <2> QED
    BY <2>1, <2>2, <2>3, <2>5, <2>6, <2>7, <2>8, <2>9 DEF WriteFits, CellIn
<1>12. WritesFit(c, calls[c], k, f)'
  <2>1. calls'[c] = x
    BY DEF Begins
  <2> QED
    BY <1>11, <2>1 DEF WritesFit, WriteFits
<1> QED
  BY <1>7, <1>9, <1>10, <1>12 DEF CellInv

LEMMA BeginIsTyped ==
  ASSUME CallsInv, NEW c \in Slots, NEW x, NEW op \in {"put", "update"}, NEW keys \in SUBSET Keys,
         NEW fs \in SUBSET Fields, NEW finalize, op = "put" => finalize = TRUE,
         Begins(c, x, op, keys, fs, finalize)
  PROVE  CallsInv'
<1>1. BeginsAs(x, op, keys, fs, finalize)
  BY BeganFacts, Zenon
<1>2. /\ UNCHANGED <<deployment, values, could>> /\ IsCall(x) /\ x.op = op /\ x.finalize = finalize
      /\ x.phase = (IF fs = {} THEN "tag" ELSE "units") /\ DOMAIN x.index = keys
      /\ x.open \subseteq Units /\ (\A u \in x.open : x.attempt[u] = 1)
      /\ \A k \in keys : <<k, x.index[k]>> \in KeyNames'
  BY <1>1, Zenon DEF BeginsAs
<1>3. Units' = Units /\ Free' = Free
  BY <1>2 DEF Units, NumUnits, Free
<1>4. World' /\ KeyNames \subseteq KeyNames' /\ writes' = writes + 1 /\ calls[c] = Free
      /\ calls' = [d \in Slots |-> calls'[d]] /\ calls'[c] = x
  BY DEF Begins
<1>5. \A r \in inbox' : r \in inbox \/ (r \in {c} \X x.open \X {1})
  BY DEF Begins
<1>6. StoreTypes'
  BY <1>2, <1>4 DEF CallsInv, KeyValueTypes, StoreTypes
<1>7. InItsPlace(x)'
  BY <1>2, <1>3 DEF InItsPlace
<1>8. RequestsAreOf(c, x)'
  <2>1. \A r \in inbox : r[1] # c
    BY <1>4, FreeHasNoRequests
  <2>2. \A r \in {c} \X x.open \X {1} : r[3] = 1
    OBVIOUS
  <2>3. \A r \in inbox' : r[1] = c => r[3] = 1
    BY <1>5, <2>1, <2>2
  <2> QED
    BY <1>2, <2>3 DEF RequestsAreOf
<1>9. \A r \in inbox' : r \in Slots \X Units \X Nat /\ (r \in inbox \/ r[1] = c)
  <2> SUFFICES ASSUME NEW r \in inbox' PROVE r \in Slots \X Units \X Nat /\ (r \in inbox \/ r[1] = c)
    OBVIOUS
  <2>1. CASE r \in inbox
    BY <2>1, SlotFacts
  <2>2. CASE r \in {c} \X x.open \X {1}
    BY <1>2, <2>2
  <2> QED
    BY <1>5, <2>1, <2>2
<1>10. ASSUME NEW d \in Slots \ {c}
       PROVE  /\ calls'[d] = calls[d] \/ \E may : calls'[d] = [calls[d] EXCEPT !.may = may]
              /\ calls[d] = Free => calls'[d] = Free
              /\ \A k \in DOMAIN calls[d].index : <<k, calls[d].index[k]>> \in KeyNames'
  <2>1. Informed(x, keys, fs, calls[d], calls'[d])
    BY DEF Begins
  <2>2. \A k \in DOMAIN calls[d].index : <<k, calls[d].index[k]>> \in KeyNames
    BY SlotFacts DEF InItsPlace
  <2> QED
    BY <1>4, <2>1, <2>2 DEF Informed
<1>11. \A d \in Slots \ {c} : Writes(calls[d]) => DOMAIN calls[d].index \cap DOMAIN x.index = {}
  BY <1>2 DEF Begins
<1> QED
  BY <1>2, <1>3, <1>4, <1>6, <1>7, <1>8, <1>9, <1>10, <1>11, CallsStep

(* What the gets under way may read grows by what the write may make.      *)
LEMMA BeginTellsGets ==
  ASSUME CallsInv, GetsInv, NEW c \in Slots, NEW x, NEW op \in {"put", "update"}, NEW keys \in SUBSET Keys,
         NEW fs \in SUBSET Fields, NEW finalize, Begins(c, x, op, keys, fs, finalize)
  PROVE  GetsInv'
<1>1. BeginsAs(x, op, keys, fs, finalize)
  BY BeganFacts, Zenon
<1>2. /\ UNCHANGED <<deployment, values, could>> /\ IsCall(x) /\ x.op = op
      /\ DOMAIN x.index = keys /\ x.fs = fs
      /\ \A i, f : (Filled(i, f)' <=> Filled(i, f)) /\ (IsFinal(i, f)' <=> IsFinal(i, f))
  BY <1>1, Zenon DEF BeginsAs
<1>3. calls'[c] = x /\ \A d \in Slots \ {c} : Informed(x, keys, fs, calls[d], calls'[d])
  BY DEF Begins
<1>4. GetFits(calls[c])'
  BY <1>2, <1>3 DEF GetFits
<1>5. ASSUME NEW d \in Slots, d # c PROVE GetFits(calls[d])'
  <2>1. PICK z, w : z = calls[d] /\ w = calls'[d]
    OBVIOUS
  <2>2. Informed(x, keys, fs, z, w) /\ GetFits(z)
    BY <1>3, <1>5, <2>1 DEF GetsInv
  <2>3. SUFFICES ASSUME w.op = "get" PROVE GetFits(w)'
    BY <2>1 DEF GetFits
  <2>4. /\ z.op = "get" /\ w.index = z.index /\ w.fs = z.fs /\ w.got = z.got
    BY <2>2, <2>3 DEF Informed
  <2>5. /\ z.may = [e \in (DOMAIN z.index) \X z.fs |-> z.may[e]]
        /\ z.got = [e \in DOMAIN z.got |-> z.got[e]] /\ DOMAIN z.got \subseteq (DOMAIN z.index) \X z.fs
        /\ \A e \in DOMAIN z.got : z.got[e] \in z.may[e] /\ Last(z.got[e]).draft = FALSE
    BY <2>2, <2>4 DEF GetFits
  <2>6. DOMAIN z.may = (DOMAIN z.index) \X z.fs
    BY <2>5
  <2>7. /\ w.may = [e \in (DOMAIN z.index) \X z.fs |-> w.may[e]]
        /\ \A e \in (DOMAIN z.index) \X z.fs :
             /\ z.may[e] \subseteq w.may[e]
             /\ e[1] \in keys /\ e[2] \in fs => Effects(x, e[1], could[e]) \subseteq w.may[e]
    BY <2>2, <2>5, <2>6 DEF Informed
  <2>8. ASSUME NEW k \in DOMAIN w.index, NEW f \in w.fs PROVE MayRead(w, k, f)'
    <3>1. MayRead(z, k, f)
      BY <2>2, <2>4, <2>8 DEF GetFits
    <3>2. PICK e : e = <<k, f>>
      OBVIOUS
    <3>3. e \in (DOMAIN z.index) \X z.fs /\ e[1] = k /\ e[2] = f
      BY <2>4, <2>8, <3>2
    <3>4. could[e] \subseteq z.may[e] /\ z.may[e] \subseteq w.may[e]
      BY <2>7, <3>1, <3>2, <3>3 DEF MayRead
    <3>5. ASSUME NEW b \in Slots, IsWriting(calls'[b], k, f)
          PROVE  Effects(calls'[b], k, could[e]) \subseteq w.may[e]
      <4>1. CASE b = c
        BY <1>2, <1>3, <2>7, <3>3, <3>5, <4>1 DEF IsWriting
      <4>2. CASE b # c
        <5>1. Informed(x, keys, fs, calls[b], calls'[b])
          BY <1>3, <4>2
        <5>2. Effects(calls'[b], k, could[e]) = Effects(calls[b], k, could[e])
          BY <5>1, SameWriteMerges DEF Informed
        <5>3. IsWriting(calls[b], k, f)
          BY <3>5, <5>1 DEF Informed, IsWriting, Writes
        <5>4. Effects(calls[b], k, could[e]) \subseteq z.may[e]
          BY <3>1, <3>2, <5>3 DEF MayRead
        <5> QED
          BY <3>4, <5>2, <5>4
      <4> QED
        BY <4>1, <4>2
    <3>6. Filled(w.index[k], f)' /\ Last(values'[<<w.index[k], f>>]).draft = FALSE
      BY <1>2, <2>4, <3>1 DEF MayRead
    <3>7. \A b \in Slots : IsWriting(calls'[b], k, f) =>
            Effects(calls'[b], k, could'[<<k, f>>]) \subseteq w.may[<<k, f>>]
      BY <1>2, <3>2, <3>5
    <3> QED
      BY <1>2, <3>2, <3>4, <3>6, <3>7 DEF MayRead
  <2>9. \A e \in DOMAIN w.got : w.got[e] \in w.may[e] /\ Last(w.got[e]).draft = FALSE
    BY <2>4, <2>5, <2>7
  <2> QED
    BY <2>4, <2>5, <2>7, <2>8, <2>9 DEF GetFits
<1> QED
  BY <1>4, <1>5 DEF GetsInv

LEMMA BeginWriteKeeps ==
  ASSUME KeyValueInv, Patient = TRUE, UNCHANGED deployment, NEW c \in Slots, NEW op \in {"put", "update"},
         NEW keys \in SUBSET Keys, keys # {}, NEW fs \in SUBSET Fields, NEW finalize \in BOOLEAN,
         op = "put" => finalize = TRUE, BeginWrite(c, op, keys, fs, finalize)
  PROVE  KeyValueInv'
<1>1. CallsInv /\ CellsInv /\ GetsInv
  BY DEF KeyValueInv
<1>2. PICK x : Begins(c, x, op, keys, fs, finalize)
  BY <1>1, WriteBegins
<1>3. CallsInv'
  BY <1>1, <1>2, BeginIsTyped
<1>4. ASSUME NEW k \in Keys, NEW f \in Fields PROVE CellInv(k, f)'
  <2>1. CellInv(k, f)
    BY <1>1 DEF CellsInv
  <2> QED
    BY <1>1, <1>2, <2>1, BeginElsewhere, BeginHere, Zenon
<1>5. GetsInv'
  BY <1>1, <1>2, BeginTellsGets
<1> QED
  BY <1>3, <1>4, <1>5 DEF KeyValueInv, CellsInv

LEMMA PutKeeps ==
  ASSUME KeyValueInv, Patient = TRUE, UNCHANGED deployment, NEW c \in Slots,
         Put(c) \/ BatchPut(c) \/ Update(c)
  PROVE  KeyValueInv'
<1>1. ASSUME Put(c) PROVE KeyValueInv'
  <2>1. PICK k \in Keys, fs \in SUBSET Fields : BeginWrite(c, "put", {k}, fs, TRUE)
    BY <1>1 DEF Put
  <2>2. {k} \in SUBSET Keys /\ {k} # {}
    OBVIOUS
  <2> QED
    BY <2>1, <2>2, BeginWriteKeeps
<1>2. ASSUME BatchPut(c) PROVE KeyValueInv'
  <2>1. PICK keys \in SomeOf(Keys), fs \in SUBSET Fields : BeginWrite(c, "put", keys, fs, TRUE)
    BY <1>2 DEF BatchPut
  <2>2. keys \in SUBSET Keys /\ keys # {}
    BY DEF SomeOf
  <2> QED
    BY <2>1, <2>2, BeginWriteKeeps
<1>3. ASSUME Update(c) PROVE KeyValueInv'
  <2>1. PICK keys \in SomeOf(Keys), fs \in SomeOf(Fields), finalize \in BOOLEAN :
          BeginWrite(c, "update", keys, fs, finalize)
    BY <1>3 DEF Update
  <2>2. keys \in SUBSET Keys /\ keys # {} /\ fs \in SUBSET Fields
    BY DEF SomeOf
  <2> QED
    BY <2>1, <2>2, BeginWriteKeeps
<1> QED
  BY <1>1, <1>2, <1>3

-----------------------------------------------------------------------------
(* Keys, or fields of them, are cleared while no call is about the keys.   *)
Wiped(keys, fs) ==
  /\ World' /\ UNCHANGED <<calls, inbox, writes, deployment>> /\ Quiet(keys) /\ Dropped(keys, fs)
  /\ Removed({n[2] : n \in {m \in KeyNames : m[1] \in keys}} \X fs)
  /\ \A k \in Keys \ keys : SameNames(k)
  /\ \A k \in Keys, f \in Fields : k \notin keys \/ f \notin fs =>
       /\ SameNames(k)
       /\ \A i : <<k, i>> \in KeyNames => (Filled(i, f)' <=> Filled(i, f)) /\ (IsFinal(i, f)' => IsFinal(i, f))
  /\ \A k \in keys, f \in fs : \A i : <<k, i>> \in KeyNames' => ~Filled(i, f)'

LEMMA RemovedIs ==
  ASSUME NEW cells, Removed(cells)
  PROVE  /\ values' = [e \in DOMAIN values' |-> values'[e]]
         /\ \A e \in DOMAIN values' : e \in DOMAIN values /\ values'[e] = values[e]
         /\ \A e \in DOMAIN values : e \notin cells => e \in DOMAIN values'
<1>1. PICK kept \in SUBSET Units :
        values' = [e \in {x \in DOMAIN values : x \notin cells \/ UnitOf(x[1]) \in kept} |-> values[e]]
  BY DEF Removed
<1> QED
  BY <1>1

LEMMA QuietIs ==
  ASSUME CallsInv, NEW keys, Quiet(keys), NEW d \in Slots
  PROVE  \A k \in DOMAIN calls[d].index : k \in Keys \ keys
<1>1. IsCall(calls[d]) /\ InItsPlace(calls[d])
  BY SlotFacts
<1>2. CASE calls[d].op = "none"
  BY <1>1, <1>2, FreeIsACall DEF InItsPlace
<1>3. CASE calls[d].op # "none"
  <2>1. DOMAIN calls[d].index \cap keys = {}
    BY <1>1, <1>3 DEF InItsPlace, Quiet, At, KeysOf
  <2> QED
    BY <1>1, <2>1 DEF IsCall
<1> QED
  BY <1>2, <1>3

LEMMA WipeIsTyped ==
  ASSUME CallsInv, NEW keys, NEW fs, Wiped(keys, fs)
  PROVE  CallsInv'
<1>1. World' /\ UNCHANGED <<calls, inbox, writes, deployment>> /\ Quiet(keys) /\ Dropped(keys, fs)
  BY DEF Wiped
<1>2. Units' = Units /\ Free' = Free
  BY <1>1 DEF Units, NumUnits, Free
<1>3. /\ values' = [e \in DOMAIN values' |-> values'[e]]
      /\ \A e \in DOMAIN values' : e \in DOMAIN values /\ values'[e] = values[e]
  BY RemovedIs DEF Wiped
<1>4. StoreTypes
  BY DEF CallsInv, KeyValueTypes
<1>5. /\ could' = [e \in Keys \X Fields |-> could'[e]]
      /\ \A e \in Keys \X Fields : could'[e] \in SUBSET Histories /\ could'[e] # {}
  <2>1. DOMAIN could = Keys \X Fields
    BY <1>4 DEF StoreTypes
  <2>2. could' = [e \in Keys \X Fields |-> IF e[1] \in keys /\ e[2] \in fs THEN {<< >>} ELSE could[e]]
    BY <1>1, <2>1 DEF Dropped
  <2>3. {<< >>} \in SUBSET Histories
    BY DEF Histories
  <2>4. could' = [e \in Keys \X Fields |-> could'[e]]
    BY <2>2
  <2>5. ASSUME NEW e \in Keys \X Fields PROVE could'[e] \in SUBSET Histories /\ could'[e] # {}
    <3>1. could'[e] = IF e[1] \in keys /\ e[2] \in fs THEN {<< >>} ELSE could[e]
      BY <2>2
    <3> QED
      BY <1>4, <2>3, <3>1 DEF StoreTypes
  <2> QED
    BY <2>4, <2>5
<1>6. StoreTypes'
  BY <1>1, <1>3, <1>4, <1>5 DEF StoreTypes
<1>7. KeyValueTypes'
  BY <1>1, <1>2, <1>6 DEF CallsInv, KeyValueTypes, IsCall
<1>8. ASSUME NEW d \in Slots PROVE InItsPlace(calls[d])'
  <2>1. InItsPlace(calls[d])
    BY SlotFacts
  <2>2. \A k \in DOMAIN calls[d].index : <<k, calls[d].index[k]>> \in KeyNames'
    <3> SUFFICES ASSUME NEW k \in DOMAIN calls[d].index PROVE <<k, calls[d].index[k]>> \in KeyNames'
      OBVIOUS
    <3>1. k \in Keys \ keys
      BY <1>1, QuietIs
    <3>2. SameNames(k)
      BY <3>1 DEF Wiped
    <3> QED
      BY <2>1, <3>2 DEF SameNames, InItsPlace
  <2> QED
    BY <1>1, <1>2, <2>1, <2>2 DEF InItsPlace
<1>9. \A d \in Slots : RequestsAreOf(d, calls[d])'
  BY <1>1 DEF CallsInv, RequestsAreOf
<1>10. (\A r \in inbox' : r \in Slots \X Units' \X Nat) /\ OneWriterAKey'
  BY <1>1, <1>2 DEF CallsInv, OneWriterAKey, Writes
<1> QED
  BY <1>1, <1>7, <1>8, <1>9, <1>10 DEF CallsInv, World

LEMMA WipedElsewhere ==
  ASSUME CallsInv, NEW keys, NEW fs, Wiped(keys, fs), NEW k \in Keys, NEW f \in Fields, k \notin keys \/ f \notin fs
  PROVE  SameNames(k) /\ SameCell(k, f) /\ SameWriters(k, f)
<1>1. UNCHANGED <<calls, inbox>> /\ Dropped(keys, fs) /\ SameNames(k)
      /\ \A i : <<k, i>> \in KeyNames => (Filled(i, f)' <=> Filled(i, f)) /\ (IsFinal(i, f)' => IsFinal(i, f))
  BY DEF Wiped
<1>2. PICK S : S = {n[2] : n \in {m \in KeyNames : m[1] \in keys}}
  OBVIOUS
<1>3. /\ \A e \in DOMAIN values' : e \in DOMAIN values /\ values'[e] = values[e]
      /\ \A e \in DOMAIN values : e \notin S \X fs => e \in DOMAIN values'
  <2>1. Removed(S \X fs)
    BY <1>2 DEF Wiped
  <2> QED
    BY <2>1, RemovedIs
<1>4. ASSUME NEW i, <<k, i>> \in KeyNames PROVE <<i, f>> \notin S \X fs
  <2>1. PICK m : m = <<k, i>>
    OBVIOUS
  <2>2. m[1] = k /\ m[2] = i
    BY <2>1
  <2>3. \A n \in KeyNames : n[2] = m[2] => n[1] = m[1]
    BY <1>4, <2>1, StatusFacts, SlotFacts DEF CallsInv, World
  <2> QED
    BY <1>2, <2>2, <2>3
<1>5. could'[<<k, f>>] = could[<<k, f>>]
  <2>1. PICK e : e = <<k, f>>
    OBVIOUS
  <2>2. e \in DOMAIN could /\ e[1] = k /\ e[2] = f
    BY <2>1 DEF CallsInv, KeyValueTypes, StoreTypes
  <2>3. could'[e] = could[e]
    BY <1>1, <2>2 DEF Dropped
  <2> QED
    BY <2>1, <2>3
<1>6. SameCell(k, f)
  BY <1>1, <1>3, <1>4, <1>5 DEF SameCell
<1>7. SameWriters(k, f)
  BY <1>1 DEF SameWriters, SameWriter, SameWrite
<1> QED
  BY <1>1, <1>6, <1>7

LEMMA WipedHere ==
  ASSUME CallsInv, NEW keys, NEW fs, Wiped(keys, fs), NEW k \in Keys, NEW f \in Fields, k \in keys, f \in fs
  PROVE  CellInv(k, f)'
<1>1. could'[<<k, f>>] = {<< >>}
  <2>1. PICK e : e = <<k, f>>
    OBVIOUS
  <2>2. e \in DOMAIN could /\ e[1] = k /\ e[2] = f
    BY <2>1 DEF CallsInv, KeyValueTypes, StoreTypes
  <2>3. could'[e] = {<< >>}
    BY <2>2 DEF Wiped, Dropped
  <2> QED
    BY <2>1, <2>3
<1>2. \A i : <<k, i>> \in KeyNames' => ~Filled(i, f)'
  BY DEF Wiped
<1>3. IsStored(k, f)'
  BY <1>2 DEF IsStored
<1>4. KeyIn(k, f, could[<<k, f>>])'
  BY <1>1, <1>2 DEF KeyIn, CellIn
<1>5. ASSUME NEW d \in Slots PROVE WritesFit(d, calls[d], k, f)'
  <2>1. calls'[d] = calls[d] /\ Quiet(keys)
    BY DEF Wiped
  <2>2. k \notin DOMAIN calls[d].index
    BY <2>1, QuietIs
  <2> QED
    BY <2>1, <2>2 DEF WritesFit
<1> QED
  BY <1>3, <1>4, <1>5 DEF CellInv

LEMMA WipeKeeps ==
  ASSUME KeyValueInv, NEW keys, NEW fs, Wiped(keys, fs)
  PROVE  KeyValueInv'
<1>1. CallsInv /\ CellsInv /\ GetsInv /\ UNCHANGED <<calls, deployment>> /\ Quiet(keys)
  BY DEF KeyValueInv, Wiped
<1>2. CallsInv'
  BY <1>1, WipeIsTyped
<1>3. ASSUME NEW k \in Keys, NEW f \in Fields PROVE CellInv(k, f)'
  <2>1. CASE k \in keys /\ f \in fs
    BY <1>1, <2>1, WipedHere
  <2>2. CASE k \notin keys \/ f \notin fs
    <3>1. SameNames(k) /\ SameCell(k, f) /\ SameWriters(k, f)
      BY <1>1, <2>2, WipedElsewhere
    <3> QED
      BY <1>1, <3>1, CellFrame DEF CellsInv, SameWriters
  <2> QED
    BY <2>1, <2>2
<1>4. ASSUME NEW d \in Slots PROVE GetFits(calls[d])'
  <2>1. PICK x : x = calls[d]
    OBVIOUS
  <2>2. IsCall(x) /\ GetFits(x) /\ calls'[d] = x
    BY <1>1, <2>1, SlotFacts DEF GetsInv
  <2>3. ASSUME NEW k \in DOMAIN x.index, NEW f \in x.fs PROVE SameCell(k, f) /\ SameWriters(k, f)
    <3>1. k \in Keys \ keys /\ f \in Fields
      BY <1>1, <2>1, <2>2, QuietIs DEF IsCall
    <3> QED
      BY <1>1, <3>1, WipedElsewhere
  <2>4. SameGet(x, x)
    BY DEF SameGet
  <2> QED
    BY <1>1, <2>1, <2>2, <2>3, <2>4, GetFrame
<1> QED
  BY <1>2, <1>3, <1>4 DEF KeyValueInv, CellsInv, GetsInv

LEMMA ClearKeysKeeps ==
  ASSUME KeyValueInv, ClearKeys, UNCHANGED deployment
  PROVE  KeyValueInv'
<1>1. PICK keys \in SomeOf(KnownKeys(Status)) :
        LET S == IndexesOf(Status, keys)
        IN  /\ Quiet(keys)
            /\ Removed(S \X Fields)
            /\ ClearMeta(Partition, S)
            /\ Dropped(keys, Fields)
            /\ UNCHANGED <<calls, inbox, writes>>
  BY Zenon DEF ClearKeys
<1>2. IndexesOf(Status, keys) = {n[2] : n \in {m \in KeyNames : m[1] \in keys}}
  BY KnownAreNamed
<1>3. CallsInv /\ World
  BY DEF KeyValueInv, CallsInv, World
<1>4. /\ World' /\ KeyNames' = {n \in KeyNames : n[1] \notin keys}
      /\ \A n \in KeyNames' : \A f \in Fields : (Filled(n[2], f)' <=> Filled(n[2], f)) /\ (IsFinal(n[2], f)' => IsFinal(n[2], f))
  BY <1>1, <1>3, ClearView
<1>5. \A k, i : <<k, i>>[1] = k /\ <<k, i>>[2] = i
  OBVIOUS
<1>6. \A k \in Keys : \A i : <<k, i>> \in KeyNames' <=> <<k, i>> \in KeyNames /\ k \notin keys
  BY <1>4, <1>5
<1>7. \A k \in Keys \ keys : SameNames(k)
  BY <1>6 DEF SameNames
<1>8. ASSUME NEW k \in Keys \ keys, NEW f \in Fields, NEW i, <<k, i>> \in KeyNames
      PROVE  (Filled(i, f)' <=> Filled(i, f)) /\ (IsFinal(i, f)' => IsFinal(i, f))
  <2>1. PICK n : n = <<k, i>>
    OBVIOUS
  <2>2. n \in KeyNames' /\ n[2] = i
    BY <1>6, <1>8, <2>1
  <2> QED
    BY <1>4, <2>2
<1>9. keys \subseteq Keys
  BY <1>3, StatusFacts, KnownAreNamed DEF SomeOf
<1>10. Wiped(keys, Fields)
  BY <1>1, <1>2, <1>4, <1>6, <1>7, <1>8, <1>9 DEF Wiped
<1> QED
  BY <1>10, WipeKeeps

LEMMA ClearFieldsOfKeeps ==
  ASSUME KeyValueInv, ClearFieldsOf, UNCHANGED deployment
  PROVE  KeyValueInv'
<1>1. PICK keys \in SomeOf(Keys), fs \in SomeOf(Fields) :
        /\ Quiet(keys)
        /\ KvClearFields(Partition, keys, fs)
        /\ Removed(IndexesOf(Status, keys) \X fs)
        /\ Dropped(keys, fs)
        /\ UNCHANGED <<calls, inbox, writes>>
  BY DEF ClearFieldsOf
<1>2. PICK S : S = IndexesOf(Status, keys)
  OBVIOUS
<1>3. S = {n[2] : n \in {m \in KeyNames : m[1] \in keys}}
  BY <1>2, KnownAreNamed
<1>4. World /\ keys \subseteq Keys /\ fs \in SUBSET Fields
  BY DEF KeyValueInv, CallsInv, World, SomeOf
<1>5. /\ World' /\ KeyNames' = KeyNames
      /\ \A i : \A f \in Fields : Filled(i, f)' <=> Filled(i, f) /\ ~(i \in S /\ f \in fs)
      /\ \A i : \A f \in Fields : IsFinal(i, f)' => IsFinal(i, f)
  BY <1>1, <1>2, <1>4, DropView
<1>6. ASSUME NEW k \in Keys, NEW i, <<k, i>> \in KeyNames PROVE i \in S <=> k \in keys
  <2>1. PICK m : m = <<k, i>>
    OBVIOUS
  <2>2. m[1] = k /\ m[2] = i
    BY <2>1
  <2>3. \A n \in KeyNames : n[2] = m[2] => n[1] = m[1]
    BY <1>4, <1>6, <2>1, StatusFacts
  <2> QED
    BY <1>3, <1>6, <2>1, <2>2, <2>3
<1>7. \A k : SameNames(k)
  BY <1>5 DEF SameNames
<1>8. Removed(S \X fs) /\ Quiet(keys) /\ Dropped(keys, fs) /\ UNCHANGED <<calls, inbox, writes, deployment>>
  BY <1>1, <1>2
<1>9. ASSUME NEW k \in Keys, NEW f \in Fields, k \notin keys \/ f \notin fs, NEW i, <<k, i>> \in KeyNames
      PROVE  (Filled(i, f)' <=> Filled(i, f)) /\ (IsFinal(i, f)' => IsFinal(i, f))
  BY <1>5, <1>6, <1>9
<1>10. ASSUME NEW k \in keys, NEW f \in fs, NEW i, <<k, i>> \in KeyNames' PROVE ~Filled(i, f)'
  BY <1>4, <1>5, <1>6, <1>10
<1>11. Wiped(keys, fs)
  BY <1>3, <1>5, <1>7, <1>8, <1>9, <1>10 DEF Wiped
<1> QED
  BY <1>11, WipeKeeps

-----------------------------------------------------------------------------
LEMMA KeyValueStarts ==
  ASSUME KeyValueInit
  PROVE  KeyValueInv
<1>1. ControllerSafe /\ ControllerTidy
  BY StartIsSafe DEF KeyValueInit
<1>2. Status = NewPartition({})
  BY DEF KeyValueInit, ControllerInit, Status, Exists
<1>3. KeyNames = {} /\ (\A i : \A f \in Fields : ~Filled(i, f)) /\ RowsAreThere
  BY <1>2, NewIsEmpty DEF KeyNames, Filled, RowsAreThere
<1>4. PICK none : none = << >>
  OBVIOUS
<1>5. DOMAIN none = {} /\ none = [e \in {} |-> none[e]] /\ {none} \in SUBSET Histories
  BY <1>4 DEF Histories
<1>6. /\ deployment \in Deployments /\ calls = [c \in Slots |-> Free] /\ inbox = {} /\ values = none
      /\ writes = 0 /\ could = [e \in Keys \X Fields |-> {none}]
  BY <1>4 DEF KeyValueInit
<1>7. StoreTypes
  <2>1. could = [e \in Keys \X Fields |-> could[e]] /\ \A e \in Keys \X Fields : could[e] = {none}
    BY <1>6
  <2>2. values = [e \in DOMAIN values |-> values[e]] /\ DOMAIN values = {}
    BY <1>5, <1>6
  <2> QED
    BY <1>5, <1>6, <2>1, <2>2 DEF StoreTypes
<1>8. calls = [c \in Slots |-> calls[c]] /\ \A c \in Slots : calls[c] = Free
  BY <1>6
<1>9. CallsInv
  BY <1>1, <1>3, <1>6, <1>7, <1>8, FreeIsACall
     DEF CallsInv, KeyValueTypes, RequestsAreOf, OneWriterAKey, Writes
<1>10. ASSUME NEW k \in Keys, NEW f \in Fields PROVE CellInv(k, f)
  <2>1. could[<<k, f>>] = {<< >>}
    BY <1>4, <1>6
  <2>2. IsStored(k, f) /\ KeyIn(k, f, could[<<k, f>>])
    BY <1>3, <2>1 DEF IsStored, KeyIn
  <2>3. \A c \in Slots : WritesFit(c, calls[c], k, f)
    BY <1>8, FreeIsACall DEF WritesFit, Writes
  <2> QED
    BY <2>2, <2>3 DEF CellInv
<1>11. GetsInv
  BY <1>8, FreeIsACall DEF GetsInv, GetFits
<1> QED
  BY <1>9, <1>10, <1>11 DEF KeyValueInv, CellsInv

LEMMA KeyValueStep ==
  ASSUME Patient = TRUE, KeyValueInv, [KeyValueNext]_keyValueVars
  PROVE  KeyValueInv'
<1>1. CASE UNCHANGED keyValueVars
  <2>1. CallsInv /\ UNCHANGED <<controllerVars, deployment, calls, inbox, values, writes, could>>
    BY <1>1 DEF KeyValueInv, keyValueVars, kvVars
  <2>2. World' /\ KeyNames' = KeyNames /\ StoreTypes' /\ NoCellChanges
    BY <2>1, SameStore
  <2>3. Units' = Units /\ Free' = Free
    BY <2>1 DEF Units, NumUnits, Free
  <2>4. CallsInv'
    BY <2>1, <2>2, <2>3 DEF CallsInv, World, KeyValueTypes, IsCall, InItsPlace, RequestsAreOf, OneWriterAKey
  <2>5. \A k, f : SameWriters(k, f)
    BY <2>1 DEF SameWriters, SameWriter, SameWrite
  <2>6. \A d \in Slots : SameGet(calls[d], calls'[d])
    BY <2>1 DEF SameGet
  <2> QED
    BY <2>2, <2>4, <2>5, <2>6, QuietStep DEF KeyValueInv
<1>2. CASE KeyValueNext
  <2>1. UNCHANGED deployment
    BY <1>2 DEF KeyValueNext
  <2>2. ASSUME NEW c \in Slots,
               \/ Put(c) \/ BatchPut(c) \/ Update(c) \/ Get(c)
               \/ NotifyWritten(c) \/ SetTags(c) \/ Fail(c) \/ EndGet(c)
        PROVE  KeyValueInv'
    <3>1. Put(c) \/ BatchPut(c) \/ Update(c) => KeyValueInv'
      BY <2>1, PutKeeps
    <3>2. Get(c) => KeyValueInv'
      BY <2>1, GetKeeps
    <3>3. NotifyWritten(c) => KeyValueInv'
      BY <2>1, NotifyWrittenKeeps
    <3>4. SetTags(c) => KeyValueInv'
      BY <2>1, SetTagsKeeps
    <3>5. Fail(c) => KeyValueInv'
      BY <2>1, FailKeeps
    <3>6. EndGet(c) => KeyValueInv'
      BY <2>1, EndGetKeeps
    <3> QED
      BY <2>2, <3>1, <3>2, <3>3, <3>4, <3>5, <3>6
  <2>3. ASSUME NEW c \in Slots, NEW u \in Units, Timeout(c, u) PROVE KeyValueInv'
    BY <2>1, <2>3, TimeoutKeeps
  <2>4. ASSUME NEW c \in Slots, NEW u \in Units, NEW n,
               ServePut(c, u, n) \/ ServeUpdate(c, u, n) \/ ServeGet(c, u, n)
        PROVE  KeyValueInv'
    <3>1. ServePut(c, u, n) => KeyValueInv'
      BY <2>1, ServePutKeeps
    <3>2. ServeUpdate(c, u, n) => KeyValueInv'
      BY <2>1, ServeUpdateKeeps
    <3>3. ServeGet(c, u, n) => KeyValueInv'
      BY <2>1, ServeGetKeeps
    <3> QED
      BY <2>4, <3>1, <3>2, <3>3
  <2>5. ASSUME NEW r \in inbox, Lose(r) PROVE KeyValueInv'
    BY <2>1, <2>5, LoseKeeps
  <2>6. ClearKeys => KeyValueInv'
    BY <2>1, ClearKeysKeeps
  <2>7. ClearFieldsOf => KeyValueInv'
    BY <2>1, ClearFieldsOfKeeps
  <2> QED
    BY <1>2, <2>2, <2>3, <2>4, <2>5, <2>6, <2>7, Zenon DEF KeyValueNext, Step
<1> QED
  BY <1>1, <1>2

LEMMA KeyValueIsInductive ==
  ASSUME Patient = TRUE
  PROVE  KeyValueSpec => []KeyValueInv
<1>1. KeyValueInit => KeyValueInv
  BY KeyValueStarts
<1>2. KeyValueInv /\ [KeyValueNext]_keyValueVars => KeyValueInv'
  BY KeyValueStep
<1> QED
  BY <1>1, <1>2, PTL DEF KeyValueSpec

(* Between its writes a field of a key holds what they make of it one after *)
(* the other (kv_put, kv_update and merge_fn in interface.py): a write that *)
(* succeeded counts once, one that failed once or not at all, and nothing  *)
(* is left of a sample that kv_clear gave up, for any number of keys,      *)
(* fields, units, attempts and calls under way, whatever requests are lost, *)
(* repeated, late, or only partly carried out.                             *)
THEOREM KeysHoldTheirWrites ==
  ASSUME Patient = TRUE
  PROVE  KeyValueSpec => []HeldIsPossible
<1>1. KeyValueInv => HeldIsPossible
  <2> SUFFICES ASSUME KeyValueInv, NEW k \in Keys, NEW f \in Fields, At({k}, {"put", "update"}) = {}
               PROVE  Holds(k, f) \in could[<<k, f>>]
    BY DEF HeldIsPossible
  <2>1. World /\ IsStored(k, f)
    BY DEF KeyValueInv, CallsInv, World, CellsInv, CellInv
  <2>2. KeyIn(k, f, could[<<k, f>>])
    <3>1. \A c \in Slots : ~IsWriting(calls[c], k, f)
      BY DEF At, KeysOf, IsWriting, Writes
    <3> QED
      BY <3>1 DEF KeyValueInv, CellsInv, CellInv
  <2>3. CASE k \notin KnownKeys(Status)
    <3>1. \A i : <<k, i>> \notin KeyNames
      <4> SUFFICES ASSUME NEW i, <<k, i>> \in KeyNames PROVE FALSE
        OBVIOUS
      <4>1. <<k, i>>[1] = k
        OBVIOUS
      <4> QED
        BY <2>3, <4>1, KnownAreNamed
    <3> QED
      BY <2>2, <2>3, <3>1 DEF Holds, KeyIn
  <2>4. CASE k \in KnownKeys(Status)
    <3>1. PICK n \in KeyNames : n[1] = k
      BY <2>4, KnownAreNamed
    <3>2. PICK i : i = n[2]
      OBVIOUS
    <3>3. <<k, i>> \in KeyNames /\ IndexOf(Status, k) = i
      BY <2>1, <3>1, <3>2, IndexIsNamed
    <3>4. CellIn(i, f, could[<<k, f>>])
      BY <2>2, <3>3 DEF KeyIn
    <3>5. f \in Described(Status, i) <=> Filled(i, f)
      BY DEF Described, Filled
    <3>6. Filled(i, f) => <<i, f>> \in DOMAIN values
      BY <2>1, <3>3 DEF IsStored
    <3> QED
      BY <2>4, <3>3, <3>4, <3>5, <3>6 DEF Holds, CellIn
  <2> QED
    BY <2>3, <2>4
<1> QED
  BY <1>1, KeyValueIsInductive, PTL

(* kv_batch_get is not atomic: it asks every unit by itself, while writers *)
(* of the keys begin, are served and end.  What it returns of a key is a   *)
(* value the key had, or could have had, during the call.                  *)
THEOREM GetsReadWhatWasThere ==
  ASSUME Patient = TRUE
  PROVE  KeyValueSpec => []ReadsArePossible
<1>1. KeyValueInv => ReadsArePossible
  BY DEF KeyValueInv, GetsInv, GetFits, ReadsArePossible, Finished
<1> QED
  BY <1>1, KeyValueIsInductive, PTL

(* What kv_update(finalize=False) made of a field that held nothing is     *)
(* shown to no get before an update finalizes it, not even to a get that   *)
(* began while another writer was under way.                               *)
THEOREM NoGetSeesADraft ==
  ASSUME Patient = TRUE
  PROVE  KeyValueSpec => []DraftsStayHidden
<1>1. KeyValueInv => DraftsStayHidden
  BY DEF KeyValueInv, GetsInv, GetFits, DraftsStayHidden, Finished
<1> QED
  BY <1>1, KeyValueIsInductive, PTL
=============================================================================
