------------------------- MODULE ControllerRequests -------------------------
(***************************************************************************)
(* The controller under any number of clients, each free to send any       *)
(* request at any time: what a request names is only what some client was  *)
(* given.                                                                  *)
(*                                                                         *)
(* A careful client names samples only while they are in the partition: it *)
(* stops using a BatchMeta whose samples it, or another client, cleared.   *)
(* The code leaves that to its users.  A careless one may name whatever    *)
(* the controller listed for the partition at some time - samples cleared  *)
(* since, and the pre-allocated indexes that "force_fetch" lists.          *)
(***************************************************************************)
EXTENDS Controller

CONSTANTS
  MaxBatch,   \* bound: the largest batch
  Careless    \* may requests name what is not a sample of the partition?

ASSUME RequestsAssumption ==
  /\ MaxBatch \in Nat
  /\ Careless \in BOOLEAN

VARIABLES
  listed,   \* <<partition, index>> pairs that careless clients remember
  marked    \* those of them a MARK_CLEARING was answered for

clientVars == <<listed, marked>>
vars == <<controllerVars, clientVars>>

TypeOK ==
  /\ ControllerTypeOK
  /\ listed \in SUBSET (Partitions \X (0..(MaxIndexes - 1)))
  /\ marked \in SUBSET listed

Init ==
  /\ ControllerInit
  /\ listed = {}
  /\ marked = {}

Learn(p, S) ==
  /\ listed' = IF Careless THEN listed \cup ({p} \X S) ELSE listed
  /\ UNCHANGED marked

(* The samples of p a request may name.                                    *)
Named(p) ==
  IF Careless THEN {i \in 0..(MaxIndexes - 1) : <<p, i>> \in listed}
  ELSE IF Exists(p) THEN partitions[p].global_indexes ELSE {}

NonEmpty(S) == (SUBSET S) \ {{}}

-----------------------------------------------------------------------------
Insert(p) ==
  \E n \in 0..MaxBatch : \E A \in Activations(p, n) :
    /\ GetMetaInsert(p, n, A)
    /\ Learn(p, NewBatch(p, n, A))

Retrieve(p) ==
  \E keys \in NonEmpty(Keys) : \E A \in Activations(p, Cardinality(keys)) :
    /\ KvCreate(p, keys, A)
    /\ Learn(p, NewBatch(p, Cardinality(keys), A))

(* GET_META, mode "force_fetch", and GET_PARTITION_META.                   *)
List(p) ==
  /\ Exists(p)
  /\ Learn(p, partition_to_indexes[p])
  /\ UNCHANGED controllerVars

Notify(p) ==
  /\ \E S \in NonEmpty(Named(p)), fs \in NonEmpty(Fields), ready \in BOOLEAN :
       NotifyDataUpdate(p, S, fs, ready)
  /\ UNCHANGED clientVars

Fetch(p) ==
  \E fs \in NonEmpty(Fields), t \in Tasks, n \in 1..MaxBatch :
    /\ Exists(p)
    /\ \E B \in Lowest(ScanDataStatus(partitions[p], fs, t), n) :
         /\ GetMetaFetch(p, fs, t, n, B)
         /\ Learn(p, B)

CheckConsumption(p) == GetConsumption(p) /\ UNCHANGED clientVars

ResetTasks(p) ==
  /\ \E ts \in {{t} : t \in Tasks} \cup {Tasks} : Reset(p, ts)
  /\ UNCHANGED clientVars

Tag(p) ==
  /\ \E S \in NonEmpty(Named(p)) : SetMeta(p, S)
  /\ UNCHANGED clientVars

DropFields(p) ==
  \E keys \in NonEmpty(Keys), fs \in NonEmpty(Fields) :
    /\ KvClearFields(p, keys, fs)
    /\ Learn(p, IndexesOf(partitions[p], keys))

Mark(p) ==
  \E S \in NonEmpty(Named(p)) :
    /\ MarkClearing(p, S)
    /\ marked' = IF Careless /\ InRange(partitions[p], S \cap partitions[p].global_indexes)
                 THEN marked \cup ({p} \X S)
                 ELSE marked
    /\ UNCHANGED listed

(* A client sends CLEAR_META once its MARK_CLEARING for the same samples   *)
(* was answered: those that were samples then were in range, and a tensor  *)
(* never shrinks.  A careless one may be late.                             *)
MayClear(p, S) ==
  IF Careless THEN {p} \X S \subseteq marked ELSE InRange(partitions[p], S)

Clear(p) ==
  /\ \E S \in NonEmpty(Named(p)) : Exists(p) /\ MayClear(p, S) /\ ClearMeta(p, S)
  /\ UNCHANGED clientVars

ClearAll(p) == ClearPartition(p) /\ UNCHANGED clientVars

Next ==
  \E p \in Partitions :
    \/ Insert(p) \/ Retrieve(p) \/ List(p)
    \/ Notify(p) \/ Fetch(p) \/ CheckConsumption(p) \/ ResetTasks(p) \/ Tag(p)
    \/ DropFields(p) \/ Mark(p) \/ Clear(p) \/ ClearAll(p)

Spec == Init /\ [][Next]_vars

-----------------------------------------------------------------------------
(* The index management implements IndexOwnership: the owners are the      *)
(* index manager's sets, and the used indexes those below the counter.     *)
Ownership == INSTANCE IndexOwnership WITH
  owns    <- partition_to_indexes,
  used    <- 0..(global_index_counter - 1),
  Indexes <- 0..(MaxIndexes - 1)

(* Whatever the clients do, every batch takes indexes nobody owns, and a   *)
(* new one only when the pool is empty (allocate_indexes, release_indexes).   *)
ImplementsOwnership == Ownership!OwnershipSpec

(* A sample that stays in its partition is handed to a task again only     *)
(* after its consumption was reset: no growth of the tensors, production,  *)
(* update or clearing of other samples loses a consumption mark.           *)
NoRedelivery ==
  [][\A p \in DOMAIN partitions \cap DOMAIN partitions', t \in Tasks :
       LET lost == partitions[p].consumption_status[t] \ partitions'[p].consumption_status[t]
       IN  lost \cap partitions'[p].global_indexes # {} => ResetTasks(p)]_vars
=============================================================================
