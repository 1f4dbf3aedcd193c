------------------------------ MODULE DataPlane ------------------------------
(***************************************************************************)
(* A call of TransferQueueClient (transfer_queue/client.py) end to end:    *)
(* its requests to the controller, and those that AsyncSimpleStorageManager*)
(* (simple_storage_manager.py) sends to the storage units, each of which   *)
(* serves one request after the other (simple_storage.py).                 *)
(*                                                                         *)
(* A request to the controller is answered in one step; NOTIFY alone may   *)
(* be late or lost, as a put does not fail without its ACK.  A request to a *)
(* unit waits in the unit's inbox, in the order sent; any may be lost, and *)
(* any may time out at its sender and still be served.                     *)
(***************************************************************************)
EXTENDS Controller

CONSTANTS
  Calls,         \* bound: the calls that can be under way together
  Deployments,   \* how many storage units there are, the samples a unit holds (storage_size),
                 \* and TQ_SIMPLE_STORAGE_MAX_ATTEMPTS
  MaxBatch,      \* bound: the largest batch
  ClearBusy      \* may a call clear samples that another is working on?

ASSUME DataPlaneAssumption ==
  /\ Partitions # {}
  /\ Deployments \subseteq [units : Nat \ {0}, size : Nat, attempts : Nat \ {0}]
  /\ MaxBatch \in Nat
  /\ ClearBusy \in BOOLEAN

VARIABLES
  deployment,
  calls,    \* call -> what it does and awaits
  inbox,    \* unit -> the requests it has not served: <<call, attempt>>
  stored,   \* the cells <<index, field>> that their unit holds a value of
  active,   \* the units' _active_keys
  stale,    \* history: the stored cells written for an earlier owner
  leaked    \* history: the indexes released though a unit did not clear them

planeVars == <<deployment, calls, inbox, stored, active, stale, leaked>>
vars == <<controllerVars, planeVars>>

NumUnits    == deployment.units
UnitSize    == deployment.size
MaxAttempts == deployment.attempts

Units   == 0..(NumUnits - 1)
Indexes == 0..(MaxIndexes - 1)
Cells   == Indexes \X Fields

UnitOf(i)   == i % NumUnits
Group(S, u) == {i \in S : UnitOf(i) = u}
Targets(S)  == {UnitOf(i) : i \in S}

Idle ==
  [op |-> "idle", phase |-> "none", p |-> CHOOSE p \in Partitions : TRUE, S |-> {}, fs |-> {},
   open |-> {}, failed |-> {}, attempt |-> [u \in Units |-> 0], gone |-> {}]

CallType ==
  [op      : {"idle", "put", "get", "clear", "clear_all", "drop"},
   phase   : {"none", "opened", "marking", "units", "notify", "ended"},
   p       : Partitions,
   S       : SUBSET Indexes,            \* the samples it works on
   fs      : SUBSET Fields,
   open    : SUBSET Units,              \* the units whose answer it awaits
   failed  : SUBSET Units,              \* those that failed or never answered
   attempt : [Units -> 0..MaxAttempts],
   gone    : SUBSET Indexes]            \* history: its samples released meanwhile

TypeOK ==
  /\ ControllerTypeOK
  /\ deployment \in Deployments
  /\ calls \in [Calls -> CallType]
  /\ inbox \in [Units -> Seq(Calls \X (1..MaxAttempts))]
  /\ stale \subseteq stored /\ stored \subseteq Cells
  /\ active \subseteq Indexes /\ leaked \subseteq Indexes

Init ==
  /\ ControllerInit
  /\ deployment \in Deployments
  /\ calls = [c \in Calls |-> Idle]
  /\ inbox = [u \in Units |-> <<>>]
  /\ stored = {} /\ active = {}
  /\ stale = {} /\ leaked = {}

-----------------------------------------------------------------------------
(* A call that ended is kept until the units have served what is left of   *)
(* it, and named anew then.                                                *)
Free(c) == calls[c] = Idle

Left(c, box) == \E u \in Units : \E k \in DOMAIN box[u] : box[u][k][1] = c

Ended(c, box) ==
  IF Left(c, box) THEN [calls[c] EXCEPT !.phase = "ended", !.open = {}, !.failed = {}] ELSE Idle

(* A first attempt is sent to every unit of a group at once                *)
(* (asyncio.gather); those in `lost` never arrive.                         *)
Ask(c, call, lost) ==
  LET targets == Targets(call.S)
  IN  /\ calls' = [calls EXCEPT ![c] =
                     [call EXCEPT !.phase = "units", !.open = targets,
                        !.attempt = [u \in Units |-> IF u \in targets THEN 1 ELSE 0]]]
      /\ inbox' = [u \in Units |-> IF u \in targets \ lost THEN Append(inbox[u], <<c, 1>>)
                                   ELSE inbox[u]]

Begin(c, op, phase, p, S, fs) ==
  calls' = [calls EXCEPT ![c] =
              [Idle EXCEPT !.op = op, !.phase = phase, !.p = p, !.S = S, !.fs = fs]]

BeginAsking(c, op, p, S, fs) ==
  \E lost \in SUBSET Targets(S) :
    Ask(c, [Idle EXCEPT !.op = op, !.p = p, !.S = S, !.fs = fs], lost)

End(c) == calls' = [calls EXCEPT ![c] = Ended(c, inbox)]

unitVars == <<inbox, stored, active, stale, leaked>>

(* Which calls work on some of the samples S of p.                         *)
Working(ops, p, S) ==
  {c \in Calls : /\ calls[c].op \in ops /\ calls[c].phase # "ended"
                 /\ calls[c].p = p /\ calls[c].S \cap S # {}}

(* A careful user clears samples when no call is working on them any more, *)
(* starts none on samples that are being cleared, and leaves a partition   *)
(* alone while it is cleared as a whole.                                   *)
MayClear(c, p, S) == ClearBusy \/ Working({"put", "get", "clear", "drop"}, p, S) \subseteq {c}

MayUse(p, S) == ClearBusy \/ Working({"clear", "clear_all", "drop"}, p, S) = {}

MayOpen(p) == ClearBusy \/ ~\E c \in Calls :
  calls[c].op = "clear_all" /\ calls[c].phase # "ended" /\ calls[c].p = p

-----------------------------------------------------------------------------
(* async_put of new samples: their metadata first (GET_META "insert", or   *)
(* KV_RETRIEVE_META for keys that name none) ...                           *)
PutNew(c, p) ==
  /\ Free(c) /\ MayOpen(p)
  /\ \E fs \in (SUBSET Fields) \ {{}} :
       \/ \E n \in 1..MaxBatch : \E A \in Activations(p, n) :
            /\ GetMetaInsert(p, n, A)
            /\ Begin(c, "put", "opened", p, NewBatch(p, n, A), fs)
       \/ \E keys \in (SUBSET Keys) \ {{}} : \E A \in Activations(p, Cardinality(keys)) :
            /\ KvCreate(p, keys, A)
            /\ Begin(c, "put", "opened", p, NewBatch(p, Cardinality(keys), A), fs)
  /\ UNCHANGED unitVars

(* ... then the values.                                                    *)
SendPut(c) ==
  /\ calls[c].phase = "opened"
  /\ \E lost \in SUBSET Targets(calls[c].S) : Ask(c, calls[c], lost)
  /\ UNCHANGED <<controllerVars, stored, active, stale, leaked>>

(* async_put with the metadata of samples there are.                       *)
PutOver(c, p) ==
  /\ Free(c) /\ Exists(p)
  /\ \E S \in (SUBSET partitions[p].global_indexes) \ {{}}, fs \in (SUBSET Fields) \ {{}} :
       MayUse(p, S) /\ BeginAsking(c, "put", p, S, fs)
  /\ UNCHANGED <<controllerVars, stored, active, stale, leaked>>

(* A mutant: put_data notifies although a unit failed.                     *)
SendNotifyAnyway(c) ==
  /\ calls[c].op = "put" /\ calls[c].phase = "units"
  /\ calls[c].open = {}
  /\ calls' = [calls EXCEPT ![c].phase = "notify"]
  /\ UNCHANGED <<controllerVars, unitVars>>

(* Every unit stored its group: put_data notifies the controller.          *)
SendNotify(c) ==
  /\ calls[c].op = "put" /\ calls[c].phase = "units"
  /\ calls[c].open = {} /\ calls[c].failed = {}
  /\ calls' = [calls EXCEPT ![c].phase = "notify"]
  /\ UNCHANGED <<controllerVars, unitVars>>

(* The controller records the data, or finds no such partition, or the     *)
(* NOTIFY is lost; the put succeeds in any case.                           *)
EndNotify(c) ==
  /\ calls[c].phase = "notify"
  /\ \/ NotifyDataUpdate(calls[c].p, calls[c].S, calls[c].fs, TRUE)
     \/ UNCHANGED controllerVars
  /\ End(c)
  /\ UNCHANGED unitVars

(* async_get_meta, mode "fetch", then async_get_data.                      *)
Get(c, p) ==
  /\ Free(c)
  /\ \E fs \in (SUBSET Fields) \ {{}}, t \in Tasks, n \in 1..MaxBatch :
       /\ Exists(p)
       /\ \E B \in Lowest(ScanDataStatus(partitions[p], fs, t), n) :
            GetMetaFetch(p, fs, t, n, B) /\ BeginAsking(c, "get", p, B, fs)
  /\ UNCHANGED <<stored, active, stale, leaked>>

-----------------------------------------------------------------------------
(* async_clear_samples: MARK_CLEARING, then CLEAR_DATA.  When the mark is   *)
(* out of range the call raises.                                           *)
Clear(c, p) ==
  /\ Free(c) /\ Exists(p)
  /\ \E S \in (SUBSET partitions[p].global_indexes) \ {{}} :
       /\ MayClear(c, p, S) /\ MayUse(p, S)
       /\ MarkClearing(p, S)
       /\ IF InRange(partitions[p], S) THEN BeginAsking(c, "clear", p, S, Fields)
          ELSE UNCHANGED <<calls, inbox>>
  /\ UNCHANGED <<stored, active, stale, leaked>>

(* async_clear_partition: GET_PARTITION_META lists its indexes ...         *)
ClearAll(c, p) ==
  /\ Free(c) /\ Exists(p) /\ MayUse(p, Indexes)
  /\ partition_to_indexes[p] # {}
  /\ Begin(c, "clear_all", "marking", p, partition_to_indexes[p], Fields)
  /\ UNCHANGED <<controllerVars, unitVars>>

(* ... then MARK_CLEARING and CLEAR_DATA.                                   *)
MarkAll(c) ==
  LET p == calls[c].p
      S == calls[c].S
  IN  /\ calls[c].phase = "marking"
      /\ MayClear(c, p, S)
      /\ IF ~Exists(p) THEN UNCHANGED controllerVars ELSE MarkClearing(p, S)
      /\ IF Exists(p) /\ ~InRange(partitions[p], S \cap partitions[p].global_indexes)
         THEN End(c) /\ UNCHANGED inbox
         ELSE \E lost \in SUBSET Targets(S) : Ask(c, calls[c], lost)
      /\ UNCHANGED <<stored, active, stale, leaked>>

(* What releasing indexes of p means to the values of their samples.       *)
Outlive(p, failed) ==
  LET released == partition_to_indexes[p] \ partition_to_indexes'[p]
  IN  /\ stale' = stale \cup {e \in stored : e[1] \in released}
      /\ leaked' = leaked \cup {i \in released : UnitOf(i) \in failed}

(* The last request of a clear, whatever the units answered: CLEAR_META or *)
(* CLEAR_PARTITION.                                                        *)
EndClear(c) ==
  LET p == calls[c].p
      S == calls[c].S
  IN  /\ calls[c].op \in {"clear", "clear_all"}
      /\ calls[c].phase = "units" /\ calls[c].open = {}
      /\ IF ~Exists(p) \/ (calls[c].op = "clear" /\ S \cap partitions[p].global_indexes = {})
         THEN UNCHANGED controllerVars
         ELSE IF calls[c].op = "clear" THEN ClearMeta(p, S) ELSE ClearPartition(p)
      /\ Outlive(p, calls[c].failed)
      /\ calls' = [d \in Calls |->
                     IF d = c THEN Ended(c, inbox)
                     ELSE [calls[d] EXCEPT !.gone =
                             @ \cup (calls[d].S \cap (partition_to_indexes[p] \ partition_to_indexes'[p]))]]
      /\ UNCHANGED <<inbox, stored, active>>

(* async_kv_clear_fields: the controller first, then the units.            *)
Drop(c, p) ==
  /\ Free(c) /\ Exists(p)
  /\ \E keys \in (SUBSET Keys) \ {{}}, fs \in (SUBSET Fields) \ {{}} :
       LET S    == IndexesOf(partitions[p], keys)
           held == {f \in fs : partitions[p].field_metadata[f] # {}}
       IN  /\ MayClear(c, p, S) /\ MayUse(p, S)
           /\ KvClearFields(p, keys, fs)
           /\ BeginAsking(c, "drop", p, S, held)
  /\ UNCHANGED <<stored, active, stale, leaked>>

(* A get, a drop, or a put with a failure ends when no request is open.    *)
EndCall(c) ==
  /\ calls[c].phase = "units" /\ calls[c].open = {}
  /\ calls[c].op \in {"get", "drop"} \/ (calls[c].op = "put" /\ calls[c].failed # {})
  /\ End(c)
  /\ UNCHANGED <<controllerVars, unitVars>>

-----------------------------------------------------------------------------
(* A mutant: one attempt too many.                                         *)
TimeoutOffByOne(c, u) ==
  /\ u \in calls[c].open
  /\ calls' = [calls EXCEPT ![c].attempt[u] = @ + 1]
  /\ inbox' = [inbox EXCEPT ![u] = Append(@, <<c, calls[c].attempt[u] + 1>>)]
  /\ UNCHANGED <<controllerVars, stored, active, stale, leaked>>

(* _request_with_retry: a put or get that got no answer is sent again.     *)
Timeout(c, u) ==
  /\ u \in calls[c].open
  /\ LET k == calls[c].attempt[u]
     IN  IF calls[c].op \in {"put", "get"} /\ k < MaxAttempts
         THEN /\ calls' = [calls EXCEPT ![c].attempt[u] = k + 1]
              /\ \E arrives \in BOOLEAN :
                   inbox' = IF arrives THEN [inbox EXCEPT ![u] = Append(@, <<c, k + 1>>)] ELSE inbox
         ELSE /\ calls' = [calls EXCEPT ![c].open = @ \ {u}, ![c].failed = @ \cup {u}]
              /\ UNCHANGED inbox
  /\ UNCHANGED <<controllerVars, stored, active, stale, leaked>>

Full(S, u) ==
  Cardinality(Group(active, u)) + Cardinality(S \ active) > UnitSize

(* A mutant: a put that finds the sample there adds no field to it.        *)
ServePutOnce(S, fs, gone) ==
  /\ stored' = stored \cup ((S \ active) \X fs)
  /\ active' = active \cup S
  /\ stale' = (stale \ ((S \ active) \X fs)) \cup (((S \ active) \cap gone) \X fs)
  /\ UNCHANGED leaked

(* put_data: all of the group, or nothing when the unit would be too full. *)
ServePut(S, fs, gone) ==
  /\ stored' = stored \cup (S \X fs)
  /\ active' = active \cup S
  /\ stale' = (stale \ (S \X fs)) \cup ((S \cap gone) \X fs)
  /\ UNCHANGED leaked

(* A mutant: clear() frees the values and not the keys.                    *)
ServeClearKeepingKeys(S, fs, whole, late) ==
  /\ stored' = stored \ (S \X fs)
  /\ stale' = stale \ (S \X fs)
  /\ leaked' = IF whole THEN leaked \ (S \ late) ELSE leaked
  /\ UNCHANGED active

(* clear: whole samples, or some fields of samples that stay.  What a      *)
(* failed clear leaked is cleared now, unless a put of it is still to come.*)
ServeClear(S, fs, whole, late) ==
  /\ stored' = stored \ (S \X fs)
  /\ stale' = stale \ (S \X fs)
  /\ active' = IF whole THEN active \ S ELSE active
  /\ leaked' = IF whole THEN leaked \ (S \ late) ELSE leaked

(* The proxy hands the requests on in their order, one to one worker.      *)
Taken(u) == [inbox EXCEPT ![u] = Tail(@)]

(* The samples of the puts in a box.                                       *)
PutsIn(box) == UNION {calls[box[k][1]].S : k \in {j \in DOMAIN box : calls[box[j][1]].op = "put"}}

(* A put fits in the unit, a get finds all its values.                     *)
Succeeds(call, u) ==
  /\ call.op = "put" => ~Full(Group(call.S, u), u)
  /\ call.op = "get" => Group(call.S, u) \X call.fs \subseteq stored

(* The caller, if it still awaits this attempt's answer, learns how it     *)
(* went; a late answer finds its socket closed.                            *)
Answered(c, u, attempt, ok) ==
  IF calls[c].phase = "ended" THEN Ended(c, Taken(u))
  ELSE IF u \in calls[c].open /\ calls[c].attempt[u] = attempt
  THEN [calls[c] EXCEPT !.open = @ \ {u}, !.failed = IF ok THEN @ ELSE @ \cup {u}]
  ELSE calls[c]

(* The unit's worker serves the next request.                              *)
Serve(u) ==
  /\ inbox[u] # <<>>
  /\ LET c    == Head(inbox[u])[1]
         call == calls[c]
         S    == Group(call.S, u)
         ok   == Succeeds(call, u)
     IN  /\ inbox' = Taken(u)
         /\ CASE call.op = "put" /\ ok -> ServePut(S, call.fs, call.gone)
              [] call.op \in {"clear", "clear_all", "drop"} ->
                   ServeClear(S, call.fs, call.op # "drop", PutsIn(Tail(inbox[u])))
              [] OTHER -> UNCHANGED <<stored, active, stale, leaked>>
         /\ calls' = [calls EXCEPT ![c] = Answered(c, u, Head(inbox[u])[2], ok)]
  /\ UNCHANGED controllerVars

-----------------------------------------------------------------------------
Step ==
  \/ \E c \in Calls, p \in Partitions :
       PutNew(c, p) \/ PutOver(c, p) \/ Get(c, p) \/ Clear(c, p) \/ ClearAll(c, p) \/ Drop(c, p)
  \/ \E c \in Calls :
       SendPut(c) \/ SendNotify(c) \/ EndNotify(c) \/ MarkAll(c) \/ EndClear(c) \/ EndCall(c)
  \/ \E c \in Calls, u \in Units : Timeout(c, u)
  \/ \E u \in Units : Serve(u)

Next == Step /\ UNCHANGED deployment
Spec == Init /\ [][Next]_vars

-----------------------------------------------------------------------------
ReadyCells == UNION {partitions[p].production_status : p \in DOMAIN partitions}

(* A ready cell has its value, and the value of the index's present owner: *)
(* no order of puts, clears, time-outs and retries makes the controller    *)
(* offer what no unit holds (put_data notifies last, async_clear_samples   *)
(* and async_kv_clear_fields unmark first, "so no reader sees a ready      *)
(* field whose value is gone", client.py:1058), or what a lost CLEAR or a  *)
(* put's retry left of an earlier owner in a unit                          *)
(* (simple_storage_manager.clear_data lets it stay).                       *)
ReadyIsCurrent == ReadyCells \subseteq stored \ stale

(* Until all its units answered, a get finds what it was promised: no      *)
(* clear, drop or reuse of the index comes between fetch and get.          *)
ReadsFindValues ==
  \A c \in Calls : calls[c].op = "get" =>
    \A u \in calls[c].open : Group(calls[c].S, u) \X calls[c].fs \subseteq stored \ stale

(* A unit's capacity is spent on samples of some partition, or on ones     *)
(* whose CLEAR_DATA failed: no failed, retried or late request keeps a     *)
(* sample in a unit for good.                                              *)
SpaceIsOwned == active \subseteq Owned \cup leaked

(* "This prevents consumers from reading data that is about to be deleted  *)
(* from storage, closing the window between storage clear and controller   *)
(* clear" (controller.py:1524).                                            *)
ClearingIsHidden ==
  \A c \in Calls :
    calls[c].op \in {"clear", "clear_all"} /\ calls[c].phase = "units" /\ Exists(calls[c].p)
      => \A e \in partitions[calls[c].p].production_status : e[1] \notin calls[c].S
=============================================================================
