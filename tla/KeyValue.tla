------------------------------ MODULE KeyValue ------------------------------
(***************************************************************************)
(* The key-value interface (transfer_queue/interface.py) end to end:       *)
(* kv_put, kv_update, kv_batch_get, kv_clear with and without fields, as    *)
(* requests to the controller and, by index, to the storage units.  A      *)
(* request to a unit may be lost, and may be served after its sender        *)
(* stopped waiting.                                                        *)
(*                                                                         *)
(* A value is the sequence of the writes it was merged from: a put stores  *)
(* a new one, merge_fn appends.  As the README asks, the writers of a key  *)
(* come one at a time, and a clear overlaps no other call on its keys.     *)
(***************************************************************************)
EXTENDS Controller

CONSTANTS
  Partition,     \* the partition the keys are in
  Slots,         \* bound: the calls that can be under way together
  Deployments,   \* how many storage units there are, TQ_SIMPLE_STORAGE_MAX_ATTEMPTS, and
                 \* two bounds: the writes of a behaviour, the keys known at a time
  Patient        \* do writers wait until no earlier request for the key is left?

ASSUME KeyValueAssumption ==
  /\ Partition \in Partitions
  /\ Deployments \subseteq [units : Nat \ {0}, attempts : Nat \ {0}, writes : Nat, keys : Nat]
  /\ Patient \in BOOLEAN

VARIABLES
  deployment,
  calls,    \* slot -> the call in it
  inbox,    \* requests the units have not served: <<slot, unit, attempt>>
  values,   \* what the units store: <<index, field>> -> value
  writes,   \* how many writes there have been
  could     \* history: <<key, field>> -> the values it may have; <<>> is none

kvVars == <<deployment, calls, inbox, values, writes, could>>
keyValueVars == <<controllerVars, kvVars>>

NumUnits    == deployment.units
PutAttempts == deployment.attempts
Units       == 0..(NumUnits - 1)
UnitOf(i)   == i % NumUnits
Status == IF Exists(Partition) THEN partitions[Partition] ELSE NewPartition({})
Over(f, g) == [x \in DOMAIN f \cup DOMAIN g |-> IF x \in DOMAIN g THEN g[x] ELSE f[x]]
SomeOf(S) == (SUBSET S) \ {{}}

(* kv_retrieve_indexes: where the keys are; the rest of them are missing.  *)
IndexOf(st, k) == (CHOOSE e \in st.keys_mapping : e[1] = k)[2]

Free == [op |-> "none", phase |-> "free", finalize |-> TRUE, index |-> << >>, fs |-> {},
         held |-> {}, number |-> 0, open |-> {}, attempt |-> [u \in Units |-> 0], failed |-> FALSE,
         got |-> << >>, may |-> << >>]

KeyValueInit ==
  /\ ControllerInit
  /\ deployment \in Deployments
  /\ calls = [c \in Slots |-> Free]
  /\ inbox = {}
  /\ values = << >>
  /\ writes = 0
  /\ could = [e \in Keys \X Fields |-> {<< >>}]

KeysOf(call)    == DOMAIN call.index
RowsOf(call, u) == {call.index[k] : k \in {x \in KeysOf(call) : UnitOf(call.index[x]) = u}}
Targets(call)   == {UnitOf(call.index[k]) : k \in KeysOf(call)}

(* The slots whose calls of one of these kinds are about some of the keys. *)
At(keys, ops) == {c \in Slots : calls[c].op \in ops /\ KeysOf(calls[c]) \cap keys # {}}

MayWrite(keys) ==
  {c \in At(keys, {"put", "update"}) : Patient \/ calls[c].phase # "ended"} = {}

-----------------------------------------------------------------------------
(* What write `call` makes of a value of key k: merge_fn runs on what is   *)
(* held, and appends; anything else is stored anew.  A draft is what        *)
(* updates with finalize=False made of a field that held nothing.          *)
Merged(call, k, old, isHeld) ==
  LET mark(draft) == [number |-> call.number, key |-> k, draft |-> draft /\ ~call.finalize]
  IN  IF call.op = "update" /\ isHeld THEN Append(old, mark(Last(old).draft)) ELSE << mark(TRUE) >>

Effects(call, k, olds) == {Merged(call, k, v, v # << >>) : v \in olds}

(* kv_describe: a key's stored fields, and those of them that are hidden.  *)
Described(st, i)   == {f \in Fields : i \in st.field_metadata[f]}
Unfinalized(st, i) == {f \in Described(st, i) : <<i, f>> \notin st.production_status}

(* A mutant: hidden cells are not planned as held.                         *)
HeldReady(st, indexes, fs) ==
  {e \in indexes \X fs : e[2] \in Described(st, e[1]) \ Unfinalized(st, e[1])}

(* The merge plan of kv_prepare_update.                                    *)
Held(st, indexes, fs) == {e \in indexes \X fs : e[2] \in Described(st, e[1])}

(* kv_retrieve_meta(create = True), kv_prepare_update: the missing keys are *)
(* registered.                                                             *)
Registered(keys) ==
  LET missing == keys \ KnownKeys(Status)
  IN  IF missing = {} THEN UNCHANGED controllerVars
      ELSE \E A \in Activations(Partition, Cardinality(missing)) : KvCreate(Partition, missing, A)

(* A request to each unit the call's keys are on, all sent at once.         *)
Asking(call)      == [call EXCEPT !.open = Targets(call), !.attempt = [u \in Units |-> 1]]
Requests(c, call) == {<<c, u, 1>> : u \in Targets(call)}

(* The calls under way learn what `call` may make of the cells it writes.  *)
Expecting(call, keys) ==
  [d \in Slots |-> [calls[d] EXCEPT !.may = [e \in DOMAIN calls[d].may |->
     IF e[1] \in keys /\ e[2] \in call.fs
     THEN calls[d].may[e] \cup Effects(call, e[1], could[e]) ELSE calls[d].may[e]]]]

(* Registers the keys, and sends the fields; without fields tags remain.   *)
BeginWrite(c, op, keys, fs, finalize) ==
  /\ calls[c] = Free /\ writes < deployment.writes
  /\ Cardinality(KnownKeys(Status) \cup keys) <= deployment.keys
  /\ MayWrite(keys)
  /\ Registered(keys)
  /\ LET st    == partitions'[Partition]
         index == [k \in keys |-> IndexOf(st, k)]
         call  == [Free EXCEPT !.op = op, !.phase = IF fs = {} THEN "tag" ELSE "units",
                     !.finalize = finalize, !.index = index, !.fs = fs, !.number = writes + 1,
                     !.held = IF op = "update" THEN Held(st, {index[k] : k \in keys}, fs) ELSE {}]
     IN  IF fs = {} THEN calls' = [calls EXCEPT ![c] = call] /\ UNCHANGED inbox
         ELSE /\ calls' = [Expecting(call, keys) EXCEPT ![c] = Asking(call)]
              /\ inbox' = inbox \cup Requests(c, call)
  /\ writes' = writes + 1
  /\ UNCHANGED <<values, could>>

(* async_kv_put *)
Put(c) == \E k \in Keys, fs \in SUBSET Fields : BeginWrite(c, "put", {k}, fs, TRUE)

(* async_kv_batch_put *)
BatchPut(c) == \E keys \in SomeOf(Keys), fs \in SUBSET Fields : BeginWrite(c, "put", keys, fs, TRUE)

(* async_kv_batch_update; async_kv_update is one of a single key.          *)
Update(c) ==
  \E keys \in SomeOf(Keys), fs \in SomeOf(Fields), finalize \in BOOLEAN :
    BeginWrite(c, "update", keys, fs, finalize)

(* A mutant: a field need be ready in one of the keys only.                *)
ReadyInSome(st, indexes, fs) ==
  \A f \in fs : \E i \in indexes : <<i, f>> \in st.production_status

(* kv_retrieve_meta keeps the fields that are ready in all the keys.       *)
ReadyInAll(st, indexes, fs) == indexes \X fs \subseteq st.production_status

(* async_kv_batch_get: a missing key or a field that is not ready raises.  *)
Get(c) ==
  /\ calls[c] = Free
  /\ \E keys \in SomeOf(Keys), fs \in SomeOf(Fields) :
       /\ keys \subseteq KnownKeys(Status)
       /\ LET index   == [k \in keys |-> IndexOf(Status, k)]
              writer(e) == {d \in At({e[1]}, {"put", "update"}) : e[2] \in calls[d].fs}
              call == [Free EXCEPT !.op = "get", !.phase = "units", !.index = index, !.fs = fs,
                         !.may = [e \in keys \X fs |->
                           could[e] \cup UNION {Effects(calls[d], e[1], could[e]) : d \in writer(e)}]]
          IN  /\ ReadyInAll(Status, {index[k] : k \in keys}, fs)
              /\ calls' = [calls EXCEPT ![c] = Asking(call)]
              /\ inbox' = inbox \cup Requests(c, call)
  /\ UNCHANGED <<controllerVars, values, writes, could>>

-----------------------------------------------------------------------------
(* A mutant: a merge is sent again when no answer came.                    *)
AttemptsOfAll(op) == PutAttempts

(* A merge is not repeated.  A get is, but then it only reads later, as    *)
(* the first request might have.                                           *)
Attempts(op) == IF op = "put" THEN PutAttempts ELSE 1

(* The unit's answer is heard by the attempt that asked, if that waits.    *)
Hears(call, u, n) == u \in call.open /\ call.attempt[u] = n

Failing(call) == [call EXCEPT !.failed = (call.phase = "units")]

(* An ended call's slot is free when no request of it is left or waits.    *)
Settle(c, call, box) ==
  IF call.phase = "ended" /\ call.open = {} /\ \A r \in box : r[1] # c THEN Free ELSE call

Answered(c, u, n, call) ==
  IF Hears(calls[c], u, n) THEN [call EXCEPT !.open = @ \ {u}] ELSE calls[c]

(* apply_update: a held value that is missing fails the whole request.     *)
CanMerge(call, u) ==
  \A e \in call.held : UnitOf(e[1]) = u => e \in DOMAIN values

Stored(call, u) ==
  [e \in RowsOf(call, u) \X call.fs |->
     LET k == CHOOSE x \in KeysOf(call) : call.index[x] = e[1]
     IN  Merged(call, k, IF e \in DOMAIN values THEN values[e] ELSE << >>, e \in call.held)]

(* The unit's answer to a write, which may be lost.                        *)
Answer(c, u, n, success) ==
  /\ inbox' = inbox \ {<<c, u, n>>}
  /\ \E heard \in BOOLEAN :
       calls' = [calls EXCEPT ![c] =
         Settle(c, IF heard THEN Answered(c, u, n, IF success THEN @ ELSE Failing(@)) ELSE @, inbox')]
  /\ UNCHANGED <<controllerVars, writes, could>>

ServePut(c, u, n) ==
  /\ <<c, u, n>> \in inbox /\ calls[c].op = "put"
  /\ values' = Over(values, Stored(calls[c], u))
  /\ Answer(c, u, n, TRUE)

ServeUpdate(c, u, n) ==
  /\ <<c, u, n>> \in inbox /\ calls[c].op = "update"
  /\ values' = IF CanMerge(calls[c], u) THEN Over(values, Stored(calls[c], u)) ELSE values
  /\ Answer(c, u, n, CanMerge(calls[c], u))

(* A unit serves a get: a row that is missing fails it.                    *)
ServeGet(c, u, n) ==
  LET call  == calls[c]
      cells == RowsOf(call, u) \X call.fs
      keys  == {k \in KeysOf(call) : UnitOf(call.index[k]) = u}
  IN  /\ <<c, u, n>> \in inbox /\ call.op = "get"
      /\ inbox' = inbox \ {<<c, u, n>>}
      /\ calls' = [calls EXCEPT ![c] = Settle(c, Answered(c, u, n,
           IF cells \subseteq DOMAIN values
           THEN [call EXCEPT !.got = Over(@, [e \in keys \X call.fs |-> values[<<call.index[e[1]], e[2]>>]])]
           ELSE Failing(call)), inbox')]
      /\ UNCHANGED <<controllerVars, values, writes, could>>

(* A request is lost on its way.                                           *)
Lose(r) ==
  /\ r \in inbox
  /\ inbox' = inbox \ {r}
  /\ calls' = [calls EXCEPT ![r[1]] = Settle(r[1], @, inbox')]
  /\ UNCHANGED <<controllerVars, values, writes, could>>

(* _request_with_retry: no answer in time.                                 *)
Timeout(c, u) ==
  LET call == calls[c]
  IN  /\ u \in call.open
      /\ IF call.attempt[u] < Attempts(call.op)
         THEN /\ calls' = [calls EXCEPT ![c].attempt[u] = @ + 1]
              /\ inbox' = inbox \cup {<<c, u, call.attempt[u] + 1>>}
         ELSE /\ calls' = [calls EXCEPT ![c] = Settle(c, Failing([call EXCEPT !.open = @ \ {u}]), inbox)]
              /\ UNCHANGED inbox
      /\ UNCHANGED <<controllerVars, values, writes, could>>

End(c) ==
  calls' = [calls EXCEPT ![c] =
    Settle(c, [@ EXCEPT !.phase = "ended"], inbox)]

-----------------------------------------------------------------------------
(* What the cells of write c may be now, if it took place or may have.     *)
Outcome(c, certain) ==
  could' = [e \in DOMAIN could |->
              IF e[1] \notin KeysOf(calls[c]) \/ e[2] \notin calls[c].fs THEN could[e]
              ELSE LET new == Effects(calls[c], e[1], could[e])
                   IN  IF certain THEN new ELSE could[e] \cup new]

(* A mutant: every notified field is ready.                                *)
ReadyAnyway(call) == TRUE

Ready(call) == call.finalize

(* notify_data_update of a write all units answered.  It may not arrive or *)
(* be refused, and its ACK may be lost: an update then raises, a put only  *)
(* when it was refused.                                                    *)
NotifyWritten(c) ==
  LET call == calls[c]
  IN  /\ call.op \in {"put", "update"} /\ call.phase = "units" /\ call.open = {} /\ ~call.failed
      /\ \E recorded, acked \in BOOLEAN :
           /\ IF recorded
              THEN NotifyDataUpdate(Partition, {call.index[k] : k \in KeysOf(call)}, call.fs, Ready(call))
              ELSE UNCHANGED controllerVars
           /\ Outcome(c, recorded /\ acked)
           /\ IF call.op = "put" /\ acked
              THEN calls' = [calls EXCEPT ![c].phase = "tag"]
              ELSE End(c)
      /\ UNCHANGED <<inbox, values, writes>>

(* async_set_custom_meta *)
SetTags(c) ==
  /\ calls[c].phase = "tag"
  /\ SetMeta(Partition, {calls[c].index[k] : k \in KeysOf(calls[c])})
  /\ End(c)
  /\ UNCHANGED <<inbox, values, writes, could>>

(* gather raises as soon as a request failed; the others go on, repeated   *)
(* too, with nobody to hear of them.                                       *)
Fail(c) ==
  /\ calls[c].op \in {"put", "update"} /\ calls[c].phase = "units" /\ calls[c].failed
  /\ Outcome(c, FALSE)
  /\ calls' = [calls EXCEPT ![c] = Settle(c, [@ EXCEPT !.phase = "ended", !.failed = FALSE], inbox)]
  /\ UNCHANGED <<controllerVars, inbox, values, writes>>

(* The get answers or raises; a request of it that is left changes nothing. *)
EndGet(c) ==
  /\ calls[c].op = "get" /\ calls[c].phase = "units" /\ (calls[c].open = {} \/ calls[c].failed)
  /\ calls' = [calls EXCEPT ![c] = Free]
  /\ inbox' = {r \in inbox : r[1] # c}
  /\ UNCHANGED <<controllerVars, values, writes, could>>

-----------------------------------------------------------------------------
Quiet(keys) == At(keys, {"put", "update", "get"}) = {}

Dropped(keys, fs) ==
  could' = [e \in DOMAIN could |-> IF e[1] \in keys /\ e[2] \in fs THEN {<< >>} ELSE could[e]]

(* clear_data on the units: one that fails is only logged.                 *)
Removed(cells) ==
  \E kept \in SUBSET Units :
    values' = [e \in {x \in DOMAIN values : x \notin cells \/ UnitOf(x[1]) \in kept} |-> values[e]]

(* async_kv_clear: MARK_CLEARING, the units, CLEAR_META.                   *)
ClearKeys ==
  \E keys \in SomeOf(KnownKeys(Status)) :
    LET S == IndexesOf(Status, keys)
    IN  /\ Quiet(keys)
        /\ Removed(S \X Fields)
        /\ ClearMeta(Partition, S)
        /\ Dropped(keys, Fields)
        /\ UNCHANGED <<calls, inbox, writes>>

(* async_kv_clear with fields.                                             *)
ClearFieldsOf ==
  \E keys \in SomeOf(Keys), fs \in SomeOf(Fields) :
    /\ Quiet(keys)
    /\ KvClearFields(Partition, keys, fs)
    /\ Removed(IndexesOf(Status, keys) \X fs)
    /\ Dropped(keys, fs)
    /\ UNCHANGED <<calls, inbox, writes>>

Step ==
  \/ \E c \in Slots : Put(c) \/ BatchPut(c) \/ Update(c) \/ Get(c)
                   \/ NotifyWritten(c) \/ SetTags(c) \/ Fail(c) \/ EndGet(c)
  \/ \E c \in Slots, u \in Units : Timeout(c, u)
  \/ \E c \in Slots, u \in Units, n \in 1..PutAttempts :
       ServePut(c, u, n) \/ ServeUpdate(c, u, n) \/ ServeGet(c, u, n)
  \/ \E r \in inbox : Lose(r)
  \/ ClearKeys \/ ClearFieldsOf

KeyValueNext == Step /\ UNCHANGED deployment

KeyValueSpec == KeyValueInit /\ [][KeyValueNext]_keyValueVars

-----------------------------------------------------------------------------
(* What a key's field holds, as the controller describes it.               *)
Holds(k, f) ==
  IF k \notin KnownKeys(Status) THEN << >>
  ELSE LET i == IndexOf(Status, k)
       IN  IF f \notin Described(Status, i) THEN << >>
           ELSE IF <<i, f>> \in DOMAIN values THEN values[<<i, f>>] ELSE << "missing" >>

(* Between its writes a field holds what they make of it one after the     *)
(* other: each that succeeded once, each that failed once or not at all,   *)
(* and nothing of a sample that was cleared, whatever requests were lost,   *)
(* repeated, late, or only partly carried out (README.md:125-133).         *)
HeldIsPossible ==
  \A e \in Keys \X Fields : At({e[1]}, {"put", "update"}) = {} => Holds(e[1], e[2]) \in could[e]

Finished(c) == calls[c].op = "get" /\ calls[c].phase = "units" /\ calls[c].open = {} /\ ~calls[c].failed

(* A get returns, for each key, a value that key had during the call.      *)
ReadsArePossible ==
  \A c \in Slots : Finished(c) => \A e \in DOMAIN calls[c].got : calls[c].got[e] \in calls[c].may[e]

(* "a field built over several updates never shows an intermediate value"  *)
(* (interface.py, kv_update): no get returns one.                          *)
DraftsStayHidden ==
  \A c \in Slots : Finished(c) => \A e \in DOMAIN calls[c].got : ~Last(calls[c].got[e]).draft
=============================================================================
