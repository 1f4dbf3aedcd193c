----------------------------- MODULE Checkpoint -----------------------------
(***************************************************************************)
(* save_checkpoint and load_checkpoint (transfer_queue/interface.py): the  *)
(* controller, then every storage unit, writes its state below             *)
(* <dir>.tmp, which then replaces <dir>, by way of <dir>.old.  Meanwhile   *)
(* samples are put and cleared; any request or file operation may fail,    *)
(* any answer of a unit may come too late, and the calling process, or the *)
(* whole system, may stop between two steps and start again, with another  *)
(* number of units.                                                        *)
(*                                                                         *)
(* One field; one process saves and loads.                                 *)
(***************************************************************************)
EXTENDS Naturals, Sequences, FiniteSets, TLC

CONSTANTS
  MaxIndexes,   \* bound: global indexes
  Keys,
  Sizes,        \* numbers of storage units a session may have
  Bounds,       \* bound: how many registrations and writes there may be (data), with how
                \* many saves and loads of checkpoints and how many of dumps
  MaxRestarts,  \* bound: restarts of the system
  Quiet         \* do clears and saves keep out of each other's way?

ASSUME CheckpointAssumption ==
  /\ MaxIndexes \in Nat /\ MaxRestarts \in Nat /\ Bounds \subseteq [data : Nat, checkpoints : Nat, dumps : Nat]
  /\ Sizes \subseteq Nat \ {0}
  /\ Quiet \in BOOLEAN

VARIABLES
  size,         \* how many units this session has
  controller,   \* its samples: owner, an index's sample; held; ready
  units,        \* unit -> what it stores: index -> value
  clearing,     \* the indexes a clear_samples is between two of its steps with
  mode,         \* "fresh", "loading" (a load was tried) or "live"
  inbox,        \* unit -> the requests of saves, loads and dumps it has not served
  caller,       \* the process that saves, loads and dumps
  disk,         \* the directories main (<dir>), tmp (<dir>.tmp) and old (<dir>.old)
  restarts,
  calls,        \* how many saves and loads, of checkpoints and of dumps, began
  count,        \* numbers samples and values
  written       \* history: the values written for a sample: <<sample, value>>

dataVars == <<controller, units, clearing, written>>
vars == <<size, dataVars, mode, inbox, caller, disk, restarts, calls, count>>

Indexes   == 0..(MaxIndexes - 1)
Units     == 0..(size - 1)
UnitOf(i) == i % size
Stored(i) == IF i \in DOMAIN units[UnitOf(i)] THEN units[UnitOf(i)][i] ELSE 0

Put(f, i, v) == [j \in DOMAIN f \cup {i} |-> IF j = i THEN v ELSE f[j]]
Drop(f, i)   == [j \in DOMAIN f \ {i} |-> f[j]]

NoSamples == [owner |-> << >>, held |-> {}, ready |-> {}]
NoDir     == [number |-> 0, state |-> NoSamples, saved |-> FALSE, files |-> << >>, manifest |-> 0, meta |-> FALSE]
Idle      == [op |-> "none", pc |-> "none", open |-> {}, failed |-> FALSE]

Exists(d) == d # NoDir

Whole(d) ==
  Exists(d) /\ d.saved /\ d.meta /\ d.manifest # 0 /\ DOMAIN d.files = 0..(d.manifest - 1)

Start(n) ==
  [units |-> [u \in 0..(n - 1) |-> << >>], inbox |-> [u \in 0..(n - 1) |-> << >>]]

Init ==
  /\ size \in Sizes
  /\ controller = NoSamples /\ clearing = {} /\ mode = "fresh" /\ caller = Idle
  /\ units = Start(size).units /\ inbox = Start(size).inbox
  /\ disk = [main |-> NoDir, tmp |-> NoDir, old |-> NoDir]
  /\ restarts = 0 /\ calls = [checkpoints |-> 0, dumps |-> 0] /\ count = 0 /\ written = {}

-----------------------------------------------------------------------------
(* Samples.  No data operation runs while a load is under way or failed.   *)
DataOp ==
  /\ mode # "loading"
  /\ mode' = "live"
  /\ UNCHANGED <<size, inbox, caller, disk, restarts, calls>>

Owned == DOMAIN controller.owner
Bounded(data, began) ==
  \E b \in Bounds : data <= b.data /\ began.checkpoints <= b.checkpoints /\ began.dumps <= b.dumps

Register(k) ==
  /\ Bounded(count + 1, calls) /\ \A i \in Owned : controller.owner[i].key # k
  /\ count' = count + 1
  /\ \E i \in Indexes \ Owned :
       controller' = [controller EXCEPT !.owner = Put(@, i, [key |-> k, number |-> count + 1])]
  /\ UNCHANGED <<units, clearing, written>> /\ DataOp

(* A put, or an update: the unit stores the value...                       *)
Store(i) ==
  /\ Bounded(count + 1, calls) /\ i \in Owned \ clearing
  /\ count' = count + 1
  /\ units' = [units EXCEPT ![UnitOf(i)] = Put(@, i, count + 1)]
  /\ written' = written \cup {<<controller.owner[i].number, count + 1>>}
  /\ UNCHANGED <<controller, clearing>> /\ DataOp

(* ... and the controller is notified; not ready if finalize = False.      *)
Notify(i) ==
  /\ i \in Owned \ clearing /\ <<controller.owner[i].number, Stored(i)>> \in written
  /\ \E ready \in BOOLEAN :
       controller' = [controller EXCEPT !.held = @ \cup {i}, !.ready = IF ready THEN @ \cup {i} ELSE @ \ {i}]
  /\ UNCHANGED <<units, clearing, written, count>> /\ DataOp

(* async_clear_samples: hidden, removed from the units, released.          *)
MarkClearing(i) ==
  /\ i \in Owned \ clearing /\ (Quiet => caller = Idle)
  /\ controller' = [controller EXCEPT !.ready = @ \ {i}]
  /\ clearing' = clearing \cup {i}
  /\ UNCHANGED <<units, written, count>> /\ DataOp

Remove(i) ==
  /\ i \in clearing /\ Stored(i) # 0
  /\ units' = [units EXCEPT ![UnitOf(i)] = Drop(@, i)]
  /\ UNCHANGED <<controller, clearing, written, count>> /\ DataOp

Release(i) ==
  /\ i \in clearing
  /\ controller' = [owner |-> Drop(controller.owner, i), held |-> controller.held \ {i},
                    ready |-> controller.ready \ {i}]
  /\ clearing' = clearing \ {i}
  /\ UNCHANGED <<units, written, count>> /\ DataOp

-----------------------------------------------------------------------------
(* The calls of the one process that saves and loads are numbered, so that *)
(* a late answer is told from its own.                                     *)
Call(op, pc, open) == [op |-> op, pc |-> pc, open |-> open, failed |-> FALSE]
Number(began)      == began.checkpoints + began.dumps

MayCall ==
  /\ caller = Idle /\ (Quiet => clearing = {})
  /\ Bounded(count, calls')

CallCheckpoint == calls' = [calls EXCEPT !.checkpoints = @ + 1] /\ MayCall

(* Requests to some of the units, all sent at once.                        *)
Ask(kind, rows, n) ==
  inbox' = [u \in Units |-> IF u \in DOMAIN rows
                            THEN Append(inbox[u], [kind |-> kind, call |-> n, rows |-> rows[u]])
                            ELSE inbox[u]]

AskAll(kind, n) == Ask(kind, [u \in Units |-> {}], n)

AllAnswered(op) == caller.op = op /\ caller.pc = "units" /\ caller.open = {} /\ ~caller.failed

Return == caller' = Idle

(* A unit has served the first of its requests; its answer is heard unless *)
(* the caller stopped waiting for it.                                      *)
Served(u, success) ==
  /\ inbox' = [inbox EXCEPT ![u] = Tail(@)]
  /\ caller' = IF Head(inbox[u]).call = Number(calls) /\ u \in caller.open
               THEN [caller EXCEPT !.open = @ \ {u}, !.failed = @ \/ ~success]
               ELSE caller

Asked(u, kind) == inbox[u] # << >> /\ Head(inbox[u]).kind = kind

(* The caller waits no longer: the request may be served yet, or be lost   *)
(* with its unit at the next restart.                                      *)
UnitTimeout(u) ==
  /\ u \in caller.open
  /\ caller' = [caller EXCEPT !.open = @ \ {u}, !.failed = TRUE]
  /\ UNCHANGED <<size, dataVars, mode, inbox, disk, restarts, calls, count>>

-----------------------------------------------------------------------------
SaveBegin ==
  /\ mode # "loading" /\ CallCheckpoint
  /\ caller' = Call("save", "begun", {})
  /\ disk' = [disk EXCEPT !.tmp = [NoDir EXCEPT !.number = Number(calls')]]
  /\ UNCHANGED <<size, dataVars, mode, inbox, restarts, count>>

SaveController ==
  /\ caller.op = "save" /\ caller.pc = "begun"
  /\ disk' = [disk EXCEPT !.tmp.state = controller, !.tmp.saved = TRUE]
  /\ caller' = Call("save", "units", Units)
  /\ AskAll("save", Number(calls))
  /\ UNCHANGED <<size, dataVars, mode, restarts, calls, count>>

(* _handle_save_checkpoint: the file's directory may be gone, or be that of *)
(* a later save.                                                           *)
ServeSave(u) ==
  /\ Asked(u, "save")
  /\ \E success \in IF disk.tmp.saved THEN BOOLEAN ELSE {FALSE} :
       /\ disk' = IF success THEN [disk EXCEPT !.tmp.files = Put(@, u, units[u])] ELSE disk
       /\ Served(u, success)
  /\ UNCHANGED <<size, dataVars, mode, restarts, calls, count>>

SaveManifests ==
  /\ AllAnswered("save")
  /\ disk' = [disk EXCEPT !.tmp.manifest = size, !.tmp.meta = TRUE]
  /\ caller' = Call("save", "aside", {})
  /\ UNCHANGED <<size, dataVars, mode, inbox, restarts, calls, count>>

(* rmtree is not one step.                                                 *)
LessOf(d) == IF d.meta THEN [d EXCEPT !.meta = FALSE] ELSE NoDir

(* A mutant: <dir> is removed, and not moved aside.                        *)
AsideRemoving == [disk EXCEPT !.main = LessOf(@)]

(* A directory that is there is moved aside, where there must be none.     *)
Aside ==
  IF ~Exists(disk.main) THEN disk
  ELSE IF Exists(disk.old) THEN [disk EXCEPT !.old = LessOf(@)]
  ELSE [disk EXCEPT !.old = disk.main, !.main = NoDir]

MoveAside ==
  /\ caller.op = "save" /\ caller.pc = "aside"
  /\ disk' = Aside
  /\ caller' = IF Exists(disk'.main) THEN caller ELSE Call("save", "install", {})
  /\ UNCHANGED <<size, dataVars, mode, inbox, restarts, calls, count>>

Install ==
  /\ caller.op = "save" /\ caller.pc = "install"
  /\ disk' = [disk EXCEPT !.main = disk.tmp, !.tmp = NoDir]
  /\ caller' = Call("save", "tidy", {})
  /\ UNCHANGED <<size, dataVars, mode, inbox, restarts, calls, count>>

Tidy ==
  /\ caller.op = "save" /\ caller.pc = "tidy"
  /\ disk' = [disk EXCEPT !.old = LessOf(@)]
  /\ caller' = IF Exists(disk'.old) THEN caller ELSE Idle
  /\ UNCHANGED <<size, dataVars, mode, inbox, restarts, calls, count>>

(* An exception at any step: <dir>.tmp is removed, unless that raises too, *)
(* and what was moved aside is moved back.                                 *)
SaveFails ==
  /\ caller.op = "save" /\ caller.pc # "restore"
  /\ \/ /\ disk' = [disk EXCEPT !.tmp = NoDir]
        /\ caller' = Call("save", "restore", {})
     \/ /\ Exists(disk.tmp)
        /\ UNCHANGED disk
        /\ Return
  /\ UNCHANGED <<size, dataVars, mode, inbox, restarts, calls, count>>

RolledBack ==
  IF Exists(disk.old) /\ ~Exists(disk.main) THEN [disk EXCEPT !.main = disk.old, !.old = NoDir] ELSE disk

SaveRestores ==
  /\ caller.op = "save" /\ caller.pc = "restore"
  /\ disk' = RolledBack
  /\ Return
  /\ UNCHANGED <<size, dataVars, mode, inbox, restarts, calls, count>>

-----------------------------------------------------------------------------
(* A mutant: the units of the checkpoint are not counted.                  *)
FitsAny(d) == TRUE

Fits(d) == d.manifest = size

(* load_checkpoint rolls an interrupted save back, and refuses what is not *)
(* there or is of another number of units.                                 *)
LoadBegin ==
  /\ mode \in {"fresh", "loading"} /\ CallCheckpoint
  /\ disk' = RolledBack
  /\ IF disk'.main.meta /\ Fits(disk'.main)
     THEN /\ caller' = Call("load", "units", Units)
          /\ AskAll("load", Number(calls'))
          /\ mode' = "loading"
     ELSE UNCHANGED <<caller, inbox, mode>>
  /\ UNCHANGED <<size, dataVars, restarts, count>>

(* _handle_load_checkpoint *)
ServeLoad(u) ==
  /\ Asked(u, "load")
  /\ \E success \in IF u \in DOMAIN disk.main.files THEN BOOLEAN ELSE {FALSE} :
       /\ units' = IF success THEN [units EXCEPT ![u] = disk.main.files[u]] ELSE units
       /\ Served(u, success)
  /\ UNCHANGED <<size, controller, clearing, written, mode, disk, restarts, calls, count>>

LoadController ==
  /\ AllAnswered("load")
  /\ controller' = disk.main.state
  /\ mode' = "live"
  /\ Return
  /\ UNCHANGED <<size, units, clearing, written, inbox, disk, restarts, calls, count>>

(* An error, or the end of the calling process.                            *)
Stop ==
  /\ caller # Idle
  /\ Return
  /\ UNCHANGED <<size, dataVars, mode, inbox, disk, restarts, calls, count>>

(* The system stops, and comes up with other units and no data.            *)
Restart ==
  /\ restarts < MaxRestarts
  /\ restarts' = restarts + 1
  /\ size' \in Sizes
  /\ controller' = NoSamples /\ clearing' = {} /\ mode' = "fresh" /\ Return
  /\ units' = Start(size').units /\ inbox' = Start(size').inbox
  /\ UNCHANGED <<written, disk, calls, count>>

CheckpointStep ==
  \/ SaveBegin \/ SaveController \/ SaveManifests \/ MoveAside \/ Install \/ Tidy
  \/ SaveFails \/ SaveRestores \/ LoadBegin \/ LoadController \/ Stop
  \/ \E u \in Units : ServeSave(u) \/ ServeLoad(u) \/ UnitTimeout(u)

DataStep ==
  \/ \E k \in Keys : Register(k)
  \/ \E i \in Indexes : Store(i) \/ Notify(i) \/ MarkClearing(i) \/ Remove(i) \/ Release(i)

Next == CheckpointStep \/ DataStep \/ Restart

Spec == Init /\ [][Next]_vars

-----------------------------------------------------------------------------
(* What the controller takes for written its unit has, as it was written   *)
(* for that sample: while the system runs and after it was restored.  A    *)
(* checkpoint is taken request by request, and restored the same way       *)
(* (docs/checkpoint.md, "Save Order and Consistency").                     *)
HeldIsStored ==
  mode # "loading" =>
    \A i \in controller.held \ clearing : <<controller.owner[i].number, Stored(i)>> \in written

(* At every moment a load would find the last checkpoint that was put in   *)
(* place, whole, whichever steps of saves failed or never ran.             *)
NumberOf(d) == d.number
Kept == IF Exists(disk.main) THEN disk.main ELSE disk.old
Promise == INSTANCE AtomicCheckpoint WITH kept <- Kept, Whole <- Whole, Number <- NumberOf
LoadsFindTheLast == Promise!Spec
=============================================================================
