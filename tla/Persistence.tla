---------------------------- MODULE Persistence ----------------------------
(***************************************************************************)
(* dump_data_by_key and load_data_by_key (transfer_queue/interface.py, the *)
(* file format in data_dump.py) beside the checkpoints: selected rows are  *)
(* written by the units that own them to a staging directory, which is     *)
(* synced and renamed, and read back by the units that own their keys'     *)
(* indexes then, in this session or a later one.  The system may lose      *)
(* power, and with it whatever was not synced.                             *)
(*                                                                         *)
(* Writers and clears of the keys are paused during both, as the interface *)
(* asks, and for as long as a unit still has a request to load their rows. *)
(***************************************************************************)
EXTENDS Checkpoint

VARIABLES
  staged,   \* the staging directory of the dump under way
  dump,     \* the published dump
  wanted,   \* history: what the dump shall hold: key -> [value, ready]
  target,   \* key -> its index now, for the load under way
  lost      \* was a notification of that load lost?

dumpVars == <<staged, dump, wanted, target, lost>>
allVars  == <<vars, dumpVars>>

(* A directory: what the files say, which there are, which of their names  *)
(* and whether its own survive a loss of power.                            *)
Files  == {"shards", "shard_info", "row_index", "dump_info"}
NoDump == [rows |-> << >>, shards |-> << >>, files |-> {}, synced |-> {}, durable |-> FALSE, there |-> FALSE]

PInit == Init /\ staged = NoDump /\ dump = NoDump /\ wanted = << >> /\ target = << >> /\ lost = FALSE

IndexOf(k) == CHOOSE i \in Owned : controller.owner[i].key = k
Known(k)   == \E i \in Owned : controller.owner[i].key = k

-----------------------------------------------------------------------------
(* kv_describe, then each owner unit is asked for its rows.  A key without *)
(* a produced field keeps its place in the row index.                      *)
Described(keys) ==
  [k \in keys |-> [index |-> IndexOf(k), held |-> IndexOf(k) \in controller.held,
                   ready |-> IndexOf(k) \in controller.ready]]

Produced(rows) == {k \in DOMAIN rows : rows[k].held}

(* The rows of each unit that has any.                                     *)
ByUnit(rows, index) ==
  [u \in {UnitOf(index[k]) : k \in Produced(rows)} |->
     {[key |-> k, source |-> rows[k].index, index |-> index[k], number |-> controller.owner'[index[k]].number] :
        k \in {x \in Produced(rows) : UnitOf(index[x]) = u}}]

CallDump == calls' = [calls EXCEPT !.dumps = @ + 1] /\ MayCall

DumpBegin(keys) ==
  /\ mode # "loading" /\ CallDump /\ ~dump.there /\ \A k \in keys : Known(k)
  /\ UNCHANGED <<size, dataVars, mode, disk, restarts, count>>
  /\ LET rows  == Described(keys)
         asked == ByUnit(rows, [k \in keys |-> rows[k].index])
     IN  /\ staged' = [NoDump EXCEPT !.rows = rows]
         /\ wanted' = [k \in keys |-> [value |-> Stored(IndexOf(k)), ready |-> rows[k].ready]]
         /\ caller' = Call("dump", "units", DOMAIN asked)
         /\ Ask("dump", asked, Number(calls'))
  /\ UNCHANGED <<dump, target, lost>>

(* _handle_dump_rows: a row that is not there fails it.                    *)
ServeDump(u) ==
  LET rows == Head(inbox[u]).rows
  IN  /\ Asked(u, "dump")
      /\ \E success \in IF \A r \in rows : Stored(r.index) # 0 THEN BOOLEAN ELSE {FALSE} :
           /\ Served(u, success)
           /\ staged' = IF success /\ Head(inbox[u]).call = Number(calls) /\ caller.op = "dump"
                        THEN [staged EXCEPT !.files = @ \cup {"shards"},
                                !.shards = Put(@, u, [i \in {r.index : r \in rows} |-> Stored(i)])]
                        ELSE staged
      /\ UNCHANGED <<size, dataVars, mode, disk, restarts, calls, count, dump, wanted, target, lost>>

Publishing(from, to, new) ==
  /\ caller.op = "dump" /\ caller.pc = from
  /\ caller' = Call("dump", to, {}) /\ staged' = new
  /\ UNCHANGED <<size, dataVars, mode, inbox, disk, restarts, calls, count, dump, wanted, target, lost>>

(* publish_dump: shard_info.json, then the names of the shards are synced. *)
SyncShards ==
  /\ AllAnswered("dump")
  /\ Publishing("units", "manifests",
       [staged EXCEPT !.files = @ \cup {"shards", "shard_info"}, !.synced = {"shards", "shard_info"}])

WriteManifests == Publishing("manifests", "sync", [staged EXCEPT !.files = Files])

(* A mutant: the directory is not synced before the rename.                *)
SyncedLater == staged

Synced == [staged EXCEPT !.synced = Files]

SyncStaging == Publishing("sync", "rename", Synced)

(* rename() refuses a directory that is there.                             *)
Publish ==
  /\ caller.op = "dump" /\ caller.pc = "rename" /\ ~dump.there
  /\ dump' = [staged EXCEPT !.there = TRUE]
  /\ staged' = NoDump /\ caller' = Call("dump", "parent", {})
  /\ UNCHANGED <<size, dataVars, mode, inbox, disk, restarts, calls, count, wanted, target, lost>>

DumpEnds ==
  /\ caller.op = "dump" /\ caller.pc = "parent"
  /\ dump' = [dump EXCEPT !.durable = TRUE]
  /\ Return
  /\ UNCHANGED <<size, dataVars, mode, inbox, disk, restarts, calls, count, staged, wanted, target, lost>>

-----------------------------------------------------------------------------
(* read_dump finds all the dump claims.                                    *)
Complete(d) ==
  /\ d.there /\ d.files = Files
  /\ \A k \in Produced(d.rows) : \E u \in DOMAIN d.shards : d.rows[k].index \in DOMAIN d.shards[u]

Dumped(i) == LET u == CHOOSE x \in DOMAIN dump.shards : i \in DOMAIN dump.shards[x] IN dump.shards[u][i]

(* The keys' indexes now.                                                  *)
Target(now) == [k \in DOMAIN dump.rows |-> CHOOSE i \in DOMAIN now : now[i].key = k]

(* New keys get indexes; the units that own the rows' indexes now are asked.*)
LoadRowsBegin ==
  /\ mode # "loading" /\ CallDump /\ Complete(dump)
  /\ LET new == {k \in DOMAIN dump.rows : ~Known(k)}
     IN  \E at \in [new -> Indexes \ Owned], nth \in [new -> 1..Cardinality(new)] :
           /\ \A k, l \in new : k # l => at[k] # at[l] /\ nth[k] # nth[l]
           /\ count' = count + Cardinality(new)
           /\ controller' = [controller EXCEPT !.owner =
                [i \in Owned \cup {at[k] : k \in new} |->
                   IF i \in Owned THEN controller.owner[i]
                   ELSE LET k == CHOOSE x \in new : at[x] = i IN [key |-> k, number |-> count + nth[k]]]]
  /\ target' = Target(controller'.owner) /\ lost' = FALSE /\ mode' = "live"
  /\ LET asked == ByUnit(dump.rows, target')
     IN  caller' = Call("load_rows", "units", DOMAIN asked) /\ Ask("load_rows", asked, Number(calls'))
  /\ UNCHANGED <<size, units, clearing, written, disk, restarts, staged, dump, wanted>>

(* _handle_load_rows: one that fails may have stored some rows.            *)
ServeLoadRows(u) ==
  LET rows == Head(inbox[u]).rows
  IN  /\ Asked(u, "load_rows")
      /\ \E some \in SUBSET rows :
           /\ units' = [units EXCEPT ![u] =
                [i \in DOMAIN @ \cup {r.index : r \in some} |->
                   IF \E r \in some : r.index = i
                   THEN Dumped((CHOOSE r \in some : r.index = i).source) ELSE @[i]]]
           /\ written' = written \cup {<<r.number, Dumped(r.source)>> : r \in some}
           /\ Served(u, some = rows)
      /\ UNCHANGED <<size, controller, clearing, mode, disk, restarts, calls, count, dumpVars>>

(* A mutant: all rows become ready.                                        *)
ReadyAll(rows) == Produced(rows)

Ready(rows) == {k \in Produced(rows) : rows[k].ready}

(* Once all units loaded, the rows are published with the readiness they   *)
(* had; a notification that is lost goes unnoticed.                        *)
NotifyRows ==
  /\ AllAnswered("load_rows")
  /\ \E heard \in SUBSET Produced(dump.rows) :
       LET at(keys) == {target[k] : k \in keys \cap heard}
       IN  /\ controller' = [controller EXCEPT !.held = @ \cup at(Produced(dump.rows)),
                !.ready = (@ \ at(Produced(dump.rows))) \cup at(Ready(dump.rows))]
           /\ lost' = (heard # Produced(dump.rows))
  /\ caller' = Call("load_rows", "tags", {})
  /\ UNCHANGED <<size, units, clearing, written, mode, inbox, disk, restarts, calls, count,
                 staged, dump, wanted, target>>

-----------------------------------------------------------------------------
(* The keys whose writers wait.                                            *)
Paused(i) ==
  /\ i \in Owned
  /\ \/ caller.op = "dump" /\ controller.owner[i].key \in DOMAIN wanted
     \/ caller.op = "load_rows" /\ controller.owner[i].key \in DOMAIN dump.rows
     \/ \E u \in Units : \E n \in DOMAIN inbox[u] :
          inbox[u][n].kind = "load_rows" /\ \E r \in inbox[u][n].rows : r.index = i

(* What was not synced may be gone with the power.                         *)
LosePower ==
  /\ Restart
  /\ staged' = NoDump /\ target' = << >> /\ lost' = FALSE
  /\ \/ ~dump.durable /\ dump' = NoDump
     \/ \E kept \in SUBSET dump.files : dump.synced \subseteq kept /\ dump' = [dump EXCEPT !.files = kept]
  /\ UNCHANGED wanted

DumpStep ==
  \/ \E keys \in SUBSET Keys : DumpBegin(keys)
  \/ \E u \in Units : ServeDump(u) \/ ServeLoadRows(u)
  \/ SyncShards \/ WriteManifests \/ SyncStaging \/ Publish \/ DumpEnds
  \/ LoadRowsBegin \/ NotifyRows

PausedDataStep ==
  \/ \E k \in Keys : Register(k)
  \/ \E i \in Indexes : ~Paused(i) /\ (Store(i) \/ Notify(i) \/ MarkClearing(i) \/ Remove(i) \/ Release(i))

PNext ==
  \/ (CheckpointStep \/ PausedDataStep) /\ UNCHANGED dumpVars
  \/ DumpStep
  \/ LosePower

PSpec == PInit /\ [][PNext]_allVars

-----------------------------------------------------------------------------
(* "a published dump is always complete" (data_dump.py, publish_dump):     *)
(* also when the power was lost during or after its publication.           *)
PublishedIsComplete ==
  dump.there => Complete(dump) /\ \A k \in Produced(dump.rows) : Dumped(dump.rows[k].index) = wanted[k].value

(* A load restores each dumped row under its key, with the value and the   *)
(* readiness it had, wherever the key's index is now.                      *)
LoadedAsDumped ==
  caller.op = "load_rows" /\ caller.pc = "tags" /\ ~lost =>
    \A k \in Produced(dump.rows) :
      LET i == IndexOf(k)
      IN  Known(k) /\ i \in controller.held /\ Stored(i) = wanted[k].value
          /\ (i \in controller.ready) = wanted[k].ready
=============================================================================
