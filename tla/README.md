# A specification of TransferQueue

TransferQueue moves samples between the producers and the consumers of a
post-training pipeline.  This directory holds TLA+ modules that follow its
Python code, TLC configurations that check them on small instances, and TLAPS
proofs for every size.  All paths below are under `src/transfer_queue/` unless
they begin with `docs/`.

## The system

| Part | State | Operations | Talks to |
|---|---|---|---|
| `PartitionIndexManager` (`controller.py:68`) | who owns which global index, the reuse pool, the counter | allocate, release some, release a partition | the controller |
| `DataPartitionStatus` (`controller.py:323`) | production and consumption tensors, samples, reserve, field metadata, keys, tags | one method per change | the controller |
| `TransferQueueController` (`controller.py:986`) | the partitions | one handler per request, all run by one thread | clients, storage managers (ZMQ) |
| `AsyncTransferQueueClient` (`client.py`) | none that lasts | put, get, clear, update, key operations: sequences of requests | controller, storage manager |
| `AsyncSimpleStorageManager` (`storage/managers/`) | the list of units | routes by `index % units`, asks all units at once, times out, retries, notifies the controller | units, controller |
| `SimpleStorageUnit` (`storage/simple_storage.py`) | values by field and index, active keys, capacity | one worker serves put, get, update, clear, rows, checkpoints | storage managers |
| SSD tier (`HybridStorageUnitData`) | values in memory or files | the same | the unit |
| `KVStorageManager` and its clients (`storage/managers/base.py`, `storage/clients/`) | staging buffers; the rest is in Mooncake or Yuanrong | put, get, clear of cells under generated keys, with retries | the external store, the controller |
| Samplers (`sampler/`) | caches per rank or group | choose and consume samples | the controller |
| `StreamingDataset` (`dataloader/`) | a reader's batch index and buffer | fetch, get, yield, step, reset | the client |
| `BatchMeta`, `KVBatchMeta` (`metadata.py`) | none: a value | select, reorder, chunk, concatenate, union, add fields | everyone |
| `TransferQueueLockManager` (`lock_manager.py`), one actor per shard | holders, leases, expiry heap and timer, queues, tombstones | acquire, renew, release, expire | callers, by Ray calls |
| `kv_global_lock` (`kv_lock.py`) | per call: shards granted and asked, deadline, lost | take the shards in order, renew from a thread, release | the lock managers |
| `kv_lock` (`kv_lock.py`), the lock inside one process | held keys and who waits for each | take in order, hand over, settle | tasks and threads |
| `ZMQSocketPool` (`utils/zmq_utils.py`) | idle sockets and permits by loop and address | lease, release, poison | controller and units |
| Checkpoints and dumps (`interface.py`, `data_dump.py`) | directories | save, load, dump rows, load rows | controller, units |
| Sessions (`interface.py`, `storage/bootstrap/`) | named actors, a process's handles | init, close | Ray |

What is hard in it: controller, units, clients and lock managers run
concurrently and answer late or never; one logical operation (a put, a clear, a
checkpoint) is several requests to several processes without a transaction;
indexes are reused, so anything late meets a new owner; the controller trusts
the names in the requests it is sent; processes come, go and crash between any
two steps.  `PROJECT.json` lists each hazard at its line.

What each part has to get right:

* index manager: an index has one owner, is not offered twice and does not leak;
* partition: the tensors, the sample set, the schema, the keys and the reserve
  agree; a cleared index comes clean to its next owner; no consumption mark is lost;
* data plane: what the controller offers is stored, and stored for the present
  owner; a get finds what it was promised; the units' space is not used up by
  samples nobody owns;
* SSD tier: a unit is the same store wherever a value is, and its directory
  holds the files its values refer to;
* samplers and readers: the ranks of a group see the same data, no sample is
  given twice, prompts stay whole, balanced batches are balanced, a slow rank
  gets what its group got;
* key-value calls: a key holds, and a get returns, what its writes make of it in
  some order; drafts stay hidden;
* key-value backends: a read returns the slices last written in that very cell,
  the staging buffer does not overflow, a clear removes everything;
* batch metadata: rows stay rows through every selection and concatenation;
* field metadata: the shape that is recorded for a row is the one last written;
* checkpoints and dumps: a load finds one whole checkpoint, the last one put in
  place, and what the controller then offers the units hold;
* locks: one holder at a time as the holders see it, the dead do not block the
  living for good, waiters are served in order, a process's own callers all get
  through;
* sockets: a reply goes to the request it answers, and their number is bounded;
* sessions: actors live as long as their session, a client fits its session, and
  every init ends.

## Modules

| Module | What it is |
|---|---|
| `IndexManager` | `PartitionIndexManager`: `AllocateIndexes`, `ReleaseIndexes`, `ReleasePartition` on its four attributes |
| `IndexOwnership` | the abstract promise: exclusive assignment, and no new index while a used one is free |
| `Partition` | `DataPartitionStatus`: its methods as operators on a record |
| `Controller` | one action per request handler; a handler is atomic, as one thread runs each to its end (`_process_request_loop`) |
| `ControllerRequests` | the environment: any client sends any request at any time, in two kinds (below) |
| `DataPlane` | client calls end to end: their requests to the controller and, through the units' inboxes, to the units |
| `KeyValue` | the `kv_*` calls end to end on the controller of `Controller`: keys, merges, drafts, late requests |
| `HybridUnit` | `StorageUnitData` and `HybridStorageUnitData` with `SSDFileStore`: values in memory or files, checkpoints, rows |
| `UnitStore` | the abstract promise of a unit: rows and keys, put, clear, images |
| `KVBackend` | `KVStorageManager` over Mooncake (with and without GDR) or Yuanrong (with and without NPU transport) |
| `BatchMeta` | `BatchMeta` and `KVBatchMeta`: their operations as operators on records |
| `FieldMeta` | the controller's record of one field's shapes: notes, removals, the description of a batch, as operators |
| `Ordering` | finite sets as sequences, in the order of a relation (Python's `sorted`) |
| `Samplers` | the pure choices of the samplers: groups, balanced parts |
| `Streaming` | readers that fetch through a sampler while samples are produced and cleared |
| `Checkpoint` | `save_checkpoint` and `load_checkpoint` step by step, beside puts and clears, with crashes |
| `AtomicCheckpoint` | the abstract promise: a load finds the last checkpoint put in place, whole |
| `Persistence` | `Checkpoint` composed with dumps and loads of rows, and loss of power |
| `LockManager` | a shard's handlers `Acquire`, `EndWait` (the second half of `acquire`), `Renew`, `Release`, `Expire`, and the tick of its clocks |
| `GlobalLock` | the callers of `kv_global_lock` composed with the shards: their calls, the renewal thread, giving up, dying |
| `LocalLock` | the lock inside a process: take, wait, hand over, settle |
| `SocketPool` | leases, permits, replies, poisoned sockets |
| `ClientProcess` | `LocalLock` and `SocketPool` composed: tasks and threads that make requests inside lock blocks, and loops that close |
| `Session` | `tq.init` and `tq.close` of several processes |
| `MC...` | symmetry, view and instances for TLC; `MCBatchMeta` and `MCFieldMeta` check the operators of `BatchMeta` and `FieldMeta` on small batches and histories |
| `ControllerProofs` | lemmas about the operators of `IndexManager` and `Partition` and about each handler |
| `RequestProofs` | theorems about the controller, under any clients and under careful ones; theorems about key-value calls |
| `DataPlaneProofs` | theorems about the data plane |
| `ProcessProofs` | theorems about a process's locks and sockets, about sessions, and about a unit with an SSD tier: files and values, and `HybridUnit` implements `UnitStore` |
| `LockProofs` | theorems about the locks |
| `CheckpointProofs` | `Persistence` implements `AtomicCheckpoint`; what checkpoints and dumps keep |
| `BatchProofs` | theorems about batches, about the shapes of fields, and about samplers and streaming readers |
| `KVBackendProofs` | theorems about the key-value backends |

**State.**  The status tensors are the sets of their non-zero cells plus the
number of rows they have: the rows matter, since insert does not grow them and
an index beyond them raises in `mark_clearing`.  Columns are only registered,
never removed.  Of `FieldMeta` the covered samples are kept here; its dtype and
shapes are in the module `FieldMeta`; `custom_backend_meta` is left out.  `clear_data` swallows exceptions: an index
out of range leaves any part of the rows zeroed, and the caller goes on to
release the indexes; both are in the model (`ClearData`, `ClearMeta`).  A
request for several partitions is the sequence of its per-partition steps.
Insert with `n = 0` stands for the requests that create the partition and then
fail a later check.  Fetch is the polling one: it answers at once; the sleep
of the non-polling mode is in `Streaming`.  A Python set enters the pool in any
order.

**Careful and careless clients.**  The controller does not check that the
indexes a request names belong to the partition.  A careful client
(`Careless = FALSE`) names samples only while they are in it.  A careless one
names anything the controller listed for the partition at some time.  The
first theorems of `RequestProofs` hold for both, the others, those that
assume `~Careless`, for careful clients.  CLEAR_META follows an answered
MARK_CLEARING of the same samples, as in `async_clear_samples`.

**The data plane.**  A request to the controller and its answer are one step,
for the controller is one thread and the client waits; NOTIFY alone is a step
of its own that may be late or lost, because `notify_data_update` logs a
missing ACK and the put succeeds.  A request to a unit joins the unit's inbox or
is lost; the unit serves its inbox in order (one proxy thread, one worker).  A
sender may time out at any moment while its request stays queued; put and get
are then sent again on a new connection, up to `MaxAttempts`; the answer to an
earlier attempt is dropped with its socket.  After a put failed, the requests
`gather` does not cancel go on.  `stale` and `leaked` are history variables:
which stored values were written for an earlier owner, and which released
indexes a unit did not clear.  What is leaked ends when a later owner's samples are
cleared at that unit, unless a put of the earlier owner is still in its inbox.  A put's final SET_CUSTOM_META is `Tag` in
`ControllerRequests`.  Units do not restart.  A careful user
(`ClearBusy = FALSE`) clears samples when no call is working on them any more,
the requests left behind by a failed put included, and leaves a partition alone
while it is cleared as a whole.  The code leaves both to its users.

**Locks.**  A token is one call of `kv_global_lock`.  An actor is one event
loop, so what a handler does between two awaits is a step; `acquire` is two,
around its wait.  A name belongs to one shard, so `holder` and `queues` are
kept by name.  Time is in ticks: the time left of a lease, of each heap entry
(stale ones included) and of the timer, the age of a call and of a renewal
round, all by saturating counters; callers and actors have clocks of the same
rate.  A timer that is due may fire late, so a lease may be over and still be
in the table, as in the code.  A call may be delayed at will and calls pass
each other (an actor has many slots): a release may arrive before the acquire
it follows, and the renewals of a round that has ended may still arrive.  No
call is lost.  A reply takes its time in the caller's hands too: between
`Answer` and `TakeGrant` the grant ages.  The window of an acquire may end at
any moment, which also stands for an actor with no slot left.  `_hand_off` is one operator: it
computes who is skipped as abandoned and who is granted from the names that
were freed; that the code takes those names one by one does not change the
result.  A renewal round is kept for each token although the thread batches
all tokens of a process, and starts and ends at any pace.  Left out: the
expiry of tombstones after 300 s, `tq.close()`, the death of an actor, a
changed number of shards, `list_locks`, the reset after a fork.

**The SSD tier.**  A value is a model value; those in `Large` become files when
the unit offloads.  A file write, an unlink and an import may fail
(`MaxFaults` bounds how often).  A put names rows that may repeat, and a put of
several fields may fail after some.  Between two runs the unit may change its
SSD setting, and a checkpoint of the one is loaded by the other.
`UnitStore` knows rows and keys only: the refinement mapping decodes each
reference.  Rows with values on SSD are dumped only with
`DumpOffloaded = TRUE`, which no run has (see "Disagreements").

**Samplers and readers.**  `Streaming` keeps production as one bit per sample,
as `Controller` has the tensors.  The samplers' choices are functions of the
unread set, tabulated once.  A reader is the loop of `StreamingDataset`: check
consumption, take the next of its buffer or fetch, get, yield, step, reset.
`waiting` is the fetch that sleeps in the controller's one thread without
polling; it fails after its time-out, as nothing can wake it.  Four switches
say what users do that the code does not enforce: the readers of a balanced
batch fetch it before any fetches the next (`Lockstep`), the samples of a prompt
become ready and are cleared together (`WholePrompts`), no two readers of a group stop when all
is consumed (`SharedFinite = FALSE`), and single samples are cleared only when no
reader is owed them (`EagerClears = FALSE`).

**Key-value calls.**  A value is the sequence of the writes it was merged from,
so that a lost, doubled or misplaced merge shows.  `kv_update` plans in the
controller and merges in the unit; what comes between is in the model.  The
writers of a key come one at a time, and a clear overlaps no other call on its
keys, as the README of the repository asks.  `Patient` says that a writer also
waits for requests a failed call left behind; nothing in the code does that
for it.  Tags are set last, after the notification, and nothing reads them here.

**Key-value backends.**  The stores are external: an object is there or not, and
any key of a batch may fail.  What is modelled is how cells become keys, how a
batch is cut, packed into the staging buffer, retried under its position, merged
back row by row, and how a tensor above the buffer's size becomes slices.
`known` is `custom_backend_meta`.  `littered` are cells whose last put or clear
failed, or whose clear was asked of a worker that cannot reach the object.

**Batch metadata.**  A batch is a record of sequences.  `MCBatchMeta` checks the
operators against what they should give, row by row, over all batches of up to
three rows and three fields, as assumptions that TLC evaluates with the
`KVBackend` run.  `BatchMeta` numbers rows from 1.

**Field metadata.**  A record of a field is a value, and a notification, a removal
and a fetch are operators on it; a field without rows is `NoField`, for
`clear_data` and `clear_fields` drop it.  `MCFieldMeta`, evaluated with the same
run, takes the columns a put may bring through `ExtractFieldSchema`, the
dictionary of `notify_data_update` and every history of three steps.

**Checkpoints and dumps.**  `save_checkpoint` is a step per request and per file
operation: the controller's state, each unit's, the manifests, move aside,
install, tidy.  A failure takes the `except` branch, a crash none.  A restart of
the system may bring up another number of units.  A directory is a record that
says which of its files exist; `Persistence` adds which survive a loss of power,
for dumps sync and checkpoints do not (of a checkpoint only crashes of processes
are modelled).  `Quiet` keeps clears out of saves.

**Sockets and the local lock.**  A reply names no request, so whoever holds the
socket takes the next one for its own.  A pool stands for one kind of request to
one address; permits are kept by event loop.  A thread is a caller whose lock
waits run on a loop of its own and whose requests run on the client's.  A loop
may be closed at any moment; its tasks are then collected and leave their blocks
(`Collect`, `CollectCall`: the garbage collector, external).  A request of a
timed pool times out whether or not its reply is under way, so a reply that is
lost is one that comes too late.  `KeyboardInterrupt` and the loop of the
notification's own thread are left out; nested blocks raise, and are left out.

**Sessions.**  An actor is named with the session that created it.  Ray kills
actors in the order it is asked to; those of a crashed process die together.
The death of the controller alone, the metrics exporter and the services of
Mooncake and Yuanrong are left out.

## Runs

| Run | Question | Result |
|---|---|---|
| `ControllerCareful` | all requests of careful clients in all orders: do owners, pool, samples, tensors, keys and reserve agree, is no consumption mark lost, is `IndexOwnership` implemented? | holds |
| `DataPlaneUnits` | two calls on two units, or on one with retries: is what is offered stored, and for its present owner? | holds |
| `KeyValue` | two calls on two keys, lost and late requests: is what is held and read what some order of the writes gives? | holds |
| `SsdTier` | are files and values in step through every failure, and is the unit a `UnitStore` whichever tier it uses? | holds |
| `KVBackend` | is a read what was last written in that very cell, does the buffer suffice, does a clear remove all? | holds |
| `Persistence` | does a load find the last whole checkpoint, and a dump its rows, through crashes, failures and power loss? | holds |
| `Streaming` | two readers, each sampler, both polling modes: same data, once, whole, fair, and no one left behind? | holds |
| `BalancedAhead` | is a sample given once if one rank of a balanced batch runs ahead? | no: its peers' parts are cached, not consumed, and drawn again |
| `LockShards` | two callers, two shards, two names: exclusion, deadlines, timers, waiting in a ring | holds |
| `LockQueues` | three callers of one shard with overlapping wants: is everyone served, in turn, and does what the departed hold end? | holds |
| `ClientProcess` | two tasks and a thread on pooled sockets and local locks: one owner, own replies, bounded sockets, everyone through? | holds |
| `Session` | two processes that init, close and crash: whole sessions, fitting clients, inits that end? | holds |

**Properties.**  `IndexesAreOwned` is `IMInv` (one owner, pool free and without
duplicates, nothing lost) and `OwnershipAgrees`.  `SamplesAreSound` is
`CellsAreMembers`, `CleanSlate`, `KeysAreInjective` and `ReservedAreInactive`.
`WaitersAreServed` is `QueuesAgree` and `NoLostGrant`; `FilesAreAccountedFor` is
`FilesAreReferenced` and `CountsOffloaded`.  Each is one property because its
parts need one another.

**Bounds.**  `ControllerCareful`: two partitions and two indexes, so that an
index moves between partitions through the pool; two keys and two fields, so
that one is cleared and one stays; batches up to two, `PreAlloc = 1`, so that a
batch mixes reserved and new indexes.  `MaxIndexes` caps the counter.  The data
plane has two calls at a time, one partition and two indexes: a call, the one
that disturbs it, and the next owner of the index.  Two units with one
attempt show partial failure; one unit with two attempts shows duplicates and
late answers against a full unit.  (Two units with two attempts do not fit the
time of a run; without keys that instance was explored once in full, 10.6 million
states, without an error.)  `MCDataPlane` drops `allocated_indexes` from
the fingerprint, as no step reads it.

`KeyValue` has two slots, for a write and what meets it, in two deployments: two
keys on two units with two writes, and one key with four writes on one unit, so
that an update meets a put, a draft and a retry.  `SsdTier` has a large and a
small value, two fields, one index, one checkpoint and one fault: a value that
moves between the tiers, a put that fails between two fields, a checkpoint loaded
by the other kind of unit.  `KVBackend` has tensors of 0 (no tensor), 1 and 6
bytes, a buffer of 4 aligned at 2 and batches of 2: padding, groups, one tensor
in a slice that is full and one that is not, batches of four keys cut in two.
`Persistence` bounds data operations, saves and loads, and dumps together
(`Bounds`): many of one kind with few of the others; two keys, one or two
units, one restart.  `Streaming` has four samples, two readers in one group or in
two, and each sampler with batches of one, two or all; a sample is cleared once.
`BalancedAhead` needs six.  `ClientProcess` has keys 1 and 2 named in
opposite orders, one permit, two sockets in all and a loop that may close.
`Session` has two processes, two lock shards, three sessions, one crash and one
retransmission.

`LockShards` lets both callers want both names of the two shards,
the smallest instance with a partial grant, a wait in between and two callers
that could meet crosswise.  `LockQueues` has a waiter for two names between two
for one each, so that a free name has a waiter that cannot have it yet.
`Renewers` bounds whose renewal thread runs: one in `LockShards`, none in
`LockQueues`.  In `LockShards` its lease is two
ticks long, since a lease of one tick is over at the first tick; the other's is
one tick, so that leases run out under a holder that is still alive.  `Quitters`
bounds who may give up or die: both in `LockShards`, in `LockQueues` the one that
wants both names and so stands in two queues.  `AbandonedAfter = 0` takes a waiter
for dead from the first tick without a call, so the skipping of a live one
happens too.  In `LockQueues` every lease is one tick, so that the liveness
property fits the time of a run; what renewal changes is `LockShards`'s question,
and `WaitersAreServed` and `NoBarging` are theorems, with any renewals.
Counters saturate at `MaxLease`, since only the order of what is
over matters.

Deadlock checking is off where the system really may stop: in the lock runs when
all callers have left and all leases have run out; in `Streaming` and
`BalancedAhead` when all readers have stopped or failed; in `ClientProcess` when
the loops are closed; in `KeyValue`, `KVBackend`, `Persistence` and `Session` when a
bound on writes, puts, operations or sessions is used up.  Symmetry is used only
in runs without a liveness property.

**Fairness.**  `LockQueues` uses `FairSpec`: the clock advances (`WF` of `Tick`)
and each actor's timer fires once due (`WF` of `ExpireShard`, the event loop's
`call_later`).  Nothing else is fair: a call may stay on its way or in an actor,
a holder may stay in its block for ever, a caller need not poll.  `Streaming`:
each reader's loop goes on (`WF` of `ReaderStep`); production and clearing are not
fair.  `ClientProcess`: a caller takes the step it can take (its loop runs what is
ready, its timers fire, an untimed peer answers), and a block makes so many
requests and ends (`SF` of `Exits`).  `Session`: a process goes on with its init
and its close; crashes, and the calls themselves, are not fair.

## Proofs

`RequestProofs` proves, for every value of the constants and any
clients, that `SafeInv` is inductive: the type, `IMInv` and, for each
partition, that its ready cells lie in rows, samples, columns and schema.
`IMInv` alone is not inductive in the controller without the type of the pool
and of the counter; `CellsAreMembers` alone is not preserved by a clear that
raised unless the rows that were not zeroed keep their samples, which is why
the invariant speaks of the rows as well.  `OwnershipImplemented` maps each
step to a step of `IndexOwnership` or a stutter with
`owns <- partition_to_indexes`, `used <- 0..(global_index_counter - 1)`.

Its second part adds what holds only when clients name samples of the
partition: `CarefulInv` joins ownership agreement with, per partition, that
nothing is carried over, keys are injective, and reserve and samples are
disjoint.  They need each other: that a new batch is disjoint from the samples
comes from ownership, and the keys' injectivity from that disjointness.

`NothingIsRedelivered` is about steps, not states: it goes through the handlers
and needs of the invariant only that a status has its type and its samples their rows.

`ControllerProofs` holds the lemmas: what a batch consists of, what `Release`
preserves, what each partition operator and each handler does to the invariants'
parts; the data plane rests on the same ones.  Assumptions: `IndexManagerAssumption`,
`PartitionAssumption`, `RequestsAssumption`, all on constants.

The last part of `RequestProofs` proves the three invariants of key-value calls, for
any number of keys, fields, units, attempts and calls under way
(`KeysHoldTheirWrites`, `GetsReadWhatWasThere`, `NoGetSeesADraft`).  They assume
`Patient = TRUE`: the writers of a key come one at a time and wait for what is left
of each other's requests (see Disagreements for what happens otherwise).
`HeldIsPossible` says nothing of a cell that is being written, so `KeyValueInv` says
what holds then.  Its parts:

* `CallsInv`: the keys of a call name what they named when it began, whoever
  registers others; one write is about a key at a time; an update's request is sent
  once.  It stands on the controller's invariants, which the calls see by what keys
  name and which cells are recorded and ready (`RegisteredView`, `NotifyView`,
  `SetMetaView`, `DropView`, `ClearView`).
* `CellsInv`: a recorded cell is stored, and no draft when it is ready (`IsStored`).
  While write x is under way its cell holds what it could or what x makes of that;
  an update whose request is left has not touched it yet, and what its plan says is
  held is held; a unit that answered a write that has not failed stored what the
  write makes (`WriteFits`).  Of a write that ended, a left request stores nothing
  that is not in `could`: a put is the same again, and of an update both outcomes were
  admitted when it failed.
* `GetsInv`: a get may read what its cells hold and all that is or will be made of
  them while it is under way (`MayRead`), and what it read was that, and no draft.

The steps that change no cell are instances of `QuietStep`; `CellFrame` and
`GetFrame` carry over the cells a step is not about.  What is left is a lemma per
action.  Assumption: `KeyValueAssumption`.

`DataPlaneProofs` proves the four invariants of the data plane for users that clear
nothing another call works on (`ClearBusy = FALSE`), for any number of calls,
partitions, samples and fields, any deployment and any losses and delays.  None of
them is inductive: that a ready cell is current depends on what is still in the
inboxes and on who sent it.  `PlaneInv` has two layers over the controller's
invariants (`ControllerSafe`, `ControllerTidy`).  `CallsInv` relates calls to the
controller: the samples of a call under way are there (`Present`), a call that
removes shares no sample with another, but for a get of other fields beside a drop
(`Compatible`), and what is being removed is not ready (`Hidden`).  `UnitsInv`
relates both to the units.  `Safe(u, e)` says that the unit holds a current value of
the cell and that no request in its inbox spoils it; ready cells are safe, so are
those an open get was promised, and those a put stored that has yet to notify.  A
put that still waits for its answer relies on the order of the inbox: whatever
spoils its cells was sent before its last attempt (`AfterSpoils`), so serving that
attempt makes them safe, while an answer to an earlier attempt finds its socket
closed.  A clear relies on the same order for the space it frees (`Clean`,
`AfterFills`).  There is a lemma per action
(`...KeepsInv`); most of the length is in `ServeKeepsInv` and `EndClearKeepsInv`, the
two that change a unit and an owner.  Assumptions: `DataPlaneAssumption` and the
controller's.

`ProcessProofs` proves the three invariants of a process.  `LockInv` says that
who stands in a key's queue waits for that key and stands there once
(`WaitersAgree`), that a grant is for one that waits and has not got it yet
(`GrantsAgree`), and that each key in the table has one owner, by grant or by having
it (`OwnersAgree`); `PoolInv` that a caller stands in the line of its request once
and in no other (`LinesAgree`), that a socket in use is its user's only one and
carries that request or its reply and nothing else, while an idle one carries nothing
(`SocksAgree`), and that who sent its request holds one of the first `MaxSize` places
of its line (`PermitsHeld`).  The last gives the bound: when a socket is opened, its
users and the idle ones are fewer than `MaxSize`.  Who is first of a queue, or in
place before another, is reasoned about through least elements.  Assumption:
`CallersAndPools`.

`LockProofs` proves `MutualExclusion` and `DeadlineIsCovered` for every number
of shards, names and callers and every lease.  Exclusion rests on coverage: a
caller that passes `check()` for a name has a lease in the name's shard
(`DeadlineIsCovered`), and a shard's leases exclude each other, for a grant asks
that every name of it be free and `holder` follows the leases (`ActorInv`).
Coverage is not inductive alone.  `LockInv` adds that a reply on its way already
promises no more than its lease (`GrantsCovered`); that what a renewal round's
answers promise, the lease time less the age of the round, is covered at each
shard that answered it (`RoundsCovered`); and that who has left or died counts
on nothing, and only those that left have sent releases (`CallsAgree`), so that
a release frees no lease that anyone counts on.  The proof rests on
`LockManagerAssumption`; it has a lemma per action, and one for the tick.

What the actors do to their queues needs no fact about the callers
(`ActorsInv`, kept by any step of an actor).  `HeapInv` gives `TimersCover`: each
lease is in the heap and the timer is no later than the heap's first.  `QueueInv`
says that a waiter stands in the queues of its names and in no other, that a held
name's holder has a lease, that some order of arrival is kept by all queues of a
shard, and that a waiter finds one of its names held or another before it, which is
`NobodyWaitsForNothing`: one pass of `_hand_off` is enough, for who would be left
first before free names in all its queues is granted by it (`HandOffServes`).
`NobodyIsPassed` needs that who is first had only gone ones before it
(`RemainingKeeps`), and that the gone are withdrawn or abandoned (`GoneAre`).
`NobodyWaitsInARing` joins the callers: one that waits at a shard has touched no
later one (`RingInv`).  In a ring, take the last shard anybody of it waits at, and of
those that wait there the first to arrive: it waits for nobody before it, and a
holder there waits at no later shard and at no earlier one.

`CheckpointProofs` proves `LoadsFindTheLast` of `PSpec`: saves and loads of
checkpoints, beside data operations, dumps and losses of power, implement
`AtomicCheckpoint`, for any samples, sizes and numbers of calls.  What a load would
take is `kept <- Kept`, `<dir>` or else `<dir>.old`; every step leaves it as it is
but `Install`, which puts `<dir>.tmp` in its place.  That this one is whole and newer
is `SaveInv`: while a save stages, `<dir>.tmp` carries its number and has a file of
each unit that answered it (`StagedSoFar`); what is in place carries a smaller number
(`InPlaceIsOlder`); a request of the save's own number asks for a save
(`RequestsAreOwn`), so that an answer the caller counts stands for a file; and
`<dir>.old` is removed only when `<dir>` is there (`InstalledFirst`).  The unit's
file is in `<dir>.tmp` whichever save asked for it: a late request of an earlier
save may write there, and takes no file away.  The proof rests on
`CheckpointAssumption`.

Its second part proves the invariants of the run `Persistence`: `HeldStaysStored`,
`PublishedStaysComplete` and `LoadsRestoreRows`.  Each speaks of a moment (a live
controller, a dump that is there, a load of rows that has sent its tags), and none
is inductive.  `PInv` says what holds in between:

* `SamplesOk`, `DirsOk`, `SaveOk`: what the controller takes for written its units
  have; so had those of each directory that may be loaded; and so has a save so far,
  whose controller's state lags behind the live one, and whose files may be newer than
  it.  `Has` compares with `written`, the values ever written for a sample, for a put
  may overwrite a value under a save.
* `LoadOk`: a unit that answered a load has the checkpoint's samples and no request
  left, and meanwhile nothing else is done to samples.
* `OrderOk`: a unit's requests are in the order of their calls, and those of the call
  under way are of its kind.  So the answer a caller waits for is the answer to
  everything sent to that unit before, and no late request can follow it.
* `PendingOk`: a late request to load rows names rows that are in the dump, and
  indexes that still are their keys' (`RowsOk`): data operations leave them alone.
* `DumpOk`, `DumpingOk`: the row of a key in the shards is `wanted`, the value it had
  when the dump began (`Faithful`), since rows under dump stay where they are
  (`RowsStay`); who answered has covered its rows (`ShardsCover`), which a dump
  counts on before it renames.
* `LoadingOk`: rows under load keep their targets (`TargetsStay`), and those of the
  units that answered are restored (`RowsRestored`).

`HeldStaysStored` assumes `Quiet = TRUE`: without it the code loses values (see
Disagreements), and only the parts of `PInv` that say `Has` depend on it.  The two
theorems on rows hold either way.  TLC checks `PInv` with both values of `Quiet`.

The second part of `ProcessProofs` is about sessions, for any number of processes,
lock actors, retries, sessions and crashes.  `SessionInv` says that nothing outlives
its session: every living lock actor and unit is of the living controller's session,
and the process that began it is its owner and has listed them (`AliveIsOwned`); that
an owner is the creator of the living controller, so there is one at most, and a
process that is not an owner has nothing to kill (`OwnsAlive`); where a process stands
in its init or close (`InItsPlace`); and that a client whose handshake was
acknowledged is known (`ClientFits`).  `SessionIsWhole` alone is not inductive: that
a new owner takes lock actors of its own session only follows from there being none
of an earlier one, which is what the order of `close` ensures.  The steps of a
process that changes no actor are instances of `LocalStep`, those of an owner of
`OwnersStep`; a crash is either.  The liveness of inits (`InitsEnd`) stays with TLC.

The third part of `ProcessProofs` proves, for any fields, samples, values and sizes, that files and
the count of them follow the values (`FilesFollowValues`) and that the unit is a
`UnitStore` whichever tier keeps a value (`UnitIsAStore`).  It assumes that row dumps
find all values in memory (`DumpOffloaded = FALSE`: see Disagreements for what
happens otherwise) and that there are finitely many fields, for a put writes all of
them.  `FilesAreReferenced` alone is not inductive: what is unlinked when a value is
replaced is in use by no other cell only because a file carries the name of the cell
it was written for (`IsOwn`), and a file just written is nobody's only because its
number was free (`FilesOfBatch`: within a batch the rows of one index take different
numbers).  Every operation that touches files is an instance of one lemma,
`Replacing`: some cells get other values or none, the large ones as new files, and
then what nobody refers to is unlinked, or is not (`lost`).  A failed put or load
replaces nothing and unlinks all it wrote.  `ReplacingCounts` is the metric's
arithmetic.  The refinement follows from what the same lemma says cells show.

`BatchProofs` proves, for batches of any size, that selection keeps rows
whole, that `reorder` is a permutation of them, that chunks are consecutive and
made of the batch's rows, that added fields are described, where a union is
ready, and that keys keep their tags.  `MCBatchMeta` checks more of the same on
small batches, against the definitions TLC can enumerate.

Its second part is about the class whose own comment calls its logic
"complicated and fragile" (`controller.py:212`), on which the key-value backends
rely when they allocate what they read into.  `Describes(m, told)` says that the
record `m` gives each row the shape `told` of it: one shape for all, or a
dictionary of exactly the rows.  The empty record describes nothing
(`NoFieldDescribesNothing`), each write that is noted and each removal keeps what
is described (`WritesAreDescribed`, `RemovalsAreDescribed`), and a fetched batch
says what is described (`FetchedShapesAreTold`); `NormalizedTellsRows` and
`UpdatesTellRows` say that what a put and a partial update send tells each row its
shape.  A row is in a batch once and in one unit, and a field is of tensors or of
other values, not of both (`Fitting`).  That histories of these steps are described
follows step by step; `MCFieldMeta` checks it for those of three steps, and what
happens to a field of both kinds.

Its third part proves the five invariants of the run `Streaming`, for any number
of samples, readers and groups, any batch and prompt sizes, any lengths, and any
production, clearing and resetting that the switches allow:

| Theorem | Property | Assumes |
|---|---|---|
| `TogetherAlways` | `GroupsStayTogether` | `WholePrompts` |
| `SameDataAlways` | `SameGroupSameData` | not `EagerClears` |
| `ReadyAlways` | `GivenIsReady` | not `EagerClears` |
| `OnceAlways` | `NoSampleTwice` | not `EagerClears`, and `ReadersInStep`: `Lockstep`, or no length-balanced sampler |
| `FairAlways` | `BatchesAreFair` | `WholePrompts` |

Without each of these the code does otherwise (see Disagreements).  (`BatchesAreFair`
counts prompts as `GroupsStayTogether` does, from multiples of the group's size; runs of
other indexes are dealt as evenly, but are not what it speaks of.)  The assumptions on
constants are those of `StreamingAssumption`: a batch, and the partition, are made of
whole prompts, and `Nobody` is no reader.

The proof has two layers.  The lower one is about the operators of `Samplers`: an
order lists each element of a finite set once; the pass for complete groups finds
blocks of consecutive indexes that do not overlap, and among whole prompts it finds
prompts (`GroupsHaveBlocks`, `AscendingRows`, `GroupBatchIs`); the rounds of the
Karmarkar-Karp partition and each merger are bins with every place in one of them, so
that the parts of a balanced batch are disjoint (`PartitionsAre`).  That they are fair
is a fact about states of bins (`IsEven`): each bin's sum is the weight of its places,
all bins of a state have as many places, and no two sums are further apart than some
bound.  The bound is the largest spread of the initial rounds: a merger of two states
joins heaviest to lightest, so that it spreads no further than the wider of the two
(`MergeIsEven`, `ReduceIsEven`, `PartitionsAreFair`), and the weights of disjoint
places add (`WeightAdds`).  `AssignmentIsFair` carries this from the prompts' sums to
the lengths of the samples dealt, and `FairInv` to every balanced batch that is kept.
What the recursive
functions return is shown by their least counterexample (`RecursionUp`,
`RecursionDown`), as the library's induction theorems cannot be instantiated;
`Samplers` has no RECURSIVE operator for that reason.
The upper layer sees the state through `View`: what each reader was given (the batch
it is fetching data for included), the cache, and the ready, consumed and living
samples.  `BaseInv` says that a batch a reader was given is the one the cache has for
its group, if the sampler has a cache (`GivenAreCached`; `CachedAlways`).  A batch is
owed (`IsOwed`) while a reader of its group has not fetched it.  `SameGroupSameData` is
not inductive: that a slow rank gets what its group got, and not the successors of
cleared samples, follows from `OwedAreKept`, that an owed batch keeps its samples and
they stay ready.  `NoSampleTwice` needs that what was given is consumed or gone
(`GivenAreTaken`) and that what is owed is apart from what was given and from what else
is owed (`OwedAreApart`).  A fresh draw keeps that if what is owed is consumed.  The
owed parts of a balanced batch are not, so nothing may be owed when one is drawn:
`InStepView` says that all readers have fetched up to the last cached batch or are at
it.  Each step of `Next` is an instance of one of a few
changes of the view (a batch is given, fresh or cached; samples become ready; samples
or all go; a reader turns to the next life), and each part of the invariants is proved
once for each of these changes.

`KVBackendProofs` proves the three invariants of the run `KVBackend`, for any fields,
rows, sizes, calls, workers, retries and number of puts, and any buffer, alignment and
batch limit:

| Theorem | Property | Assumes |
|---|---|---|
| `StagingAlways` | `StagingFits` | - |
| `ClearedAlways` | `ClearedIsGone` | `AllAlike` |
| `LatestAlways` | `ReadsAreLatest` | `AllAlike` |

`AllAlike` says that a Mooncake deployment has GDR in all of its workers or in none, as
in the run: without it a worker cannot read what another put (`OneWorkerHasCuda`
below).  Workers of Yuanrong may differ, for there the metadata of a cell names the
store it is in.  The asked fields and rows are finite (`KVBackendAssumption`), and the
users of a cell are those the controller admits (`MayUse`).

The first part is about pure functions: what `Transfers` makes of a call.  `Ends`
grows by the aligned sizes (`AreEnds`), a group of `SplitByBytes` is one tensor or fits
the buffer together (`IsGroup`), and groups, slices and batches between them carry each
part of each value at least once, each to the slot of its own cell (`IsItem`, `Covers`).
`StagingFits` is a fact about each transfer a call was given, and those are only ever
taken off the front (`BackendShape`).

What is in the store is accounted for: it is of a layout the controller knows, or a put
under way will notify it, or its cell is littered (`AccountedFor`).  That needs that
writers of a cell come one at a time (`ExclusiveIn`), and implies `ClearedIsGone`.

`ReadsAreLatest` speaks of the moment a get ends, and is not inductive.  `ReadInv` says
what holds under way, part by part of each value: a part the call still awaits
(`Awaits`: it is in a later transfer, or in the one under way and not done), or
else, for a put, it is in the store as this put wrote it (`PutHolds`), and for a get,
the get has it as the last put wrote it (`GotAll`), and has nothing else (`GotIs`).  In
between, the values are in the staging buffer, at the offset of their item: what a put
packed (`PackHolds`), and what a get has read and not unpacked (`BufferHolds`); both say
that the buffer is the call's own, which is what its lock is for.  A retry changes
`left` and no offset, since a key keeps the buffer of its place in the first attempt.
A failed transfer leaves the call failed, of which the properties say nothing, and its
cells littered.  `StoreHolds` carries the values from the end of a put to the next get:
a cell that nobody puts is stored as `latest` says.  There is a lemma per action for
what it makes of the call, the lock and the store, so that the parts of the invariant
do not look into the definitions of the actions again.

Only model-checked: `DepartedHoldNothing` of the locks, `EveryoneGetsThrough` of a
process, `InitsEnd` of sessions and `CatchesUp` of the readers, for liveness under
fairness is out of TLAPS's reach.

## Disagreements

What the code does against what its docs or comments say.  `BalancedAhead` is a
run; the others are what TLC finds when the named constant or property is put in
the place of the one a run uses.

* `BalancedAhead`: `SeqlenBalancedSampler` caches the parts of a group's peers
  without consuming them (`seqlen_balanced_sampler.py:190`); a rank that asks for
  its next batch first draws them again.
* `KindsAreNotMixedByPut` (an assumption of `MCFieldMeta`): `validate_field_schema`
  refuses a field of tensors and of other values, but only a partial update asks it.
  A put of lists over tensors leaves the lists the tensors' shape; a put of a nested
  tensor over lists fails in the controller after its rows are ready.
* `AllocatedTracksActive` (`controller.py:84`, "Track all active indexes"): an
  index that is reused is not entered again.  Nothing reads the set.
* `Careless = TRUE` in `ControllerCareful`: a NOTIFY that arrives after its
  samples were cleared puts them into `global_indexes` again
  (`controller.py:566`), against `controller.py:1136`.
* `ClearBusy = TRUE` in `DataPlaneUnits`: a put's NOTIFY between MARK_CLEARING and
  CLEAR_META makes the samples ready again (docstring at `controller.py:1524`),
  and one between the steps of `kv_clear_fields` leaves a ready field without its
  value (docstring at `client.py:1058`).
* `LeftHoldsNothing` in `LockShards`: an acquire that runs after the release
  freed a lease is granted afresh (`lock_manager.py:188` against
  `kv_lock.py:352`): the caller's window ends with a denial, the hand-off grants
  it, it polls again and gives up, its release arrives first and leaves no
  tombstone.  `DepartedHoldNothing` shows that this grant ends with its lease.
* `DeadWaitersAreSkipped` in `LockQueues` with a renewed lease of two ticks for `t1`: only a hand-off finds the dead
  (`lock_manager.py:86` against `kv_lock.py:417`).  `t1` holds and renews `b` for
  ever, `t2` died waiting for `a` and `b`, and `t3` waits for `a`, which is free.
* `DumpOffloaded = TRUE` in `SsdTier`: a row dump takes the values from
  `field_data` (`simple_storage.py:1480`) and so records file references of this
  run and no values, against `docs/data_dump.md:3` and `docs/ssd_offload.md:124`.
* `Quiet = FALSE` in `Persistence`: a clear that runs while a checkpoint is taken
  leaves a restored controller offering what no unit holds;
  `docs/checkpoint.md` says snapshotting the controller first prevents that.
* `Patient = FALSE` in `KeyValue`: the late first attempt of a retried put
  overwrites a later put; a lingering update merges by a plan that is stale.
* `WholePrompts = FALSE` in `Streaming`: a group is any run of consecutive ready
  indexes, so samples of two prompts make one when they are produced apart
  (`grpo_group_n_sampler.py:26` says prompts are selected whole or not at all).
* `SharedFinite = TRUE` in `Streaming`: a reader stops when all is consumed,
  which its group's first rank has done for it, and never gets its last batch.
* `EagerClears = TRUE` in `Streaming`: `clear_meta` does not clear the samplers'
  caches, so a slow rank is given samples that were cleared, or their successors.
* `Deployments <- OneWorkerHasCuda` in `KVBackend`: with `use_gdr` in workers of
  which some have no CUDA context, one kind of worker cannot read what the other
  put (`docs/storage_backends/mooncake_gdr.md:92`).
* A put to a key-value backend that fails, or one whose tensor changes between one
  slice and several, leaves objects nobody refers to; a clear asked of a worker
  without the fast path leaves slices or NPU objects.
* `BatchMeta.concat` of dense chunks whose uniform shapes differ keeps the first
  chunk's shape for all (`metadata.py:762`; `FirstShapeWins`).
  `KVBatchMeta.reorder` accepts indexes below 0, so `[-1, 1]` on two keys passes
  the check for duplicates and loses a key (`metadata.py:982`;
  `NegativeIndexesLoseKeys`).  `KVBatchMeta.concat` accepts a chunk without fields
  beside one with fields.
* A sample that was inserted and never notified may lie beyond the status tensor;
  `mark_clearing` then raises (`controller.py:1554`), so it cannot be cleared
  through the client.  `update_production_status` swallows an exception between
  the cells and `global_indexes` (`controller.py:570`).
* Sessions: an init that failed after its handshake was sent leaves a client
  behind, and the retried init reports success; a creator that fails before
  `store_config` leaves all others polling (`HalfUp`, the exception in
  `InitsEnd`); the `except ValueError` branch of `init` ignores that the other
  process's controller may be gone; a handle of a dead controller makes init
  raise until `close()` is called.

## Not modelled

* The expiry of tombstones, the death of one lock actor, a changed number of
  shards, `list_locks` and the reset after a fork; `tq.close()` while locks are held
  (in `Session` the actors are killed, in `GlobalLock` they live).
* Dtypes and shapes in the steps of `Controller`: `FieldMeta` has them by
  themselves.  A dtype that differs is refused before anything changes; the put of
  a nested tensor over a field of other values, which fails after its cells are
  ready (above), is not a step of `Controller`.
* The Ray client, which is one put and one get; the include-storage flag and
  checkpoints of key-value backends; two processes that save to one directory,
  and a load beside a save.
* Micro-batches (`chunk_batch_fn`) and the PyTorch loader around the readers.
* Serialization, tensor layout and logging: data without control.  Metrics:
  nothing decides by them.  The start of Mooncake and Yuanrong services: external.

What is left to do: proofs of what "Only model-checked" lists; the death of a lock
actor and the change of the number of shards; a `KeyValue` in which clears overlap
other calls.
