------------------------------ MODULE KVBackend ------------------------------
(***************************************************************************)
(* KVStorageManager (storage/managers/base.py) over a key-value client:    *)
(* MooncakeStoreClient, with or without GPUDirect RDMA (GDR), or            *)
(* YuanrongStorageClient, with or without NPU transport.  A worker that has *)
(* the fast path keeps its tensors another way than one that has not, and  *)
(* only the metadata the controller keeps beside a cell tells which.       *)
(*                                                                         *)
(* A call runs in a thread of its worker.  Its transfers - the batches it   *)
(* hands to the store - are done one after the other; any key of a batch   *)
(* may fail, and is retried.  Values are what they were written for: the   *)
(* cell, the put, and which slice of the value.                            *)
(***************************************************************************)
EXTENDS Ordering, SequencesExt

CONSTANTS
  Calls,         \* bound: the calls that can be under way together
  Workers,       \* processes with a client each
  Fields,        \* field names, as numbers: keys are generated in their order
  Indexes,       \* global indexes
  Sizes,         \* sizes of the tensors in bytes; 0 is a value that is no tensor
  Asked,         \* bound: the fields and rows a call may be about
  BufferSize,    \* gdr_staging_buffer_mb
  Align,         \* _DEFAULT_ALIGN
  BatchLimit,    \* BATCH_SIZE_LIMIT
  MaxRetries,    \* MAX_RETRIES
  MaxPuts,       \* bound: the puts of a behaviour
  Deployments,   \* the client in use and which workers have its fast path
  NoCaller

ASSUME KVBackendAssumption ==
  /\ Fields \subseteq Nat /\ Indexes \subseteq Nat /\ Sizes \subseteq Nat
  /\ BufferSize \in Nat \ {0} /\ Align \in Nat \ {0} /\ BatchLimit \in Nat \ {0}
  /\ MaxRetries \in Nat /\ MaxPuts \in Nat
  /\ Deployments \subseteq [client : {"mooncake", "yuanrong"}, fast : SUBSET Workers]
  /\ \A a \in Asked : /\ a[1] \in (SUBSET Fields) \ {{}} /\ IsFiniteSet(a[1])
                      /\ a[2] \in Seq(Indexes)
  /\ NoCaller \notin Calls \cup Workers

VARIABLES
  deployment,
  objects,    \* the store: <<tier, cell, part>> -> what was written there; part 0 is all of it
  known,      \* cell -> the size and the backend metadata the controller has of it
  calls,      \* call -> what it does and what is left to do
  staging,    \* worker -> the call that holds its GdrStaging and what is at which offset
  puts,       \* how many puts there have been
  latest,     \* history: cell -> the put a reader should see
  littered    \* history: cells that a failed put or remove, or another layout, left objects of

backendVars == <<deployment, objects, known, calls, staging, puts, latest, littered>>

Cells    == Fields \X Indexes
None     == [size |-> 0, where |-> "nowhere", parts |-> 0]
Fast(w)  == w \in deployment.fast
IsYuan   == deployment.client = "yuanrong"

-----------------------------------------------------------------------------
(* _generate_keys, _generate_values: field by field, and row by row.       *)
CellAt(fs, rows, p) ==
  <<Ascending(fs)[((p - 1) \div Len(rows)) + 1], rows[((p - 1) % Len(rows)) + 1]>>

KeyOrder(fs, rows) == [p \in 1..(Cardinality(fs) * Len(rows)) |-> CellAt(fs, rows, p)]

(* _merge_tensors_to_tensordict: which value becomes row k of field f.     *)
ValueOf(fs, rows, f, k) ==
  Cardinality({g \in fs : g < f}) * Len(rows) + k

Aligned(n) == ((n + Align - 1) \div Align) * Align

(* _aligned_offsets: where each of the sizes s ends, one after the other.  *)
Ends(s) ==
  LET end[k \in 0..Len(s)] == IF k = 0 THEN 0 ELSE end[k - 1] + Aligned(s[k]) IN end

SizesOf(s, ps) == [i \in DOMAIN ps |-> s[ps[i]]]

(* A mutant: the padding between tensors is not counted.                   *)
FitsUnpadded(s, ps, p) ==
  FoldLeft(LAMBDA sum, q : sum + s[q], s[p], ps) <= BufferSize

Fits(s, ps, p) == Ends(SizesOf(s, ps))[Len(ps)] + Aligned(s[p]) <= BufferSize

(* A tensor joins the last group, or begins one: one that does not fit     *)
(* alone has a group of its own.                                           *)
Place(s, groups, p) ==
  IF groups # <<>> /\ s[p] <= BufferSize /\ s[Last(groups)[1]] <= BufferSize
     /\ Fits(s, Last(groups), p)
  THEN Front(groups) \o << Append(Last(groups), p) >>
  ELSE Append(groups, <<p>>)

(* split_by_bytes: the positions P by ascending size, in groups that fit   *)
(* the buffer.                                                             *)
SplitByBytes(s, P) ==
  LET order == InOrder(P, {q \in P \X P : s[q[1]] < s[q[2]] \/ (s[q[1]] = s[q[2]] /\ q[1] < q[2])})
      groups[n \in 0..Cardinality(P)] == IF n = 0 THEN <<>> ELSE Place(s, groups[n - 1], order[n])
  IN  groups[Cardinality(P)]

(* chunk_subkeys *)
Chunks(n) == IF n <= BufferSize THEN 0 ELSE (n + BufferSize - 1) \div BufferSize

(* Batches of at most BatchLimit keys.                                     *)
Batches(ps) ==
  [b \in 1..((Len(ps) + BatchLimit - 1) \div BatchLimit) |->
     SubSeq(ps, (b - 1) * BatchLimit + 1,
            IF b * BatchLimit < Len(ps) THEN b * BatchLimit ELSE Len(ps))]

-----------------------------------------------------------------------------
(* What a put by w makes of a value of n bytes, which the controller       *)
(* learns: the strategy's tag, or into how many sub-keys it was split.     *)
Layout(w, n) ==
  IF IsYuan THEN [size |-> n, where |-> IF Fast(w) /\ n # 0 THEN "npu" ELSE "general", parts |-> 0]
  ELSE [size |-> n, where |-> "store", parts |-> IF Fast(w) /\ n # 0 THEN Chunks(n) ELSE 0]

PartsOf(k) == IF k.parts = 0 THEN {0} ELSE 1..k.parts

SlotsOf(cell, k) == {<<k.where, cell, part>> : part \in PartsOf(k)}

(* Where w looks for a value it has metadata k of: without GDR the backend *)
(* metadata of a tensor is not read.                                       *)
Seen(w, k) == IF IsYuan \/ Fast(w) THEN k ELSE [k EXCEPT !.parts = 0]

(* w refuses: the strategy of the tag is not there, or a tensor that needs  *)
(* chunks has no n_chunks.                                                 *)
Refuses(w, k) ==
  IF IsYuan THEN k.where = "npu" /\ ~Fast(w)
  ELSE Fast(w) /\ k.size > BufferSize /\ k.parts = 0

(* The transfers of a batch of cells `order` with layouts ks, in order:    *)
(* the tensors of a GDR worker go through its staging buffer, group by     *)
(* group and a large one slice by slice; all the others in batches.        *)
Item(order, p, where, part, off) == [pos |-> p, slot |-> <<where, order[p], part>>, off |-> off]

Staged(order, ks, g) ==
  LET p    == g[1]
      ends == Ends(SizesOf([q \in DOMAIN order |-> ks[q].size], g))
  IN  IF ks[p].parts > 0
      THEN [n \in 1..ks[p].parts |->
              [staged |-> TRUE, items |-> << Item(order, p, ks[p].where, n, 0) >>]]
      ELSE << [staged |-> TRUE,
               items |-> [j \in DOMAIN g |-> Item(order, g[j], ks[g[j]].where, 0, ends[j - 1])]] >>

StagedTransfers(order, ks, P) ==
  LET groups == SplitByBytes([q \in DOMAIN order |-> ks[q].size], P)
  IN  FlattenSeq([n \in DOMAIN groups |-> Staged(order, ks, groups[n])])

PlainTransfers(order, ks, P) ==
  LET batches == Batches(Ascending(P))
  IN  [n \in DOMAIN batches |->
         [staged |-> FALSE,
          items |-> [j \in DOMAIN batches[n] |->
                       Item(order, batches[n][j], ks[batches[n][j]].where, 0, 0)]]]

Transfers(w, order, ks) ==
  LET tensors == {p \in DOMAIN order : ks[p].size # 0}
      others  == DOMAIN order \ tensors
      npu     == {p \in DOMAIN order : ks[p].where = "npu"}
  IN  IF IsYuan THEN PlainTransfers(order, ks, npu) \o PlainTransfers(order, ks, DOMAIN order \ npu)
      ELSE (IF Fast(w) THEN StagedTransfers(order, ks, tensors) ELSE PlainTransfers(order, ks, tensors))
             \o PlainTransfers(order, ks, others)

-----------------------------------------------------------------------------
NoLock == [holder |-> NoCaller, at |-> << >>]

NoCall == [op |-> "idle", worker |-> NoCaller, fs |-> {}, rows |-> <<>>, put |-> 0,
           ks |-> <<>>, todo |-> <<>>, left |-> <<>>, attempt |-> 0, ready |-> FALSE,
           failed |-> FALSE, got |-> {}]

BackendInit ==
  /\ deployment \in Deployments
  /\ objects = << >>
  /\ known = [e \in Cells |-> None]
  /\ calls = [c \in Calls |-> NoCall]
  /\ staging = [w \in Workers |-> NoLock]
  /\ puts = 0
  /\ latest = [e \in Cells |-> 0]
  /\ littered = {}

CellsOf(c) == calls[c].fs \X Range(calls[c].rows)

(* Writers of a cell come one at a time, and nobody reads it meanwhile.    *)
MayUse(cells, ops) ==
  \A d \in Calls : calls[d].op \in ops => CellsOf(d) \cap cells = {}

Begun(c, call) ==
  calls' = [calls EXCEPT ![c] =
              [call EXCEPT !.left = IF call.todo = <<>> THEN <<>>
                                    ELSE [j \in DOMAIN call.todo[1].items |-> j]]]

(* put_data: a column of a put has one size.                               *)
Put(c) ==
  /\ calls[c] = NoCall /\ puts < MaxPuts
  /\ \E w \in Workers, ask \in Asked, size \in [Fields -> Sizes] :
       LET fs    == ask[1]
           rows  == ask[2]
           order == KeyOrder(fs, rows)
           ks    == [p \in DOMAIN order |-> Layout(w, size[order[p][1]])]
       IN  /\ \A f \in Fields \ fs : size[f] = 0
           /\ MayUse(fs \X Range(rows), {"put", "get", "clear"})
           /\ Begun(c, [NoCall EXCEPT !.op = "put", !.worker = w, !.fs = fs, !.rows = rows,
                          !.put = puts + 1, !.ks = ks, !.todo = Transfers(w, order, ks)])
  /\ puts' = puts + 1
  /\ UNCHANGED <<deployment, objects, known, staging, latest, littered>>

(* get_data of cells the controller calls ready; a worker that cannot read *)
(* one of them raises.                                                     *)
Get(c) ==
  /\ calls[c] = NoCall
  /\ \E w \in Workers, ask \in Asked :
       LET fs    == ask[1]
           rows  == ask[2]
           order == KeyOrder(fs, rows)
           ks    == [p \in DOMAIN order |-> Seen(w, known[order[p]])]
       IN  /\ None \notin {known[order[p]] : p \in DOMAIN order}
           /\ MayUse(fs \X Range(rows), {"put", "clear"})
           /\ \A p \in DOMAIN order : ~Refuses(w, known[order[p]])
           /\ Begun(c, [NoCall EXCEPT !.op = "get", !.worker = w, !.fs = fs, !.rows = rows,
                          !.ks = ks, !.todo = Transfers(w, order, ks)])
  /\ UNCHANGED <<deployment, objects, known, staging, puts, latest, littered>>

-----------------------------------------------------------------------------
Transfer(c) == Head(calls[c].todo)
Content(c, item) == [cell |-> item.slot[2], put |-> calls[c].put, part |-> item.slot[3]]

(* A mutant: the staging buffer is not locked.                             *)
FreeToAll(c) == TRUE

StagingIsFree(c) == staging[calls[c].worker].holder = NoCaller

(* GdrStaging.acquire *)
Lock(c) ==
  /\ calls[c].todo # <<>> /\ Transfer(c).staged
  /\ staging[calls[c].worker].holder # c
  /\ StagingIsFree(c)
  /\ staging' = [staging EXCEPT ![calls[c].worker].holder = c]
  /\ UNCHANGED <<deployment, objects, known, calls, puts, latest, littered>>

MaySend(c) == Transfer(c).staged => staging[calls[c].worker].holder = c

At(w, off) == IF off \in DOMAIN staging[w].at THEN staging[w].at[off] ELSE None

Over(f, g) == [x \in DOMAIN f \cup DOMAIN g |-> IF x \in DOMAIN g THEN g[x] ELSE f[x]]

(* GdrStaging.pack: a group of a put is copied to its offsets.             *)
Pack(c) ==
  /\ calls[c].op = "put" /\ calls[c].todo # <<>> /\ Transfer(c).staged
  /\ staging[calls[c].worker].holder = c /\ ~calls[c].ready
  /\ staging' = [staging EXCEPT ![calls[c].worker].at =
       [off \in {i.off : i \in Range(Transfer(c).items)} |->
          Content(c, CHOOSE i \in Range(Transfer(c).items) : i.off = off)]]
  /\ calls' = [calls EXCEPT ![c].ready = TRUE]
  /\ UNCHANGED <<deployment, objects, known, puts, latest, littered>>

(* The call goes on to its next transfer; the staging buffer is let go     *)
(* when none is left that needs it.                                        *)
Advance(c, call, at) ==
  LET rest == Tail(call.todo)
      w    == call.worker
      over == rest = <<>> \/ ~rest[1].staged
  IN  /\ calls' = [calls EXCEPT ![c] =
            [call EXCEPT !.todo = rest, !.attempt = 0, !.ready = FALSE,
               !.left = IF rest = <<>> THEN <<>> ELSE [j \in DOMAIN rest[1].items |-> j]]]
      /\ staging' = [staging EXCEPT ![w] =
            IF ~Head(call.todo).staged THEN @ ELSE IF over THEN NoLock ELSE [@ EXCEPT !.at = at]]

(* A transfer that failed for good: a GDR call is left at once, the other  *)
(* batches are run to the end before the call raises.                      *)
GiveUp(c, call, at) ==
  IF Head(call.todo).staged
  THEN /\ calls' = [calls EXCEPT ![c] = [call EXCEPT !.todo = <<>>, !.left = <<>>, !.failed = TRUE]]
       /\ staging' = [staging EXCEPT ![call.worker] = NoLock]
  ELSE Advance(c, [call EXCEPT !.failed = TRUE], at)

(* A mutant: a retried key is given the buffer of its place among those    *)
(* that failed.                                                            *)
BufferOfPlace(left, j) == j

(* Retries use the buffer of the key's place in the first attempt.         *)
BufferOf(left, j) == left[j]

(* Yuanrong does not retry.                                                *)
Retries == IF IsYuan THEN 0 ELSE MaxRetries

Again(c, bad) ==
  LET js == Ascending(bad)
  IN  [n \in DOMAIN js |-> calls[c].left[js[n]]]

(* _batch_upsert_with_retry, one attempt: the keys in `bad` fail.          *)
Upsert(c) ==
  LET call  == calls[c]
      items == Transfer(c).items
      w     == call.worker
      value(j) == LET item == items[BufferOf(call.left, j)]
                  IN  IF Transfer(c).staged THEN At(w, item.off) ELSE Content(c, item)
  IN  /\ call.op = "put" /\ call.todo # <<>> /\ MaySend(c)
      /\ Transfer(c).staged => call.ready
      /\ \E bad \in SUBSET DOMAIN call.left :
           LET good == DOMAIN call.left \ bad
           IN  /\ objects' = Over(objects,
                    [slot \in {items[call.left[j]].slot : j \in good} |->
                       value(CHOOSE j \in good : items[call.left[j]].slot = slot)])
               /\ IF bad = {} THEN Advance(c, call, staging[w].at)
                  ELSE IF call.attempt < Retries
                  THEN /\ calls' = [calls EXCEPT ![c].left = Again(c, bad), ![c].attempt = @ + 1]
                       /\ UNCHANGED staging
                  ELSE GiveUp(c, call, staging[w].at)
      /\ UNCHANGED <<deployment, known, puts, latest, littered>>

(* _batch_get_into_with_retry, one attempt.  What a GDR worker read is in  *)
(* its staging buffer until Unpack; a key that is not there fails.         *)
Read(c) ==
  LET call  == calls[c]
      items == Transfer(c).items
      w     == call.worker
      here(j) == items[call.left[j]].slot \in DOMAIN objects
      read(good) == [off \in {items[BufferOf(call.left, j)].off : j \in good} |->
                       objects[items[call.left[CHOOSE j \in good :
                                                 items[BufferOf(call.left, j)].off = off]].slot]]
      taken(good) == {[pos |-> items[BufferOf(call.left, j)].pos,
                       of |-> objects[items[call.left[j]].slot]] : j \in good}
  IN  /\ call.op = "get" /\ call.todo # <<>> /\ MaySend(c) /\ ~call.ready
      /\ \E bad \in SUBSET DOMAIN call.left :
           LET good == DOMAIN call.left \ bad
               at   == Over(staging[w].at, read(good))
               next == IF Transfer(c).staged THEN call ELSE [call EXCEPT !.got = @ \cup taken(good)]
           IN  /\ \A j \in good : here(j)
               /\ IF bad = {}
                  THEN IF Transfer(c).staged
                       THEN /\ calls' = [calls EXCEPT ![c].ready = TRUE]
                            /\ staging' = [staging EXCEPT ![w].at = at]
                       ELSE Advance(c, next, at)
                  ELSE IF call.attempt < Retries
                  THEN /\ calls' = [calls EXCEPT ![c] = [next EXCEPT !.left = Again(c, bad),
                                                                     !.attempt = @ + 1]]
                       /\ staging' = IF Transfer(c).staged THEN [staging EXCEPT ![w].at = at] ELSE staging
                  ELSE GiveUp(c, next, at)
      /\ UNCHANGED <<deployment, objects, known, puts, latest, littered>>

(* GdrStaging.unpack, or the copy of one slice.                            *)
Unpack(c) ==
  LET call == calls[c]
  IN  /\ call.op = "get" /\ call.todo # <<>> /\ call.ready
      /\ Advance(c, [call EXCEPT !.got = @ \cup
                       {[pos |-> i.pos, of |-> At(call.worker, i.off)] : i \in Range(Transfer(c).items)}],
                 staging[call.worker].at)
      /\ UNCHANGED <<deployment, objects, known, puts, latest, littered>>

-----------------------------------------------------------------------------
Holds(e) == {slot \in DOMAIN objects : slot[2] = e}

(* The put is notified, with the layout of every cell, or raises.          *)
EndPut(c) ==
  LET call  == calls[c]
      order == KeyOrder(call.fs, call.rows)
      k(e)  == call.ks[CHOOSE p \in DOMAIN order : order[p] = e]
  IN  /\ call.op = "put" /\ call.todo = <<>>
      /\ known' = [e \in Cells |->
                     IF e \in CellsOf(c) /\ ~call.failed THEN k(e) ELSE known[e]]
      /\ latest' = [e \in Cells |->
                      IF e \notin CellsOf(c) THEN latest[e] ELSE IF call.failed THEN 0 ELSE call.put]
      /\ littered' = littered \cup
           {e \in CellsOf(c) : call.failed \/ (known[e] # None /\ SlotsOf(e, known[e]) # SlotsOf(e, k(e)))}
      /\ calls' = [calls EXCEPT ![c] = NoCall]
      /\ UNCHANGED <<deployment, objects, staging, puts>>

(* The get answers, with what it has, or raises.                           *)
EndGet(c) ==
  /\ calls[c].op = "get" /\ calls[c].todo = <<>>
  /\ calls' = [calls EXCEPT ![c] = NoCall]
  /\ UNCHANGED <<deployment, objects, known, staging, puts, latest, littered>>

(* A mutant: only the plain keys are removed.                              *)
RemovedPlain(w, e) == {<<known[e].where, e, 0>>}

(* clear() removes the keys the backend metadata names; Yuanrong skips a   *)
(* key whose strategy this worker has not.                                 *)
Removed(w, e) ==
  IF IsYuan /\ Refuses(w, known[e]) THEN {} ELSE SlotsOf(e, Seen(w, known[e]))

(* clear_data, and the controller's own clear: failures are logged.        *)
Clear(c) ==
  /\ calls[c] = NoCall
  /\ \E w \in Workers, ask \in Asked, works \in BOOLEAN :
       LET cells == ask[1] \X Range(ask[2])
           gone  == IF works THEN UNION {Removed(w, e) : e \in cells} ELSE {}
       IN  /\ \A e \in cells : known[e] # None
           /\ MayUse(cells, {"put", "get", "clear"})
           /\ objects' = [s \in DOMAIN objects \ gone |-> objects[s]]
           /\ known' = [e \in Cells |-> IF e \in cells THEN None ELSE known[e]]
           /\ latest' = [e \in Cells |-> IF e \in cells THEN 0 ELSE latest[e]]
           /\ littered' = littered \cup {e \in cells : ~works \/ Refuses(w, known[e])}
  /\ UNCHANGED <<deployment, calls, staging, puts>>

BackendNext ==
  \E c \in Calls :
    \/ Put(c) \/ Get(c) \/ Clear(c)
    \/ Lock(c) \/ Pack(c) \/ Upsert(c) \/ Read(c) \/ Unpack(c)
    \/ EndPut(c) \/ EndGet(c)

BackendSpec == BackendInit /\ [][BackendNext]_backendVars

-----------------------------------------------------------------------------
TypeOK ==
  /\ deployment \in Deployments
  /\ DOMAIN objects \subseteq {"store", "npu", "general"} \X Cells \X Nat
  /\ DOMAIN known = Cells
  /\ puts \in 0..MaxPuts
  /\ littered \subseteq Cells

(* What a get returns for row k of field f.                                *)
Returned(c, f, k) ==
  {g.of : g \in {x \in calls[c].got : x.pos = ValueOf(calls[c].fs, calls[c].rows, f, k)}}

(* A get that succeeds returns, in every row of every field, all the       *)
(* slices of the value the last good put wrote for that very cell: through *)
(* batches, groups, chunks, retries and a staging buffer others use too.   *)
ReadsAreLatest ==
  \A c \in Calls : calls[c].op = "get" /\ calls[c].todo = <<>> /\ ~calls[c].failed =>
    \A f \in calls[c].fs, k \in DOMAIN calls[c].rows :
      LET e == <<f, calls[c].rows[k]>>
      IN  latest[e] # 0 =>
            Returned(c, f, k) = {[cell |-> e, put |-> latest[e], part |-> n] : n \in PartsOf(known[e])}

(* What is packed into the staging buffer ends within it (the buffer is    *)
(* registered memory of BufferSize bytes), and no two tensors overlap.     *)
StagingFits ==
  \A c \in Calls : calls[c].todo # <<>> /\ Transfer(c).staged =>
    LET items == Transfer(c).items
        size(i) == IF i.slot[3] = 0 THEN calls[c].ks[i.pos].size ELSE BufferSize
    IN  \A i, j \in Range(items) :
          /\ i.off + size(i) <= BufferSize
          /\ i # j => i.off + size(i) <= j.off \/ j.off + size(j) <= i.off

(* A cell that was cleared, or was never put, leaves nothing in the store: *)
(* sub-keys and both of Yuanrong's stores included.                        *)
ClearedIsGone ==
  \A e \in Cells \ littered :
    known[e] = None /\ (\A c \in Calls : calls[c].op = "put" => e \notin CellsOf(c)) => Holds(e) = {}
=============================================================================
