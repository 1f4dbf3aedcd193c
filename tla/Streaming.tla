------------------------------ MODULE Streaming ------------------------------
(***************************************************************************)
(* The consumers' side of a partition: streaming readers                   *)
(* (dataloader/streaming_dataset.py), one per rank, that fetch batches     *)
(* through the controller's get_metadata and its sampler, which remembers  *)
(* the batch it gave to a data replica group (sampler/*.py).  Production   *)
(* is one bit per sample; Controller has the status tensors in full.       *)
(***************************************************************************)
EXTENDS Samplers

CONSTANTS
  Readers, Nobody,
  N,              \* samples of the partition, pre-allocated (TQ_PRE_ALLOC_SAMPLE_NUM)
  DpSize,         \* data replica groups
  Samplings,      \* a sampler ("sequential", "rank_aware", "grpo", "seqlen"), its
                  \* n_samples_per_prompt and the readers' batch_size
  Modes,          \* values of polling_mode
  Length,         \* total_lengths of each sample
  MaxLife,        \* bound: how often a sample is cleared, by itself or with the partition
  Lockstep,       \* whether the readers of a balanced batch all fetch it before any fetches the next
  WholePrompts,   \* whether the samples of a prompt become ready together
  SharedFinite,   \* whether readers of one group may stop when all is consumed
  EagerClears     \* whether samples are cleared before all who share their batch have it

Index == 0..(N - 1)

ASSUME StreamingAssumption ==
  /\ {N, DpSize} \subseteq Nat \ {0} /\ Nobody \notin Readers
  /\ \A s \in Samplings :
       /\ s[1] \in {"sequential", "rank_aware", "grpo", "seqlen"}
       /\ {s[2], s[3]} \subseteq 1..N /\ s[3] % s[2] = 0 /\ N % s[2] = 0
  /\ Length \in [Index -> Nat]
  /\ Modes \subseteq BOOLEAN /\ MaxLife \in Nat
  /\ {Lockstep, WholePrompts, SharedFinite, EagerClears} \subseteq BOOLEAN

VARIABLES
  sampling, polling_mode,   \* the registered sampler, and how fetches wait
  ready,            \* samples whose fields are all produced
  consumed,         \* samples the task has consumed
  life,             \* how often an index was cleared: <<i, life[i]>> is a sample
  epoch,            \* how often the partition was cleared
  states,           \* _states: the batch of each <<dp_rank, batch_index>>
  balanced,         \* _balanced_cache: the assignment of each batch_index
  waiting,          \* the reader whose get_metadata sleeps in the controller
  reader            \* the readers

settings == <<sampling, polling_mode>>
vars == <<settings, ready, consumed, life, epoch, states, balanced, waiting, reader>>
controllerVars == <<ready, consumed, life, epoch, states, balanced>>

kind == sampling[1]
group_size == sampling[2]
batch_size == sampling[3]

-----------------------------------------------------------------------------
(* What the samplers draw from the unread samples S, and how the groups    *)
(* then share it, as tables (a function that equals f is f, evaluated).    *)
Table(f) == CHOOSE g \in {f} : g = f

Drawn ==
  Table([s \in Samplings |-> Table([S \in SUBSET Index |->
     CASE s[1] = "sequential" -> FirstReady(Ascending(S), s[3])
       [] s[1] = "rank_aware" -> FirstBatch(Ascending(S), s[3])
       [] s[1] = "grpo"       -> GroupBatch(Ascending(S), s[3], s[2])
       [] s[1] = "seqlen"     -> GroupBatch(Ascending(S), s[3] * DpSize, s[2])])])

Dealt ==
  Table([s \in {t \in Samplings : t[1] = "seqlen"} |->
     Table([S \in {T \in SUBSET Index : Drawn[s][T] # <<>>} |->
        Assignment(Drawn[s][S], s[2], DpSize, Length)])])

Unread == ready \ consumed

(* A mutant: data replica groups share their batches.                      *)
KeyOfBatch(r) == <<0, Len(reader[r].buffer)>>

Key(r) == <<reader[r].dp, Len(reader[r].buffer)>>

(* A mutant: what other ranks were given is not looked up.                 *)
NothingCached(r) == FALSE

HasCached(r) == Key(r) \in DOMAIN states

With(f, g) == [x \in DOMAIN f \cup DOMAIN g |-> IF x \in DOMAIN g THEN g[x] ELSE f[x]]

(* SequentialSampler remembers nothing.                                    *)
SampleFresh == [batch |-> Drawn[sampling][Unread], balanced |-> balanced, states |-> states]

(* A mutant: each rank of a group draws for itself.                        *)
SampleAlone(r) == SampleFresh

(* RankAwareSampler, GRPOGroupNSampler: the first rank of a group draws,   *)
(* the others get what it got.                                             *)
SampleCached(r) ==
  IF Key(r) \in DOMAIN states THEN [SampleFresh EXCEPT !.batch = states[Key(r)]]
  ELSE IF SampleFresh.batch = <<>> THEN SampleFresh
  ELSE [SampleFresh EXCEPT !.states = With(@, [k \in {Key(r)} |-> SampleFresh.batch])]

(* SeqlenBalancedSampler: the first rank draws for all ranks.              *)
SampleBalanced(r) ==
  LET b     == Key(r)[2]
      parts == Dealt[sampling][Unread]
  IN  IF b \in DOMAIN balanced THEN [SampleFresh EXCEPT !.batch = balanced[b][Key(r)[1]]]
      ELSE IF SampleFresh.batch = <<>> THEN SampleFresh
      ELSE [batch    |-> parts[Key(r)[1]],
            balanced |-> With(balanced, [k \in {b} |-> parts]),
            states   |-> With(states, [k \in (0..(DpSize - 1)) \X {b} |-> parts[k[1]]])]

Sample(r) ==
  CASE kind = "sequential" -> SampleFresh
    [] kind = "seqlen"     -> SampleBalanced(r)
    [] OTHER               -> SampleCached(r)

Identity(batch) == [j \in DOMAIN batch |-> <<batch[j], life[batch[j]]>>]

-----------------------------------------------------------------------------
(* The reader's loop: check_consumption_status, when it is to stop at the  *)
(* end; then the next batch of its buffer, or a fetch.                     *)
AllConsumed == consumed = Index

Idle(r) == reader[r].phase = "check" /\ reader[r].epoch = epoch
Buffered(r) == reader[r].batch_index < Len(reader[r].buffer)

Stop(r) ==
  /\ Idle(r) /\ ~Buffered(r) /\ waiting = Nobody
  /\ reader[r].finite /\ AllConsumed
  /\ reader' = [reader EXCEPT ![r].phase = "stopped"]
  /\ UNCHANGED <<settings, controllerVars, waiting>>

Yield(r) ==
  /\ Idle(r) /\ Buffered(r)
  /\ reader' = [reader EXCEPT ![r].batch_index = @ + 1]
  /\ UNCHANGED <<settings, controllerVars, waiting>>

InStep(r) ==
  Lockstep /\ kind = "seqlen" =>
    \A s \in Readers : reader[s].epoch = epoch /\ Len(reader[s].buffer) >= Len(reader[r].buffer)

(* default_fetch_batch_fn begins with get_meta, which the controller       *)
(* answers: with the sampled batch, with nothing (polling: sleep and try   *)
(* again), or, without polling, not before there is enough.                *)
Answer(r) ==
  LET s == Sample(r)
  IN  IF s.batch # <<>>
      THEN /\ reader' = [reader EXCEPT ![r].phase = "data", ![r].meta = Identity(s.batch)]
           /\ consumed' = consumed \cup Range(s.batch)
           /\ states' = s.states /\ balanced' = s.balanced
      ELSE /\ reader' = IF polling_mode THEN reader ELSE [reader EXCEPT ![r].phase = "failed"]
           /\ UNCHANGED <<consumed, states, balanced>>

Fetch(r) ==
  /\ Idle(r) /\ ~Buffered(r) /\ waiting = Nobody
  /\ ~(reader[r].finite /\ AllConsumed)
  /\ InStep(r)
  /\ IF Cardinality(Unread) >= batch_size \/ (polling_mode /\ HasCached(r))
     THEN Answer(r) /\ UNCHANGED waiting
     ELSE /\ waiting' = IF polling_mode THEN Nobody ELSE r
          /\ UNCHANGED <<reader, consumed, states, balanced>>
  /\ UNCHANGED <<settings, ready, life, epoch>>

(* The controller's request thread sleeps, and serves no request that      *)
(* could end the wait, until TQ_CONTROLLER_GET_METADATA_TIMEOUT.           *)
WaitEnds(r) ==
  /\ waiting = r
  /\ waiting' = Nobody
  /\ reader' = [reader EXCEPT ![r].phase = "failed"]
  /\ UNCHANGED <<settings, controllerVars>>

(* get_data; the batch joins the buffer.                                   *)
GetData(r) ==
  /\ reader[r].phase = "data"
  /\ reader' = [reader EXCEPT ![r].phase = "check", ![r].meta = <<>>,
                              ![r].buffer = Append(@, reader[r].meta)]
  /\ UNCHANGED <<settings, controllerVars, waiting>>

(* reset: the same batches again.                                          *)
Reset(r) ==
  /\ reader[r].phase = "stopped"
  /\ reader' = [reader EXCEPT ![r].phase = "check", ![r].batch_index = 0]
  /\ UNCHANGED <<settings, controllerVars, waiting>>

(* step: the reader turns to the partition's next life.                    *)
Step(r) ==
  /\ reader[r].phase \in {"check", "stopped"} /\ reader[r].epoch < epoch
  /\ reader' = [reader EXCEPT ![r].phase = "check", ![r].buffer = <<>>,
                              ![r].batch_index = 0, ![r].epoch = epoch]
  /\ UNCHANGED <<settings, controllerVars, waiting>>

-----------------------------------------------------------------------------
Prompt(i) == {j \in Index : j \div group_size = i \div group_size}

(* A NOTIFY makes samples ready.                                           *)
Produce ==
  /\ waiting = Nobody
  /\ \E i \in Index \ ready :
       ready' = ready \cup (IF WholePrompts THEN Prompt(i) ELSE {i})
  /\ UNCHANGED <<settings, consumed, life, epoch, states, balanced, waiting, reader>>

(* A mutant: clear_partition leaves the sampler's cache.                   *)
ClearPartitionOnly == UNCHANGED <<states, balanced>>

(* clear_cache.                                                            *)
ClearCache == states' = <<>> /\ balanced' = <<>>

(* clear_partition, when the readers are done with what they fetched.      *)
ClearPartition ==
  /\ waiting = Nobody /\ \A j \in Index : life[j] < MaxLife
  /\ \A r \in Readers : reader[r].phase # "data" /\ reader[r].epoch = epoch
  /\ ready' = {} /\ consumed' = {} /\ epoch' = epoch + 1
  /\ life' = [i \in Index |-> life[i] + 1]
  /\ ClearCache
  /\ UNCHANGED <<settings, waiting, reader>>

(* A sample that no reader fetches, and that no cached batch still owes to *)
(* a reader.                                                               *)
DoneWith(i) ==
  /\ \A r \in Readers : \A j \in DOMAIN reader[r].meta : reader[r].meta[j][1] # i
  /\ \A k \in {k \in DOMAIN states : i \in Range(states[k])} : \A r \in Readers :
       reader[r].dp = k[1] => reader[r].epoch = epoch /\ Len(reader[r].buffer) > k[2]

(* clear_meta of consumed samples, whose indexes are then given out again: *)
(* the sampler is not told.                                                *)
ClearSamples ==
  /\ waiting = Nobody /\ \A j \in Index : life[j] < MaxLife
  /\ \E i \in consumed :
       LET gone == IF WholePrompts THEN Prompt(i) ELSE {i}
       IN  /\ \A j \in gone : j \in consumed /\ (EagerClears \/ DoneWith(j))
           /\ life' = [j \in Index |-> IF j \in gone THEN life[j] + 1 ELSE life[j]]
           /\ ready' = ready \ gone /\ consumed' = consumed \ gone
  /\ UNCHANGED <<settings, epoch, states, balanced, waiting, reader>>

-----------------------------------------------------------------------------
(* A reader of each group; sharing a group is for the samplers that serve  *)
(* several ranks of it.                                                    *)
Groupings(k) ==
  {f \in [Readers -> 0..(DpSize - 1)] :
     /\ k = "seqlen" => Range(f) = 0..(DpSize - 1)
     /\ k = "sequential" => IsInjective(f)}

Alone(f, r) == \A s \in Readers \ {r} : f[s] # f[r]

Init ==
  /\ sampling \in Samplings /\ polling_mode \in Modes
  /\ ready = {} /\ consumed = {} /\ life = [i \in Index |-> 0] /\ epoch = 0
  /\ states = <<>> /\ balanced = <<>> /\ waiting = Nobody
  /\ \E f \in Groupings(kind), finite \in [Readers -> BOOLEAN] :
       /\ \A r \in Readers : finite[r] => SharedFinite \/ Alone(f, r)
       /\ reader = [r \in Readers |->
            [dp |-> f[r], finite |-> finite[r], phase |-> "check", meta |-> <<>>,
             buffer |-> <<>>, batch_index |-> 0, epoch |-> 0]]

ReaderStep(r) == Stop(r) \/ Yield(r) \/ Fetch(r) \/ GetData(r) \/ Step(r) \/ WaitEnds(r)

Next ==
  \/ \E r \in Readers : ReaderStep(r) \/ Reset(r)
  \/ Produce \/ ClearPartition \/ ClearSamples

Fairness == \A r \in Readers : WF_vars(ReaderStep(r))
Spec == Init /\ [][Next]_vars /\ Fairness

-----------------------------------------------------------------------------
Current == {r \in Readers : reader[r].epoch = epoch}
Peers(r) == {s \in Current : reader[s].dp = reader[r].dp}

(* "This sampler guarantees that all ranks within the same data replica    *)
(* group receive the same sample indices" (rank_aware_sampler.py:27), and  *)
(* of these the same samples, whoever comes first and however late.        *)
SameGroupSameData ==
  \A r \in Current : \A s \in Peers(r) :
    \A b \in DOMAIN reader[r].buffer \cap DOMAIN reader[s].buffer :
      reader[r].buffer[b] = reader[s].buffer[b]

(* "All samples are consumed (without replacement)"                        *)
(* (seqlen_balanced_sampler.py:204): no sample is in two batches.          *)
NoSampleTwice ==
  \A r, s \in Current : \A b \in DOMAIN reader[r].buffer, c \in DOMAIN reader[s].buffer :
    b # c \/ reader[r].dp # reader[s].dp
      => Range(reader[r].buffer[b]) \cap Range(reader[s].buffer[c]) = {}

(* What a reader is about to get is produced: a cached batch does not      *)
(* outlive its samples.                                                    *)
GivenIsReady ==
  \A r \in Readers : {reader[r].meta[j][1] : j \in DOMAIN reader[r].meta} \subseteq ready

(* "It ensures that all samples belonging to the same prompt are either    *)
(* selected together or not at all" (grpo_group_n_sampler.py:26).          *)
GroupsStayTogether ==
  kind \in {"grpo", "seqlen"} =>
    \A r \in Current : \A b \in DOMAIN reader[r].buffer :
      LET given == {x[1] : x \in Range(reader[r].buffer[b])}
      IN  \A i \in given : Prompt(i) \subseteq given

(* Of a balanced batch every rank gets as many prompts, and no rank's      *)
(* total length exceeds another's by more than prompts of one round, like  *)
(* in length, do among themselves.                                         *)
BatchesAreFair ==
  \A b \in DOMAIN balanced : \A d, e \in 0..(DpSize - 1) :
    LET total(x) == SumOver([j \in DOMAIN balanced[b][x] |-> Length[balanced[b][x][j]]])
        all      == {i \in UNION {Range(balanced[b][x]) : x \in 0..(DpSize - 1)} : i % group_size = 0}
        sums     == [n \in DOMAIN Ascending(all) |->
                       LET first == Ascending(all)[n]
                       IN  SumOver([j \in 1..group_size |-> Length[first + j - 1]])]
    IN  /\ Len(balanced[b][d]) = Len(balanced[b][e])
        /\ \E s \in Rounds(sums, DpSize) : total(d) - total(e) <= Spread(s)

(* A batch that one rank of a group was given reaches the group's other    *)
(* ranks too, although fewer samples than a batch may be left for them     *)
(* (has_cached_result).                                                    *)
Behind(r) ==
  /\ polling_mode /\ kind # "sequential" /\ r \in Current
  /\ \E s \in Peers(r) : Len(reader[s].buffer) > Len(reader[r].buffer)

CatchesUp == \A r \in Readers : Behind(r) ~> ~Behind(r)
=============================================================================
