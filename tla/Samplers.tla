------------------------------ MODULE Samplers -------------------------------
(***************************************************************************)
(* The samplers' choices as operators (sampler/*.py): which of the ready    *)
(* samples a request gets, given as sequences of global indexes.           *)
(***************************************************************************)
EXTENDS Ordering, SequencesExt

(* SequentialSampler and RankAwareSampler: the first n; RankAwareSampler   *)
(* gives none where there are fewer.                                       *)
FirstReady(sorted, n) == SubSeq(sorted, 1, IF Len(sorted) < n THEN Len(sorted) ELSE n)
FirstBatch(sorted, n) == IF Len(sorted) < n THEN <<>> ELSE FirstReady(sorted, n)

(* A mutant: the pass goes on behind a group's first index.                *)
OverlappingGroups(sorted, g) ==
  LET starts == {i \in 1..(Len(sorted) - g + 1) : sorted[i + g - 1] - sorted[i] = g - 1}
  IN  [n \in 1..Cardinality(starts) |->
         LET i == Ascending(starts)[n] IN SubSeq(sorted, i, i + g - 1)]

(* GRPOGroupNSampler: the complete groups of g consecutive indexes, found  *)
(* in one pass over the ready ones in ascending order.                     *)
CompleteGroups(sorted, g) ==
  LET Consecutive(i) == \A j \in i..(i + g - 2) : sorted[j + 1] - sorted[j] = 1
      from[i \in 1..(Len(sorted) + g)] ==
        IF i + g - 1 > Len(sorted) THEN <<>>
        ELSE IF Consecutive(i) THEN <<SubSeq(sorted, i, i + g - 1)>> \o from[i + g]
        ELSE from[i + 1]
  IN  from[1]

(* As many groups as the batch needs, or none.                             *)
GroupBatch(sorted, n, g) ==
  LET groups == CompleteGroups(sorted, g)
  IN  IF Len(groups) < n \div g THEN <<>> ELSE FlattenSeq(SubSeq(groups, 1, n \div g))

-----------------------------------------------------------------------------
(* karmarkar_karp: a bin has items and their sum, a state is k bins, the   *)
(* heaviest first.                                                         *)
Heavier(a, b) ==
  IF a.sum # b.sum THEN a.sum > b.sum
  ELSE IF Len(a.items) # Len(b.items) THEN Len(a.items) > Len(b.items)
  ELSE a.items # <<>> /\ a.items[1] > b.items[1]

Bin(item, lengths) == [items |-> <<item>>, sum |-> lengths[item]]
State(bins) == InOrder(bins, {p \in bins \X bins : Heavier(p[1], p[2])})

Spread(s) == s[1].sum - s[Len(s)].sum
Before(s, t) == Spread(s) > Spread(t) \/ (Spread(s) = Spread(t) /\ Heavier(s[1], t[1]))
PopOf(S) == CHOOSE s \in S : \A t \in S \ {s} : Before(s, t)

Merged(a, b) == [items |-> a.items \o b.items, sum |-> a.sum + b.sum]

(* A mutant: the heaviest bins are put together.                           *)
MergeAligned(s, t) ==
  State({Merged(s[i], t[i]) : i \in DOMAIN s})

(* The heaviest bin of one with the lightest of the other.                 *)
Merge(s, t) == State({Merged(s[i], t[Len(s) + 1 - i]) : i \in DOMAIN s})

(* The two states that are popped give way to their merger.                *)
MergeTwo(S) ==
  LET s == PopOf(S)
      t == PopOf(S \ {s})
  IN  (S \ {s, t}) \cup {Merge(s, t)}

(* What is left after n mergers, and when one state is left.               *)
Reduce(S) ==
  LET left[n \in 0..(Cardinality(S) - 1)] == IF n = 0 THEN S ELSE MergeTwo(left[n - 1])
  IN  CHOOSE s \in left[Cardinality(S) - 1] : TRUE

(* The states to begin with, of equal_size: k items of like length each.   *)
Rounds(lengths, k) ==
  LET Places == DOMAIN lengths
      order  == InOrder(Places, {p \in Places \X Places :
                                   \/ lengths[p[1]] < lengths[p[2]]
                                   \/ lengths[p[1]] = lengths[p[2]] /\ p[1] < p[2]})
  IN  {State({Bin(order[r * k + j], lengths) : j \in 1..k}) : r \in 0..(Len(lengths) \div k - 1)}

(* get_seqlen_balanced_partitions: k lists of the positions of lengths.    *)
BalancedPartitions(lengths, k) ==
  LET final == Reduce(Rounds(lengths, k))
  IN  [j \in 1..k |-> Ascending(Range(final[j].items))]

SumOver(s) ==
  LET sum[n \in 0..Len(s)] == IF n = 0 THEN 0 ELSE sum[n - 1] + s[n]
  IN  sum[Len(s)]

(* SeqlenBalancedSampler: groups go to ranks whole, by their total length. *)
Assignment(batch, g, k, length) ==
  LET groups == [n \in 1..(Len(batch) \div g) |-> SubSeq(batch, (n - 1) * g + 1, n * g)]
      sums   == [n \in DOMAIN groups |-> SumOver([i \in 1..g |-> length[groups[n][i]]])]
      parts  == BalancedPartitions(sums, k)
  IN  [r \in 0..(k - 1) |-> FlattenSeq([n \in DOMAIN parts[r + 1] |-> groups[parts[r + 1][n]]])]
=============================================================================
