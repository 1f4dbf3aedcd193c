----------------------------- MODULE MCStreaming -----------------------------
(***************************************************************************)
(* Instances of Streaming for TLC.                                         *)
(***************************************************************************)
EXTENDS Streaming

(* A batch is one, two or four of the samples, or two prompts.             *)
AllSamplers ==
  {<<"sequential", 1, 2>>, <<"rank_aware", 1, 2>>, <<"grpo", 2, 2>>,
   <<"seqlen", 1, 1>>, <<"seqlen", 1, 2>>, <<"seqlen", 2, 2>>}

(* Balanced batches of a sample for each rank.                             *)
OneEach == {<<"seqlen", 1, 1>>}

(* One long sample, so that a careless assignment shows.                   *)
Lengths == [i \in Index |-> <<1, 2, 3, 9, 1, 1>>[i + 1]]
=============================================================================
