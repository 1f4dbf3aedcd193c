---------------------------- MODULE MCGlobalLock ----------------------------
(***************************************************************************)
(* Instances of GlobalLock for TLC: two callers that both lock two names,  *)
(* which two shards hold; and three callers that lock one or two of the    *)
(* names of one shard.                                                     *)
(***************************************************************************)
EXTENDS GlobalLock, TLC

CONSTANTS t1, t2, t3, a, b

(* Two shards, one name in each, wanted by both callers.                   *)
TwoShards      == a :> 1 @@ b :> 2
BothWantBoth   == t1 :> {a, b} @@ t2 :> {a, b}
LongAndShort   == t1 :> 2 @@ t2 :> 1

(* One shard; t2 wants what both others want.                              *)
OneShard       == a :> 1 @@ b :> 1
Overlapping    == t1 :> {b} @@ t2 :> {a, b} @@ t3 :> {a}
AllShort       == t1 :> 1 @@ t2 :> 1 @@ t3 :> 1
=============================================================================
