--------------------------- MODULE MCClientProcess ---------------------------
(***************************************************************************)
(* An instance of ClientProcess for TLC: two tasks on one loop that may be *)
(* closed, and a thread, whose requests run on the loop of the client.     *)
(***************************************************************************)
EXTENDS ClientProcess

CONSTANTS a1, a2, t, appLoop, clientLoop, rpc, unit

Waits == (a1 :> appLoop) @@ (a2 :> appLoop) @@ (t :> t)

Owner == (a1 :> appLoop) @@ (a2 :> appLoop) @@ (t :> clientLoop)

(* Overlapping blocks that name their keys in different orders.            *)
Named == (a1 :> {<<1, 2>>}) @@ (a2 :> {<<2>>}) @@ (t :> {<<2, 1>>})

Used == (a1 :> {rpc}) @@ (a2 :> {rpc, unit}) @@ (t :> {unit})
=============================================================================
