------------------------------ MODULE UnitStore ------------------------------
(***************************************************************************)
(* What a storage unit promises its callers, wherever it keeps a value: a  *)
(* put stores all of its values or none, a clear removes what it names,    *)
(* and a checkpoint that loads is one that was saved.                      *)
(***************************************************************************)
EXTENDS Naturals

CONSTANTS Fields, Indexes, Values, Names

VARIABLES
  rows,    \* the value of every cell <<field, index>> the unit holds
  keys,    \* the samples that use up its capacity
  images   \* the rows and keys of every checkpoint file there is

vars == <<rows, keys, images>>

Cells == Fields \X Indexes

Init == rows = <<>> /\ keys = {} /\ images = <<>>

(* All the new values at once.                                             *)
Put ==
  \E F \in (SUBSET Fields) \ {{}}, I \in (SUBSET Indexes) \ {{}} :
    /\ keys' = keys \cup I
    /\ DOMAIN rows' = DOMAIN rows \cup (F \X I)
    /\ \A c \in DOMAIN rows' : IF c \in F \X I THEN rows'[c] \in Values ELSE rows'[c] = rows[c]
    /\ UNCHANGED images

Clear ==
  \E F \in SUBSET Fields, I \in SUBSET Indexes :
    /\ keys' \in {keys, keys \ I}
    /\ rows' = [c \in DOMAIN rows \ (F \X I) |-> rows[c]]
    /\ UNCHANGED images

Save(n) ==
  /\ images' = [m \in DOMAIN images \cup {n} |->
                  IF m = n THEN [rows |-> rows, keys |-> keys] ELSE images[m]]
  /\ UNCHANGED <<rows, keys>>

Load(n) ==
  /\ n \in DOMAIN images
  /\ rows' = images[n].rows /\ keys' = images[n].keys
  /\ UNCHANGED images

(* The process ends and another one begins.                                *)
Restart == rows' = <<>> /\ keys' = {} /\ UNCHANGED images

Forget(n) ==
  /\ images' = [m \in DOMAIN images \ {n} |-> images[m]]
  /\ UNCHANGED <<rows, keys>>

Next == Put \/ Clear \/ Restart \/ \E n \in Names : Save(n) \/ Load(n) \/ Forget(n)

Spec == Init /\ [][Next]_vars
=============================================================================
