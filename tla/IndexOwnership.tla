--------------------------- MODULE IndexOwnership ---------------------------
(***************************************************************************)
(* What the controller's index management promises the rest of the system. *)
(* An index has at most one owner.  A batch takes indexes nobody owns, and *)
(* a new index only once every used one is taken, so the storage units see *)
(* no more distinct indexes than were ever alive at once.                  *)
(***************************************************************************)
CONSTANTS
  Partitions,   \* the owners
  Indexes       \* the indexes there are

VARIABLES
  owns,   \* partition -> the indexes it owns
  used    \* the indexes some partition has or had

ownershipVars == <<owns, used>>

Taken == UNION {owns[p] : p \in Partitions}

OwnershipInit ==
  /\ owns = [p \in Partitions |-> {}]
  /\ used = {}

(* p is given the indexes S.                                               *)
Assign(p, S) ==
  /\ S \cap Taken = {}
  /\ S \subseteq used \/ used \subseteq Taken \cup S
  /\ owns' = [owns EXCEPT ![p] = @ \cup S]
  /\ used' = used \cup S

(* p gives the indexes S back.                                             *)
GiveBack(p, S) ==
  /\ S \subseteq owns[p]
  /\ owns' = [owns EXCEPT ![p] = @ \ S]
  /\ UNCHANGED used

OwnershipNext ==
  \E p \in Partitions, S \in SUBSET Indexes : Assign(p, S) \/ GiveBack(p, S)

OwnershipSpec == OwnershipInit /\ [][OwnershipNext]_ownershipVars
=============================================================================
