------------------------- MODULE ProcessProofs -------------------------
(***************************************************************************)
(* The local locks and the socket pool of one process, for any number of   *)
(* callers, keys, event loops and pools: a key has one owner, a caller is  *)
(* given the reply to its own request, and no more sockets are open to a   *)
(* peer from a loop than the pool's size.                                  *)
(*                                                                         *)
(* The sessions that processes bring up and tear down, for any number of   *)
(* processes, lock actors, retries, sessions and crashes: a session is     *)
(* whole until its creator closes it, and a client fits its session.       *)
(*                                                                         *)
(* The process of a storage unit with an SSD tier, for any fields, samples *)
(* and values, any sizes: its files and the count of them follow its       *)
(* values through every failure, and whichever tier keeps a value the unit *)
(* is the store of UnitStore.  Every operation that touches files is one   *)
(* replacement: some cells get other values, or none, the large ones as    *)
(* new files, and then the files that nobody refers to are unlinked, or    *)
(* are not.                                                                *)
(***************************************************************************)
EXTENDS ClientProcess, Session, HybridUnit, FiniteSetTheorems, SequenceTheorems,
        NaturalsInduction, WellFoundedInduction, TLAPS

-----------------------------------------------------------------------------
(* Sequences.                                                              *)

LEMMA LeastNumber ==
  ASSUME NEW T \in SUBSET Nat, T # {}
  PROVE  \E n \in T : \A m \in T : n <= m
<1> DEFINE R == {ss \in Nat \X Nat : ss[1] < ss[2]}
<1>1. IsWellFoundedOn(R, Nat)
  BY NatLessThanWellFounded DEF OpToRel
<1>2. \A y, x \in Nat : y < x => <<y, x>> \in R
  OBVIOUS
<1> HIDE DEF R
<1>3. PICK x \in T : \A y \in T : ~ (<<y, x>> \in R)
  BY <1>1, WFMin
<1>4. \A y \in T : ~(y < x)
  BY <1>2, <1>3
<1>5. \A y \in T : x <= y
  <2> TAKE y \in T
  <2>1. y \in Nat /\ x \in Nat
    OBVIOUS
  <2> QED
    BY <1>4, <2>1
<1> QED
  BY <1>5

(* The least of some positions, as FiniteSetsExt chooses it.               *)
LEMMA MinOfPositions ==
  ASSUME NEW T \in SUBSET Nat, T # {}
  PROVE  Lock!Min(T) \in T /\ \A m \in T : Lock!Min(T) <= m
BY LeastNumber DEF Lock!Min

(* A sequence without the first occurrence of e.                           *)
LEMMA WithoutFirst ==
  ASSUME NEW S, NEW s \in Seq(S), NEW e
  PROVE  \/ RemoveFirst(s, e) = s /\ \A i \in 1..Len(s) : s[i] # e
         \/ \E m \in 1..Len(s) :
              /\ s[m] = e
              /\ RemoveFirst(s, e) \in Seq(S)
              /\ Len(RemoveFirst(s, e)) = Len(s) - 1
              /\ \A i \in 1..(Len(s) - 1) : RemoveFirst(s, e)[i] = IF i < m THEN s[i] ELSE s[i + 1]
<1>1. CASE \A i \in 1..Len(s) : s[i] # e
  BY <1>1 DEF RemoveFirst
<1>2. CASE \E i \in 1..Len(s) : s[i] = e
  <2> DEFINE I == {i \in 1..Len(s) : s[i] = e}
             m == Min(I)
  <2>1. m \in I
    <3>1. I \in SUBSET Nat /\ I # {}
      BY <1>2
    <3> HIDE DEF I
    <3> QED
      BY <3>1, LeastNumber DEF Min
  <2>2. RemoveFirst(s, e) = SubSeq(s, 1, m - 1) \o SubSeq(s, m + 1, Len(s))
    BY <1>2 DEF RemoveFirst, RemoveAt, SelectInSeq
  <2> HIDE DEF m
  <2>3. m \in 1..Len(s) /\ s[m] = e /\ Len(s) \in Nat
    BY <2>1
  <2> DEFINE front == SubSeq(s, 1, m - 1)
             back  == SubSeq(s, m + 1, Len(s))
  <2>4. /\ front \in Seq(S) /\ Len(front) = m - 1
        /\ \A i \in 1..(m - 1) : front[i] = s[i]
    BY <2>3, SubSeqProperties
  <2>5. /\ back \in Seq(S) /\ Len(back) = Len(s) - m
        /\ \A i \in 1..(Len(s) - m) : back[i] = s[m + i]
    <3>1. \A i \in (m + 1)..Len(s) : s[i] \in S
      BY <2>3
    <3>2. /\ back \in Seq(S) /\ Len(back) = (IF m + 1 <= Len(s) THEN Len(s) - (m + 1) + 1 ELSE 0)
          /\ \A i \in 1..(Len(s) - (m + 1) + 1) : back[i] = s[(m + 1) + i - 1]
      BY <2>3, <3>1, SubSeqProperties
    <3> QED
      BY <2>3, <3>2
  <2> HIDE DEF front, back
  <2>6. /\ front \o back \in Seq(S)
        /\ Len(front \o back) = Len(front) + Len(back)
        /\ \A i \in 1..(Len(front) + Len(back)) :
             (front \o back)[i] = IF i <= Len(front) THEN front[i] ELSE back[i - Len(front)]
    BY <2>4, <2>5, ConcatProperties
  <2>7. RemoveFirst(s, e) = front \o back
    BY <2>2 DEF front, back
  <2>8. ASSUME NEW i \in 1..(Len(s) - 1)
        PROVE  RemoveFirst(s, e)[i] = IF i < m THEN s[i] ELSE s[i + 1]
    <3>1. CASE i < m
      BY <3>1, <2>3, <2>4, <2>5, <2>6, <2>7
    <3>2. CASE ~(i < m)
      <4>1. RemoveFirst(s, e)[i] = back[i - (m - 1)]
        BY <3>2, <2>3, <2>4, <2>5, <2>6, <2>7
      <4>2. i - (m - 1) \in 1..(Len(s) - m) /\ m + (i - (m - 1)) = i + 1
        BY <3>2, <2>3
      <4> QED
        BY <3>2, <4>1, <4>2, <2>5
    <3> QED
      BY <3>1, <3>2
  <2>9. RemoveFirst(s, e) \in Seq(S) /\ Len(RemoveFirst(s, e)) = Len(s) - 1
    <3>1. Len(front) + Len(back) = Len(s) - 1
      BY <2>3, <2>4, <2>5
    <3> QED
      BY <2>6, <2>7, <3>1
  <2> QED
    BY <2>3, <2>8, <2>9, Zenon
<1> QED
  BY <1>1, <1>2

-----------------------------------------------------------------------------
(* The local locks.                                                        *)

Waits(c, k) == Lock!At(c, "waiting") /\ c \notin granted /\ Lock!Wanted(c) = k

LockTypes ==
  /\ table = [k \in DOMAIN table |-> table[k]]
  /\ \A k \in DOMAIN table : table[k] \in Seq(Callers)
  /\ granted \subseteq Callers
  /\ locker = [c \in Callers |-> [pc |-> locker[c].pc, todo |-> locker[c].todo, got |-> locker[c].got]]

(* Those in a queue wait for its key, and each has one place.              *)
WaitersAgree ==
  \A k \in DOMAIN table :
    /\ \A i \in DOMAIN table[k] : Waits(table[k][i], k)
    /\ \A i, j \in DOMAIN table[k] : table[k][i] = table[k][j] => i = j

(* A grant is for one that waits and has not the key yet; one that is      *)
(* outside of a block has no key.                                          *)
GrantsAgree ==
  /\ \A c \in granted : Lock!At(c, "waiting") /\ Lock!Wanted(c) \notin locker[c].got
  /\ \A c \in Callers : Lock!At(c, "out") => locker[c].got = {}

OwnersAgree ==
  /\ \A c \in Callers : locker[c].got \subseteq DOMAIN table
  /\ \A c \in granted : Lock!Wanted(c) \in DOMAIN table
  /\ \A k \in DOMAIN table : \E c \in Callers : Lock!Owns(c, k)
  /\ \A k \in DOMAIN table : \A c, d \in Callers : Lock!Owns(c, k) /\ Lock!Owns(d, k) => c = d

LockInv == LockTypes /\ WaitersAgree /\ GrantsAgree /\ OwnersAgree

LEMMA LockInvImplies == LockInv => KeysAreOwnedOnce
<1> SUFFICES ASSUME LockInv, NEW k \in DOMAIN table \cup UNION {locker[c].got : c \in Callers}
             PROVE  k \in DOMAIN table
                    /\ \E c \in Callers : Lock!Owns(c, k) /\ \A d \in Callers \ {c} : ~Lock!Owns(d, k)
  BY DEF KeysAreOwnedOnce, Lock!KeysAreOwnedOnce
<1>1. k \in DOMAIN table
  BY DEF LockInv, OwnersAgree
<1> QED
  BY <1>1 DEF LockInv, OwnersAgree

(* The queue from its first waiter that can be woken.                      *)
LEMMA QueueIsSuffix ==
  ASSUME LockInv, NEW k \in DOMAIN table, Lock!Queue(k) # << >>
  PROVE  /\ Head(Lock!Queue(k)) \in Callers
         /\ Waits(Head(Lock!Queue(k)), k)
         /\ \E j \in DOMAIN table[k] : Head(Lock!Queue(k)) = table[k][j]
         /\ \A i \in DOMAIN Tail(Lock!Queue(k)) :
              \E j \in DOMAIN table[k] : Tail(Lock!Queue(k))[i] = table[k][j]
         /\ Tail(Lock!Queue(k)) \in Seq(Callers)
         /\ \A i \in DOMAIN Tail(Lock!Queue(k)) :
              /\ Waits(Tail(Lock!Queue(k))[i], k)
              /\ Tail(Lock!Queue(k))[i] # Head(Lock!Queue(k))
         /\ \A i, j \in DOMAIN Tail(Lock!Queue(k)) :
              Tail(Lock!Queue(k))[i] = Tail(Lock!Queue(k))[j] => i = j
<1> DEFINE q == table[k]
           live == {i \in DOMAIN q : Lock!Runs(q[i])}
           m == Lock!Min(live)
<1>1. q \in Seq(Callers) /\ DOMAIN q = 1..Len(q) /\ Len(q) \in Nat
  BY DEF LockInv, LockTypes
<1>2. live # {} /\ Lock!Queue(k) = SubSeq(q, m, Len(q))
  BY DEF Lock!Queue
<1>3. m \in 1..Len(q)
  <2>1. live \in SUBSET Nat
    BY <1>1
  <2> HIDE DEF live
  <2>2. m \in live
    BY <1>2, <2>1, MinOfPositions
  <2> QED
    BY <1>1, <2>2 DEF live
<1> HIDE DEF m
<1>4. /\ Head(Lock!Queue(k)) = q[m]
      /\ Tail(Lock!Queue(k)) = SubSeq(q, m + 1, Len(q))
  BY <1>1, <1>2, <1>3, HeadTailOfSubSeq
<1> DEFINE r == SubSeq(q, m + 1, Len(q))
<1>5. /\ r \in Seq(Callers) /\ DOMAIN r = 1..(Len(q) - m)
      /\ \A i \in 1..(Len(q) - m) : r[i] = q[m + i]
  <2>1. \A i \in (m + 1)..Len(q) : q[i] \in Callers
    BY <1>1, <1>3
  <2>2. /\ r \in Seq(Callers) /\ Len(r) = (IF m + 1 <= Len(q) THEN Len(q) - (m + 1) + 1 ELSE 0)
        /\ \A i \in 1..(Len(q) - (m + 1) + 1) : r[i] = q[(m + 1) + i - 1]
    BY <1>1, <1>3, <2>1, SubSeqProperties
  <2> HIDE DEF r, q
  <2>3. Len(r) = Len(q) - m /\ DOMAIN r = 1..Len(r)
    <3>1. Len(q) \in Nat /\ m \in Nat /\ m <= Len(q)
      BY <1>1, <1>3
    <3>2. Len(r) = IF m + 1 <= Len(q) THEN Len(q) - (m + 1) + 1 ELSE 0
      BY <2>2
    <3>3. r \in Seq(Callers)
      BY <2>2
    <3> HIDE DEF LockInv
    <3>4. Len(r) = Len(q) - m
      BY <3>1, <3>2
    <3> QED
      BY <3>3, <3>4
  <2>4. ASSUME NEW i \in 1..(Len(q) - m)
        PROVE  r[i] = q[m + i]
    <3>1. i \in 1..(Len(q) - (m + 1) + 1) /\ (m + 1) + i - 1 = m + i
      BY <1>1, <1>3
    <3> QED
      BY <2>2, <3>1
  <2> QED
    BY <2>2, <2>3, <2>4
<1> HIDE DEF r
<1>6. /\ \A i \in 1..Len(q) : Waits(q[i], k)
      /\ \A i, j \in 1..Len(q) : q[i] = q[j] => i = j
  BY <1>1 DEF LockInv, WaitersAgree
<1> HIDE DEF q
<1>7. q[m] \in Callers /\ Waits(q[m], k)
  BY <1>1, <1>3, <1>6
<1>8. \A i \in 1..(Len(q) - m) : m + i \in 1..Len(q) /\ m + i # m
  BY <1>1, <1>3
<1>9. \A i \in 1..(Len(q) - m) : Waits(r[i], k) /\ r[i] # q[m]
  BY <1>3, <1>5, <1>6, <1>8
<1>10. \A i, j \in 1..(Len(q) - m) : r[i] = r[j] => i = j
  <2> TAKE i, j \in 1..(Len(q) - m)
  <2> HAVE r[i] = r[j]
  <2>1. m + i = m + j
    BY <1>5, <1>6, <1>8
  <2> QED
    BY <1>1, <1>3, <2>1
<1>11. Tail(Lock!Queue(k)) = r
  BY <1>4 DEF r
<1>12. \A i \in 1..(Len(q) - m) : \E j \in 1..Len(q) : r[i] = q[j]
  BY <1>5, <1>8
<1>13. /\ \E j \in DOMAIN table[k] : Head(Lock!Queue(k)) = table[k][j]
       /\ \A i \in DOMAIN r : \E j \in DOMAIN table[k] : r[i] = table[k][j]
  BY <1>1, <1>3, <1>4, <1>5, <1>12 DEF q
<1> QED
  BY <1>4, <1>5, <1>7, <1>9, <1>10, <1>11, <1>13

(* The caller c alone moves.                                               *)
Moves(c, pc, todo, got) ==
  /\ locker' = [d \in Callers |-> [pc |-> locker'[d].pc, todo |-> locker'[d].todo, got |-> locker'[d].got]]
  /\ \A d \in Callers \ {c} : locker'[d] = locker[d]
  /\ locker'[c].pc = pc /\ locker'[c].todo = todo /\ locker'[c].got = got

LEMMA MovesTo ==
  ASSUME LockTypes, NEW c \in Callers, NEW pc, NEW todo, NEW got,
         locker' = [locker EXCEPT ![c] = [pc |-> pc, todo |-> todo, got |-> got]]
  PROVE  Moves(c, pc, todo, got)
BY DEF LockTypes, Moves

LEMMA MovesPc ==
  ASSUME LockTypes, NEW c \in Callers, NEW pc,
         locker' = [locker EXCEPT ![c].pc = pc]
  PROVE  Moves(c, pc, locker[c].todo, locker[c].got)
<1>1. locker[c] = [pc |-> locker[c].pc, todo |-> locker[c].todo, got |-> locker[c].got]
  BY DEF LockTypes
<1>2. [locker[c] EXCEPT !.pc = pc] = [pc |-> pc, todo |-> locker[c].todo, got |-> locker[c].got]
  BY <1>1
<1>3. locker' = [locker EXCEPT ![c] = [pc |-> pc, todo |-> locker[c].todo, got |-> locker[c].got]]
  BY <1>2
<1> QED
  BY <1>3, MovesTo

LEMMA MovesAcquired ==
  ASSUME LockTypes, NEW c \in Callers,
         locker' = [locker EXCEPT ![c] = Lock!Acquired(c)]
  PROVE  Moves(c, "taking", Tail(locker[c].todo), locker[c].got \cup {Lock!Wanted(c)})
<1>1. locker[c] = [pc |-> locker[c].pc, todo |-> locker[c].todo, got |-> locker[c].got]
  BY DEF LockTypes
<1>2. Lock!Acquired(c) = [pc |-> "taking", todo |-> Tail(locker[c].todo),
                          got |-> locker[c].got \cup {Lock!Wanted(c)}]
  BY <1>1 DEF Lock!Acquired
<1> QED
  BY <1>2, MovesTo

(* One that was granted its key takes note of it.                          *)
LEMMA AcquireKeeps ==
  ASSUME LockInv, NEW c \in granted,
         granted' = granted \ {c}, UNCHANGED table,
         locker' = [locker EXCEPT ![c] = Lock!Acquired(c)]
  PROVE  LockInv'
<1> USE DEF Lock!At
<1>1. c \in Callers /\ Lock!At(c, "waiting")
  BY DEF LockInv, LockTypes, GrantsAgree
<1>2. Moves(c, "taking", Tail(locker[c].todo), locker[c].got \cup {Lock!Wanted(c)})
  BY <1>1, MovesAcquired DEF LockInv
<1>3. \A d \in Callers : \A k : Lock!Owns(d, k)' <=> Lock!Owns(d, k)
  BY <1>1, <1>2 DEF Moves, Lock!Owns, Lock!Wanted
<1>4. \A d \in Callers : \A k \in DOMAIN table : Waits(d, k) => Waits(d, k)'
  BY <1>2 DEF Moves, Waits, Lock!Wanted
<1>5. LockTypes'
  BY <1>2 DEF Moves, LockInv, LockTypes
<1>6. WaitersAgree'
  BY <1>4 DEF LockInv, LockTypes, WaitersAgree
<1>7. GrantsAgree'
  BY <1>2 DEF LockInv, LockTypes, GrantsAgree, Moves, Lock!Wanted
<1>8. OwnersAgree'
  <2>1. \A d \in Callers : locker'[d].got \subseteq DOMAIN table'
    BY <1>1, <1>2 DEF LockInv, OwnersAgree, Moves
  <2>2. \A d \in granted' : Lock!Wanted(d)' \in DOMAIN table'
    BY <1>2 DEF LockInv, LockTypes, OwnersAgree, Moves, Lock!Wanted
  <2> QED
    BY <1>3, <2>1, <2>2 DEF LockInv, OwnersAgree
<1> QED
  BY <1>5, <1>6, <1>7, <1>8 DEF LockInv

(* One that gives up has its place in no queue any more.                   *)
LEMMA GiveUpKeeps ==
  ASSUME LockInv, NEW c \in Callers, Lock!At(c, "waiting"), c \notin granted,
         Lock!GiveUp(c), locker' = [locker EXCEPT ![c].pc = "leaving"]
  PROVE  LockInv'
<1> USE DEF Lock!At
<1>1. Moves(c, "leaving", locker[c].todo, locker[c].got)
  BY MovesPc DEF LockInv
<1>2. granted' = granted /\ table' = [k \in DOMAIN table |-> RemoveFirst(table[k], c)]
  BY DEF Lock!GiveUp, RemoveFirst, Lock!RemoveFirst, RemoveAt, Lock!RemoveAt, SelectInSeq, Lock!SelectInSeq, Min, Lock!Min
<1>3. ASSUME NEW k \in DOMAIN table
      PROVE  /\ table'[k] \in Seq(Callers)
             /\ \A i \in DOMAIN table'[k] : table'[k][i] # c /\ Waits(table'[k][i], k)
             /\ \A i, j \in DOMAIN table'[k] : table'[k][i] = table'[k][j] => i = j
  <2> DEFINE q == table[k]
             r == RemoveFirst(q, c)
  <2>1. q \in Seq(Callers) /\ DOMAIN q = 1..Len(q) /\ Len(q) \in Nat
    BY DEF LockInv, LockTypes
  <2>2. /\ \A i \in 1..Len(q) : Waits(q[i], k)
        /\ \A i, j \in 1..Len(q) : q[i] = q[j] => i = j
    BY <2>1 DEF LockInv, WaitersAgree
  <2>3. table'[k] = r
    BY <1>2
  <2> HIDE DEF r, q
  <2>4. CASE r = q /\ \A i \in 1..Len(q) : q[i] # c
    BY <2>1, <2>2, <2>3, <2>4
  <2>5. CASE \E m \in 1..Len(q) :
              /\ q[m] = c
              /\ r \in Seq(Callers)
              /\ Len(r) = Len(q) - 1
              /\ \A i \in 1..(Len(q) - 1) : r[i] = IF i < m THEN q[i] ELSE q[i + 1]
    <3>1. PICK m \in 1..Len(q) :
              /\ q[m] = c
              /\ r \in Seq(Callers)
              /\ Len(r) = Len(q) - 1
              /\ \A i \in 1..(Len(q) - 1) : r[i] = IF i < m THEN q[i] ELSE q[i + 1]
      BY <2>5
    <3> DEFINE at[i \in Nat] == IF i < m THEN i ELSE i + 1
    <3>2. \A i \in 1..(Len(q) - 1) : at[i] \in 1..Len(q) /\ at[i] # m /\ r[i] = q[at[i]]
      BY <2>1, <3>1
    <3>3. \A i, j \in Nat : at[i] = at[j] => i = j
      OBVIOUS
    <3> HIDE DEF at
    <3>4. DOMAIN r = 1..(Len(q) - 1)
      BY <3>1
    <3>5. \A i \in DOMAIN r : r[i] # c /\ Waits(r[i], k)
      BY <2>1, <2>2, <3>1, <3>2, <3>4
    <3>6. ASSUME NEW i \in DOMAIN r, NEW j \in DOMAIN r, r[i] = r[j]
          PROVE  i = j
      <4>1. i \in Nat /\ j \in Nat
        BY <3>4
      <4>2. at[i] = at[j]
        BY <2>2, <3>2, <3>4, <3>6
      <4> QED
        BY <3>3, <4>1, <4>2
    <3> QED
      BY <2>3, <3>1, <3>5, <3>6, Zenon
  <2>6. \/ r = q /\ \A i \in 1..Len(q) : q[i] # c
        \/ \E m \in 1..Len(q) :
              /\ q[m] = c
              /\ r \in Seq(Callers)
              /\ Len(r) = Len(q) - 1
              /\ \A i \in 1..(Len(q) - 1) : r[i] = IF i < m THEN q[i] ELSE q[i + 1]
    BY <2>1, WithoutFirst, ZenonT(40) DEF r
  <2> QED
    BY <2>4, <2>5, <2>6, Zenon
<1>4. DOMAIN table' = DOMAIN table
  BY <1>2
<1>5. \A d \in Callers : \A k : Lock!Owns(d, k)' <=> Lock!Owns(d, k)
  BY <1>1, <1>2 DEF Moves, Lock!Owns, Lock!Wanted
<1>6. \A d \in Callers \ {c} : \A k \in DOMAIN table : Waits(d, k) => Waits(d, k)'
  BY <1>1, <1>2 DEF Moves, Waits, Lock!Wanted
<1>7. LockTypes'
  BY <1>1, <1>2, <1>3 DEF Moves, LockInv, LockTypes
<1>8. WaitersAgree'
  <2>1. \A k \in DOMAIN table : \A i \in DOMAIN table'[k] : table'[k][i] \in Callers \ {c}
    BY <1>3
  <2> QED
    BY <1>3, <1>4, <1>6, <2>1 DEF WaitersAgree
<1>9. GrantsAgree'
  BY <1>1, <1>2 DEF LockInv, LockTypes, GrantsAgree, Moves, Lock!Wanted
<1>10. OwnersAgree'
  <2>1. \A d \in Callers : locker'[d].got \subseteq DOMAIN table'
    BY <1>1, <1>4 DEF LockInv, OwnersAgree, Moves
  <2>2. \A d \in granted' : Lock!Wanted(d)' \in DOMAIN table'
    BY <1>1, <1>2, <1>4 DEF LockInv, LockTypes, OwnersAgree, Moves, Lock!Wanted
  <2> QED
    BY <1>4, <1>5, <2>1, <2>2 DEF LockInv, OwnersAgree
<1> QED
  BY <1>7, <1>8, <1>9, <1>10 DEF LockInv

(* What a caller has, by its own account or by a grant.                    *)
Has(c) == locker[c].got \cup (IF c \in granted THEN {Lock!Wanted(c)} ELSE {})

LEMMA HasIsOwns ==
  ASSUME LockInv, NEW c \in Callers, NEW k
  PROVE  Lock!Owns(c, k) <=> k \in Has(c)
BY DEF LockInv, GrantsAgree, Has, Lock!Owns

(* One that has no place in a queue gives keys up that it has, and keeps   *)
(* the others.                                                             *)
LEMMA ReleaseKeeps ==
  ASSUME LockInv, NEW c \in Callers, NEW keys \in SUBSET Has(c),
         NEW pc, NEW todo, NEW got,
         \A k \in DOMAIN table : \A i \in DOMAIN table[k] : table[k][i] # c,
         Lock!Release(keys, granted \ {c}),
         locker' = [locker EXCEPT ![c] = [pc |-> pc, todo |-> todo, got |-> got]],
         pc # "waiting", got = Has(c) \ keys, pc = "out" => got = {}
  PROVE  LockInv'
<1> USE DEF Lock!At
<1> DEFINE left == {k \in keys : Lock!Queue(k) # << >>}
           H(k) == Head(Lock!Queue(k))
           T(k) == Tail(Lock!Queue(k))
<1>1. Moves(c, pc, todo, got)
  BY MovesTo DEF LockInv
<1>2. keys \subseteq DOMAIN table
  BY DEF Has, LockInv, OwnersAgree
<1>3. \A k \in left :
        /\ H(k) \in Callers /\ Waits(H(k), k) /\ T(k) \in Seq(Callers)
        /\ \A i \in DOMAIN T(k) : Waits(T(k)[i], k) /\ T(k)[i] # H(k)
        /\ \A i, j \in DOMAIN T(k) : T(k)[i] = T(k)[j] => i = j
  BY <1>2, QueueIsSuffix
<1>4. \A k \in left : H(k) # c /\ \A i \in DOMAIN T(k) : T(k)[i] # c
  BY <1>2, QueueIsSuffix
<1> HIDE DEF H, T
<1>5. /\ table' = [k \in (DOMAIN table \ keys) \cup left |-> IF k \in keys THEN T(k) ELSE table[k]]
      /\ granted' = (granted \ {c}) \cup {H(k) : k \in left}
  BY DEF Lock!Release, H, T
<1> DEFINE D == (DOMAIN table \ keys) \cup left
<1>6. DOMAIN table' = D
  BY <1>5
<1>7. \A k \in D : /\ k \in DOMAIN table
                   /\ k \notin keys => table'[k] = table[k]
                   /\ k \in keys => k \in left /\ table'[k] = T(k)
  BY <1>2, <1>5
<1> HIDE DEF left, D
<1>8. \A d \in granted' : \/ d \in granted /\ d # c
                          \/ \E k \in left : d = H(k)
  BY <1>5
<1>9. \A k \in left : H(k) \in granted' /\ H(k) \in Callers \ {c} /\ H(k) \notin granted
                      /\ Lock!Wanted(H(k)) = k /\ Lock!At(H(k), "waiting") /\ k \in keys
  BY <1>3, <1>4, <1>5 DEF Waits, left
<1>10. LockTypes'
  <2>1. \A k \in D : table'[k] \in Seq(Callers)
    BY <1>3, <1>7 DEF LockInv, LockTypes
  <2>2. table' = [k \in DOMAIN table' |-> table'[k]]
    BY <1>5
  <2>3. granted' \subseteq Callers
    BY <1>8, <1>9 DEF LockInv, LockTypes
  <2> QED
    BY <1>1, <1>6, <2>1, <2>2, <2>3 DEF LockTypes, Moves
<1>11. WaitersAgree'
  <2>1. ASSUME NEW k \in DOMAIN table', NEW i \in DOMAIN table'[k], NEW j \in DOMAIN table'[k],
               table'[k][i] = table'[k][j]
        PROVE  i = j
    BY <1>3, <1>6, <1>7, <2>1 DEF LockInv, WaitersAgree
  <2>2. ASSUME NEW k \in DOMAIN table', NEW i \in DOMAIN table'[k], NEW d, d = table'[k][i]
        PROVE  Waits(d, k)'
    <3>1. d \in Callers \ {c} /\ Waits(d, k)
      <4>1. CASE k \in keys
        <5>1. k \in left /\ table'[k] = T(k) /\ T(k) \in Seq(Callers)
          BY <1>3, <1>6, <1>7, <4>1
        <5> QED
          BY <5>1, <1>3, <1>4, <2>2
      <4>2. CASE k \notin keys
        <5>1. k \in DOMAIN table /\ table'[k] = table[k] /\ table[k] \in Seq(Callers)
          BY <1>6, <1>7, <4>2 DEF LockInv, LockTypes
        <5> QED
          BY <5>1, <2>2 DEF LockInv, WaitersAgree
      <4> QED
        BY <4>1, <4>2
    <3>2. k \in left => d # H(k)
      <4> HAVE k \in left
      <4>1. k \in keys
        BY <1>9
      <4>2. table'[k] = T(k)
        BY <1>6, <1>7, <4>1
      <4> QED
        BY <1>3, <2>2, <4>2
    <3>3. \A j \in left : d = H(j) => j = k
      BY <1>9, <3>1 DEF Waits
    <3>4. d \notin granted'
      BY <1>8, <3>1, <3>2, <3>3 DEF Waits
    <3>5. locker'[d] = locker[d]
      BY <1>1, <3>1 DEF Moves
    <3> QED
      BY <3>1, <3>4, <3>5 DEF Waits, Lock!Wanted
  <2> QED
    BY <2>1, <2>2 DEF WaitersAgree
<1>12. GrantsAgree'
  <2>1. ASSUME NEW d \in granted'
        PROVE  locker'[d].pc = "waiting" /\ Lock!Wanted(d)' \notin locker'[d].got
    <3>1. d \in Callers \ {c} /\ locker'[d] = locker[d]
      <4>1. granted \subseteq Callers
        BY DEF LockInv, LockTypes
      <4>2. d \in Callers \ {c}
        BY <1>8, <1>9, <4>1
      <4> QED
        BY <1>1, <4>2 DEF Moves
    <3>2. CASE d \in granted
      BY <3>1, <3>2 DEF LockInv, GrantsAgree, Lock!Wanted
    <3>3. ASSUME NEW k \in left, d = H(k)
          PROVE  locker'[d].pc = "waiting" /\ Lock!Wanted(d)' \notin locker'[d].got
      <4>1. Lock!Owns(c, k) /\ k \in DOMAIN table
        BY <1>2, <1>9, HasIsOwns
      <4>2. ~Lock!Owns(d, k)
        BY <3>1, <4>1 DEF LockInv, OwnersAgree
      <4> QED
        BY <1>9, <3>1, <3>3, <4>2 DEF Lock!Owns, Lock!Wanted
    <3> QED
      BY <1>8, <3>2, <3>3
  <2>2. \A d \in Callers : locker'[d].pc = "out" => locker'[d].got = {}
    BY <1>1 DEF Moves, LockInv, GrantsAgree
  <2> QED
    BY <2>1, <2>2 DEF GrantsAgree
<1>13. \A d \in Callers \ {c} : \A k : Lock!Owns(d, k)' <=> (Lock!Owns(d, k) \/ (k \in left /\ d = H(k)))
  <2> TAKE d \in Callers \ {c}
  <2> TAKE k
  <2>1. locker'[d] = locker[d]
    BY <1>1 DEF Moves
  <2>2. d \in granted' <=> (d \in granted \/ \E j \in left : d = H(j))
    BY <1>5
  <2> QED
    BY <1>9, <2>1, <2>2 DEF Lock!Owns, Lock!Wanted
<1>14. \A k : Lock!Owns(c, k)' <=> (Lock!Owns(c, k) /\ k \notin keys)
  BY <1>1, HasIsOwns DEF Moves, Lock!Owns
<1>15. OwnersAgree'
  <2>1. \A d \in Callers \ {c} : \A k : Lock!Owns(d, k) => k \in DOMAIN table /\ k \notin keys
    <3> TAKE d \in Callers \ {c}
    <3> TAKE k
    <3> HAVE Lock!Owns(d, k)
    <3>1. k \in DOMAIN table
      BY HasIsOwns DEF Has, LockInv, OwnersAgree
    <3> QED
      BY <3>1, HasIsOwns DEF LockInv, OwnersAgree
  <2>2. \A d \in Callers : \A k : Lock!Owns(d, k)' => k \in D
    <3> TAKE d \in Callers
    <3> TAKE k
    <3> HAVE Lock!Owns(d, k)'
    <3>1. CASE d = c
      <4>1. Lock!Owns(c, k) /\ k \notin keys
        BY <1>14, <3>1
      <4>2. k \in DOMAIN table
        BY <4>1, HasIsOwns DEF Has, LockInv, OwnersAgree
      <4> QED
        BY <4>1, <4>2 DEF D
    <3>2. CASE d # c
      BY <1>13, <2>1, <3>2 DEF D
    <3> QED
      BY <3>1, <3>2
  <2>3. \A d \in Callers : locker'[d].got \subseteq D
    BY <2>2 DEF Lock!Owns
  <2>4. \A d \in granted' : Lock!Wanted(d)' \in D
    <3>1. granted' \subseteq Callers
      BY <1>10 DEF LockTypes
    <3>2. \A d \in granted' : Lock!Owns(d, Lock!Wanted(d))'
      BY <1>12 DEF GrantsAgree, Lock!Owns
    <3> QED
      BY <2>2, <3>1, <3>2
  <2>5. \A k \in D : \E d \in Callers : Lock!Owns(d, k)'
    <3> TAKE k \in D
    <3>1. CASE k \in keys
      BY <1>7, <1>9, <1>13, <3>1
    <3>2. CASE k \notin keys
      <4>1. PICK d \in Callers : Lock!Owns(d, k)
        BY <1>7 DEF LockInv, OwnersAgree
      <4> QED
        BY <1>13, <1>14, <3>2, <4>1
    <3> QED
      BY <3>1, <3>2
  <2>6. ASSUME NEW k \in D, NEW d \in Callers, NEW e \in Callers, Lock!Owns(d, k)', Lock!Owns(e, k)'
        PROVE  d = e
    <3>1. CASE k \in keys
      <4>1. \A x \in Callers : Lock!Owns(x, k)' => x = H(k)
        BY <1>13, <1>14, <2>1, <3>1
      <4> QED
        BY <2>6, <4>1
    <3>2. CASE k \notin keys
      <4>1. k \in DOMAIN table /\ k \notin left
        BY <1>7, <3>2 DEF left
      <4>2. \A x \in Callers : Lock!Owns(x, k)' => Lock!Owns(x, k)
        BY <1>13, <1>14, <4>1
      <4> QED
        BY <2>6, <4>1, <4>2 DEF LockInv, OwnersAgree
    <3> QED
      BY <3>1, <3>2
  <2> QED
    BY <1>6, <2>3, <2>4, <2>5, <2>6 DEF OwnersAgree
<1> QED
  BY <1>10, <1>11, <1>12, <1>15 DEF LockInv

(* A move that keeps the queues and grants, and all that the caller has.   *)
LEMMA StayKeeps ==
  ASSUME LockInv, NEW c \in Callers, ~Lock!At(c, "waiting"),
         NEW pc, NEW todo, NEW got, pc # "waiting", got = locker[c].got, pc = "out" => got = {},
         Moves(c, pc, todo, got), UNCHANGED <<table, granted>>
  PROVE  LockInv'
<1> USE DEF Lock!At
<1>1. \A d \in Callers : \A k : Lock!Owns(d, k)' <=> Lock!Owns(d, k)
  BY DEF Moves, Lock!Owns, Lock!Wanted
<1>2. c \notin granted
  BY DEF LockInv, GrantsAgree
<1>3. \A d \in Callers : \A k : Waits(d, k) => Waits(d, k)'
  BY DEF Moves, Waits, Lock!Wanted
<1>4. LockTypes'
  BY DEF Moves, LockInv, LockTypes
<1>5. WaitersAgree'
  BY <1>3 DEF LockInv, LockTypes, WaitersAgree
<1>6. GrantsAgree'
  BY <1>2 DEF LockInv, LockTypes, GrantsAgree, Moves, Lock!Wanted
<1>7. OwnersAgree'
  <2>1. \A d \in granted : d \in Callers \ {c}
    BY <1>2 DEF LockInv, LockTypes
  <2>2. \A d \in Callers : locker'[d].got \subseteq DOMAIN table'
    BY DEF LockInv, OwnersAgree, Moves
  <2>3. \A d \in granted' : Lock!Wanted(d)' \in DOMAIN table'
    BY <2>1 DEF LockInv, OwnersAgree, Moves, Lock!Wanted
  <2> QED
    BY <1>1, <2>2, <2>3 DEF LockInv, OwnersAgree
<1> QED
  BY <1>4, <1>5, <1>6, <1>7 DEF LockInv

LEMMA EnterKeeps ==
  ASSUME LockInv, NEW c \in Callers, NEW named, Lock!Enter(c, named)
  PROVE  LockInv'
<1>1. Moves(c, "taking", Lock!Order(named), {})
  BY MovesTo DEF Lock!Enter, LockInv
<1>2. locker[c].got = {} /\ ~Lock!At(c, "waiting")
  BY DEF Lock!Enter, Lock!At, LockInv, GrantsAgree
<1> QED
  BY <1>1, <1>2, StayKeeps DEF Lock!Enter

LEMMA TakeKeeps ==
  ASSUME LockInv, NEW c \in Callers, Lock!Take(c)
  PROVE  LockInv'
<1> USE DEF Lock!At
<1> DEFINE k == Lock!Wanted(c)
<1>1. locker[c].pc = "taking" /\ granted' = granted /\ c \notin granted
  BY DEF Lock!Take, LockInv, GrantsAgree
<1>2. \A j \in DOMAIN table : \A i \in DOMAIN table[j] : table[j][i] # c
  BY <1>1 DEF LockInv, WaitersAgree, Waits
<1>3. CASE locker[c].todo = << >>
  <2>1. Moves(c, "in", locker[c].todo, locker[c].got) /\ table' = table
    BY <1>3, MovesPc DEF Lock!Take, LockInv
  <2> QED
    BY <1>1, <2>1, StayKeeps
<1>4. CASE locker[c].todo # << >> /\ k \in DOMAIN table
  <2>1. table' = [table EXCEPT ![k] = Append(@, c)]
    BY <1>4 DEF Lock!Take
  <2>2. Moves(c, "waiting", locker[c].todo, locker[c].got)
    BY <1>4, MovesPc DEF Lock!Take, LockInv
  <2> DEFINE q == table[k]
  <2>3. q \in Seq(Callers) /\ Len(q) \in Nat /\ DOMAIN q = 1..Len(q)
    BY <1>4 DEF LockInv, LockTypes
  <2>4. /\ DOMAIN table' = DOMAIN table /\ table' = [j \in DOMAIN table' |-> table'[j]]
        /\ \A j \in DOMAIN table \ {k} : table'[j] = table[j]
        /\ table'[k] = Append(q, c)
    BY <1>4, <2>1 DEF LockInv, LockTypes
  <2>5. /\ Append(q, c) \in Seq(Callers) /\ DOMAIN Append(q, c) = 1..(Len(q) + 1)
        /\ \A i \in 1..Len(q) : Append(q, c)[i] = q[i]
        /\ Append(q, c)[Len(q) + 1] = c
    BY <2>3, AppendProperties
  <2>6. \A d \in Callers : \A j : Lock!Owns(d, j)' <=> Lock!Owns(d, j)
    BY <1>1, <2>2 DEF Moves, Lock!Owns, Lock!Wanted
  <2>7. \A d \in Callers : \A j : Waits(d, j) => Waits(d, j)'
    BY <1>1, <2>2 DEF Moves, Waits, Lock!Wanted
  <2>8. \A j : j = k => Waits(c, j)'
    BY <1>1, <2>2 DEF Moves, Waits, Lock!Wanted
  <2>9. \A i \in 1..(Len(q) + 1) : i \in 1..Len(q) \/ i = Len(q) + 1
    BY <2>3
  <2>10. \A i \in 1..Len(q) : q[i] \in Callers /\ Waits(q[i], k) /\ q[i] # c
    BY <1>2, <1>4, <2>3 DEF LockInv, WaitersAgree
  <2>11. \A i, j \in 1..Len(q) : q[i] = q[j] => i = j
    BY <1>4, <2>3 DEF LockInv, WaitersAgree
  <2> HIDE DEF q, k
  <2>12. LockTypes'
    <3>1. \A j \in DOMAIN table' : table'[j] \in Seq(Callers)
      BY <2>4, <2>5 DEF LockInv, LockTypes
    <3> QED
      BY <1>1, <2>2, <2>4, <3>1 DEF LockInv, LockTypes, Moves
  <2>13. WaitersAgree'
    <3>1. ASSUME NEW j \in DOMAIN table', NEW i \in DOMAIN table'[j], NEW d, d = table'[j][i]
          PROVE  Waits(d, j)'
      <4>1. CASE j = k
        <5>1. d = Append(q, c)[i] /\ i \in 1..(Len(q) + 1)
          BY <2>4, <2>5, <3>1, <4>1
        <5>2. CASE i \in 1..Len(q)
          <6>1. d = q[i]
            BY <2>5, <5>1, <5>2
          <6>2. d \in Callers /\ Waits(d, k)
            BY <2>10, <5>2, <6>1
          <6> QED
            BY <2>7, <4>1, <6>2
        <5>3. CASE i = Len(q) + 1
          <6>1. d = c
            BY <2>5, <5>1, <5>3
          <6> QED
            BY <2>8, <4>1, <6>1 DEF Waits
        <5> QED
          BY <2>9, <5>1, <5>2, <5>3
      <4>2. CASE j # k
        <5>1. table'[j] = table[j] /\ table[j] \in Seq(Callers) /\ j \in DOMAIN table
          BY <2>4, <4>2 DEF LockInv, LockTypes
        <5>2. d \in Callers /\ Waits(d, j)
          BY <3>1, <5>1 DEF LockInv, WaitersAgree
        <5> QED
          BY <2>7, <5>2
      <4> QED
        BY <4>1, <4>2
    <3>2. ASSUME NEW j \in DOMAIN table', NEW i1 \in DOMAIN table'[j], NEW i2 \in DOMAIN table'[j],
                 table'[j][i1] = table'[j][i2]
          PROVE  i1 = i2
      <4>1. CASE j = k
        BY <2>4, <2>5, <2>9, <2>10, <2>11, <3>2, <4>1
      <4>2. CASE j # k
        BY <2>4, <3>2, <4>2 DEF LockInv, WaitersAgree
      <4> QED
        BY <4>1, <4>2
    <3> QED
      BY <3>1, <3>2 DEF WaitersAgree
  <2>14. GrantsAgree'
    BY <1>1, <2>2 DEF LockInv, LockTypes, GrantsAgree, Moves, Lock!Wanted
  <2>15. OwnersAgree'
    <3>1. \A d \in Callers : locker'[d].got \subseteq DOMAIN table'
      BY <2>2, <2>4 DEF LockInv, OwnersAgree, Moves
    <3>2. \A d \in granted' : Lock!Wanted(d)' \in DOMAIN table'
      BY <1>1, <2>2, <2>4 DEF LockInv, LockTypes, OwnersAgree, Moves, Lock!Wanted
    <3> QED
      BY <2>4, <2>6, <3>1, <3>2 DEF LockInv, OwnersAgree
  <2> QED
    BY <2>12, <2>13, <2>14, <2>15 DEF LockInv
<1>5. CASE locker[c].todo # << >> /\ k \notin DOMAIN table
  <2>1. table' = [x \in DOMAIN table \cup {k} |-> IF x = k THEN << >> ELSE table[x]]
    BY <1>5 DEF Lock!Take
  <2>2. Moves(c, "taking", Tail(locker[c].todo), locker[c].got \cup {k})
    BY <1>5, MovesAcquired DEF Lock!Take, LockInv
  <2> HIDE DEF k
  <2>3. /\ DOMAIN table' = DOMAIN table \cup {k} /\ table'[k] = << >>
        /\ \A j \in DOMAIN table : table'[j] = table[j]
    BY <1>5, <2>1
  <2>4. \A d \in Callers : \A j : Lock!Owns(d, j)' <=> (Lock!Owns(d, j) \/ (d = c /\ j = k))
    BY <1>1, <2>2 DEF Moves, Lock!Owns, Lock!Wanted
  <2>5. \A d \in Callers : ~Lock!Owns(d, k)
    BY <1>5, HasIsOwns DEF Has, LockInv, OwnersAgree
  <2>6. \A d \in Callers : \A j : Waits(d, j) => Waits(d, j)'
    BY <1>1, <2>2 DEF Moves, Waits, Lock!Wanted
  <2>7. LockTypes'
    <3>1. \A j \in DOMAIN table' : table'[j] \in Seq(Callers)
      <4>1. << >> \in Seq(Callers)
        OBVIOUS
      <4> QED
        BY <2>3, <4>1 DEF LockInv, LockTypes
    <3> QED
      BY <1>1, <2>1, <2>2, <2>3, <3>1 DEF LockInv, LockTypes, Moves
  <2>8. WaitersAgree'
    <3>1. \A j \in DOMAIN table : table[j] \in Seq(Callers)
      BY DEF LockInv, LockTypes
    <3> QED
      BY <2>3, <2>6, <3>1 DEF LockInv, WaitersAgree
  <2>9. GrantsAgree'
    BY <1>1, <2>2 DEF LockInv, LockTypes, GrantsAgree, Moves, Lock!Wanted
  <2>10. OwnersAgree'
    <3>1. \A d \in Callers : locker'[d].got \subseteq DOMAIN table'
      BY <2>2, <2>3 DEF LockInv, OwnersAgree, Moves
    <3>2. \A d \in granted' : Lock!Wanted(d)' \in DOMAIN table'
      BY <1>1, <2>2, <2>3 DEF LockInv, LockTypes, OwnersAgree, Moves, Lock!Wanted
    <3>3. \A j \in DOMAIN table' : \E d \in Callers : Lock!Owns(d, j)'
      BY <2>3, <2>4 DEF LockInv, OwnersAgree
    <3>4. \A j \in DOMAIN table' : \A d, e \in Callers : Lock!Owns(d, j)' /\ Lock!Owns(e, j)' => d = e
      BY <2>3, <2>4, <2>5 DEF LockInv, OwnersAgree
    <3> QED
      BY <3>1, <3>2, <3>3, <3>4 DEF OwnersAgree
  <2> QED
    BY <2>7, <2>8, <2>9, <2>10 DEF LockInv
<1> QED
  BY <1>3, <1>4, <1>5

LEMMA TimeoutKeeps ==
  ASSUME LockInv, NEW c \in Callers, Lock!Timeout(c)
  PROVE  LockInv'
BY AcquireKeeps, GiveUpKeeps DEF Lock!Timeout

LEMMA CancelWaitKeeps ==
  ASSUME LockInv, NEW c \in Callers, Lock!CancelWait(c)
  PROVE  LockInv'
<1>1. CASE c \notin granted
  BY <1>1, GiveUpKeeps DEF Lock!CancelWait, Lock!Cancelled
<1>2. CASE c \in granted
  <2> DEFINE keys == {Lock!Wanted(c)}
  <2>1. Lock!Release(keys, granted \ {c}) /\ locker' = [locker EXCEPT ![c].pc = "leaving"]
    BY <1>2 DEF Lock!CancelWait, Lock!Cancelled
  <2>2. locker' = [locker EXCEPT ![c] = [pc |-> "leaving", todo |-> locker[c].todo, got |-> locker[c].got]]
    <3>1. locker[c] = [pc |-> locker[c].pc, todo |-> locker[c].todo, got |-> locker[c].got]
      BY DEF LockInv, LockTypes
    <3>2. [locker[c] EXCEPT !.pc = "leaving"] = [pc |-> "leaving", todo |-> locker[c].todo, got |-> locker[c].got]
      BY <3>1
    <3> QED
      BY <2>1, <3>2
  <2>3. keys \in SUBSET Has(c) /\ locker[c].got = Has(c) \ keys
    BY <1>2 DEF Has, LockInv, GrantsAgree
  <2>4. \A k \in DOMAIN table : \A i \in DOMAIN table[k] : table[k][i] # c
    BY <1>2 DEF LockInv, WaitersAgree, Waits
  <2> HIDE DEF keys
  <2>5. Lock!Release(keys, granted \ {c})
    BY <2>1
  <2>6. ASSUME NEW pc, NEW todo, NEW got, pc = "leaving", todo = locker[c].todo, got = locker[c].got
        PROVE  LockInv'
    BY ZenonT(30), <2>2, <2>3, <2>4, <2>5, <2>6, ReleaseKeeps
  <2> QED
    BY <2>6
<1> QED
  BY <1>1, <1>2

LEMMA ExitKeeps ==
  ASSUME LockInv, NEW c \in Callers, Lock!Exit(c)
  PROVE  LockInv'
<1>1. Moves(c, "leaving", locker[c].todo, locker[c].got)
  BY MovesPc DEF Lock!Exit, LockInv
<1> QED
  BY <1>1, StayKeeps DEF Lock!Exit, Lock!At

LEMMA LeaveKeeps ==
  ASSUME LockInv, NEW c \in Callers, Lock!Leave(c)
  PROVE  LockInv'
<1>1. c \notin granted /\ \A k \in DOMAIN table : \A i \in DOMAIN table[k] : table[k][i] # c
  BY DEF Lock!Leave, Lock!At, LockInv, GrantsAgree, WaitersAgree, Waits
<1>2. granted \ {c} = granted /\ Has(c) = locker[c].got
  BY <1>1 DEF Has
<1>3. Lock!Release(Has(c), granted \ {c})
  BY <1>2 DEF Lock!Leave
<1>4. locker' = [locker EXCEPT ![c] = [pc |-> "out", todo |-> << >>, got |-> {}]]
  BY DEF Lock!Leave, Lock!Out
<1> QED
  BY <1>1, <1>3, <1>4, ReleaseKeeps

LEMMA CollectKeeps ==
  ASSUME LockInv, NEW c \in Callers, Lock!Collect(c)
  PROVE  LockInv'
<1>1. \A k \in DOMAIN table : \A i \in DOMAIN table[k] : table[k][i] # c
  BY DEF Lock!Collect, ToSet, Lock!ToSet
<1>2. Lock!Release(Has(c), granted \ {c})
  BY DEF Lock!Collect, Has
<1>3. locker' = [locker EXCEPT ![c] = [pc |-> "out", todo |-> << >>, got |-> {}]]
  BY DEF Lock!Collect, Lock!Out
<1> QED
  BY <1>1, <1>2, <1>3, ReleaseKeeps

LEMMA LockStep ==
  ASSUME LockInv, NEW c \in Callers, NEW named,
         \/ Lock!Enter(c, named) \/ Lock!Take(c) \/ Lock!Woken(c) \/ Lock!Timeout(c)
         \/ Lock!CancelWait(c) \/ Lock!Exit(c) \/ Lock!Leave(c) \/ Lock!Collect(c)
  PROVE  LockInv'
<1>1. CASE Lock!Woken(c)
  BY <1>1, AcquireKeeps DEF Lock!Woken
<1> QED
  BY <1>1, EnterKeeps, TakeKeeps, TimeoutKeeps, CancelWaitKeeps, ExitKeeps, LeaveKeeps, CollectKeeps

LEMMA LockStays ==
  ASSUME LockInv, UNCHANGED lockVars
  PROVE  LockInv'
<1>1. table' = table /\ granted' = granted /\ locker' = locker
  BY DEF lockVars
<1>2. LockTypes'
  BY <1>1 DEF LockInv, LockTypes
<1>3. WaitersAgree'
  BY <1>1 DEF LockInv, WaitersAgree, Waits, Lock!At, Lock!Wanted
<1>4. GrantsAgree'
  BY <1>1 DEF LockInv, GrantsAgree, Lock!At, Lock!Wanted
<1>5. OwnersAgree'
  BY <1>1 DEF LockInv, OwnersAgree, Lock!At, Lock!Wanted, Lock!Owns
<1> QED
  BY <1>2, <1>3, <1>4, <1>5 DEF LockInv

LEMMA LockInitially == Lock!LockInit => LockInv
<1> SUFFICES ASSUME Lock!LockInit PROVE LockInv
  OBVIOUS
<1>1. table = << >> /\ granted = {} /\ \A c \in Callers : locker[c] = [pc |-> "out", todo |-> << >>, got |-> {}]
  BY DEF Lock!LockInit, Lock!Out
<1>2. DOMAIN table = {}
  BY <1>1
<1> QED
  BY <1>1, <1>2 DEF Lock!LockInit, Lock!Out, LockInv, LockTypes, WaitersAgree, GrantsAgree, OwnersAgree

-----------------------------------------------------------------------------
(* The socket pool.                                                        *)

Queued == Pools \X Pool!Owners

PoolTypes ==
  /\ socks = [s \in DOMAIN socks |->
               [pool |-> socks[s].pool, owner |-> socks[s].owner, user |-> socks[s].user,
                wire |-> socks[s].wire, replies |-> socks[s].replies]]
  /\ DOMAIN socks \subseteq 1..(Budget + 1)
  /\ line = [q \in Queued |-> line[q]]
  /\ \A q \in Queued : line[q] \in Seq(Callers)
  /\ call = [c \in Callers |-> [pc |-> call[c].pc, pool |-> call[c].pool]]
  /\ \A c \in Callers : call[c].pc \in {"none", "permit", "sent"}
  /\ \A c \in Callers : Pool!Calls(c) => call[c].pool \in Pools

(* A caller stands in the line of its request, once, and in no other.      *)
LinesAgree ==
  /\ \A q \in Queued : \A i \in DOMAIN line[q] : Pool!Calls(line[q][i]) /\ Pool!LineOf(line[q][i]) = q
  /\ \A q \in Queued : \A i, j \in DOMAIN line[q] : line[q][i] = line[q][j] => i = j

(* A socket in use is its user's only one, carries that request or its     *)
(* reply and nothing else, and an idle one carries nothing.                *)
SocksAgree ==
  /\ \A s \in DOMAIN socks : socks[s].user = Nobody =>
       socks[s].wire = << >> /\ socks[s].replies = << >>
  /\ \A s \in DOMAIN socks : socks[s].user # Nobody =>
       LET c == socks[s].user
       IN  /\ c \in Callers /\ call[c].pc = "sent"
           /\ socks[s].pool = call[c].pool /\ socks[s].owner = OwnerOf[c]
           /\ \/ socks[s].wire = <<c>> /\ socks[s].replies = << >>
              \/ socks[s].wire = << >> /\ socks[s].replies = <<c>>
  /\ \A s, r \in DOMAIN socks : socks[s].user = socks[r].user /\ socks[s].user # Nobody => s = r

(* Who sent its request holds one of the first MaxSize places.             *)
PermitsHeld == \A c \in Callers : call[c].pc = "sent" => Pool!HasPermit(c)

PoolInv == PoolTypes /\ LinesAgree /\ SocksAgree /\ PermitsHeld /\ SocketsStayBounded

LEMMA PoolInvImplies == PoolInv => RepliesAreOwn
<1> SUFFICES ASSUME PoolInv, NEW s \in DOMAIN socks, socks[s].user # Nobody
             PROVE  ToSet(socks[s].replies \o socks[s].wire) \subseteq {socks[s].user}
  BY DEF RepliesAreOwn, Pool!RepliesAreOwn, Pool!ToSet, ToSet
<1> DEFINE c == socks[s].user
<1>1. socks[s].replies \o socks[s].wire = <<c>>
  <2>1. \/ socks[s].wire = <<c>> /\ socks[s].replies = << >>
        \/ socks[s].wire = << >> /\ socks[s].replies = <<c>>
    BY DEF PoolInv, SocksAgree
  <2> HIDE DEF c
  <2>2. << >> \o <<c>> = <<c>> /\ <<c>> \o << >> = <<c>>
    <3>1. <<c>> \in Seq({c})
      OBVIOUS
    <3> QED
      BY <3>1, ConcatEmptySeq
  <2> QED
    BY <2>1, <2>2
<1> QED
  BY <1>1 DEF ToSet

LEMMA Constants ==
  /\ MaxSize \in Nat \ {0} /\ Budget \in Nat \ {0}
  /\ Nobody \notin Callers
BY PoolSizes, CallersAndPools

LEMMA LineIsQueued ==
  ASSUME PoolTypes, NEW c \in Callers, Pool!Calls(c)
  PROVE  Pool!LineOf(c) \in Queued /\ Pool!LineOf(c)[1] = call[c].pool /\ Pool!LineOf(c)[2] = OwnerOf[c]
BY DEF PoolTypes, Pool!LineOf, Queued, Pool!Owners

(* A call ends: the places before it are kept, and those after it are one  *)
(* nearer.                                                                 *)
LEMMA EndedKeeps ==
  ASSUME PoolTypes, LinesAgree, PermitsHeld, NEW c \in Callers, Pool!Calls(c), Pool!Ended(c)
  PROVE  /\ LinesAgree' /\ PermitsHeld'
         /\ line' = [q \in Queued |-> line'[q]]
         /\ \A q \in Queued : line'[q] \in Seq(Callers)
         /\ call' = [d \in Callers |-> [pc |-> call'[d].pc, pool |-> call'[d].pool]]
         /\ \A d \in Callers \ {c} : call'[d] = call[d]
         /\ call'[c].pc = "none"
<1> USE DEF Pool!Calls
<1> DEFINE q == Pool!LineOf(c)
           r == RemoveFirst(line[q], c)
<1>1. q \in Queued
  BY LineIsQueued
<1>2. line' = [line EXCEPT ![q] = r] /\ call' = [call EXCEPT ![c] = [pc |-> "none", pool |-> Nobody]]
  BY DEF Pool!Ended, Pool!NoCall, RemoveFirst, Pool!RemoveFirst, RemoveAt, Pool!RemoveAt,
         SelectInSeq, Pool!SelectInSeq, Min, Pool!Min
<1>3. line[q] \in Seq(Callers) /\ Len(line[q]) \in Nat /\ DOMAIN line[q] = 1..Len(line[q])
  BY <1>1 DEF PoolTypes
<1>4. \/ r = line[q] /\ \A i \in 1..Len(line[q]) : line[q][i] # c
      \/ \E m \in 1..Len(line[q]) :
           /\ line[q][m] = c
           /\ r \in Seq(Callers)
           /\ Len(r) = Len(line[q]) - 1
           /\ \A i \in 1..(Len(line[q]) - 1) : r[i] = IF i < m THEN line[q][i] ELSE line[q][i + 1]
  BY <1>3, WithoutFirst, Zenon
<1> HIDE DEF r, q
<1>5. /\ line' = [p \in Queued |-> line'[p]]
      /\ line'[q] = r
      /\ \A p \in Queued \ {q} : line'[p] = line[p]
  BY <1>1, <1>2 DEF PoolTypes
<1>6. /\ call' = [d \in Callers |-> [pc |-> call'[d].pc, pool |-> call'[d].pool]]
      /\ \A d \in Callers \ {c} : call'[d] = call[d]
      /\ call'[c].pc = "none"
  BY <1>2 DEF PoolTypes
(* What becomes of the places of the line.                                 *)
<1>7. /\ r \in Seq(Callers)
      /\ \A i \in DOMAIN r : \E j \in DOMAIN line[q] :
           line[q][j] = r[i] /\ r[i] # c /\ \A n \in DOMAIN r : r[n] = r[i] => n = i
      /\ \A j \in DOMAIN line[q] : line[q][j] # c => \E i \in DOMAIN r : i <= j /\ r[i] = line[q][j]
  <2>1. CASE r = line[q] /\ \A i \in 1..Len(line[q]) : line[q][i] # c
    BY <1>1, <1>3, <2>1 DEF LinesAgree
  <2>2. CASE \E m \in 1..Len(line[q]) :
               /\ line[q][m] = c
               /\ r \in Seq(Callers)
               /\ Len(r) = Len(line[q]) - 1
               /\ \A i \in 1..(Len(line[q]) - 1) : r[i] = IF i < m THEN line[q][i] ELSE line[q][i + 1]
    <3> DEFINE s == line[q]
    <3>0. s \in Seq(Callers) /\ Len(s) \in Nat /\ DOMAIN s = 1..Len(s)
          /\ \A i, j \in 1..Len(s) : s[i] = s[j] => i = j
      BY <1>1, <1>3 DEF LinesAgree
    <3> HIDE DEF s
    <3>1. PICK m \in 1..Len(s) :
               /\ s[m] = c
               /\ r \in Seq(Callers)
               /\ Len(r) = Len(s) - 1
               /\ \A i \in 1..(Len(s) - 1) : r[i] = IF i < m THEN s[i] ELSE s[i + 1]
      BY <2>2 DEF s
    <3> DEFINE at == [i \in Nat |-> IF i < m THEN i ELSE i + 1]
    <3>2. \A i \in 1..(Len(s) - 1) : at[i] \in 1..Len(s) /\ at[i] # m /\ r[i] = s[at[i]]
      BY SMTT(20), <3>0, <3>1
    <3>3. \A i, j \in Nat : at[i] = at[j] => i = j
      OBVIOUS
    <3>4. \A j \in 1..Len(s) : j # m => \E i \in 1..(Len(s) - 1) : i <= j /\ at[i] = j
      <4> TAKE j \in 1..Len(s)
      <4> HAVE j # m
      <4>1. CASE j < m
        <5>1. j \in 1..(Len(s) - 1) /\ at[j] = j /\ j <= j
          BY <3>0, <4>1
        <5> HIDE DEF at
        <5> QED
          BY <5>1
      <4>2. CASE j > m
        <5>1. j - 1 \in 1..(Len(s) - 1) /\ at[j - 1] = j /\ j - 1 <= j
          BY <3>0, <4>2
        <5> HIDE DEF at
        <5> QED
          BY <5>1
      <4> HIDE DEF at
      <4> QED
        BY <3>0, <4>1, <4>2
    <3> HIDE DEF at
    <3>5. DOMAIN r = 1..(Len(s) - 1) /\ DOMAIN r \subseteq Nat
      BY <3>0, <3>1
    <3>6. ASSUME NEW i \in DOMAIN r
          PROVE  s[at[i]] = r[i] /\ r[i] # c /\ \A n \in DOMAIN r : r[n] = r[i] => n = i
      <4>1. at[i] \in 1..Len(s) /\ at[i] # m /\ r[i] = s[at[i]]
        BY <3>2, <3>5
      <4>2. r[i] # c
        BY <3>0, <3>1, <4>1
      <4>3. ASSUME NEW n \in DOMAIN r, r[n] = r[i]
            PROVE  n = i
        <5>1. at[n] \in 1..Len(s) /\ r[n] = s[at[n]]
          BY <3>2, <3>5
        <5>2. at[n] = at[i]
          BY <3>0, <4>1, <4>3, <5>1
        <5> QED
          BY <3>3, <3>5, <5>2
      <4> QED
        BY <4>1, <4>2, <4>3
    <3>7. ASSUME NEW j \in 1..Len(s), s[j] # c
          PROVE  \E i \in DOMAIN r : i <= j /\ r[i] = s[j]
      <4>1. PICK i \in 1..(Len(s) - 1) : i <= j /\ at[i] = j
        BY <3>1, <3>4, <3>7
      <4> QED
        BY <3>2, <3>5, <4>1
    <3>8. \A i \in DOMAIN r : at[i] \in DOMAIN s
      BY <3>0, <3>2, <3>5
    <3> QED
      BY <3>0, <3>1, <3>6, <3>7, <3>8 DEF s
  <2> QED
    BY <1>4, <2>1, <2>2
<1>8. \A p \in Queued : line'[p] \in Seq(Callers)
  BY <1>1, <1>5, <1>7 DEF PoolTypes
<1>9. \A d \in Callers \ {c} : (Pool!Calls(d)' <=> Pool!Calls(d)) /\ Pool!LineOf(d)' = Pool!LineOf(d)
  BY <1>6 DEF Pool!LineOf
<1>10. \A p \in Queued \ {q} : \A i \in DOMAIN line[p] : line[p][i] \in Callers \ {c}
  <2> TAKE p \in Queued \ {q}
  <2> TAKE i \in DOMAIN line[p]
  <2>1. line[p][i] \in Callers
    BY DEF PoolTypes
  <2>2. Pool!LineOf(line[p][i]) = p
    BY DEF LinesAgree
  <2> QED
    BY <2>1, <2>2 DEF q
<1>11. LinesAgree'
  <2>1. ASSUME NEW p \in Queued, NEW i \in DOMAIN line'[p], NEW d, d = line'[p][i]
        PROVE  Pool!Calls(d)' /\ Pool!LineOf(d)' = p
    <3>1. d \in Callers \ {c} /\ Pool!Calls(d) /\ Pool!LineOf(d) = p
      <4>1. CASE p = q
        <5>1. PICK j \in DOMAIN line[q] : line[q][j] = r[i] /\ r[i] # c
          BY <1>5, <1>7, <2>1, <4>1
        <5>2. d = line[q][j] /\ d # c /\ d \in Callers
          BY <1>3, <1>5, <2>1, <4>1, <5>1
        <5> QED
          BY <1>1, <4>1, <5>2 DEF LinesAgree
      <4>2. CASE p # q
        <5>1. line'[p] = line[p] /\ d = line[p][i] /\ i \in DOMAIN line[p]
          BY <1>5, <2>1, <4>2
        <5> QED
          BY <1>10, <4>2, <5>1 DEF LinesAgree
      <4> QED
        BY <4>1, <4>2
    <3> QED
      BY <1>9, <3>1
  <2>2. ASSUME NEW p \in Queued, NEW i \in DOMAIN line'[p], NEW j \in DOMAIN line'[p], line'[p][i] = line'[p][j]
        PROVE  i = j
    <3>1. CASE p = q
      BY <1>5, <1>7, <2>2, <3>1
    <3>2. CASE p # q
      BY <1>5, <2>2, <3>2 DEF LinesAgree
    <3> QED
      BY <3>1, <3>2
  <2>3. Queued' = Queued
    BY DEF Queued, Pool!Owners
  <2> QED
    BY <2>1, <2>2, <2>3 DEF LinesAgree
<1>12. PermitsHeld'
  <2> SUFFICES ASSUME NEW d \in Callers, call'[d].pc = "sent"
               PROVE  Pool!HasPermit(d)'
    BY DEF PermitsHeld
  <2>1. d # c /\ call[d].pc = "sent"
    BY <1>6
  <2> DEFINE p == Pool!LineOf(d)
  <2>2. p \in Queued
    BY <2>1, LineIsQueued
  <2>3. PICK i \in 1..MaxSize : i <= Len(line[p]) /\ line[p][i] = d
    BY <2>1 DEF PermitsHeld, Pool!HasPermit
  <2>4. line[p] \in Seq(Callers) /\ i \in DOMAIN line[p] /\ i \in Nat
    BY <2>2, <2>3, Constants DEF PoolTypes
  <2>5. \E n \in DOMAIN line'[p] : n <= i /\ line'[p][n] = d
    <3>1. CASE p = q
      <4>1. \E n \in DOMAIN r : n <= i /\ r[n] = d
        BY <1>7, <2>1, <2>3, <2>4, <3>1
      <4> QED
        BY <1>5, <3>1, <4>1
    <3>2. CASE p # q
      <4>1. i <= i
        BY <2>4
      <4> QED
        BY <1>5, <2>2, <2>3, <2>4, <3>2, <4>1
    <3> QED
      BY <3>1, <3>2
  <2>6. Pool!LineOf(d)' = p /\ line'[p] \in Seq(Callers)
    BY <1>8, <1>9, <2>1, <2>2
  <2> HIDE DEF p
  <2>7. PICK n \in DOMAIN line'[p] : n <= i /\ line'[p][n] = d
    BY <2>5
  <2>8. n \in 1..MaxSize /\ n <= Len(line'[p])
    BY <2>3, <2>6, <2>7, Constants
  <2> QED
    BY <2>6, <2>7, <2>8 DEF Pool!HasPermit
<1> QED
  BY <1>5, <1>6, <1>8, <1>11, <1>12

(* A socket of some pool that nobody may hold twice.                       *)
LEMMA CardinalityIsOne == \A S : Pool!Cardinality(S) = Cardinality(S)
BY DEF Pool!Cardinality, Cardinality

LEMMA HeldIsOne ==
  ASSUME SocksAgree, NEW c \in Callers, NEW s \in Pool!Held(c)
  PROVE  Pool!Held(c) = {s}
BY Constants DEF SocksAgree, Pool!Held

LEMMA BucketsAreFinite ==
  ASSUME PoolTypes, NEW q
  PROVE  IsFiniteSet(Pool!Bucket(q)) /\ IsFiniteSet(DOMAIN socks)
<1>1. IsFiniteSet(1..(Budget + 1))
  BY Constants, FS_Interval
<1>2. IsFiniteSet(DOMAIN socks)
  BY <1>1, FS_Subset DEF PoolTypes
<1>3. Pool!Bucket(q) \in SUBSET DOMAIN socks
  BY DEF Pool!Bucket
<1> QED
  BY <1>2, <1>3, FS_Subset

(* Fewer sockets do not break the cap.                                     *)
LEMMA FewerSockets ==
  ASSUME PoolTypes, SocketsStayBounded,
         \A q \in Queued : Pool!Bucket(q)' \subseteq Pool!Bucket(q)
  PROVE  SocketsStayBounded'
<1> SUFFICES ASSUME NEW q \in Queued
             PROVE  Cardinality(Pool!Bucket(q)') <= MaxSize
  BY CardinalityIsOne DEF SocketsStayBounded, Pool!SocketsStayBounded, Queued, Pool!Owners
<1> DEFINE B == Pool!Bucket(q)
           C == Pool!Bucket(q)'
<1>1. IsFiniteSet(B)
  BY BucketsAreFinite
<1>2. Cardinality(B) <= MaxSize
  BY CardinalityIsOne DEF SocketsStayBounded, Pool!SocketsStayBounded, Queued
<1>3. C \in SUBSET B
  OBVIOUS
<1> HIDE DEF B, C
<1>4. Cardinality(C) <= Cardinality(B) /\ IsFiniteSet(C)
  BY <1>1, <1>3, FS_Subset
<1>5. Cardinality(C) \in Nat /\ Cardinality(B) \in Nat
  BY <1>1, <1>4, FS_CardinalityType
<1>6. Cardinality(C) <= MaxSize
  BY <1>2, <1>4, <1>5, Constants
<1> QED
  BY <1>6 DEF C

(* A call that ends with its socket closed, and perhaps others with it.    *)
LEMMA ClosingKeeps ==
  ASSUME PoolInv, NEW c \in Callers, Pool!Calls(c), Pool!Ended(c),
         NEW kept \in SUBSET DOMAIN socks, kept \cap Pool!Held(c) = {},
         socks' = [s \in kept |-> socks[s]]
  PROVE  PoolInv'
<1>1. /\ LinesAgree' /\ PermitsHeld'
      /\ line' = [q \in Queued |-> line'[q]]
      /\ \A q \in Queued : line'[q] \in Seq(Callers)
      /\ call' = [d \in Callers |-> [pc |-> call'[d].pc, pool |-> call'[d].pool]]
      /\ \A d \in Callers \ {c} : call'[d] = call[d]
      /\ call'[c].pc = "none"
  BY EndedKeeps DEF PoolInv
<1>2. DOMAIN socks' = kept /\ \A s \in kept : socks'[s] = socks[s] /\ socks[s].user # c
  BY DEF Pool!Held
<1>3. Queued' = Queued
  BY DEF Queued, Pool!Owners
<1>4. PoolTypes'
  <2>1. \A d \in Callers : call'[d].pc \in {"none", "permit", "sent"}
                        /\ (Pool!Calls(d)' => call'[d].pool \in Pools)
    BY <1>1 DEF PoolInv, PoolTypes, Pool!Calls
  <2>2. socks' = [s \in DOMAIN socks' |->
               [pool |-> socks'[s].pool, owner |-> socks'[s].owner, user |-> socks'[s].user,
                wire |-> socks'[s].wire, replies |-> socks'[s].replies]]
    <3>1. \A s \in kept : socks'[s] = [pool |-> socks'[s].pool, owner |-> socks'[s].owner, user |-> socks'[s].user,
                wire |-> socks'[s].wire, replies |-> socks'[s].replies]
      BY <1>2 DEF PoolInv, PoolTypes
    <3> QED
      BY <1>2, <3>1
  <2>3. DOMAIN socks' \subseteq 1..(Budget + 1)
    BY <1>2 DEF PoolInv, PoolTypes
  <2> QED
    BY <1>1, <1>3, <2>1, <2>2, <2>3 DEF PoolTypes
<1>5. SocksAgree'
  BY <1>1, <1>2 DEF PoolInv, SocksAgree
<1>6. SocketsStayBounded'
  <2>1. \A q \in Queued : Pool!Bucket(q)' \subseteq Pool!Bucket(q)
    BY <1>2 DEF Pool!Bucket
  <2> QED
    BY <2>1, FewerSockets DEF PoolInv
<1> QED
  BY <1>1, <1>4, <1>5, <1>6 DEF PoolInv

(* A socket changes its user, requests and replies.                        *)
LEMMA UsedSocket ==
  ASSUME PoolTypes, NEW s \in DOMAIN socks, NEW user, NEW wire, NEW replies,
         socks' = Pool!Used(s, user, wire, replies)
  PROVE  /\ DOMAIN socks' = DOMAIN socks
         /\ \A r \in DOMAIN socks \ {s} : socks'[r] = socks[r]
         /\ socks'[s].pool = socks[s].pool /\ socks'[s].owner = socks[s].owner
         /\ socks'[s].user = user /\ socks'[s].wire = wire /\ socks'[s].replies = replies
         /\ socks' = [r \in DOMAIN socks' |->
               [pool |-> socks'[r].pool, owner |-> socks'[r].owner, user |-> socks'[r].user,
                wire |-> socks'[r].wire, replies |-> socks'[r].replies]]
         /\ \A q \in Queued : Pool!Bucket(q)' = Pool!Bucket(q)
<1>1. /\ DOMAIN socks' = DOMAIN socks
      /\ \A r \in DOMAIN socks \ {s} : socks'[r] = socks[r]
      /\ socks'[s] = [pool |-> socks[s].pool, owner |-> socks[s].owner, user |-> user,
                      wire |-> wire, replies |-> replies]
      /\ socks' = [r \in DOMAIN socks' |-> socks'[r]]
  BY DEF Pool!Used, PoolTypes
<1>2. \A r \in DOMAIN socks' : socks'[r] =
               [pool |-> socks'[r].pool, owner |-> socks'[r].owner, user |-> socks'[r].user,
                wire |-> socks'[r].wire, replies |-> socks'[r].replies]
  BY <1>1 DEF PoolTypes
<1>3. \A q \in Queued : Pool!Bucket(q)' = Pool!Bucket(q)
  BY <1>1 DEF Pool!Bucket
<1> QED
  BY <1>1, <1>2, <1>3

LEMMA ReplyKeeps ==
  ASSUME PoolInv, NEW s \in DOMAIN socks, Pool!Reply(s)
  PROVE  PoolInv'
<1> DEFINE c == socks[s].user
<1>1. /\ c \in Callers /\ socks[s].wire = <<c>> /\ socks[s].replies = << >>
  BY DEF PoolInv, SocksAgree, Pool!Reply
<1>2. Tail(<<c>>) = << >> /\ Append(<< >>, Head(<<c>>)) = <<c>>
  OBVIOUS
<1>3. socks' = Pool!Used(s, c, << >>, <<c>>) /\ line' = line /\ call' = call
  BY <1>1, <1>2 DEF Pool!Reply
<1> HIDE DEF c
<1>4. /\ DOMAIN socks' = DOMAIN socks
      /\ \A r \in DOMAIN socks \ {s} : socks'[r] = socks[r]
      /\ socks'[s].pool = socks[s].pool /\ socks'[s].owner = socks[s].owner
      /\ socks'[s].user = c /\ socks'[s].wire = << >> /\ socks'[s].replies = <<c>>
      /\ socks' = [r \in DOMAIN socks' |->
           [pool |-> socks'[r].pool, owner |-> socks'[r].owner, user |-> socks'[r].user,
            wire |-> socks'[r].wire, replies |-> socks'[r].replies]]
      /\ \A q \in Queued : Pool!Bucket(q)' = Pool!Bucket(q)
  BY <1>3, UsedSocket DEF PoolInv
<1>5. PoolTypes'
  BY <1>3, <1>4 DEF PoolInv, PoolTypes, Pool!Calls, Queued, Pool!Owners
<1>6. LinesAgree' /\ PermitsHeld'
  BY <1>3 DEF PoolInv, LinesAgree, PermitsHeld, Pool!Calls, Pool!LineOf, Queued, Pool!Owners, Pool!HasPermit
<1>7. SocksAgree'
  <2>1. c = socks[s].user
    BY DEF c
  <2> QED
    BY <1>1, <1>3, <1>4, <2>1 DEF PoolInv, SocksAgree
<1>8. SocketsStayBounded'
  BY <1>4, FewerSockets DEF PoolInv
<1> QED
  BY <1>5, <1>6, <1>7, <1>8 DEF PoolInv

LEMMA PoisonKeeps ==
  ASSUME PoolInv, NEW c \in Callers, Pool!Calls(c), Pool!Poison(c), Pool!Ended(c)
  PROVE  PoolInv'
<1> DEFINE kept == DOMAIN socks \ Pool!Held(c)
<1>1. socks' = [s \in kept |-> socks[s]]
  BY DEF Pool!Poison
<1>2. kept \in SUBSET DOMAIN socks /\ kept \cap Pool!Held(c) = {}
  OBVIOUS
<1> HIDE DEF kept
<1> QED
  BY <1>1, <1>2, ClosingKeeps

LEMMA ReceiveKeeps ==
  ASSUME PoolInv, NEW c \in Callers, Pool!Receive(c)
  PROVE  PoolInv'
<1>0. Pool!Ended(c) /\ Pool!Calls(c)
  BY DEF Pool!Receive, Pool!Calls
<1>1. PICK s \in Pool!Held(c) :
        /\ socks[s].replies # << >>
        /\ \/ socks' = Pool!Used(s, Nobody, socks[s].wire, Tail(socks[s].replies))
           \/ Pool!Poison(c)
  BY DEF Pool!Receive
<1>2. CASE Pool!Poison(c)
  BY <1>0, <1>2, PoisonKeeps
<1>3. CASE socks' = Pool!Used(s, Nobody, socks[s].wire, Tail(socks[s].replies))
  <2>1. s \in DOMAIN socks /\ socks[s].user = c /\ c # Nobody
    BY Constants DEF Pool!Held
  <2>2. socks[s].wire = << >> /\ socks[s].replies = <<c>>
    BY <1>1, <2>1 DEF PoolInv, SocksAgree
  <2>3. Tail(<<c>>) = << >>
    OBVIOUS
  <2>4. socks' = Pool!Used(s, Nobody, << >>, << >>)
    BY <1>3, <2>2, <2>3
  <2>5. /\ DOMAIN socks' = DOMAIN socks
        /\ \A r \in DOMAIN socks \ {s} : socks'[r] = socks[r]
        /\ socks'[s].pool = socks[s].pool /\ socks'[s].owner = socks[s].owner
        /\ socks'[s].user = Nobody /\ socks'[s].wire = << >> /\ socks'[s].replies = << >>
        /\ socks' = [r \in DOMAIN socks' |->
             [pool |-> socks'[r].pool, owner |-> socks'[r].owner, user |-> socks'[r].user,
              wire |-> socks'[r].wire, replies |-> socks'[r].replies]]
        /\ \A q \in Queued : Pool!Bucket(q)' = Pool!Bucket(q)
    BY <2>1, <2>4, UsedSocket DEF PoolInv
  <2>6. /\ LinesAgree' /\ PermitsHeld'
        /\ line' = [q \in Queued |-> line'[q]]
        /\ \A q \in Queued : line'[q] \in Seq(Callers)
        /\ call' = [d \in Callers |-> [pc |-> call'[d].pc, pool |-> call'[d].pool]]
        /\ \A d \in Callers \ {c} : call'[d] = call[d]
        /\ call'[c].pc = "none"
    BY <1>0, EndedKeeps DEF PoolInv
  <2>7. Queued' = Queued
    BY DEF Queued, Pool!Owners
  <2>8. PoolTypes'
    <3>1. \A d \in Callers : call'[d].pc \in {"none", "permit", "sent"}
                          /\ (Pool!Calls(d)' => call'[d].pool \in Pools)
      BY <2>6 DEF PoolInv, PoolTypes, Pool!Calls
    <3>2. DOMAIN socks' \subseteq 1..(Budget + 1)
      BY <2>5 DEF PoolInv, PoolTypes
    <3> QED
      BY <2>5, <2>6, <2>7, <3>1, <3>2 DEF PoolTypes
  <2>9. SocksAgree'
    <3>1. \A r \in DOMAIN socks \ {s} : socks[r].user # c
      BY <1>1, HeldIsOne DEF PoolInv, Pool!Held
    <3>2. ASSUME NEW r \in DOMAIN socks \ {s}, socks[r].user # Nobody
          PROVE  socks[r].user \in Callers \ {c} /\ call'[socks[r].user] = call[socks[r].user]
      BY <2>6, <3>1, <3>2 DEF PoolInv, SocksAgree
    <3>3. \A r \in DOMAIN socks' : socks'[r].user = Nobody =>
            socks'[r].wire = << >> /\ socks'[r].replies = << >>
      BY <2>5 DEF PoolInv, SocksAgree
    <3>4. \A r \in DOMAIN socks' : socks'[r].user # Nobody =>
            LET d == socks'[r].user
            IN  /\ d \in Callers /\ call'[d].pc = "sent"
                /\ socks'[r].pool = call'[d].pool /\ socks'[r].owner = OwnerOf[d]
                /\ \/ socks'[r].wire = <<d>> /\ socks'[r].replies = << >>
                   \/ socks'[r].wire = << >> /\ socks'[r].replies = <<d>>
      BY <2>5, <3>2 DEF PoolInv, SocksAgree
    <3>5. \A r, x \in DOMAIN socks' : socks'[r].user = socks'[x].user /\ socks'[r].user # Nobody => r = x
      BY <2>5 DEF PoolInv, SocksAgree
    <3> QED
      BY <3>3, <3>4, <3>5 DEF SocksAgree
  <2>10. SocketsStayBounded'
    BY <2>5, FewerSockets DEF PoolInv
  <2> QED
    BY <2>6, <2>8, <2>9, <2>10 DEF PoolInv
<1> QED
  BY <1>1, <1>2, <1>3

LEMMA CallKeeps ==
  ASSUME PoolInv, NEW c \in Callers, NEW p \in Pools, Pool!Call(c, p)
  PROVE  PoolInv'
<1> USE DEF Pool!Calls
<1> DEFINE q == <<p, OwnerOf[c]>>
<1>1. /\ call[c].pc = "none"
      /\ call' = [call EXCEPT ![c] = [pc |-> "permit", pool |-> p]]
      /\ line' = [line EXCEPT ![q] = Append(@, c)]
      /\ socks' = socks
  BY DEF Pool!Call
<1>2. q \in Queued
  BY DEF Queued, Pool!Owners
<1> HIDE DEF q
<1>3. line[q] \in Seq(Callers) /\ Len(line[q]) \in Nat /\ DOMAIN line[q] = 1..Len(line[q])
  BY <1>2 DEF PoolInv, PoolTypes
<1> DEFINE r == Append(line[q], c)
<1>4. /\ line' = [x \in Queued |-> line'[x]] /\ line'[q] = r
      /\ \A x \in Queued \ {q} : line'[x] = line[x]
  BY <1>1, <1>2 DEF PoolInv, PoolTypes
<1>5. /\ r \in Seq(Callers) /\ Len(r) = Len(line[q]) + 1 /\ DOMAIN r = 1..(Len(line[q]) + 1)
      /\ \A i \in 1..Len(line[q]) : r[i] = line[q][i]
      /\ r[Len(line[q]) + 1] = c
  BY <1>3, AppendProperties
<1>6. /\ call' = [d \in Callers |-> [pc |-> call'[d].pc, pool |-> call'[d].pool]]
      /\ \A d \in Callers \ {c} : call'[d] = call[d]
      /\ call'[c].pc = "permit" /\ call'[c].pool = p
  BY <1>1 DEF PoolInv, PoolTypes
<1>7. \A i \in 1..(Len(line[q]) + 1) : i \in 1..Len(line[q]) \/ i = Len(line[q]) + 1
  BY <1>3
<1> HIDE DEF r
<1>8. \A x \in Queued : line'[x] \in Seq(Callers)
  BY <1>4, <1>5 DEF PoolInv, PoolTypes
<1>9. \A d \in Callers \ {c} : (Pool!Calls(d)' <=> Pool!Calls(d)) /\ Pool!LineOf(d)' = Pool!LineOf(d)
  BY <1>6 DEF Pool!LineOf
<1>10. \A x \in Queued : \A i \in DOMAIN line[x] : line[x][i] \in Callers \ {c}
  <2> TAKE x \in Queued
  <2> TAKE i \in DOMAIN line[x]
  <2>1. line[x][i] \in Callers
    BY DEF PoolInv, PoolTypes
  <2>2. call[line[x][i]].pc # "none"
    BY DEF PoolInv, LinesAgree
  <2> QED
    BY <1>1, <2>1, <2>2
<1>11. Queued' = Queued
  BY DEF Queued, Pool!Owners
<1>12. LinesAgree'
  <2>1. ASSUME NEW x \in Queued, NEW i \in DOMAIN line'[x], NEW d, d = line'[x][i]
        PROVE  call'[d].pc # "none" /\ <<call'[d].pool, OwnerOf[d]>> = x
    <3>1. CASE d = c
      <4>1. x = q
        BY <1>4, <1>10, <2>1, <3>1
      <4> QED
        BY <1>6, <3>1, <4>1 DEF q
    <3>2. CASE d # c
      <4>1. i \in DOMAIN line[x] /\ d = line[x][i]
        BY <1>3, <1>4, <1>5, <1>7, <2>1, <3>2
      <4>2. d \in Callers \ {c} /\ Pool!Calls(d) /\ Pool!LineOf(d) = x
        BY <1>10, <4>1 DEF PoolInv, LinesAgree
      <4> QED
        BY <1>6, <4>2 DEF Pool!LineOf
    <3> QED
      BY <3>1, <3>2
  <2>2. ASSUME NEW x \in Queued, NEW i \in DOMAIN line'[x], NEW j \in DOMAIN line'[x], line'[x][i] = line'[x][j]
        PROVE  i = j
    <3>1. CASE x = q
      <4>1. i \in 1..(Len(line[q]) + 1) /\ j \in 1..(Len(line[q]) + 1) /\ r[i] = r[j]
        BY <1>4, <1>5, <2>2, <3>1
      <4>2. \A n \in 1..Len(line[q]) : r[n] # c
        BY <1>2, <1>3, <1>5, <1>10
      <4>3. CASE i \in 1..Len(line[q]) /\ j \in 1..Len(line[q])
        BY <1>2, <1>3, <1>5, <4>1, <4>3 DEF PoolInv, LinesAgree
      <4> QED
        BY <1>5, <1>7, <4>1, <4>2, <4>3
    <3>2. CASE x # q
      BY <1>4, <2>2, <3>2 DEF PoolInv, LinesAgree
    <3> QED
      BY <3>1, <3>2
  <2> QED
    BY <1>11, <2>1, <2>2 DEF LinesAgree, Pool!LineOf
<1>13. PermitsHeld'
  <2> SUFFICES ASSUME NEW d \in Callers, call'[d].pc = "sent"
               PROVE  Pool!HasPermit(d)'
    BY DEF PermitsHeld
  <2>1. d # c /\ call[d].pc = "sent"
    BY <1>6
  <2>2. Pool!LineOf(d) \in Queued /\ Pool!LineOf(d)' = Pool!LineOf(d)
    BY <1>9, <2>1, LineIsQueued DEF PoolInv
  <2>3. PICK i \in 1..MaxSize : i <= Len(line[Pool!LineOf(d)]) /\ line[Pool!LineOf(d)][i] = d
    BY <2>1 DEF PoolInv, PermitsHeld, Pool!HasPermit
  <2>4. PICK x \in Queued : x = Pool!LineOf(d)
    BY <2>2
  <2>5. i <= Len(line'[x]) /\ line'[x][i] = d
    <3>1. CASE x = q
      <4>1. i \in 1..Len(line[q])
        BY <1>3, <2>3, <2>4, <3>1, Constants
      <4> QED
        BY <1>3, <1>4, <1>5, <2>3, <2>4, <3>1, <4>1
    <3>2. CASE x # q
      BY <1>4, <2>3, <2>4, <3>2
    <3> QED
      BY <3>1, <3>2
  <2> QED
    BY <2>2, <2>4, <2>5 DEF Pool!HasPermit
<1>14. PoolTypes'
  <2>1. \A d \in Callers : call'[d].pc \in {"none", "permit", "sent"}
                        /\ (Pool!Calls(d)' => call'[d].pool \in Pools)
    BY <1>6 DEF PoolInv, PoolTypes
  <2> QED
    BY <1>1, <1>4, <1>6, <1>8, <1>11, <2>1 DEF PoolInv, PoolTypes
<1>15. SocksAgree'
  <2>1. \A s \in DOMAIN socks : socks[s].user # Nobody => socks[s].user \in Callers \ {c}
    BY <1>1 DEF PoolInv, SocksAgree
  <2> QED
    BY <1>1, <1>6, <2>1 DEF PoolInv, SocksAgree
<1>16. SocketsStayBounded'
  <2>1. \A x \in Queued : Pool!Bucket(x)' \subseteq Pool!Bucket(x)
    BY <1>1 DEF Pool!Bucket
  <2> QED
    BY <2>1, FewerSockets DEF PoolInv
<1> QED
  BY <1>12, <1>13, <1>14, <1>15, <1>16 DEF PoolInv

(* Who comes for a socket and finds none idle has room for one more: the   *)
(* users of the others stand before it in the line, each at its own place. *)
LEMMA RoomForOneMore ==
  ASSUME PoolInv, NEW c \in Callers, call[c].pc = "permit", Pool!HasPermit(c),
         Pool!Idle(Pool!LineOf(c)) = {}
  PROVE  Cardinality(Pool!Bucket(Pool!LineOf(c))) < MaxSize
<1> DEFINE q == Pool!LineOf(c)
           B == Pool!Bucket(q)
<1>1. q \in Queued /\ Pool!Calls(c)
  BY LineIsQueued DEF PoolInv, Pool!Calls
<1>2. line[q] \in Seq(Callers) /\ Len(line[q]) \in Nat /\ DOMAIN line[q] = 1..Len(line[q])
  BY <1>1 DEF PoolInv, PoolTypes
<1>3. PICK n \in 1..MaxSize : n <= Len(line[q]) /\ line[q][n] = c
  BY DEF Pool!HasPermit
<1> DEFINE user(s) == socks[s].user
           place == [s \in B |-> CHOOSE i \in 1..MaxSize : i <= Len(line[q]) /\ line[q][i] = user(s)]
<1>4. ASSUME NEW s \in B
      PROVE  /\ place[s] \in (1..MaxSize) \ {n} /\ line[q][place[s]] = user(s)
             /\ user(s) # Nobody /\ s \in DOMAIN socks
  <2>1. s \in DOMAIN socks /\ user(s) # Nobody /\ socks[s].pool = q[1] /\ socks[s].owner = q[2]
    BY DEF Pool!Idle, Pool!Bucket
  <2>2. /\ user(s) \in Callers /\ call[user(s)].pc = "sent"
        /\ socks[s].pool = call[user(s)].pool /\ socks[s].owner = OwnerOf[user(s)]
    BY <2>1 DEF PoolInv, SocksAgree
  <2>3. Pool!LineOf(user(s)) = q
    BY <2>1, <2>2 DEF Pool!LineOf
  <2>4. \E i \in 1..MaxSize : i <= Len(line[q]) /\ line[q][i] = user(s)
    BY <2>2, <2>3 DEF PoolInv, PermitsHeld, Pool!HasPermit
  <2>5. place[s] \in 1..MaxSize /\ line[q][place[s]] = user(s)
    BY <2>4
  <2>6. place[s] # n
    BY <1>3, <2>2, <2>5
  <2> QED
    BY <2>1, <2>5, <2>6
<1>5. \A s, r \in B : place[s] = place[r] => s = r
  <2> TAKE s, r \in B
  <2> HAVE place[s] = place[r]
  <2>1. user(s) = user(r) /\ user(s) # Nobody /\ s \in DOMAIN socks /\ r \in DOMAIN socks
    BY <1>4
  <2> QED
    BY <2>1 DEF PoolInv, SocksAgree
<1> DEFINE T == (1..MaxSize) \ {n}
<1>6. IsFiniteSet(T) /\ Cardinality(T) = MaxSize - 1
  <2>1. IsFiniteSet(1..MaxSize) /\ Cardinality(1..MaxSize) = MaxSize
    <3>1. 1 \in Int /\ MaxSize \in Int /\ ~(1 > MaxSize) /\ MaxSize - 1 + 1 = MaxSize
      BY Constants
    <3> QED
      BY <3>1, FS_Interval
  <2> QED
    BY <1>3, <2>1, FS_RemoveElement
<1>7. place \in [B -> T]
  BY <1>4
<1>8. IsFiniteSet(B)
  BY BucketsAreFinite DEF PoolInv
<1> HIDE DEF place, T, B
<1>9. ~(Cardinality(T) < Cardinality(B))
  BY <1>5, <1>6, <1>7, <1>8, FS_PigeonHole
<1>10. Cardinality(B) \in Nat
  BY <1>8, FS_CardinalityType
<1>11. Cardinality(B) < MaxSize
  BY <1>6, <1>9, <1>10, Constants
<1> QED
  BY <1>11 DEF B

LEMMA LeaseKeeps ==
  ASSUME PoolInv, NEW c \in Callers, Pool!Lease(c)
  PROVE  PoolInv'
<1> DEFINE p     == call[c].pool
           q     == Pool!LineOf(c)
           spare == Pool!Idle(q)
           kept  == DOMAIN socks \ Pool!Finished(p)
           fresh == CHOOSE x \in 1..(Budget + 1) : x \notin kept
           s     == IF spare = {} THEN fresh ELSE CHOOSE x \in spare : TRUE
           old   == IF spare = {} THEN << >> ELSE socks[s].replies
           wire  == IF spare = {} THEN << >> ELSE socks[s].wire
<1>1. call[c].pc = "permit" /\ Pool!HasPermit(c) /\ Pool!Calls(c)
  BY DEF Pool!Lease, Pool!Calls
<1>2. \A r \in DOMAIN socks : socks[r].user # c
  BY <1>1, Constants DEF PoolInv, SocksAgree
<1>3. CASE spare = {} /\ Pool!Cardinality(kept) >= Budget
  <2>1. socks' = [x \in kept |-> socks[x]] /\ Pool!Ended(c)
    BY <1>3 DEF Pool!Lease
  <2>2. kept \in SUBSET DOMAIN socks /\ kept \cap Pool!Held(c) = {}
    BY <1>2 DEF Pool!Held
  <2> HIDE DEF kept
  <2> QED
    BY <1>1, <2>1, <2>2, ClosingKeeps
<1>4. CASE ~(spare = {} /\ Pool!Cardinality(kept) >= Budget)
  <2>1. /\ socks' = [x \in kept \cup {s} |->
                      IF x # s THEN socks[x]
                      ELSE [pool |-> p, owner |-> OwnerOf[c], user |-> c,
                            wire |-> Append(wire, c), replies |-> old]]
        /\ call' = [call EXCEPT ![c].pc = "sent"]
        /\ line' = line
    BY <1>4 DEF Pool!Lease
  <2>2. s \in 1..(Budget + 1)
        /\ wire = << >> /\ old = << >>
        /\ (spare = {} => s \notin kept)
        /\ (spare # {} => s \in spare)
    <3>1. CASE spare = {}
      <4>1. Cardinality(kept) < Budget
        <5>1. Cardinality(kept) \in Nat
          <6>1. IsFiniteSet(DOMAIN socks)
            BY BucketsAreFinite DEF PoolInv
          <6>2. kept \in SUBSET DOMAIN socks
            OBVIOUS
          <6> HIDE DEF kept
          <6> QED
            BY <6>1, <6>2, FS_Subset, FS_CardinalityType
        <5> QED
          BY <1>4, <3>1, <5>1, CardinalityIsOne, Constants
      <4>2. \E x \in 1..(Budget + 1) : x \notin kept
        <5> SUFFICES ASSUME \A x \in 1..(Budget + 1) : x \in kept
                     PROVE  FALSE
          OBVIOUS
        <5>1. kept = 1..(Budget + 1)
          BY DEF PoolInv, PoolTypes
        <5>2. Cardinality(1..(Budget + 1)) = Budget + 1
          <6>1. 1 \in Int /\ Budget + 1 \in Int /\ ~(1 > Budget + 1) /\ Budget + 1 - 1 + 1 = Budget + 1
            BY Constants
          <6> QED
            BY <6>1, FS_Interval
        <5>3. Budget \in Nat /\ Cardinality(kept) = Budget + 1
          BY <5>1, <5>2, Constants
        <5> HIDE DEF kept
        <5> QED
          BY <4>1, <5>3
      <4> HIDE DEF kept
      <4> QED
        BY <3>1, <4>2
    <3>2. CASE spare # {}
      <4>1. s \in spare
        BY <3>2
      <4>2. s \in DOMAIN socks /\ socks[s].user = Nobody
        BY <4>1 DEF Pool!Idle, Pool!Bucket
      <4>3. socks[s].wire = << >> /\ socks[s].replies = << >>
        BY <4>2 DEF PoolInv, SocksAgree
      <4> QED
        BY <3>2, <4>1, <4>2, <4>3 DEF PoolInv, PoolTypes
    <3> QED
      BY <3>1, <3>2
  <2>3. Append(<< >>, c) = <<c>>
    OBVIOUS
  <2>4. /\ q[1] = p /\ q[2] = OwnerOf[c] /\ q \in Queued /\ p \in Pools
    BY <1>1, LineIsQueued DEF PoolInv, PoolTypes, Pool!LineOf
  <2>5. kept \subseteq DOMAIN socks
    OBVIOUS
  <2>6. \A x \in spare : x \in Pool!Bucket(q) /\ x \in DOMAIN socks
    BY DEF Pool!Idle, Pool!Bucket
  <2>7. /\ DOMAIN socks' = kept \cup {s}
        /\ \A x \in kept \ {s} : socks'[x] = socks[x]
        /\ socks'[s] = [pool |-> p, owner |-> OwnerOf[c], user |-> c, wire |-> <<c>>, replies |-> << >>]
        /\ socks' = [x \in DOMAIN socks' |-> socks'[x]]
    <3> HIDE DEF kept, s, wire, old
    <3> QED
      BY <2>1, <2>2, <2>3
  <2>8. /\ call' = [d \in Callers |-> [pc |-> call'[d].pc, pool |-> call'[d].pool]]
        /\ \A d \in Callers \ {c} : call'[d] = call[d]
        /\ call'[c].pc = "sent" /\ call'[c].pool = p
    <3>1. call[c] = [pc |-> call[c].pc, pool |-> call[c].pool]
      BY DEF PoolInv, PoolTypes
    <3>2. [call[c] EXCEPT !.pc = "sent"] = [pc |-> "sent", pool |-> call[c].pool]
      BY <3>1
    <3>3. call' = [call EXCEPT ![c] = [pc |-> "sent", pool |-> call[c].pool]]
      BY <2>1, <3>2
    <3> QED
      BY <3>3 DEF PoolInv, PoolTypes
  <2> HIDE DEF s, kept, wire, old, q, spare, p
  <2>9. PoolTypes'
    <3>1. \A d \in Callers : call'[d].pc \in {"none", "permit", "sent"}
                          /\ (Pool!Calls(d)' => call'[d].pool \in Pools)
      BY <2>4, <2>8 DEF PoolInv, PoolTypes, Pool!Calls
    <3>2. socks' = [x \in DOMAIN socks' |->
               [pool |-> socks'[x].pool, owner |-> socks'[x].owner, user |-> socks'[x].user,
                wire |-> socks'[x].wire, replies |-> socks'[x].replies]]
      <4>1. \A x \in DOMAIN socks' : socks'[x] =
               [pool |-> socks'[x].pool, owner |-> socks'[x].owner, user |-> socks'[x].user,
                wire |-> socks'[x].wire, replies |-> socks'[x].replies]
        BY <2>5, <2>7 DEF PoolInv, PoolTypes
      <4> QED
        BY <2>7, <4>1
    <3>3. DOMAIN socks' \subseteq 1..(Budget + 1)
      BY <2>2, <2>5, <2>7 DEF PoolInv, PoolTypes
    <3>4. Queued' = Queued
      BY DEF Queued, Pool!Owners
    <3> QED
      BY <2>1, <2>8, <3>1, <3>2, <3>3, <3>4 DEF PoolInv, PoolTypes
  <2>10. \A d \in Callers : (Pool!Calls(d)' <=> Pool!Calls(d)) /\ Pool!LineOf(d)' = Pool!LineOf(d)
    BY <1>1, <2>8 DEF Pool!Calls, Pool!LineOf, p
  <2>11. LinesAgree'
    <3>1. Queued' = Queued
      BY DEF Queued, Pool!Owners
    <3>2. \A x \in Queued : \A i \in DOMAIN line[x] : line[x][i] \in Callers
      BY DEF PoolInv, PoolTypes
    <3> QED
      BY <2>1, <2>10, <3>1, <3>2 DEF PoolInv, LinesAgree
  <2>12. PermitsHeld'
    <3> SUFFICES ASSUME NEW d \in Callers, call'[d].pc = "sent"
                 PROVE  Pool!HasPermit(d)'
      BY DEF PermitsHeld
    <3>1. Pool!HasPermit(d)
      BY <1>1, <2>8 DEF PoolInv, PermitsHeld
    <3> QED
      BY <2>1, <2>10, <3>1 DEF Pool!HasPermit
  <2>13. SocksAgree'
    <3>1. \A x \in kept \ {s} : /\ socks'[x] = socks[x] /\ x \in DOMAIN socks /\ socks[x].user # c
      BY <1>2, <2>5, <2>7
    <3>2. \A x \in DOMAIN socks' : x = s \/ x \in kept \ {s}
      BY <2>7
    <3>3. \A x \in kept \ {s} : socks[x].user # Nobody =>
            socks[x].user \in Callers \ {c} /\ call'[socks[x].user] = call[socks[x].user]
      BY <2>8, <3>1 DEF PoolInv, SocksAgree
    <3>4. \A x \in DOMAIN socks' : socks'[x].user = Nobody =>
            socks'[x].wire = << >> /\ socks'[x].replies = << >>
      BY <2>7, <3>1, <3>2, Constants DEF PoolInv, SocksAgree
    <3>5. \A x \in DOMAIN socks' : socks'[x].user # Nobody =>
            LET d == socks'[x].user
            IN  /\ d \in Callers /\ call'[d].pc = "sent"
                /\ socks'[x].pool = call'[d].pool /\ socks'[x].owner = OwnerOf[d]
                /\ \/ socks'[x].wire = <<d>> /\ socks'[x].replies = << >>
                   \/ socks'[x].wire = << >> /\ socks'[x].replies = <<d>>
      <4> TAKE x \in DOMAIN socks'
      <4>1. CASE x = s
        BY <2>7, <2>8, <4>1
      <4>2. CASE x \in kept \ {s}
        BY <3>1, <3>3, <4>2 DEF PoolInv, SocksAgree
      <4> QED
        BY <3>2, <4>1, <4>2
    <3>6. \A x, y \in DOMAIN socks' : socks'[x].user = socks'[y].user /\ socks'[x].user # Nobody => x = y
      BY <2>7, <3>1, <3>2 DEF PoolInv, SocksAgree
    <3> QED
      BY <3>4, <3>5, <3>6 DEF SocksAgree
  <2>14. SocketsStayBounded'
    <3>1. ASSUME NEW x \in Queued, x # q \/ spare # {}
          PROVE  Pool!Bucket(x)' \subseteq Pool!Bucket(x)
      <4>1. CASE x # q
        <5>1. x[1] # p \/ x[2] # OwnerOf[c]
          BY <2>4, <4>1 DEF Queued
        <5> QED
          BY <2>5, <2>7, <5>1 DEF Pool!Bucket
      <4>2. CASE x = q /\ spare # {}
        <5>1. s \in Pool!Bucket(x)
          BY <2>2, <2>6, <4>2
        <5> QED
          BY <2>5, <2>7, <5>1 DEF Pool!Bucket
      <4> QED
        BY <3>1, <4>1, <4>2
    <3>2. CASE spare # {}
      <4>1. \A x \in Queued : Pool!Bucket(x)' \subseteq Pool!Bucket(x)
        BY <3>1, <3>2
      <4> QED
        BY <4>1, FewerSockets DEF PoolInv
    <3>3. CASE spare = {}
      <4>1. Cardinality(Pool!Bucket(q)) < MaxSize
        BY <1>1, <3>3, RoomForOneMore DEF q, spare
      <4>2. ASSUME NEW x \in Queued
            PROVE  Cardinality(Pool!Bucket(x)') <= MaxSize
        <5> DEFINE B == Pool!Bucket(x)
                   C == Pool!Bucket(x)'
        <5>1. IsFiniteSet(B)
          BY BucketsAreFinite DEF PoolInv
        <5>2. Cardinality(B) <= MaxSize
          BY CardinalityIsOne DEF PoolInv, SocketsStayBounded, Pool!SocketsStayBounded, Queued
        <5>3. Cardinality(B) \in Nat
          BY <5>1, FS_CardinalityType
        <5>4. CASE x # q
          <6>1. C \in SUBSET B
            BY <3>1, <5>4
          <6> HIDE DEF B, C
          <6>2. Cardinality(C) <= Cardinality(B) /\ Cardinality(C) \in Nat
            BY <5>1, <6>1, FS_Subset, FS_CardinalityType
          <6>3. Cardinality(C) <= MaxSize
            BY <5>2, <5>3, <6>2, Constants
          <6> QED
            BY <6>3 DEF C
        <5>5. CASE x = q
          <6>1. C \in SUBSET (B \cup {s})
            BY <2>5, <2>7 DEF Pool!Bucket
          <6>2. Cardinality(B) < MaxSize
            BY <4>1, <5>5
          <6> HIDE DEF B, C
          <6>3. IsFiniteSet(B \cup {s}) /\ Cardinality(B \cup {s}) <= Cardinality(B) + 1
            <7>1. /\ IsFiniteSet(B \cup {s})
                  /\ Cardinality(B \cup {s}) = IF s \in B THEN Cardinality(B) ELSE Cardinality(B) + 1
              BY <5>1, FS_AddElement
            <7> QED
              BY <5>3, <7>1
          <6>4. Cardinality(C) <= Cardinality(B \cup {s}) /\ Cardinality(C) \in Nat /\ Cardinality(B \cup {s}) \in Nat
            BY <6>1, <6>3, FS_Subset, FS_CardinalityType
          <6>5. Cardinality(C) <= MaxSize
            BY <5>3, <6>2, <6>3, <6>4, Constants
          <6> QED
            BY <6>5 DEF C
        <5> QED
          BY <5>4, <5>5
      <4> QED
        BY <4>2, CardinalityIsOne DEF SocketsStayBounded, Pool!SocketsStayBounded, Queued, Pool!Owners
    <3> QED
      BY <3>2, <3>3
  <2> QED
    BY <2>9, <2>11, <2>12, <2>13, <2>14 DEF PoolInv
<1> QED
  BY <1>3, <1>4

LEMMA PoolStays ==
  ASSUME PoolInv, UNCHANGED poolVars
  PROVE  PoolInv'
<1>1. socks' = socks /\ line' = line /\ call' = call
  BY DEF poolVars
<1>2. PoolTypes'
  BY <1>1 DEF PoolInv, PoolTypes, Pool!Calls, Queued, Pool!Owners
<1>3. LinesAgree' /\ PermitsHeld'
  BY <1>1 DEF PoolInv, LinesAgree, PermitsHeld, Pool!Calls, Pool!LineOf, Queued, Pool!Owners, Pool!HasPermit
<1>4. SocksAgree'
  BY <1>1 DEF PoolInv, SocksAgree
<1>5. SocketsStayBounded'
  <2>1. \A q \in Queued : Pool!Bucket(q)' \subseteq Pool!Bucket(q)
    BY <1>1 DEF Pool!Bucket
  <2> QED
    BY <2>1, FewerSockets DEF PoolInv
<1> QED
  BY <1>2, <1>3, <1>4, <1>5 DEF PoolInv

LEMMA PoolInitially == Pool!PoolInit => PoolInv
<1> SUFFICES ASSUME Pool!PoolInit PROVE PoolInv
  OBVIOUS
<1>1. /\ socks = << >> /\ DOMAIN socks = {}
      /\ line = [q \in Queued |-> << >>]
      /\ call = [c \in Callers |-> [pc |-> "none", pool |-> Nobody]]
  BY DEF Pool!PoolInit, Pool!NoCall, Queued, Pool!Owners
<1>2. PoolTypes
  <2>1. << >> \in Seq(Callers)
    OBVIOUS
  <2> QED
    BY <1>1, <2>1 DEF PoolTypes, Pool!Calls
<1>3. LinesAgree /\ SocksAgree /\ PermitsHeld
  BY <1>1 DEF LinesAgree, SocksAgree, PermitsHeld
<1>4. SocketsStayBounded
  <2> SUFFICES ASSUME NEW q \in Pools \X Pool!Owners
               PROVE  Cardinality(Pool!Bucket(q)) <= MaxSize
    BY CardinalityIsOne DEF SocketsStayBounded, Pool!SocketsStayBounded
  <2>1. Pool!Bucket(q) = {}
    BY <1>1 DEF Pool!Bucket
  <2> QED
    BY <2>1, FS_EmptySet, Constants
<1> QED
  BY <1>2, <1>3, <1>4 DEF PoolInv

-----------------------------------------------------------------------------
(* The process.                                                            *)

LEMMA ProcessStep == LockInv /\ PoolInv /\ [Next]_vars => LockInv' /\ PoolInv'
<1> SUFFICES ASSUME LockInv, PoolInv, [Next]_vars
             PROVE  LockInv' /\ PoolInv'
  OBVIOUS
<1>1. ASSUME NEW c \in Callers, NEW named,
             \/ Locks(Lock!Enter(c, named)) \/ Locks(Lock!Take(c)) \/ Locks(Lock!Woken(c))
             \/ Locks(Lock!Timeout(c)) \/ Locks(Lock!CancelWait(c)) \/ Locks(Lock!Exit(c))
             \/ Locks(Lock!Leave(c)) \/ Locks(Lock!Collect(c))
      PROVE  LockInv' /\ PoolInv'
  BY <1>1, LockStep, PoolStays DEF Locks
<1>2. ASSUME NEW c \in Callers,
             \/ \E p \in Requests[c] : Sends(Pool!Call(c, p))
             \/ Sends(Pool!Lease(c)) \/ Sends(Pool!Receive(c)) \/ Sends(Pool!TimeOut(c))
             \/ Sends(Pool!CancelCall(c)) \/ Sends(Pool!CollectCall(c))
      PROVE  LockInv' /\ PoolInv'
  <2>1. LockInv'
    BY <1>2, LockStays DEF Sends
  <2>2. CASE \E p \in Requests[c] : Sends(Pool!Call(c, p))
    BY <2>1, <2>2, CallKeeps, CallersAndPools DEF Sends
  <2>3. CASE Sends(Pool!Lease(c)) \/ Sends(Pool!Receive(c))
    BY <2>1, <2>3, LeaseKeeps, ReceiveKeeps DEF Sends
  <2>4. CASE Sends(Pool!TimeOut(c)) \/ Sends(Pool!CancelCall(c)) \/ Sends(Pool!CollectCall(c))
    <3>1. Pool!Calls(c) /\ Pool!Poison(c) /\ Pool!Ended(c)
      BY <2>4 DEF Sends, Pool!TimeOut, Pool!CancelCall, Pool!CollectCall, Pool!Calls
    <3> QED
      BY <2>1, <3>1, PoisonKeeps
  <2> QED
    BY <1>2, <2>2, <2>3, <2>4
<1>3. ASSUME NEW s \in DOMAIN socks, Sends(Pool!Reply(s))
      PROVE  LockInv' /\ PoolInv'
  BY <1>3, LockStays, ReplyKeeps DEF Sends
<1>4. CASE \E l \in Fragile : Close(l)
  BY <1>4, LockStays, PoolStays DEF Close
<1>5. CASE UNCHANGED vars
  BY <1>5, LockStays, PoolStays DEF vars
<1> QED
  BY <1>1, <1>2, <1>3, <1>4, <1>5 DEF Next, Exits, Collect, Calls

(* A key of the local lock has one owner, whatever races its hand-over     *)
(* (kv_lock.py): for any callers, keys and loops.                          *)
THEOREM LocalLocksAreSafe == Spec => []KeysAreOwnedOnce
<1>1. Init => LockInv /\ PoolInv
  BY LockInitially, PoolInitially DEF Init
<1> QED
  BY <1>1, ProcessStep, LockInvImplies, PTL DEF Spec

(* A reply goes to the caller whose request it answers (zmq_utils.py), for *)
(* any callers, pools and loops.                                           *)
THEOREM RepliesFindTheirCaller == Spec => []RepliesAreOwn
<1>1. Init => LockInv /\ PoolInv
  BY LockInitially, PoolInitially DEF Init
<1> QED
  BY <1>1, ProcessStep, PoolInvImplies, PTL DEF Spec

(* No more than MaxSize sockets are open to a peer from one loop, whatever *)
(* the size of the pool and the budget of the context.                     *)
THEOREM PoolsStayBounded == Spec => []SocketsStayBounded
<1>1. Init => LockInv /\ PoolInv
  BY LockInitially, PoolInitially DEF Init
<1>2. PoolInv => SocketsStayBounded
  BY DEF PoolInv
<1> QED
  BY <1>1, <1>2, ProcessStep, PTL DEF Spec

-----------------------------------------------------------------------------
(* Sessions.  A process as a record, and what is alive.                    *)

IsProcess(r) ==
  /\ r = [pc |-> r.pc, handle |-> r.handle, client |-> r.client, owner |-> r.owner, owned |-> r.owned,
          storage |-> r.storage, sent |-> r.sent, asked |-> r.asked, acked |-> r.acked]
  /\ r.client = [session |-> r.client.session, units |-> r.client.units, known |-> r.client.known,
                 ready |-> r.client.ready]
  /\ {r.handle, r.storage, r.sent, r.asked, r.acked} \subseteq Nat
  /\ r.owned \subseteq Shards \X Nat /\ r.owner \in BOOLEAN

SessionTypes ==
  /\ begun \in Nat /\ creator \in [1..begun -> Procs] /\ controller \in 0..begun
  /\ locks \in [Shards -> Nat] /\ units \in Nat /\ config \in Nat
  /\ proc = [p \in Procs |-> proc[p]] /\ \A p \in Procs : IsProcess(proc[p])

Bringing == {"locks", "storage", "store", "client"}

(* Nothing outlives its session: what is alive is of the controller's, and *)
(* its creator is there to kill it.                                        *)
AliveIsOwned ==
  /\ controller # 0 => proc[creator[controller]].owner = TRUE
  /\ controller # 0 => config \in {0, controller}
  /\ \A s \in Shards : locks[s] # 0 =>
       controller # 0 /\ locks[s] = controller /\ <<s, controller>> \in proc[creator[controller]].owned
  /\ units # 0 => controller # 0 /\ units = controller /\ proc[creator[controller]].storage = units

(* A process r that is an owner is the creator of the living controller,   *)
(* and has what it brought up; the others have nothing.                    *)
OwnsAlive(p, r) ==
  IF r.owner = TRUE
  THEN /\ controller # 0 /\ r.handle = controller /\ creator[controller] = p
       /\ \A o \in r.owned : o[2] = controller /\ locks[o[1]] = controller
       /\ r.storage # 0 => r.storage = controller /\ units = controller
  ELSE r.owned = {} /\ r.storage = 0

InItsPlace(r) ==
  /\ r.pc \in Bringing => r.owner = TRUE
  /\ r.pc \in {"create", "adopt"} => r.handle = 0
  /\ r.pc = "poll" => r.handle # 0
  /\ r.pc = "store" => r.storage # 0
  /\ r.pc = "client" => config = r.handle
  /\ r.pc \in {"parting", "closing"} => r.storage = 0
  /\ r.pc = "closing" => r.client = NoClient

ClientFits(r) ==
  /\ r.client # NoClient => r.handle # 0 /\ r.client.session = r.handle /\ r.client.units = r.handle
  /\ r.client.ready = TRUE => r.client.known = TRUE
  /\ r.pc # "connect" => r.asked = 0 /\ r.acked = 0
  /\ r.pc = "connect" => r.client # NoClient
  /\ r.acked # 0 => r.client.known = TRUE

Sound(p, r) == OwnsAlive(p, r) /\ InItsPlace(r) /\ ClientFits(r)

SessionInv == SessionTypes /\ AliveIsOwned /\ \A p \in Procs : Sound(p, proc[p])

-----------------------------------------------------------------------------
LEMMA SetChangesOne ==
  ASSUME SessionTypes, NEW p \in Procs, NEW new, Set(p, new)
  PROVE  /\ proc'[p] = new /\ \A q \in Procs \ {p} : proc'[q] = proc[q]
         /\ IsProcess(new) => proc' = [q \in Procs |-> proc'[q]] /\ \A q \in Procs : IsProcess(proc'[q])
BY DEF Set, SessionTypes

(* Two processes do not own the controller.                                *)
LEMMA OneOwner ==
  ASSUME SessionInv, NEW p \in Procs, NEW q \in Procs, proc[p].owner = TRUE, proc[q].owner = TRUE
  PROVE  p = q
BY DEF SessionInv, Sound, OwnsAlive

(* What a process that owns nothing has to do with the world is nothing.   *)
LEMMA OthersAreSound ==
  ASSUME SessionInv, NEW q \in Procs, proc[q].owner # TRUE, proc'[q] = proc[q]
  PROVE  Sound(q, proc[q])'
<1>1. Sound(q, proc[q])
  BY DEF SessionInv
<1>2. proc[q].pc # "client"
  BY <1>1 DEF Sound, InItsPlace, Bringing
<1>3. OwnsAlive(q, proc[q])'
  BY <1>1 DEF Sound, OwnsAlive
<1>4. InItsPlace(proc[q])'
  BY <1>1, <1>2 DEF Sound, InItsPlace, NoClient
<1>5. ClientFits(proc[q])'
  BY <1>1 DEF Sound, ClientFits, NoClient
<1> QED
  BY <1>3, <1>4, <1>5 DEF Sound

(* A step of p that leaves the world as it is, and what p owns in it.      *)
LEMMA LocalStep ==
  ASSUME SessionInv, NEW p \in Procs, NEW new, IsProcess(new), Set(p, new), UNCHANGED world,
         new.owner = proc[p].owner, new.owned = proc[p].owned, new.storage = proc[p].storage,
         new.owner = TRUE => new.handle = proc[p].handle,
         InItsPlace(new), ClientFits(new)
  PROVE  SessionInv'
<1>1. /\ proc'[p] = new /\ (\A q \in Procs \ {p} : proc'[q] = proc[q]) 
      /\ proc' = [q \in Procs |-> proc'[q]] /\ \A q \in Procs : IsProcess(proc'[q])
      /\ UNCHANGED <<begun, creator, controller, config, locks, units>>
  BY SetChangesOne DEF SessionInv, world
<1>2. SessionTypes'
  BY <1>1 DEF SessionInv, SessionTypes, IsProcess, Shards
<1>3. controller # 0 => creator[controller] \in Procs
  BY DEF SessionInv, SessionTypes
<1>4. \A q \in Procs : /\ proc'[q].owner = proc[q].owner /\ proc'[q].owned = proc[q].owned
                       /\ proc'[q].storage = proc[q].storage
  BY <1>1
<1>5. AliveIsOwned'
  BY <1>1, <1>3, <1>4 DEF SessionInv, AliveIsOwned, Shards
<1>6. ASSUME NEW q \in Procs
      PROVE  Sound(q, proc[q])'
  <2>1. CASE q = p
    <3>1. OwnsAlive(p, proc[p])
      BY DEF SessionInv, Sound
    <3>2. OwnsAlive(p, new)
      BY <3>1 DEF OwnsAlive
    <3> QED
      BY <1>1, <2>1, <3>2 DEF Sound, OwnsAlive, InItsPlace, ClientFits, NoClient
  <2>2. CASE q # p
    <3>1. Sound(q, proc[q])
      BY DEF SessionInv
    <3> QED
      BY <1>1, <2>2, <3>1 DEF Sound, OwnsAlive, InItsPlace, ClientFits, NoClient
  <2> QED
    BY <2>1, <2>2
<1> QED
  BY <1>2, <1>5, <1>6 DEF SessionInv

(* What SessionInv says of one process.                                    *)
LEMMA OfOne ==
  ASSUME SessionInv, NEW p \in Procs
  PROVE  /\ IsProcess(proc[p])
         /\ OwnsAlive(p, proc[p]) /\ InItsPlace(proc[p]) /\ ClientFits(proc[p])
         /\ {controller, config, units, begun} \subseteq Nat
BY DEF SessionInv, SessionTypes, Sound

(* A client stays what it is when its process turns to something else.     *)
LEMMA ClientStays ==
  ASSUME NEW r, NEW new, ClientFits(r), r.pc # "connect", new.pc # "connect", new.client = r.client,
         new.asked = r.asked, new.acked = r.acked, r.handle # 0 => new.handle = r.handle
  PROVE  ClientFits(new)
BY DEF ClientFits

LEMMA SearchKeeps ==
  ASSUME SessionInv, NEW p \in Procs, BeginInit(p) \/ LoseRace(p) \/ Adopt(p)
  PROVE  SessionInv'
<1>1. UNCHANGED world /\ IsProcess(proc[p])
  BY OfOne DEF BeginInit, LoseRace, Adopt
<1>2. proc[p].pc \in {"idle", "create", "adopt"}
  BY DEF BeginInit, LoseRace, Adopt, At
<1>3. Found(p) \in Nat /\ (proc[p].handle # 0 => Found(p) = proc[p].handle)
  BY OfOne DEF Found, IsProcess
<1>4. PICK new : Set(p, new) /\ \E pc, handle :
        /\ handle \in Nat /\ (proc[p].handle # 0 => handle = proc[p].handle)
        /\ (pc \in {"create", "adopt"} /\ handle = 0) \/ pc = "idle" \/ (pc = "poll" /\ handle # 0)
        /\ new = [pc |-> pc, handle |-> handle, client |-> proc[p].client,
                  owner |-> proc[p].owner, owned |-> proc[p].owned, storage |-> proc[p].storage,
                  sent |-> proc[p].sent, asked |-> proc[p].asked, acked |-> proc[p].acked]
  <2>1. CASE BeginInit(p) \/ Adopt(p)
    <3>1. PICK new, pc : /\ Set(p, new) /\ new = [proc[p] EXCEPT !.handle = Found(p), !.pc = pc]
                         /\ pc = IF Found(p) # 0 THEN "poll" ELSE IF BeginInit(p) THEN "create" ELSE "idle"
      BY <2>1 DEF BeginInit, Adopt, Set
    <3>2. new = [pc |-> pc, handle |-> Found(p), client |-> proc[p].client,
                 owner |-> proc[p].owner, owned |-> proc[p].owned, storage |-> proc[p].storage,
                 sent |-> proc[p].sent, asked |-> proc[p].asked, acked |-> proc[p].acked]
      BY <1>1, <3>1 DEF IsProcess
    <3> QED
      BY <1>3, <3>1, <3>2
  <2>2. CASE LoseRace(p)
    <3>1. PICK new : Set(p, new) /\ new = [proc[p] EXCEPT !.pc = "adopt"] /\ proc[p].pc = "create"
      BY <2>2 DEF LoseRace, At, Go, Set
    <3>2. new = [pc |-> "adopt", handle |-> proc[p].handle, client |-> proc[p].client,
                 owner |-> proc[p].owner, owned |-> proc[p].owned, storage |-> proc[p].storage,
                 sent |-> proc[p].sent, asked |-> proc[p].asked, acked |-> proc[p].acked]
      BY <1>1, <3>1 DEF IsProcess
    <3>3. proc[p].handle = 0
      BY <3>1, OfOne DEF InItsPlace
    <3> QED
      BY <3>1, <3>2, <3>3
  <2> QED
    BY <2>1, <2>2
<1>5. /\ new.owner = proc[p].owner /\ new.owned = proc[p].owned /\ new.storage = proc[p].storage
      /\ proc[p].handle # 0 => new.handle = proc[p].handle
      /\ new.pc # "connect" /\ new.client = proc[p].client /\ new.asked = proc[p].asked /\ new.acked = proc[p].acked
      /\ IsProcess(new)
  BY <1>1, <1>4 DEF IsProcess
<1>6. InItsPlace(new)
  BY <1>2, <1>4, OfOne DEF InItsPlace, Bringing
<1>7. ClientFits(new)
  <2>1. ClientFits(proc[p]) /\ proc[p].pc # "connect"
    BY <1>2, OfOne
  <2> QED
    BY <1>5, <2>1, ClientStays
<1>8. new.owner = TRUE => new.handle = proc[p].handle
  BY <1>5, OfOne DEF OwnsAlive
<1> QED
  BY <1>1, <1>4, <1>5, <1>6, <1>7, <1>8, LocalStep

(* A step of p that changes its client, or its handshake, and where it is. *)
LEMMA ClientStep ==
  ASSUME SessionInv, NEW p \in Procs, UNCHANGED world, NEW new, Set(p, new), IsProcess(new),
         new.handle = proc[p].handle, new.owner = proc[p].owner, new.owned = proc[p].owned,
         new.storage = proc[p].storage,
         \/ new.pc \in {"idle", "connect"}
         \/ proc[p].pc = "parting" /\ new.pc = "closing" /\ new.client = NoClient,
         ClientFits(new)
  PROVE  SessionInv'
<1>1. InItsPlace(proc[p])
  BY OfOne
<1>2. InItsPlace(new)
  BY <1>1 DEF InItsPlace, Bringing
<1> QED
  BY <1>2, LocalStep

LEMMA WithClientKeeps ==
  ASSUME SessionInv, NEW p \in Procs, UNCHANGED world, Set(p, WithClient(p)), proc[p].pc # "connect",
         proc[p].pc \notin {"parting", "closing"},
         proc[p].handle # 0 /\ config = proc[p].handle
  PROVE  SessionInv'
<1>1. IsProcess(proc[p]) /\ ClientFits(proc[p])
  BY OfOne
<1>2. CASE proc[p].client # NoClient
  <2>1. PICK new : new = [proc[p] EXCEPT !.pc = "idle"]
    OBVIOUS
  <2>2. Set(p, new)
    BY <1>2, <2>1 DEF WithClient
  <2>3. new = [pc |-> "idle", handle |-> proc[p].handle, client |-> proc[p].client, owner |-> proc[p].owner,
               owned |-> proc[p].owned, storage |-> proc[p].storage,
               sent |-> proc[p].sent, asked |-> proc[p].asked, acked |-> proc[p].acked]
    BY <1>1, <2>1 DEF IsProcess
  <2>4. ClientFits(new)
    BY <1>1, <2>3, ClientStays
  <2> QED
    BY <1>1, <2>2, <2>3, <2>4, ClientStep DEF IsProcess
<1>3. CASE proc[p].client = NoClient
  <2>1. PICK client : client = NewClient(p)
    OBVIOUS
  <2>2. client = [session |-> proc[p].handle, units |-> proc[p].handle, known |-> FALSE, ready |-> FALSE]
    BY <2>1 DEF NewClient
  <2>3. PICK new : new = Sent([Hung(proc[p]) EXCEPT !.pc = "connect", !.sent = 0, !.client = client])
    OBVIOUS
  <2>4. Set(p, new)
    BY <1>3, <2>1, <2>3 DEF WithClient
  <2>5. PICK hung : hung = Hung(proc[p])
    OBVIOUS
  <2>6. hung = [pc |-> proc[p].pc, handle |-> proc[p].handle, client |-> proc[p].client, owner |-> proc[p].owner,
                owned |-> proc[p].owned, storage |-> proc[p].storage, sent |-> proc[p].sent, asked |-> 0, acked |-> 0]
    BY <1>1, <2>5 DEF Hung, IsProcess
  <2>7. PICK begin : begin = [hung EXCEPT !.pc = "connect", !.sent = 0, !.client = client]
    OBVIOUS
  <2>8. begin = [pc |-> "connect", handle |-> proc[p].handle, client |-> client, owner |-> proc[p].owner,
                owned |-> proc[p].owned, storage |-> proc[p].storage, sent |-> 0, asked |-> 0, acked |-> 0]
    BY <2>6, <2>7
  <2>9. new = [begin EXCEPT !.sent = @ + 1, !.asked = @ + 1]
    BY <2>3, <2>5, <2>7 DEF Sent
  <2>10. new = [pc |-> "connect", handle |-> proc[p].handle, client |-> client, owner |-> proc[p].owner,
                owned |-> proc[p].owned, storage |-> proc[p].storage, sent |-> 1, asked |-> 1, acked |-> 0]
    <3>1. begin.sent = 0 /\ begin.asked = 0
      BY <2>8
    <3>2. new = [begin EXCEPT !.sent = 1, !.asked = 1]
      BY <2>8, <2>9, <3>1
    <3> QED
      BY <2>8, <3>2
  <2>11. client # NoClient /\ client.ready = FALSE
    BY <2>2 DEF NoClient
  <2>12. ClientFits(new)
    BY <2>2, <2>10, <2>11 DEF ClientFits
  <2>13. IsProcess(new)
    BY <1>1, <2>2, <2>10 DEF IsProcess
  <2> QED
    BY <2>4, <2>10, <2>12, <2>13, ClientStep
<1> QED
  BY <1>2, <1>3

LEMMA PollKeeps ==
  ASSUME SessionInv, NEW p \in Procs, Poll(p)
  PROVE  SessionInv'
<1>1. UNCHANGED world /\ proc[p].pc = "poll" /\ IsProcess(proc[p]) /\ ClientFits(proc[p])
  BY OfOne DEF Poll, At
<1>2. CASE Go(p, "idle")
  <2>1. PICK new : new = [proc[p] EXCEPT !.pc = "idle"]
    OBVIOUS
  <2>2. Set(p, new)
    BY <1>2, <2>1 DEF Go
  <2>3. new = [pc |-> "idle", handle |-> proc[p].handle, client |-> proc[p].client, owner |-> proc[p].owner,
               owned |-> proc[p].owned, storage |-> proc[p].storage,
               sent |-> proc[p].sent, asked |-> proc[p].asked, acked |-> proc[p].acked]
    BY <1>1, <2>1 DEF IsProcess
  <2>4. ClientFits(new)
    BY <1>1, <2>3, ClientStays
  <2> QED
    BY <1>1, <2>2, <2>3, <2>4, ClientStep DEF IsProcess
<1>3. CASE controller = proc[p].handle /\ config # 0 /\ Set(p, WithClient(p))
  <2>1. ClientFits(proc[p]) /\ AliveIsOwned
    BY OfOne DEF SessionInv
  <2>2. controller # 0
    BY <1>1, <1>3, OfOne DEF InItsPlace
  <2>3. config = proc[p].handle
    BY <1>3, <2>1, <2>2 DEF AliveIsOwned
  <2> QED
    BY <1>1, <1>3, <2>2, <2>3, WithClientKeeps
<1> QED
  BY <1>1, <1>2, <1>3 DEF Poll

LEMMA StorageFailsKeeps ==
  ASSUME SessionInv, NEW p \in Procs, StorageFails(p)
  PROVE  SessionInv'
<1>1. UNCHANGED world /\ proc[p].pc = "storage" /\ IsProcess(proc[p]) /\ ClientFits(proc[p])
  BY OfOne DEF StorageFails, At
<1>2. PICK new : new = [proc[p] EXCEPT !.pc = "idle"]
  OBVIOUS
<1>3. Set(p, new)
  BY <1>2 DEF StorageFails, Go
<1>4. new = [pc |-> "idle", handle |-> proc[p].handle, client |-> proc[p].client, owner |-> proc[p].owner,
             owned |-> proc[p].owned, storage |-> proc[p].storage,
             sent |-> proc[p].sent, asked |-> proc[p].asked, acked |-> proc[p].acked]
  BY <1>1, <1>2 DEF IsProcess
<1>5. ClientFits(new)
  BY <1>1, <1>4, ClientStays
<1> QED
  BY <1>1, <1>3, <1>4, <1>5, ClientStep DEF IsProcess

LEMMA MakeClientKeeps ==
  ASSUME SessionInv, NEW p \in Procs, MakeClient(p)
  PROVE  SessionInv'
<1>1. UNCHANGED world /\ proc[p].pc = "client" /\ Set(p, WithClient(p))
  BY DEF MakeClient, At
<1>2. InItsPlace(proc[p]) /\ OwnsAlive(p, proc[p])
  BY OfOne
<1>3. proc[p].handle # 0 /\ config = proc[p].handle
  BY <1>1, <1>2 DEF InItsPlace, OwnsAlive, Bringing
<1> QED
  BY <1>1, <1>3, WithClientKeeps

LEMMA CloseClientKeeps ==
  ASSUME SessionInv, NEW p \in Procs, CloseClient(p)
  PROVE  SessionInv'
<1>1. UNCHANGED world /\ proc[p].pc = "parting" /\ IsProcess(proc[p]) /\ ClientFits(proc[p])
  BY OfOne DEF CloseClient, At
<1>2. PICK new : new = [proc[p] EXCEPT !.pc = "closing", !.client = NoClient] /\ Set(p, new)
  BY DEF CloseClient
<1>3. new = [pc |-> "closing", handle |-> proc[p].handle, client |-> NoClient, owner |-> proc[p].owner,
             owned |-> proc[p].owned, storage |-> proc[p].storage,
             sent |-> proc[p].sent, asked |-> proc[p].asked, acked |-> proc[p].acked]
  BY <1>1, <1>2 DEF IsProcess
<1>4. NoClient = [session |-> 0, units |-> 0, known |-> FALSE, ready |-> FALSE]
  BY DEF NoClient
<1>5. NoClient = [session |-> NoClient.session, units |-> NoClient.units, known |-> NoClient.known,
                  ready |-> NoClient.ready]
  BY <1>4
<1>6. ClientFits(new)
  BY <1>1, <1>3, <1>4 DEF ClientFits
<1>7. {proc[p].sent, proc[p].asked, proc[p].acked} \subseteq Nat
  BY <1>1 DEF IsProcess
<1>8. IsProcess(new)
  BY <1>1, <1>3, <1>5, <1>7 DEF IsProcess
<1> QED
  BY <1>1, <1>2, <1>3, <1>6, <1>8, ClientStep

(* Each step of a handshake.                                               *)
LEMMA HandshakeKeeps ==
  ASSUME SessionInv, NEW p \in Procs, ServeHandshake(p) \/ Retransmit(p) \/ Connected(p) \/ GiveUp(p)
  PROVE  SessionInv'
<1>1. UNCHANGED world /\ IsProcess(proc[p]) /\ ClientFits(proc[p])
  BY OfOne DEF ServeHandshake, Retransmit, Connected, GiveUp
<1> DEFINE client == proc[p].client
<1>2. CASE ServeHandshake(p)
  <2>1. proc[p].asked \in Nat \ {0} /\ proc[p].acked \in Nat /\ proc[p].sent \in Nat
    BY <1>1, <1>2 DEF ServeHandshake, IsProcess
  <2>2. proc[p].pc = "connect" /\ client # NoClient
    BY <1>1, <2>1 DEF ClientFits
  <2>3. PICK heard : heard = [proc[p].client EXCEPT !.known = TRUE]
    OBVIOUS
  <2>4. heard = [session |-> client.session, units |-> client.units, known |-> TRUE, ready |-> client.ready]
    BY <1>1, <2>3 DEF IsProcess
  <2>5. PICK new : /\ new = [proc[p] EXCEPT !.asked = @ - 1, !.acked = @ + 1, !.client.known = TRUE]
                   /\ Set(p, new)
    BY <1>2 DEF ServeHandshake
  <2>6. new = [pc |-> "connect", handle |-> proc[p].handle, client |-> heard, owner |-> proc[p].owner,
               owned |-> proc[p].owned, storage |-> proc[p].storage,
               sent |-> proc[p].sent, asked |-> proc[p].asked - 1, acked |-> proc[p].acked + 1]
    <3>1. PICK one : one = [proc[p] EXCEPT !.asked = proc[p].asked - 1]
      OBVIOUS
    <3>2. one = [pc |-> "connect", handle |-> proc[p].handle, client |-> client, owner |-> proc[p].owner,
               owned |-> proc[p].owned, storage |-> proc[p].storage,
               sent |-> proc[p].sent, asked |-> proc[p].asked - 1, acked |-> proc[p].acked]
      BY <1>1, <2>2, <3>1 DEF IsProcess
    <3>3. PICK two : two = [one EXCEPT !.acked = one.acked + 1]
      OBVIOUS
    <3>4. two = [pc |-> "connect", handle |-> proc[p].handle, client |-> client, owner |-> proc[p].owner,
               owned |-> proc[p].owned, storage |-> proc[p].storage,
               sent |-> proc[p].sent, asked |-> proc[p].asked - 1, acked |-> proc[p].acked + 1]
      BY <3>2, <3>3
    <3>5. new = [two EXCEPT !.client = [two.client EXCEPT !.known = TRUE]]
      BY <2>5, <3>1, <3>3
    <3>6. new = [two EXCEPT !.client = heard]
      BY <2>3, <3>4, <3>5
    <3> QED
      BY <3>4, <3>6
  <2>7. heard # NoClient
    BY <2>4 DEF NoClient
  <2>8. ClientFits(new)
    BY <1>1, <2>1, <2>2, <2>4, <2>6, <2>7 DEF ClientFits
  <2>9. /\ proc[p].asked - 1 \in Nat /\ proc[p].acked + 1 \in Nat /\ proc[p].sent \in Nat
        /\ heard = [session |-> heard.session, units |-> heard.units, known |-> heard.known, ready |-> heard.ready]
    BY <2>1, <2>4
  <2>10. IsProcess(new)
    BY <1>1, <2>6, <2>9 DEF IsProcess
  <2> QED
    BY <1>1, <2>5, <2>6, <2>8, <2>10, ClientStep
<1>3. CASE Retransmit(p)
  <2>1. proc[p].pc = "connect" /\ Set(p, Sent(proc[p]))
    BY <1>3 DEF Retransmit, At
  <2>2. PICK new : new = Sent(proc[p])
    OBVIOUS
  <2>3. new = [pc |-> "connect", handle |-> proc[p].handle, client |-> client, owner |-> proc[p].owner,
               owned |-> proc[p].owned, storage |-> proc[p].storage,
               sent |-> proc[p].sent + 1, asked |-> proc[p].asked + 1, acked |-> proc[p].acked]
    <3>1. PICK one : one = [proc[p] EXCEPT !.sent = proc[p].sent + 1]
      OBVIOUS
    <3>2. one = [pc |-> "connect", handle |-> proc[p].handle, client |-> client, owner |-> proc[p].owner,
               owned |-> proc[p].owned, storage |-> proc[p].storage,
               sent |-> proc[p].sent + 1, asked |-> proc[p].asked, acked |-> proc[p].acked]
      BY <1>1, <2>1, <3>1 DEF IsProcess
    <3>3. new = [one EXCEPT !.asked = one.asked + 1]
      BY <2>2, <3>1 DEF Sent
    <3> QED
      BY <3>2, <3>3
  <2>4. client # NoClient
    BY <1>1, <2>1 DEF ClientFits
  <2>5. ClientFits(new)
    BY <1>1, <2>3, <2>4 DEF ClientFits
  <2>6. proc[p].sent + 1 \in Nat /\ proc[p].asked + 1 \in Nat /\ proc[p].acked \in Nat
    BY <1>1 DEF IsProcess
  <2> QED
    BY <1>1, <2>1, <2>2, <2>3, <2>5, <2>6, ClientStep DEF IsProcess
<1>4. CASE Connected(p) \/ GiveUp(p)
  <2>1. PICK hung : hung = Hung(proc[p])
    OBVIOUS
  <2>2. hung = [pc |-> proc[p].pc, handle |-> proc[p].handle, client |-> client, owner |-> proc[p].owner,
                owned |-> proc[p].owned, storage |-> proc[p].storage, sent |-> proc[p].sent, asked |-> 0, acked |-> 0]
    BY <1>1, <2>1 DEF Hung, IsProcess
  <2>3. CASE GiveUp(p)
    <3>1. PICK new : new = [hung EXCEPT !.pc = "idle"] /\ Set(p, new)
      BY <2>1, <2>3 DEF GiveUp
    <3>2. new = [pc |-> "idle", handle |-> proc[p].handle, client |-> client, owner |-> proc[p].owner,
                 owned |-> proc[p].owned, storage |-> proc[p].storage, sent |-> proc[p].sent, asked |-> 0, acked |-> 0]
      BY <2>2, <3>1
    <3>3. ClientFits(new)
      BY <1>1, <3>2 DEF ClientFits
    <3>4. proc[p].sent \in Nat
      BY <1>1 DEF IsProcess
    <3>5. IsProcess(new)
      BY <1>1, <3>2, <3>4 DEF IsProcess
    <3> QED
      BY <1>1, <3>1, <3>2, <3>3, <3>5, ClientStep
  <2>4. CASE Connected(p)
    <3>1. proc[p].acked # 0 /\ proc[p].pc = "connect"
      BY <1>1, <2>4 DEF Connected, At, IsProcess
    <3>2. PICK up : up = [client EXCEPT !.ready = TRUE]
      OBVIOUS
    <3>3. up = [session |-> client.session, units |-> client.units, known |-> TRUE, ready |-> TRUE]
      <4>1. client.known = TRUE
        BY <1>1, <3>1 DEF ClientFits
      <4> QED
        BY <1>1, <3>2, <4>1 DEF IsProcess
    <3>4. PICK new : new = [hung EXCEPT !.pc = "idle", !.client.ready = TRUE] /\ Set(p, new)
      BY <2>1, <2>4 DEF Connected
    <3>5. new = [pc |-> "idle", handle |-> proc[p].handle, client |-> up, owner |-> proc[p].owner,
                 owned |-> proc[p].owned, storage |-> proc[p].storage, sent |-> proc[p].sent, asked |-> 0, acked |-> 0]
      <4>1. PICK one : one = [hung EXCEPT !.pc = "idle"]
        OBVIOUS
      <4>2. one = [pc |-> "idle", handle |-> proc[p].handle, client |-> client, owner |-> proc[p].owner,
                 owned |-> proc[p].owned, storage |-> proc[p].storage, sent |-> proc[p].sent, asked |-> 0, acked |-> 0]
        BY <2>2, <4>1
      <4>3. new = [one EXCEPT !.client = [one.client EXCEPT !.ready = TRUE]]
        BY <3>4, <4>1
      <4>4. new = [one EXCEPT !.client = up]
        BY <3>2, <4>2, <4>3
      <4> QED
        BY <4>2, <4>4
    <3>6. client # NoClient
      BY <1>1, <3>1 DEF ClientFits, NoClient
    <3>7. ClientFits(new)
      BY <1>1, <3>3, <3>5, <3>6 DEF ClientFits
    <3>8. /\ proc[p].sent \in Nat
          /\ up = [session |-> up.session, units |-> up.units, known |-> up.known, ready |-> up.ready]
      BY <1>1, <3>3 DEF IsProcess
    <3>9. IsProcess(new)
      BY <1>1, <3>5, <3>8 DEF IsProcess
    <3> QED
      BY <1>1, <3>4, <3>5, <3>7, <3>9, ClientStep
  <2> QED
    BY <1>4, <2>3, <2>4
<1> QED
  BY <1>2, <1>3, <1>4

(* A step of p in the world; nobody else has anything in it.               *)
LEMMA OwnersStep ==
  ASSUME SessionInv, NEW p \in Procs, \A q \in Procs \ {p} : proc[q].owner # TRUE,
         NEW new, Set(p, new), IsProcess(new),
         begun' \in Nat, creator' \in [1..begun' -> Procs], controller' \in 0..begun',
         locks' \in [Shards -> Nat], units' \in Nat, config' \in Nat,
         controller' # 0 =>
           /\ creator'[controller'] = p /\ new.owner = TRUE /\ config' \in {0, controller'},
         \A s \in Shards : locks'[s] # 0 => controller' # 0 /\ locks'[s] = controller' /\ <<s, controller'>> \in new.owned,
         units' # 0 => controller' # 0 /\ units' = controller' /\ new.storage = units',
         Sound(p, new)'
  PROVE  SessionInv'
<1>1. /\ proc'[p] = new /\ (\A q \in Procs \ {p} : proc'[q] = proc[q])
      /\ proc' = [q \in Procs |-> proc'[q]] /\ \A q \in Procs : IsProcess(proc'[q])
  BY SetChangesOne DEF SessionInv
<1>2. SessionTypes'
  BY <1>1 DEF SessionTypes, IsProcess, Shards
<1>3. AliveIsOwned'
  BY <1>1 DEF AliveIsOwned, Shards
<1>4. \A q \in Procs : Sound(q, proc[q])'
  <2>1. ASSUME NEW q \in Procs \ {p}
        PROVE  Sound(q, proc[q])'
    BY <1>1, <2>1, OthersAreSound
  <2>2. Sound(p, proc[p])'
    BY <1>1 DEF Sound, OwnsAlive, InItsPlace, ClientFits, NoClient
  <2> QED
    BY <2>1, <2>2
<1> QED
  BY <1>2, <1>3, <1>4 DEF SessionInv

LEMMA CreateKeeps ==
  ASSUME SessionInv, NEW p \in Procs, Create(p)
  PROVE  SessionInv'
<1>1. /\ controller = 0 /\ proc[p].pc = "create" /\ begun' = begun + 1 /\ controller' = begun' /\ config' = 0
      /\ creator' = [g \in 1..begun' |-> IF g = begun' THEN p ELSE creator[g]]
      /\ UNCHANGED <<locks, units>>
  BY DEF Create, At
<1>2. SessionTypes /\ AliveIsOwned /\ IsProcess(proc[p]) /\ ClientFits(proc[p]) /\ OwnsAlive(p, proc[p])
      /\ InItsPlace(proc[p])
  BY OfOne DEF SessionInv
<1>3. \A q \in Procs : proc[q].owner # TRUE
  BY <1>1, OfOne DEF OwnsAlive
<1>4. PICK new : new = [proc[p] EXCEPT !.pc = "locks", !.handle = begun', !.owner = TRUE] /\ Set(p, new)
  BY DEF Create
<1>5. new = [pc |-> "locks", handle |-> begun + 1, client |-> proc[p].client, owner |-> TRUE,
             owned |-> proc[p].owned, storage |-> proc[p].storage,
             sent |-> proc[p].sent, asked |-> proc[p].asked, acked |-> proc[p].acked]
  BY <1>1, <1>2, <1>4 DEF IsProcess
<1>6. begun \in Nat /\ proc[p].owned = {} /\ proc[p].storage = 0 /\ proc[p].handle = 0
  BY <1>1, <1>2, <1>3 DEF SessionTypes, OwnsAlive, InItsPlace
<1>7. IsProcess(new)
  BY <1>2, <1>5, <1>6 DEF IsProcess
<1>8. creator' \in [1..begun' -> Procs] /\ begun' \in Nat \ {0} /\ creator'[begun'] = p
  BY <1>1, <1>2, <1>6 DEF SessionTypes
<1>9. units' = 0 /\ \A s \in Shards : locks'[s] = 0
  BY <1>1, <1>2 DEF AliveIsOwned
<1>10. Sound(p, new)'
  <2>1. OwnsAlive(p, new)'
    BY <1>1, <1>5, <1>6, <1>8 DEF OwnsAlive
  <2>2. InItsPlace(new)'
    BY <1>5 DEF InItsPlace, Bringing
  <2>3. ClientFits(new)
    BY <1>1, <1>2, <1>5, <1>6 DEF ClientFits
  <2> QED
    BY <2>1, <2>2, <2>3 DEF Sound, ClientFits, NoClient
<1>11. locks' \in [Shards -> Nat] /\ units' \in Nat /\ config' \in Nat /\ controller' \in 0..begun'
  BY <1>1, <1>2, <1>8 DEF SessionTypes
<1>12. new.owner = TRUE
  BY <1>5
<1> QED
  BY <1>1, <1>3, <1>4, <1>7, <1>8, <1>9, <1>10, <1>11, <1>12, OwnersStep

(* What an owner has, and that the others have nothing.                    *)
LEMMA OfOwner ==
  ASSUME SessionInv, NEW p \in Procs, proc[p].owner = TRUE
  PROVE  /\ \A q \in Procs \ {p} : proc[q].owner # TRUE
         /\ controller # 0 /\ proc[p].handle = controller /\ creator[controller] = p /\ config \in {0, controller}
         /\ \A o \in proc[p].owned : o = <<o[1], controller>> /\ locks[o[1]] = controller
         /\ proc[p].storage # 0 => proc[p].storage = controller /\ units = controller
         /\ \A s \in Shards : locks[s] # 0 => locks[s] = controller /\ <<s, controller>> \in proc[p].owned
         /\ units # 0 => units = controller /\ proc[p].storage = units
         /\ begun \in Nat /\ creator \in [1..begun -> Procs] /\ controller \in 0..begun
         /\ locks \in [Shards -> Nat] /\ units \in Nat /\ config \in Nat
<1>1. OwnsAlive(p, proc[p]) /\ AliveIsOwned /\ IsProcess(proc[p]) /\ SessionTypes
  BY OfOne DEF SessionInv
<1>2. \A q \in Procs \ {p} : proc[q].owner # TRUE
  BY OneOwner
<1>3. controller # 0 /\ proc[p].handle = controller /\ creator[controller] = p
  BY <1>1 DEF OwnsAlive
<1>4. \A o \in proc[p].owned : o = <<o[1], controller>> /\ locks[o[1]] = controller
  BY <1>1 DEF OwnsAlive, IsProcess
<1> QED
  BY <1>1, <1>2, <1>3, <1>4 DEF OwnsAlive, AliveIsOwned, SessionTypes


(* What the owner does while it keeps the controller, whose lock actors it *)
(* has listed and whose units it has noted.                                *)
LEMMA OwnerStep ==
  ASSUME SessionInv, NEW p \in Procs, proc[p].owner = TRUE, UNCHANGED <<begun, creator, controller>>,
         NEW new, Set(p, new), IsProcess(new), new.owner = TRUE, new.handle = proc[p].handle,
         config' \in {0, controller}, locks' \in [Shards -> Nat],
         \A o \in new.owned : o[2] = controller /\ locks'[o[1]] = controller,
         \A s \in Shards : locks'[s] # 0 => locks'[s] = controller /\ <<s, controller>> \in new.owned,
         \/ new.storage = 0 /\ units' = 0
         \/ new.storage = controller /\ units' = controller,
         InItsPlace(new)', ClientFits(new)
  PROVE  SessionInv'
<1>1. /\ \A q \in Procs \ {p} : proc[q].owner # TRUE
      /\ controller # 0 /\ proc[p].handle = controller /\ creator[controller] = p
  BY OfOwner
<1>2. begun \in Nat /\ creator \in [1..begun -> Procs] /\ controller \in 0..begun
  BY OfOwner
<1>3. OwnsAlive(p, new)'
  BY <1>1 DEF OwnsAlive
<1>4. Sound(p, new)'
  BY <1>3 DEF Sound, ClientFits, NoClient
<1>5. begun' \in Nat /\ creator' \in [1..begun' -> Procs] /\ controller' \in 0..begun'
  BY <1>2
<1>6. units' \in Nat /\ config' \in Nat /\ (units' # 0 => units' = controller /\ new.storage = units')
  BY <1>2
<1>7. controller' # 0 /\ creator'[controller'] = p /\ config' \in {0, controller'}
  BY <1>1
<1> QED
  BY <1>1, <1>4, <1>5, <1>6, <1>7, OwnersStep

(* What an owner finds.                                                    *)
OwnersWorld(p) ==
  /\ controller # 0 /\ proc[p].handle = controller /\ creator[controller] = p /\ config \in {0, controller}
  /\ \A o \in proc[p].owned : o = <<o[1], controller>> /\ locks[o[1]] = controller
  /\ \A s \in Shards : locks[s] # 0 => locks[s] = controller /\ <<s, controller>> \in proc[p].owned
  /\ \/ proc[p].storage = 0 /\ units = 0
     \/ proc[p].storage = controller /\ units = controller
  /\ locks \in [Shards -> Nat]
  /\ \A q \in Procs \ {p} : proc[q].owner # TRUE
  /\ begun \in Nat /\ creator \in [1..begun -> Procs] /\ controller \in 0..begun

LEMMA StartLockKeeps ==
  ASSUME SessionInv, NEW p \in Procs, StartLock(p)
  PROVE  SessionInv'
<1>1. /\ proc[p].pc = "locks" /\ IsProcess(proc[p]) /\ ClientFits(proc[p]) /\ InItsPlace(proc[p])
      /\ UNCHANGED <<begun, creator, controller, config, units>>
  BY OfOne DEF StartLock, At
<1>2. proc[p].owner = TRUE
  BY <1>1 DEF InItsPlace, Bringing
<1>3. PICK s : s = Cardinality(proc[p].owned) + 1
  OBVIOUS
<1>4. CASE s \notin Shards
  <2>1. PICK new : new = [proc[p] EXCEPT !.pc = "storage"] /\ Set(p, new) /\ UNCHANGED locks
    BY <1>3, <1>4 DEF StartLock, Go
  <2>2. new = [pc |-> "storage", handle |-> proc[p].handle, client |-> proc[p].client, owner |-> proc[p].owner,
               owned |-> proc[p].owned, storage |-> proc[p].storage,
               sent |-> proc[p].sent, asked |-> proc[p].asked, acked |-> proc[p].acked]
    BY <1>1, <2>1 DEF IsProcess
  <2>3. IsProcess(new)
    BY <1>1, <2>2 DEF IsProcess
  <2>4. ClientFits(new)
    BY <1>1, <2>2, ClientStays
  <2>5. InItsPlace(new)
    BY <1>2, <2>2 DEF InItsPlace, Bringing
  <2> QED
    BY <1>1, <2>1, <2>2, <2>3, <2>4, <2>5, LocalStep DEF world
<1>5. CASE s \in Shards
  <2>1. PICK g : g = IF s \in Shards /\ locks[s] # 0 THEN locks[s] ELSE proc[p].handle
    OBVIOUS
  <2>2. g = controller
    BY <1>2, <1>5, <2>1, OfOwner
  <2>3. PICK new : /\ new = [proc[p] EXCEPT !.owned = @ \cup {<<s, g>>}] /\ Set(p, new)
                   /\ locks' = [locks EXCEPT ![s] = g]
    BY <1>3, <1>5, <2>1 DEF StartLock
  <2>4. new = [pc |-> "locks", handle |-> proc[p].handle, client |-> proc[p].client, owner |-> TRUE,
               owned |-> proc[p].owned \cup {<<s, controller>>}, storage |-> proc[p].storage,
               sent |-> proc[p].sent, asked |-> proc[p].asked, acked |-> proc[p].acked]
    BY <1>1, <1>2, <2>2, <2>3 DEF IsProcess
  <2>5. IsProcess(new)
    <3>1. controller \in Nat
      BY OfOne
    <3> QED
      BY <1>1, <1>5, <2>4, <3>1 DEF IsProcess
  <2>6. ClientFits(new)
    BY <1>1, <2>4, ClientStays
  <2>7. locks' = [locks EXCEPT ![s] = controller] /\ locks' \in [Shards -> Nat]
    BY <1>2, <1>5, <2>2, <2>3, OfOwner, OfOne
  <2>8. \A t \in Shards : locks'[t] # 0 => locks'[t] = controller /\ <<t, controller>> \in new.owned
    BY <1>2, <1>5, <2>4, <2>7, OfOwner
  <2>9. \A o \in new.owned : o[2] = controller /\ locks'[o[1]] = controller
    <3> SUFFICES ASSUME NEW o \in new.owned
                 PROVE  o[2] = controller /\ locks'[o[1]] = controller
      OBVIOUS
    <3>1. CASE o = <<s, controller>>
      BY <1>2, <1>5, <2>7, <3>1, OfOwner
    <3>2. CASE o \in proc[p].owned
      <4>1. o = <<o[1], controller>> /\ locks[o[1]] = controller /\ o[1] \in Shards
        BY <1>1, <1>2, <3>2, OfOwner DEF IsProcess
      <4> QED
        BY <1>2, <1>5, <2>7, <4>1, OfOwner
    <3> QED
      BY <2>4, <3>1, <3>2
  <2>10. InItsPlace(new)'
    BY <2>4 DEF InItsPlace, Bringing
  <2>11. /\ config \in {0, controller}
         /\ \/ proc[p].storage = 0 /\ units = 0
            \/ proc[p].storage = controller /\ units = controller
    <3>1. OwnersWorld(p)
      BY <1>2, OfOwner DEF OwnersWorld
    <3> QED
      BY <3>1 DEF OwnersWorld
  <2>12. new.owner = TRUE /\ new.storage = proc[p].storage /\ new.handle = proc[p].handle
    BY <2>4
  <2> QED
    BY <1>1, <1>2, <2>3, <2>5, <2>6, <2>7, <2>8, <2>9, <2>10, <2>11, <2>12, OwnerStep
<1> QED
  BY <1>4, <1>5

LEMMA CreateStorageKeeps ==
  ASSUME SessionInv, NEW p \in Procs, CreateStorage(p)
  PROVE  SessionInv'
<1>1. /\ proc[p].pc = "storage" /\ IsProcess(proc[p]) /\ ClientFits(proc[p]) /\ InItsPlace(proc[p])
      /\ UNCHANGED <<begun, creator, controller, config, locks>> /\ units = 0 /\ units' = proc[p].handle
  BY OfOne DEF CreateStorage, At
<1>2. proc[p].owner = TRUE
  BY <1>1 DEF InItsPlace, Bringing
<1>3. PICK new : new = [proc[p] EXCEPT !.pc = "store", !.storage = proc[p].handle] /\ Set(p, new)
  BY DEF CreateStorage
<1>4. new = [pc |-> "store", handle |-> proc[p].handle, client |-> proc[p].client, owner |-> TRUE,
             owned |-> proc[p].owned, storage |-> proc[p].handle,
             sent |-> proc[p].sent, asked |-> proc[p].asked, acked |-> proc[p].acked]
  BY <1>1, <1>2, <1>3 DEF IsProcess
<1>5. IsProcess(new)
  BY <1>1, <1>4 DEF IsProcess
<1>6. ClientFits(new)
  BY <1>1, <1>4, ClientStays
<1>7. OwnersWorld(p)
  BY <1>2, OfOwner DEF OwnersWorld
<1>8. InItsPlace(new)'
  BY <1>2, <1>4, <1>7 DEF InItsPlace, Bringing, OwnersWorld
<1>9. /\ new.owner = TRUE /\ new.storage = controller /\ new.owned = proc[p].owned
      /\ new.handle = proc[p].handle /\ units' = controller
  BY <1>1, <1>4, <1>7 DEF OwnersWorld
<1>10. \A o \in new.owned : o[2] = controller /\ locks'[o[1]] = controller
  BY <1>1, <1>7, <1>9 DEF OwnersWorld
<1>11. \A s \in Shards : locks'[s] # 0 => locks'[s] = controller /\ <<s, controller>> \in new.owned
  BY <1>1, <1>7, <1>9 DEF OwnersWorld
<1>12. config' \in {0, controller} /\ locks' \in [Shards -> Nat]
  BY <1>1, <1>7 DEF OwnersWorld
<1> QED
  BY <1>1, <1>2, <1>3, <1>5, <1>6, <1>8, <1>9, <1>10, <1>11, <1>12, OwnerStep

LEMMA StoreConfigKeeps ==
  ASSUME SessionInv, NEW p \in Procs, StoreConfig(p)
  PROVE  SessionInv'
<1>1. /\ proc[p].pc = "store" /\ IsProcess(proc[p]) /\ ClientFits(proc[p]) /\ InItsPlace(proc[p])
      /\ UNCHANGED <<begun, creator, controller, units, locks>> /\ config' = proc[p].storage
  BY OfOne DEF StoreConfig, At
<1>2. proc[p].owner = TRUE /\ proc[p].storage # 0
  BY <1>1 DEF InItsPlace, Bringing
<1>3. PICK new : new = [proc[p] EXCEPT !.pc = "client"] /\ Set(p, new)
  BY DEF StoreConfig, Go
<1>4. new = [pc |-> "client", handle |-> proc[p].handle, client |-> proc[p].client, owner |-> TRUE,
             owned |-> proc[p].owned, storage |-> proc[p].storage,
             sent |-> proc[p].sent, asked |-> proc[p].asked, acked |-> proc[p].acked]
  BY <1>1, <1>2, <1>3 DEF IsProcess
<1>5. IsProcess(new)
  BY <1>1, <1>4 DEF IsProcess
<1>6. ClientFits(new)
  BY <1>1, <1>4, ClientStays
<1>7. OwnersWorld(p)
  BY <1>2, OfOwner DEF OwnersWorld
<1>8. proc[p].storage = controller /\ units = controller /\ proc[p].handle = controller
  BY <1>2, <1>7 DEF OwnersWorld
<1>9. /\ new.owner = TRUE /\ new.storage = controller /\ new.owned = proc[p].owned /\ new.pc = "client"
      /\ new.handle = proc[p].handle /\ units' = controller /\ config' = controller
  BY <1>1, <1>4, <1>8
<1>10. InItsPlace(new)'
  BY <1>8, <1>9 DEF InItsPlace, Bringing
<1>11. \A o \in new.owned : o[2] = controller /\ locks'[o[1]] = controller
  BY <1>1, <1>7, <1>9 DEF OwnersWorld
<1>12. \A s \in Shards : locks'[s] # 0 => locks'[s] = controller /\ <<s, controller>> \in new.owned
  BY <1>1, <1>7, <1>9 DEF OwnersWorld
<1>13. locks' \in [Shards -> Nat]
  BY <1>1, <1>7 DEF OwnersWorld
<1> QED
  BY <1>1, <1>2, <1>3, <1>5, <1>6, <1>9, <1>10, <1>11, <1>12, <1>13, OwnerStep

LEMMA BeginCloseKeeps ==
  ASSUME SessionInv, NEW p \in Procs, BeginClose(p)
  PROVE  SessionInv'
<1>1. /\ proc[p].pc = "idle" /\ IsProcess(proc[p]) /\ ClientFits(proc[p]) /\ OwnsAlive(p, proc[p])
      /\ UNCHANGED <<begun, creator, controller, config, locks>>
      /\ units' = IF proc[p].storage # 0 /\ units = proc[p].storage THEN 0 ELSE units
  BY OfOne DEF BeginClose, At
<1>2. PICK new : new = [proc[p] EXCEPT !.pc = "parting", !.storage = 0] /\ Set(p, new)
  BY DEF BeginClose
<1>3. new = [pc |-> "parting", handle |-> proc[p].handle, client |-> proc[p].client, owner |-> proc[p].owner,
             owned |-> proc[p].owned, storage |-> 0,
             sent |-> proc[p].sent, asked |-> proc[p].asked, acked |-> proc[p].acked]
  BY <1>1, <1>2 DEF IsProcess
<1>4. IsProcess(new)
  BY <1>1, <1>3 DEF IsProcess
<1>5. ClientFits(new)
  BY <1>1, <1>3, ClientStays
<1>6. InItsPlace(new) /\ InItsPlace(new)'
  BY <1>3 DEF InItsPlace, Bringing
<1>7. new.owner = proc[p].owner /\ new.storage = 0 /\ new.owned = proc[p].owned /\ new.handle = proc[p].handle
  BY <1>3
<1>8. CASE proc[p].owner # TRUE
  <2>1. proc[p].storage = 0
    BY <1>1, <1>8 DEF OwnsAlive
  <2>2. UNCHANGED world
    BY <1>1, <2>1 DEF world
  <2> QED
    BY <1>2, <1>4, <1>5, <1>6, <1>7, <2>1, <2>2, LocalStep
<1>9. CASE proc[p].owner = TRUE
  <2>1. OwnersWorld(p)
    BY <1>9, OfOwner DEF OwnersWorld
  <2>2. units' = 0
    BY <1>1, <2>1 DEF OwnersWorld
  <2>3. \A o \in new.owned : o[2] = controller /\ locks'[o[1]] = controller
    BY <1>1, <1>7, <2>1 DEF OwnersWorld
  <2>4. \A s \in Shards : locks'[s] # 0 => locks'[s] = controller /\ <<s, controller>> \in new.owned
    BY <1>1, <1>7, <2>1 DEF OwnersWorld
  <2>5. config' \in {0, controller} /\ locks' \in [Shards -> Nat]
    BY <1>1, <2>1 DEF OwnersWorld
  <2> QED
    BY <1>1, <1>2, <1>4, <1>5, <1>6, <1>7, <1>9, <2>2, <2>3, <2>4, <2>5, OwnerStep
<1> QED
  BY <1>8, <1>9

LEMMA CloseActorsKeeps ==
  ASSUME SessionInv, NEW p \in Procs, CloseActors(p)
  PROVE  SessionInv'
<1>1. /\ proc[p].pc = "closing" /\ IsProcess(proc[p]) /\ ClientFits(proc[p]) /\ InItsPlace(proc[p])
      /\ OwnsAlive(p, proc[p]) /\ UNCHANGED <<begun, creator, config, units>>
  BY OfOne DEF CloseActors, At
<1>2. proc[p].storage = 0 /\ proc[p].client = NoClient
  BY <1>1 DEF InItsPlace
<1>3. CASE proc[p].owned # {}
  <2>1. proc[p].owner = TRUE
    BY <1>1, <1>3 DEF OwnsAlive
  <2>2. OwnersWorld(p)
    BY <2>1, OfOwner DEF OwnersWorld
  <2>3. PICK o \in proc[p].owned :
          /\ locks' = [locks EXCEPT ![o[1]] = IF @ = o[2] THEN 0 ELSE @]
          /\ Set(p, [proc[p] EXCEPT !.owned = @ \ {o}]) /\ UNCHANGED controller
    BY <1>3 DEF CloseActors
  <2>4. o = <<o[1], controller>> /\ o[1] \in Shards /\ locks[o[1]] = controller
    BY <1>1, <2>2, <2>3 DEF IsProcess, OwnersWorld
  <2>5. PICK new : new = [proc[p] EXCEPT !.owned = @ \ {o}] /\ Set(p, new)
    BY <2>3
  <2>6. new = [pc |-> "closing", handle |-> proc[p].handle, client |-> proc[p].client, owner |-> TRUE,
               owned |-> proc[p].owned \ {o}, storage |-> 0,
               sent |-> proc[p].sent, asked |-> proc[p].asked, acked |-> proc[p].acked]
    BY <1>1, <1>2, <2>1, <2>5 DEF IsProcess
  <2>7. IsProcess(new)
    BY <1>1, <2>6 DEF IsProcess
  <2>8. ClientFits(new)
    BY <1>1, <2>6, ClientStays
  <2>9. locks' = [locks EXCEPT ![o[1]] = 0] /\ locks' \in [Shards -> Nat]
    <3>1. o[2] = controller /\ locks[o[1]] = o[2] /\ locks \in [Shards -> Nat]
      BY <2>2, <2>4 DEF OwnersWorld
    <3> QED
      BY <2>3, <2>4, <3>1
  <2>10. \A t \in Shards : locks'[t] # 0 => locks'[t] = controller /\ <<t, controller>> \in new.owned
    BY <2>2, <2>4, <2>6, <2>9 DEF OwnersWorld
  <2>11. \A u \in new.owned : u[2] = controller /\ locks'[u[1]] = controller
    <3> SUFFICES ASSUME NEW u \in new.owned
                 PROVE  u[2] = controller /\ locks'[u[1]] = controller
      OBVIOUS
    <3>1. u \in proc[p].owned /\ u # o
      BY <2>6
    <3>2. u = <<u[1], controller>> /\ locks[u[1]] = controller /\ u[1] \in Shards
      BY <1>1, <2>2, <3>1 DEF IsProcess, OwnersWorld
    <3>3. u[1] # o[1]
      BY <2>4, <3>1, <3>2
    <3> QED
      BY <2>2, <2>4, <2>9, <3>2, <3>3 DEF OwnersWorld
  <2>12. InItsPlace(new)'
    BY <1>2, <2>6 DEF InItsPlace, Bringing, NoClient
  <2>13. units = 0 /\ config \in {0, controller}
    BY <1>2, <2>2 DEF OwnersWorld
  <2>14. new.owner = TRUE /\ new.storage = 0 /\ new.handle = proc[p].handle
    BY <2>6
  <2> QED
    BY <1>1, <2>1, <2>3, <2>5, <2>7, <2>8, <2>9, <2>10, <2>11, <2>12, <2>13, <2>14, OwnerStep
<1>4. CASE proc[p].owned = {}
  <2>1. PICK new : /\ new = [proc[p] EXCEPT !.pc = "idle", !.handle = 0, !.owner = FALSE] /\ Set(p, new)
                   /\ controller' = Killed(p) /\ UNCHANGED locks
    BY <1>4 DEF CloseActors
  <2>2. new = [pc |-> "idle", handle |-> 0, client |-> NoClient, owner |-> FALSE, owned |-> {}, storage |-> 0,
               sent |-> proc[p].sent, asked |-> proc[p].asked, acked |-> proc[p].acked]
    BY <1>1, <1>2, <1>4, <2>1 DEF IsProcess
  <2>3. IsProcess(new)
    BY <1>1, <1>2, <2>2 DEF IsProcess
  <2>4. proc[p].asked = 0 /\ proc[p].acked = 0
    BY <1>1 DEF ClientFits
  <2>5. ClientFits(new)
    BY <2>2, <2>4 DEF ClientFits, NoClient
  <2>6. InItsPlace(new) /\ InItsPlace(new)'
    BY <2>2 DEF InItsPlace, Bringing
  <2>7. CASE proc[p].owner # TRUE
    <3>1. proc[p].owner = FALSE
      BY <1>1, <2>7 DEF IsProcess
    <3>2. UNCHANGED world
      BY <1>1, <2>1, <3>1 DEF world, Killed
    <3>3. new.owner = proc[p].owner /\ new.owned = proc[p].owned /\ new.storage = proc[p].storage /\ new.owner # TRUE
      BY <1>2, <1>4, <2>2, <3>1
    <3> QED
      BY <2>1, <2>3, <2>5, <2>6, <3>2, <3>3, LocalStep
  <2>8. CASE proc[p].owner = TRUE
    <3>1. OwnersWorld(p)
      BY <2>8, OfOwner DEF OwnersWorld
    <3>2. controller' = 0 /\ units' = 0 /\ config' \in Nat
      BY <1>1, <1>2, <2>1, <2>8, <3>1 DEF OwnersWorld, Killed
    <3>3. begun' \in Nat /\ creator' \in [1..begun' -> Procs] /\ controller' \in 0..begun'
      BY <1>1, <3>1, <3>2 DEF OwnersWorld
    <3>4. locks' \in [Shards -> Nat] /\ \A s \in Shards : locks'[s] = 0
      BY <1>4, <2>1, <3>1 DEF OwnersWorld
    <3>5. OwnsAlive(p, new)'
      BY <2>2 DEF OwnsAlive
    <3>6. Sound(p, new)'
      BY <2>5, <2>6, <3>5 DEF Sound, ClientFits, NoClient
    <3>7. \A q \in Procs \ {p} : proc[q].owner # TRUE
      BY <3>1 DEF OwnersWorld
    <3> QED
      BY <2>1, <2>3, <3>2, <3>3, <3>4, <3>6, <3>7, OwnersStep
  <2> QED
    BY <2>7, <2>8
<1> QED
  BY <1>3, <1>4

LEMMA FreshIsSound ==
  /\ IsProcess(Fresh) /\ ClientFits(Fresh) /\ InItsPlace(Fresh)
  /\ Fresh.owner = FALSE /\ Fresh.owned = {} /\ Fresh.storage = 0 /\ Fresh.client = NoClient
<1>1. /\ Fresh = [pc |-> "idle", handle |-> 0, client |-> NoClient, owner |-> FALSE, owned |-> {},
                  storage |-> 0, sent |-> 0, asked |-> 0, acked |-> 0]
      /\ NoClient = [session |-> 0, units |-> 0, known |-> FALSE, ready |-> FALSE]
  BY DEF Fresh, NoClient
<1>2. IsProcess(Fresh)
  <2>1. Fresh.client = [session |-> Fresh.client.session, units |-> Fresh.client.units,
                        known |-> Fresh.client.known, ready |-> Fresh.client.ready]
    BY <1>1
  <2>2. {Fresh.handle, Fresh.storage, Fresh.sent, Fresh.asked, Fresh.acked} \subseteq Nat
    BY <1>1
  <2>3. Fresh = [pc |-> Fresh.pc, handle |-> Fresh.handle, client |-> Fresh.client, owner |-> Fresh.owner,
                 owned |-> Fresh.owned, storage |-> Fresh.storage, sent |-> Fresh.sent, asked |-> Fresh.asked,
                 acked |-> Fresh.acked]
    BY <1>1
  <2> QED
    BY <1>1, <2>1, <2>2, <2>3 DEF IsProcess
<1>3. ClientFits(Fresh)
  BY <1>1 DEF ClientFits
<1>4. InItsPlace(Fresh)
  BY <1>1 DEF InItsPlace, Bringing
<1> QED
  BY <1>1, <1>2, <1>3, <1>4

LEMMA CrashKeeps ==
  ASSUME SessionInv, NEW p \in Procs, Crash(p)
  PROVE  SessionInv'
<1>1. /\ controller' = IF Began(p, controller) THEN 0 ELSE controller
      /\ units' = IF Began(p, units) THEN 0 ELSE units
      /\ locks' = [s \in Shards |-> IF s \in LocksOf(p) THEN 0 ELSE locks[s]]
      /\ Set(p, Fresh) /\ UNCHANGED <<begun, creator, config>>
  BY DEF Crash
<1>2. PICK new : new = Fresh
  OBVIOUS
<1>3. /\ Set(p, new) /\ IsProcess(new) /\ ClientFits(new) /\ InItsPlace(new)
      /\ new.owner = FALSE /\ new.owned = {} /\ new.storage = 0 /\ new.client = NoClient
  BY <1>1, <1>2, FreshIsSound
<1>4. InItsPlace(new)'
  <2>1. new.pc = "idle"
    BY <1>2 DEF Fresh
  <2> QED
    BY <2>1 DEF InItsPlace, Bringing
<1>5. IsProcess(proc[p]) /\ OwnsAlive(p, proc[p]) /\ SessionTypes /\ AliveIsOwned
  BY OfOne DEF SessionInv
<1>6. CASE proc[p].owner = TRUE
  <2>1. OwnersWorld(p)
    BY <1>6, OfOwner DEF OwnersWorld
  <2>2. controller' = 0
    BY <1>1, <2>1 DEF OwnersWorld, Began
  <2>3. units' = 0
    BY <1>1, <2>1 DEF OwnersWorld, Began
  <2>4. \A s \in Shards : locks'[s] = 0
    BY <1>1, <2>1 DEF OwnersWorld, LocksOf
  <2>5. locks' \in [Shards -> Nat]
    BY <1>1, <2>4
  <2>6. OwnsAlive(p, new)'
    BY <1>3 DEF OwnsAlive
  <2>7. Sound(p, new)'
    BY <1>3, <1>4, <2>6 DEF Sound, ClientFits, NoClient
  <2>8. begun' \in Nat /\ creator' \in [1..begun' -> Procs] /\ controller' \in 0..begun' /\ config' \in Nat
    BY <1>1, <1>5, <2>2 DEF SessionTypes
  <2>9. \A q \in Procs \ {p} : proc[q].owner # TRUE
    BY <2>1 DEF OwnersWorld
  <2> QED
    BY <1>3, <2>2, <2>3, <2>4, <2>5, <2>7, <2>8, <2>9, OwnersStep
<1>7. CASE proc[p].owner # TRUE
  <2>1. proc[p].owner = FALSE /\ proc[p].owned = {} /\ proc[p].storage = 0
    BY <1>5, <1>7 DEF IsProcess, OwnsAlive
  <2>2. controller # 0 => creator[controller] # p
    BY <1>5, <1>7 DEF AliveIsOwned
  <2>3. controller' = controller /\ units' = units
    BY <1>1, <1>5, <2>2 DEF AliveIsOwned, Began
  <2>4. \A s \in Shards : s \notin LocksOf(p)
    BY <1>5, <2>2 DEF AliveIsOwned, LocksOf
  <2>5. locks' = locks
    BY <1>1, <1>5, <2>4 DEF SessionTypes
  <2>6. UNCHANGED world
    BY <1>1, <2>3, <2>5 DEF world
  <2> QED
    BY <1>3, <2>1, <2>6, LocalStep
<1> QED
  BY <1>6, <1>7

LEMMA SessionStarts ==
  SessionInit => SessionInv
<1> SUFFICES ASSUME SessionInit PROVE SessionInv
  OBVIOUS
<1>1. \A p \in Procs : proc[p] = Fresh
  BY DEF SessionInit
<1>2. SessionTypes
  BY <1>1, FreshIsSound DEF SessionInit, SessionTypes
<1>3. AliveIsOwned
  BY DEF SessionInit, AliveIsOwned
<1>4. \A p \in Procs : Sound(p, proc[p])
  BY <1>1, FreshIsSound DEF Sound, OwnsAlive
<1> QED
  BY <1>2, <1>3, <1>4 DEF SessionInv

LEMMA SessionStep ==
  SessionInv /\ [SessionNext]_sessionVars => SessionInv'
<1> SUFFICES ASSUME SessionInv, [SessionNext]_sessionVars
             PROVE  SessionInv'
  OBVIOUS
<1>1. CASE SessionNext
  <2>1. PICK p \in Procs :
          BeginInit(p) \/ InitStep(p) \/ ServeHandshake(p) \/ BeginClose(p) \/ CloseClient(p) \/ CloseActors(p) \/ Crash(p)
    BY <1>1, Zenon DEF SessionNext
  <2>2. CASE InitStep(p)
    BY <2>2, SearchKeeps, PollKeeps, CreateKeeps, StartLockKeeps, CreateStorageKeeps, StorageFailsKeeps,
       StoreConfigKeeps, MakeClientKeeps, HandshakeKeeps DEF InitStep
  <2> QED
    BY <2>1, <2>2, SearchKeeps, HandshakeKeeps, BeginCloseKeeps, CloseClientKeeps, CloseActorsKeeps, CrashKeeps
<1>2. CASE UNCHANGED sessionVars
  <2>1. UNCHANGED <<begun, creator, controller, config, locks, units, proc>>
    BY <1>2 DEF sessionVars, world
  <2>2. SessionTypes'
    BY <2>1 DEF SessionInv, SessionTypes, IsProcess, Shards
  <2>3. AliveIsOwned'
    BY <2>1 DEF SessionInv, AliveIsOwned, Shards
  <2>4. \A p \in Procs : Sound(p, proc[p])'
    BY <2>1 DEF SessionInv, Sound, OwnsAlive, InItsPlace, ClientFits, NoClient, Bringing
  <2> QED
    BY <2>2, <2>3, <2>4 DEF SessionInv
<1> QED
  BY <1>1, <1>2

LEMMA SessionInvHolds ==
  SessionSpec => []SessionInv
  BY SessionStarts, SessionStep, PTL DEF SessionSpec

(* A session is whole: while its creator has not begun to close it, the    *)
(* lock actors and the units that _init_from_scratch brought up live and   *)
(* are nobody else's to kill, whichever processes race, close and crash.   *)
THEOREM SessionsAreWhole ==
  SessionSpec => []SessionIsWhole
<1>1. SessionInv => SessionIsWhole
  <2> SUFFICES ASSUME SessionInv, NEW p \in Procs, proc[p].owner
               PROVE  /\ \A o \in proc[p].owned :
                           locks[o[1]] = o[2] /\ creator[o[2]] = p /\ \A q \in Procs \ {p} : o \notin proc[q].owned
                      /\ proc[p].storage # 0 => units = proc[p].storage
    BY DEF SessionIsWhole
  <2>1. proc[p].owner = TRUE
    BY OfOne DEF IsProcess
  <2>2. OwnersWorld(p)
    BY <2>1, OfOwner DEF OwnersWorld
  <2>3. \A q \in Procs \ {p} : proc[q].owned = {}
    BY <2>2, OfOne DEF OwnersWorld, OwnsAlive
  <2>4. \A o \in proc[p].owned : o[2] = controller /\ locks[o[1]] = controller
    BY <2>2 DEF OwnersWorld
  <2> QED
    BY <2>2, <2>3, <2>4 DEF OwnersWorld
<1> QED
  BY <1>1, SessionInvHolds, PTL

(* A client fits its session: TransferQueueClient is connected to the      *)
(* controller its process holds and to the units of that controller, and   *)
(* the controller has heard of every client whose handshake came through.  *)
THEOREM ClientsFit ==
  SessionSpec => []ClientsFitTheirSession
<1>1. SessionInv => ClientsFitTheirSession
  <2> SUFFICES ASSUME SessionInv, NEW p \in Procs
               PROVE  /\ proc[p].client # NoClient =>
                           proc[p].client.session = proc[p].handle /\ proc[p].client.units = proc[p].client.session
                      /\ proc[p].client.ready => proc[p].client.known
    BY DEF ClientsFitTheirSession
  <2>1. ClientFits(proc[p])
    BY OfOne
  <2> QED
    BY <2>1 DEF ClientFits
<1> QED
  BY <1>1, SessionInvHolds, PTL

-----------------------------------------------------------------------------
(* Names of files.                                                         *)

LEMMA GreatestOf ==
  ASSUME NEW N \in Nat, NEW T \in SUBSET (0..N), T # {}
  PROVE  \E n \in T : \A m \in T : m <= n
<1> DEFINE D == {N - k : k \in T}
<1>0. \A k \in T : k \in Int /\ N - k \in Nat
  <2> TAKE k \in T
  <2>1. k \in 0..N
    OBVIOUS
  <2> QED
    BY <2>1
<1>1. D \in SUBSET Nat /\ D # {}
  BY <1>0
<1> HIDE DEF D
<1>2. PICK d \in D : \A e \in D : d <= e
  BY <1>1, LeastNumber
<1>3. PICK n \in T : d = N - n
  BY <1>2 DEF D
<1>4. \A m \in T : m <= n
  <2> TAKE m \in T
  <2>1. N - m \in D /\ m \in Int /\ n \in Int
    BY DEF D
  <2> QED
    BY <1>2, <1>3, <2>1
<1> QED
  BY <1>4

Below(S, k) == {l \in S : l < k}

(* A set of more than m numbers has one with m below it ...                *)
LEMMA NthExists ==
  ASSUME NEW N \in Nat, NEW S \in SUBSET (0..N), NEW m \in Nat, m < Cardinality(S)
  PROVE  \E k \in S : Cardinality(Below(S, k)) = m
<1>0. \A k \in S : k \in Nat /\ k \in 0..N
  OBVIOUS
<1>1. IsFiniteSet(S) /\ \A k : IsFiniteSet(Below(S, k)) /\ Below(S, k) \in SUBSET S
  <2>1. IsFiniteSet(0..N)
    BY FS_Interval
  <2>2. IsFiniteSet(S)
    BY <2>1, FS_Subset
  <2>3. ASSUME NEW k PROVE IsFiniteSet(Below(S, k)) /\ Below(S, k) \in SUBSET S
    <3>1. Below(S, k) \in SUBSET S
      BY DEF Below
    <3> QED
      BY <2>2, <3>1, FS_Subset
  <2> QED
    BY <2>2, <2>3
<1>2. \A k : Cardinality(Below(S, k)) \in Nat
  BY <1>1, FS_CardinalityType
<1>3. Cardinality(S) \in Nat /\ S # {}
  BY <1>1, FS_CardinalityType, FS_EmptySet
<1> DEFINE T == {k \in S : Cardinality(Below(S, k)) >= m}
<1>4. T # {}
  <2>1. PICK g \in S : \A l \in S : l <= g
    BY <1>3, GreatestOf
  <2>0. Cardinality(S) - 1 >= m
    BY <1>3
  <2>2. Below(S, g) = S \ {g}
    <3>1. ASSUME NEW l \in S
          PROVE  l < g <=> l # g
      <4>1. l \in Nat /\ g \in Nat /\ l <= g
        BY <1>0, <2>1
      <4> QED
        BY <4>1
    <3> QED
      BY <3>1 DEF Below
  <2>3. Cardinality(S \ {g}) = Cardinality(S) - 1
    BY <1>1, <2>1, FS_RemoveElement
  <2> QED
    BY <1>3, <2>0, <2>1, <2>2, <2>3
<1>5. PICK k \in T : \A l \in T : k <= l
  <2>1. T \in SUBSET Nat
    BY <1>0
  <2> HIDE DEF T
  <2> QED
    BY <1>4, <2>1, LeastNumber
<1>6. ASSUME Cardinality(Below(S, k)) # m
      PROVE  FALSE
  <2>1. Cardinality(Below(S, k)) > m
    BY <1>2, <1>5, <1>6
  <2>2. Below(S, k) # {} /\ Below(S, k) \in SUBSET (0..N)
    <3>1. Cardinality(Below(S, k)) # 0
      BY <1>2, <2>1
    <3> QED
      BY <1>1, <3>1, FS_EmptySet
  <2>3. PICK j \in Below(S, k) : \A l \in Below(S, k) : l <= j
    BY <2>2, GreatestOf
  <2>4. Below(S, j) = Below(S, k) \ {j}
    <3>1. j \in S /\ j < k /\ k \in S
      BY <1>5, <2>3 DEF Below
    <3>2. ASSUME NEW l \in S
          PROVE  l < j <=> l < k /\ l # j
      <4>1. l < k => l <= j
        BY <2>3 DEF Below
      <4>2. l \in Nat /\ j \in Nat /\ k \in Nat
        BY <1>0, <3>1
      <4> QED
        BY <3>1, <4>1, <4>2
    <3> QED
      BY <3>2 DEF Below
  <2>5. Cardinality(Below(S, k) \ {j}) = Cardinality(Below(S, k)) - 1
    BY <1>1, <2>3, FS_RemoveElement
  <2>6. j \in T
    <3>1. Cardinality(Below(S, j)) >= m
      BY <1>2, <2>1, <2>4, <2>5
    <3> QED
      BY <2>3, <3>1 DEF Below
  <2> QED
    <3>1. j < k /\ k <= j /\ j \in Nat /\ k \in Nat
      BY <1>0, <1>5, <2>3, <2>6 DEF Below
    <3> QED
      BY <3>1
<1> QED
  BY <1>5, <1>6

(* For a cell, more than MaxBatch numbers are free.                        *)
LEMMA NumbersAreFree ==
  ASSUME NEW taken, IsFiniteSet(taken), NEW c
  PROVE  /\ Cardinality(taken) + MaxBatch \in Nat
         /\ Numbers(taken, c) \in SUBSET (0..(Cardinality(taken) + MaxBatch))
         /\ Cardinality(Numbers(taken, c)) > MaxBatch
<1> DEFINE N == Cardinality(taken) + MaxBatch
           X == {k \in 0..N : <<c[1], c[2], k>> \in taken}
           f == [k \in X |-> <<c[1], c[2], k>>]
<1>1. Cardinality(taken) \in Nat /\ MaxBatch \in Nat /\ N \in Nat
  BY FS_CardinalityType, UnitAssumption
<1>2. f \in Injection(X, taken)
  BY DEF Injection, IsInjective
<1>3. IsFiniteSet(X) /\ Cardinality(X) <= Cardinality(taken) /\ Cardinality(X) \in Nat
  <2> HIDE DEF f, X
  <2> QED
    BY <1>2, FS_Injection, FS_CardinalityType
<1>4. IsFiniteSet(0..N) /\ Cardinality(0..N) = N + 1
  BY <1>1, FS_Interval
<1>5. Numbers(taken, c) \cap X = {} /\ Numbers(taken, c) \cup X = 0..N
  BY DEF Numbers
<1>6. IsFiniteSet(Numbers(taken, c)) /\ Numbers(taken, c) \in SUBSET (0..N)
  <2>1. Numbers(taken, c) \in SUBSET (0..N)
    BY <1>5
  <2> QED
    BY <1>4, <2>1, FS_Subset
<1>7. N + 1 = Cardinality(Numbers(taken, c)) + Cardinality(X) - 0
  <2>1. Cardinality({}) = 0
    BY FS_EmptySet
  <2> HIDE DEF X, N
  <2>2. Cardinality(Numbers(taken, c) \cup X)
          = Cardinality(Numbers(taken, c)) + Cardinality(X) - Cardinality(Numbers(taken, c) \cap X)
    BY <1>3, <1>6, FS_Union
  <2> QED
    BY <1>4, <1>5, <2>1, <2>2
<1>8. Cardinality(Numbers(taken, c)) \in Nat
  BY <1>6, FS_CardinalityType
<1> HIDE DEF X
<1> QED
  BY <1>1, <1>3, <1>6, <1>7, <1>8

LEMMA NewPathIsNew ==
  ASSUME NEW taken, IsFiniteSet(taken), NEW c \in Cells
  PROVE  NewPath(taken, c) \notin taken /\ Cell(NewPath(taken, c)) = c
<1> DEFINE S == Numbers(taken, c)
<1>1. S # {} /\ S \in SUBSET Nat
  <2>1. 0..(Cardinality(taken) + MaxBatch) \subseteq Nat
    BY NumbersAreFree
  <2>2. Cardinality(S) > MaxBatch /\ S \in SUBSET (0..(Cardinality(taken) + MaxBatch))
    BY NumbersAreFree
  <2>3. S # {}
    BY <2>2, FS_EmptySet, UnitAssumption
  <2> QED
    BY <2>1, <2>2, <2>3
<1>2. \E k \in S : \A l \in S : k <= l
  BY <1>1, LeastNumber
<1>3. Least(S) \in S
  BY <1>2 DEF Least
<1>4. <<c[1], c[2], Least(S)>> \notin taken
  BY <1>3 DEF Numbers
<1> QED
  BY <1>4 DEF NewPath, Cell, Cells

-----------------------------------------------------------------------------
(* The files of a batch are new, and each is the file of one position.     *)
CellOf(rows, p) == <<p[1], rows[p[2]]>>

LEMMA FilesOfBatch ==
  ASSUME IsFiniteSet(DOMAIN files), NEW n \in 0..MaxBatch, NEW rows \in [1..n -> Indexes],
         NEW big \in SUBSET (Fields \X (1..n))
  PROVE  /\ \A p \in big : /\ FileOf(big, rows, p) \notin DOMAIN files
                           /\ Cell(FileOf(big, rows, p)) = CellOf(rows, p)
                           /\ CellOf(rows, p) \in Cells
         /\ \A p, q \in big : FileOf(big, rows, p) = FileOf(big, rows, q) => p = q
<1> DEFINE taken == DOMAIN files
           earlier(p) == {q \in big : q[1] = p[1] /\ rows[q[2]] = rows[p[2]] /\ q[2] < p[2]}
           nth(p) == CHOOSE k \in Numbers(taken, CellOf(rows, p)) :
                       Cardinality({l \in Numbers(taken, CellOf(rows, p)) : l < k})
                         = Cardinality(earlier(p))
<1>0. MaxBatch \in Nat /\ n \in Nat /\ n <= MaxBatch
  BY UnitAssumption
<1>1. ASSUME NEW p \in big
      PROVE  /\ IsFiniteSet(earlier(p)) /\ Cardinality(earlier(p)) \in Nat
             /\ Cardinality(earlier(p)) <= MaxBatch
  <2> DEFINE E == earlier(p)
             f == [q \in E |-> q[2]]
  <2>1. f \in Injection(E, 1..n)
    BY DEF Injection, IsInjective
  <2>2. IsFiniteSet(1..n) /\ Cardinality(1..n) = n
    BY <1>0, FS_Interval
  <2> HIDE DEF f, E
  <2>3. IsFiniteSet(E) /\ Cardinality(E) <= n
    BY <2>1, <2>2, FS_Injection
  <2>4. Cardinality(E) \in Nat
    BY <2>3, FS_CardinalityType
  <2> QED
    BY <1>0, <2>3, <2>4 DEF E
<1>2. ASSUME NEW p \in big
      PROVE  /\ nth(p) \in Numbers(taken, CellOf(rows, p))
             /\ Cardinality({l \in Numbers(taken, CellOf(rows, p)) : l < nth(p)})
                  = Cardinality(earlier(p))
  <2> DEFINE S == Numbers(taken, CellOf(rows, p))
             m == Cardinality(earlier(p))
             N == Cardinality(taken) + MaxBatch
  <2>1. N \in Nat /\ S \in SUBSET (0..N) /\ Cardinality(S) > MaxBatch
    BY NumbersAreFree
  <2>2. m \in Nat /\ m <= MaxBatch
    BY <1>1
  <2>3. Cardinality(S) \in Nat
    <3>1. IsFiniteSet(0..N)
      BY <2>1, FS_Interval
    <3> HIDE DEF S, N
    <3> QED
      BY <2>1, <3>1, FS_Subset, FS_CardinalityType
  <2> HIDE DEF S, m, N
  <2>4. \E k \in S : Cardinality(Below(S, k)) = m
    <3>1. m < Cardinality(S)
      BY <1>0, <2>1, <2>2, <2>3
    <3> QED
      BY <2>1, <2>2, <3>1, NthExists
  <2>5. \E k \in S : Cardinality({l \in S : l < k}) = m
    BY <2>4 DEF Below
  <2> QED
    BY <2>5 DEF S, m
<1>3. \A p \in big : FileOf(big, rows, p) = <<p[1], rows[p[2]], nth(p)>>
  BY DEF FileOf, CellOf
<1>4. \A p \in big : p[1] \in Fields /\ p[2] \in 1..n /\ rows[p[2]] \in Indexes /\ p = <<p[1], p[2]>>
  OBVIOUS
<1>5. ASSUME NEW p \in big
      PROVE  /\ FileOf(big, rows, p) \notin DOMAIN files
             /\ Cell(FileOf(big, rows, p)) = CellOf(rows, p)
             /\ CellOf(rows, p) \in Cells
  <2>1. nth(p) \in Numbers(taken, CellOf(rows, p))
    BY <1>2
  <2> HIDE DEF nth
  <2>2. <<p[1], rows[p[2]], nth(p)>> \notin taken
    BY <2>1 DEF Numbers, CellOf
  <2> QED
    BY <1>3, <1>4, <2>2 DEF Cell, CellOf, Cells
<1>6. ASSUME NEW p \in big, NEW q \in big, p[1] = q[1], rows[p[2]] = rows[q[2]], nth(p) = nth(q),
             p[2] < q[2]
      PROVE  FALSE
  <2>1. earlier(p) \in SUBSET earlier(q)
    BY <1>4, <1>6
  <2>2. p \in earlier(q) /\ p \notin earlier(p)
    BY <1>4, <1>6
  <2>3. CellOf(rows, p) = CellOf(rows, q)
    BY <1>6 DEF CellOf
  <2>4. Cardinality(earlier(p)) = Cardinality(earlier(q))
    BY <1>2, <1>6, <2>3
  <2>5. IsFiniteSet(earlier(q))
    BY <1>1
  <2> HIDE DEF earlier
  <2> QED
    BY <2>1, <2>2, <2>4, <2>5, FS_Subset
<1>7. ASSUME NEW p \in big, NEW q \in big, FileOf(big, rows, p) = FileOf(big, rows, q)
      PROVE  p = q
  <2>1. p[1] = q[1] /\ rows[p[2]] = rows[q[2]] /\ nth(p) = nth(q)
    <3> HIDE DEF nth
    <3> QED
      BY <1>3, <1>7
  <2>2. ~(p[2] < q[2]) /\ ~(q[2] < p[2])
    BY <1>6, <2>1
  <2>3. p[2] = q[2]
    BY <1>4, <2>2
  <2> QED
    BY <1>4, <2>1, <2>3
<1> QED
  BY <1>5, <1>7

-----------------------------------------------------------------------------
(* Replacing values.  What a unit holds, its files, and those whose unlink *)
(* failed: a reference is to a file of its own.                            *)
IsMap(f) == f = [x \in DOMAIN f |-> f[x]]

IsMemory(e) == \E v \in Values : e = Memory(v)

IsOwn(e, c, disk) ==
  IsRef(e) /\ e.path \in DOMAIN disk /\ Cell(e.path) = c /\ disk[e.path] \in Values

Holds(h, held, disk, gone) ==
  /\ IsMap(held) /\ IsFiniteSet(DOMAIN held) /\ DOMAIN held \subseteq Cells
  /\ IsMap(disk) /\ IsFiniteSet(DOMAIN disk)
  /\ \A c \in DOMAIN held : IsMemory(held[c]) \/ (h /\ IsOwn(held[c], c, disk))
  /\ DOMAIN disk = Refs(held) \cup gone
  /\ Refs(held) \cap gone = {}

RefCells(held) == {c \in DOMAIN held : IsRef(held[c])}

(* The value a cell shows.                                                 *)
Show(e, disk) == IF IsRef(e) THEN disk[e.path] ELSE e.value

(* The cells C get other values, or none; the large ones are new files.    *)
Replaces(h, C, new, held, disk, next) ==
  /\ IsMap(new) /\ IsFiniteSet(DOMAIN new) /\ DOMAIN new \cap DOMAIN disk = {}
  /\ IsMap(next) /\ IsFiniteSet(DOMAIN next) /\ DOMAIN next \subseteq Cells
  /\ \A c \in DOMAIN held \ C : c \in DOMAIN next /\ next[c] = held[c]
  /\ DOMAIN next \ C \subseteq DOMAIN held
  /\ \A c \in DOMAIN next \cap C : IsMemory(next[c]) \/ (h /\ IsOwn(next[c], c, new))

Obsolete(C, new, held, next) == Refs(Only(held, C)) \cup (DOMAIN new \ Refs(next))

LEMMA MemoryIsNoRef ==
  /\ \A e : IsMemory(e) => ~IsRef(e) /\ e.value \in Values
  /\ \A p : IsRef(SSD(p)) /\ SSD(p).path = p
BY DEF IsMemory, Memory, IsRef, SSD

LEMMA RefsOfReplaced ==
  ASSUME NEW h, NEW held, NEW disk, NEW gone, Holds(h, held, disk, gone),
         NEW C, NEW new, NEW next, Replaces(h, C, new, held, disk, next)
  PROVE  /\ Refs(Only(held, C)) \subseteq Refs(held)
         /\ Refs(held) \subseteq DOMAIN disk
         /\ Refs(next) = (Refs(held) \ Refs(Only(held, C))) \cup (Refs(next) \cap DOMAIN new)
         /\ \A c \in RefCells(held) : Cell(held[c].path) = c
         /\ \A c \in RefCells(next) : Cell(next[c].path) = c
<1>1. Refs(Only(held, C)) = {held[c].path : c \in RefCells(held) \cap C}
  BY DEF Refs, Only, RefCells
<1>2. Refs(held) = {held[c].path : c \in RefCells(held)} /\ Refs(next) = {next[c].path : c \in RefCells(next)}
  BY DEF Refs, RefCells
<1>3. \A c \in RefCells(held) : Cell(held[c].path) = c /\ held[c].path \in DOMAIN disk
  BY MemoryIsNoRef DEF Holds, RefCells, IsOwn
<1>4. \A c \in RefCells(next) \cap C : Cell(next[c].path) = c /\ next[c].path \in DOMAIN new
  BY MemoryIsNoRef DEF Replaces, RefCells, IsOwn
<1>5. \A c \in RefCells(next) \ C : c \in RefCells(held) /\ next[c] = held[c]
  BY DEF Replaces, RefCells
<1>6. \A c \in RefCells(held) \ C : c \in RefCells(next) /\ next[c] = held[c]
  BY DEF Replaces, RefCells
<1>7. ASSUME NEW p \in Refs(next)
      PROVE  p \in (Refs(held) \ Refs(Only(held, C))) \cup (Refs(next) \cap DOMAIN new)
  <2>1. PICK c \in RefCells(next) : p = next[c].path
    BY <1>2
  <2>2. CASE c \in C
    BY <1>4, <2>1, <2>2
  <2>3. CASE c \notin C
    <3>1. c \in RefCells(held) /\ p = held[c].path
      BY <1>5, <2>1, <2>3
    <3>2. p \notin Refs(Only(held, C))
      BY <1>1, <1>3, <2>3, <3>1
    <3> QED
      BY <1>2, <3>1, <3>2
  <2> QED
    BY <2>2, <2>3
<1>8. ASSUME NEW p \in Refs(held), p \notin Refs(Only(held, C))
      PROVE  p \in Refs(next)
  <2>1. PICK c \in RefCells(held) : p = held[c].path
    BY <1>2
  <2>2. c \notin C
    BY <1>1, <1>8, <2>1
  <2> QED
    BY <1>2, <1>6, <2>1, <2>2
<1>9. \A c \in RefCells(next) : Cell(next[c].path) = c
  BY <1>3, <1>4, <1>5
<1>10. Refs(Only(held, C)) \subseteq Refs(held)
  BY <1>1, <1>2
<1>11. Refs(held) \subseteq DOMAIN disk
  BY <1>2, <1>3
<1> QED
  BY <1>3, <1>7, <1>8, <1>9, <1>10, <1>11

Replaced(h, C, new, held, disk, next, disk2, gone2) ==
  /\ Holds(h, next, disk2, gone2)
  /\ \A c \in DOMAIN next \cap C : Show(next[c], disk2) = Show(next[c], new)
  /\ \A c \in DOMAIN next \ C : Show(next[c], disk2) = Show(held[c], disk)

LEMMA Replacing ==
  ASSUME NEW h, NEW held, NEW disk, NEW gone, Holds(h, held, disk, gone),
         NEW C, NEW new, NEW next, Replaces(h, C, new, held, disk, next),
         NEW S, S \subseteq Obsolete(C, new, held, next)
  PROVE  Replaced(h, C, new, held, disk, next,
                  Without(Over(disk, new), Obsolete(C, new, held, next) \ S), gone \cup S)
<1> DEFINE O == Obsolete(C, new, held, next)
           disk2 == Without(Over(disk, new), O \ S)
           R == Refs(held)
           RC == Refs(Only(held, C))
           RN == Refs(next)
<1>1. RC \subseteq R /\ R \subseteq DOMAIN disk /\ RN = (R \ RC) \cup (RN \cap DOMAIN new)
  BY RefsOfReplaced
<1>2. O = RC \cup (DOMAIN new \ RN)
  BY DEF Obsolete
<1>3. DOMAIN new \cap DOMAIN disk = {} /\ DOMAIN disk = R \cup gone /\ R \cap gone = {}
  BY DEF Replaces, Holds
<1>4. DOMAIN disk2 = (DOMAIN disk \cup DOMAIN new) \ (O \ S) /\ IsMap(disk2)
  BY DEF Without, Over, IsMap
<1>5. \A p \in DOMAIN disk2 : disk2[p] = IF p \in DOMAIN new THEN new[p] ELSE disk[p]
  BY DEF Without, Over
<1>6. RN \cap O = {}
  BY <1>1, <1>2, <1>3
<1>7. DOMAIN disk2 = RN \cup (gone \cup S)
  <2> HIDE DEF R, RC, RN, O, disk2
  <2>1. S \subseteq O
    BY DEF O
  <2> QED
    BY <2>1, <1>1, <1>2, <1>3, <1>4, <1>6
<1>8. RN \cap (gone \cup S) = {}
  <2>1. S \subseteq O
    OBVIOUS
  <2> HIDE DEF R, RC, RN, O, disk2
  <2> QED
    BY <2>1, <1>1, <1>2, <1>3, <1>6
<1>9. IsFiniteSet(DOMAIN disk2)
  <2>1. IsFiniteSet(DOMAIN disk \cup DOMAIN new)
    BY FS_Union DEF Holds, Replaces
  <2> HIDE DEF disk2, O
  <2> QED
    BY <1>4, <2>1, FS_Subset
<1>10. ASSUME NEW c \in DOMAIN next
       PROVE  /\ IsMemory(next[c]) \/ (h /\ IsOwn(next[c], c, disk2))
              /\ c \in C => Show(next[c], disk2) = Show(next[c], new)
              /\ c \notin C => Show(next[c], disk2) = Show(held[c], disk)
  <2>0. IsRef(next[c]) => next[c].path \in RN
    BY DEF Refs
  <2>1. IsRef(next[c]) => next[c].path \in DOMAIN disk2
    BY <1>7, <2>0
  <2>2. CASE c \in C
    <3>1. IsMemory(next[c]) \/ (h /\ IsOwn(next[c], c, new))
      BY <2>2 DEF Replaces
    <3> HIDE DEF disk2, RN
    <3> QED
      BY <1>5, <2>1, <2>2, <3>1, MemoryIsNoRef DEF IsOwn, Show
  <2>3. CASE c \notin C
    <3>1. c \in DOMAIN held /\ next[c] = held[c]
      BY <2>3 DEF Replaces
    <3>2. IsMemory(next[c]) \/ (h /\ IsOwn(next[c], c, disk))
      BY <3>1 DEF Holds
    <3> HIDE DEF disk2, RN
    <3> QED
      BY <1>3, <1>5, <2>1, <2>3, <3>1, <3>2, MemoryIsNoRef DEF IsOwn, Show
  <2> QED
    BY <2>2, <2>3
<1>11. Holds(h, next, disk2, gone \cup S)
  <2>1. IsMap(next) /\ IsFiniteSet(DOMAIN next) /\ DOMAIN next \subseteq Cells
    BY DEF Replaces
  <2> HIDE DEF disk2
  <2> QED
    BY <1>4, <1>7, <1>8, <1>9, <1>10, <2>1 DEF Holds
<1> HIDE DEF disk2
<1>12. Replaced(h, C, new, held, disk, next, disk2, gone \cup S)
  BY <1>10, <1>11 DEF Replaced
<1> QED
  BY <1>12 DEF disk2

-----------------------------------------------------------------------------
(* As many cells hold a reference as there are files referred to.          *)
LEMMA RefsAreCells ==
  ASSUME NEW held, IsFiniteSet(DOMAIN held), \A c \in RefCells(held) : Cell(held[c].path) = c
  PROVE  /\ IsFiniteSet(RefCells(held)) /\ IsFiniteSet(Refs(held))
         /\ Cardinality(Refs(held)) = Cardinality(RefCells(held))
<1> DEFINE D == RefCells(held)
           f == [c \in D |-> held[c].path]
<1>1. IsFiniteSet(D)
  <2>1. D \in SUBSET DOMAIN held
    BY DEF RefCells
  <2> QED
    BY <2>1, FS_Subset
<1>2. f \in Bijection(D, Refs(held))
  <2>1. Refs(held) = {held[c].path : c \in D}
    BY DEF Refs, RefCells
  <2> HIDE DEF D
  <2>2. \A c \in D : Cell(held[c].path) = c
    BY DEF D
  <2> QED
    BY <2>1, <2>2 DEF Bijection, Injection, Surjection, IsInjective
<1>3. ExistsBijection(D, Refs(held))
  BY <1>2 DEF ExistsBijection
<1> QED
  BY <1>1, <1>3, FS_Bijection

LEMMA DisjointUnion ==
  ASSUME NEW A, NEW B, IsFiniteSet(A), IsFiniteSet(B), A \cap B = {}
  PROVE  Cardinality(A \cup B) = Cardinality(A) + Cardinality(B)
<1>1. Cardinality(A \cup B) = Cardinality(A) + Cardinality(B) - Cardinality(A \cap B)
  BY FS_Union
<1>2. Cardinality(A \cap B) = 0
  BY FS_EmptySet
<1>3. Cardinality(A) \in Nat /\ Cardinality(B) \in Nat
  BY FS_CardinalityType
<1> QED
  BY <1>1, <1>2, <1>3

(* The count follows: every new file, less every obsolete one.             *)
LEMMA ReplacingCounts ==
  ASSUME NEW h, NEW held, NEW disk, NEW gone, Holds(h, held, disk, gone),
         NEW C, NEW new, NEW next, Replaces(h, C, new, held, disk, next)
  PROVE  Cardinality(RefCells(next))
           = Cardinality(RefCells(held)) + Cardinality(DOMAIN new)
               - Cardinality(Obsolete(C, new, held, next))
<1> DEFINE O == Obsolete(C, new, held, next)
           R == Refs(held)
           RC == Refs(Only(held, C))
           RN == Refs(next)
           N == DOMAIN new
           K == RN \cap N
<1>1. RC \subseteq R /\ R \subseteq DOMAIN disk /\ RN = (R \ RC) \cup K
  BY RefsOfReplaced
<1>2. O = RC \cup (N \ K)
  BY DEF Obsolete
<1>3. N \cap DOMAIN disk = {} /\ IsFiniteSet(N)
  BY DEF Replaces
<1>4. IsFiniteSet(R) /\ Cardinality(R) = Cardinality(RefCells(held))
  BY RefsOfReplaced, RefsAreCells DEF Holds
<1>5. Cardinality(RN) = Cardinality(RefCells(next))
  BY SMTT(20), RefsOfReplaced, RefsAreCells DEF Replaces
<1> HIDE DEF O, R, RC, RN, N
<1>6. IsFiniteSet(RC) /\ IsFiniteSet(K) /\ IsFiniteSet(R \ RC) /\ IsFiniteSet(N \ K)
  BY <1>1, <1>3, <1>4, FS_Subset
<1>7. Cardinality(R \ RC) = Cardinality(R) - Cardinality(RC)
  <2>1. R \cap RC = RC
    BY <1>1
  <2> QED
    BY <1>4, <2>1, FS_Difference
<1>8. Cardinality(N \ K) = Cardinality(N) - Cardinality(K)
  <2>1. N \cap K = K
    OBVIOUS
  <2> QED
    BY <1>3, <2>1, FS_Difference
<1>9. Cardinality(RN) = Cardinality(R \ RC) + Cardinality(K)
  <2>1. (R \ RC) \cap K = {}
    BY <1>1, <1>3
  <2> QED
    BY <1>1, <1>6, <2>1, DisjointUnion
<1>10. Cardinality(O) = Cardinality(RC) + Cardinality(N \ K)
  <2>1. RC \cap (N \ K) = {}
    BY <1>1, <1>3
  <2> QED
    BY <1>2, <1>6, <2>1, DisjointUnion
<1>11. {Cardinality(R), Cardinality(RC), Cardinality(N), Cardinality(K)} \subseteq Nat
  BY <1>3, <1>4, <1>6, FS_CardinalityType
<1>12. Cardinality(RN) = Cardinality(R) + Cardinality(N) - Cardinality(O)
  BY <1>7, <1>8, <1>9, <1>10, <1>11
<1> QED
  BY <1>4, <1>5, <1>12 DEF N, O

-----------------------------------------------------------------------------
(* The unit: its entries and files, its checkpoints and its dump.          *)
FilesInv ==
  /\ hybrid \in BOOLEAN
  /\ Holds(hybrid, field_data, files, lost)
  /\ CountsOffloaded

IsStored(f) ==
  /\ IsMap(f) /\ IsFiniteSet(DOMAIN f) /\ DOMAIN f \subseteq Cells
  /\ \A c \in DOMAIN f : f[c] \in Values

SavedInv ==
  /\ IsMap(saved)
  /\ \A n \in DOMAIN saved :
       /\ IsStored(saved[n].memory) /\ IsStored(saved[n].ssd_index)
       /\ saved[n].format \in BOOLEAN
       /\ ~saved[n].format => DOMAIN saved[n].ssd_index = {}

DumpInv == DOMAIN dump \subseteq Cells /\ \A c \in DOMAIN dump : IsMemory(dump[c])

UnitInv == FilesInv /\ SavedInv /\ DumpInv

(* What the cells outside C show stays, and those in C show f.             *)
ShowsOutside(C) ==
  \A c \in DOMAIN field_data' \ C :
    c \in DOMAIN field_data /\ Show(field_data'[c], files') = Show(field_data[c], files)

ShowsInside(C, new) ==
  \A c \in DOMAIN field_data' \cap C : Show(field_data'[c], files') = Show(field_data'[c], new)

LEMMA ReplacingKeeps ==
  ASSUME FilesInv, NEW C, NEW new, NEW next, NEW k,
         Replaces(hybrid, C, new, field_data, files, next),
         Unlink(Over(files, new), Obsolete(C, new, field_data, next), k),
         hybrid' = hybrid, field_data' = next,
         active_values' = Cardinality(RefCells(next))
  PROVE  FilesInv' /\ ShowsOutside(C) /\ ShowsInside(C, new)
<1>1. Holds(hybrid, field_data, files, lost)
  BY DEF FilesInv
<1>2. PICK S : /\ S \subseteq Obsolete(C, new, field_data, next)
               /\ files' = Without(Over(files, new), Obsolete(C, new, field_data, next) \ S)
               /\ lost' = lost \cup S
  BY DEF Unlink
<1>3. /\ Holds(hybrid, next, files', lost')
      /\ \A c \in DOMAIN next \cap C : Show(next[c], files') = Show(next[c], new)
      /\ \A c \in DOMAIN next \ C : Show(next[c], files') = Show(field_data[c], files)
  <2>1. Replaced(hybrid, C, new, field_data, files, next,
                 Without(Over(files, new), Obsolete(C, new, field_data, next) \ S), lost \cup S)
    BY <1>1, <1>2, Replacing
  <2>2. Replaced(hybrid, C, new, field_data, files, next, files', lost')
    BY <1>2, <2>1
  <2> QED
    BY <2>2 DEF Replaced
<1>4. CountsOffloaded'
  BY DEF CountsOffloaded, RefCells
<1>5. FilesInv'
  BY <1>3, <1>4 DEF FilesInv
<1>6. \A c \in DOMAIN next \ C : c \in DOMAIN field_data
  BY DEF Replaces
<1> QED
  BY <1>3, <1>5, <1>6 DEF ShowsOutside, ShowsInside

(* The same, with the count as put_data and clear change it.               *)
LEMMA ReplacingCounted ==
  ASSUME FilesInv, NEW C, NEW new, NEW next, NEW k,
         Replaces(hybrid, C, new, field_data, files, next),
         Unlink(Over(files, new), Obsolete(C, new, field_data, next), k),
         hybrid' = hybrid, field_data' = next,
         active_values' = active_values + Cardinality(DOMAIN new)
                            - Cardinality(Obsolete(C, new, field_data, next))
  PROVE  FilesInv' /\ ShowsOutside(C) /\ ShowsInside(C, new)
<1>1. Holds(hybrid, field_data, files, lost) /\ active_values = Cardinality(RefCells(field_data))
  BY DEF FilesInv, CountsOffloaded, RefCells
<1>2. active_values' = Cardinality(RefCells(next))
  BY <1>1, ReplacingCounts
<1> QED
  BY <1>2, ReplacingKeeps

Nothing == [x \in {} |-> x]

LEMMA NothingIs ==
  /\ IsMap(Nothing) /\ IsFiniteSet(DOMAIN Nothing) /\ DOMAIN Nothing = {}
  /\ \A f : IsMap(f) => Over(f, Nothing) = f
BY FS_EmptySet DEF Nothing, IsMap, Over

(* Files that are written and then unlinked, or cannot be.                 *)
LEMMA StagingKeeps ==
  ASSUME FilesInv, NEW new, NEW k, IsMap(new), IsFiniteSet(DOMAIN new),
         DOMAIN new \cap DOMAIN files = {},
         Unlink(Over(files, new), DOMAIN new, k),
         UNCHANGED <<hybrid, field_data, active_values>>
  PROVE  FilesInv' /\ ShowsOutside({}) /\ DOMAIN field_data' = DOMAIN field_data
<1>1. Holds(hybrid, field_data, files, lost)
  BY DEF FilesInv
<1>2. Refs(field_data) \subseteq DOMAIN files
  BY <1>1 DEF Holds
<1>3. Obsolete({}, new, field_data, field_data) = DOMAIN new
  <2>1. Refs(Only(field_data, {})) = {}
    BY DEF Refs, Only
  <2> QED
    BY <1>2, <2>1 DEF Obsolete
<1>4. Replaces(hybrid, {}, new, field_data, files, field_data)
  BY <1>1 DEF Replaces, Holds
<1>5. Cardinality(DOMAIN new) \in Nat
  BY FS_CardinalityType
<1>6. active_values \in Nat
  <2>1. IsFiniteSet(RefCells(field_data))
    <3>1. RefCells(field_data) \in SUBSET DOMAIN field_data /\ IsFiniteSet(DOMAIN field_data)
      BY <1>1 DEF Holds, RefCells
    <3> QED
      BY <3>1, FS_Subset
  <2> QED
    BY <2>1, FS_CardinalityType DEF FilesInv, CountsOffloaded, RefCells
<1>7. active_values' = active_values + Cardinality(DOMAIN new) - Cardinality(DOMAIN new)
  BY <1>5, <1>6
<1> QED
  BY <1>3, <1>4, <1>7, ReplacingCounted

-----------------------------------------------------------------------------
(* put_data.                                                               *)
IsBatch(F, n, rows, v) ==
  /\ F \in SUBSET Fields
  /\ n \in 1..MaxBatch /\ rows \in [1..n -> Indexes]
  /\ DOMAIN v = F \X (1..n) /\ \A p \in DOMAIN v : IsMemory(v[p])

LEMMA LastRowIs ==
  ASSUME NEW n \in Nat, NEW rows \in [1..n -> Indexes], NEW i \in Range(rows)
  PROVE  LastRow(rows, i) \in 1..n /\ rows[LastRow(rows, i)] = i
<1> DEFINE T == {k \in 1..n : rows[k] = i}
<1>1. T \in SUBSET (0..n) /\ T # {}
  BY DEF Range
<1> HIDE DEF T
<1>2. PICK k \in T : \A l \in T : l <= k
  BY <1>1, GreatestOf
<1>3. k \in DOMAIN rows /\ rows[k] = i /\ \A l \in DOMAIN rows : rows[l] = i => l <= k
  BY <1>2 DEF T
<1>4. LastRow(rows, i) \in DOMAIN rows /\ rows[LastRow(rows, i)] = i
  BY <1>3 DEF LastRow
<1> QED
  BY <1>4

(* What is written for a batch.                                            *)
LEMMA WrittenIs ==
  ASSUME FilesInv, NEW F, NEW n, NEW rows, NEW v, IsBatch(F, n, rows, v)
  PROVE  LET big == Offloaded(F, rows, v)
             new == Written(big, rows, v)
         IN  /\ IsMap(new) /\ IsFiniteSet(DOMAIN new) /\ DOMAIN new \cap DOMAIN files = {}
             /\ big \in SUBSET (F \X (1..n)) /\ (big # {} => hybrid)
             /\ \A p \in big : /\ FileOf(big, rows, p) \in DOMAIN new
                               /\ new[FileOf(big, rows, p)] = v[p].value
                               /\ Cell(FileOf(big, rows, p)) = CellOf(rows, p)
<1> DEFINE big == Offloaded(F, rows, v)
           new == Written(big, rows, v)
           file(p) == FileOf(big, rows, p)
<1>1. big \in SUBSET (F \X (1..n)) /\ (big # {} => hybrid)
  BY DEF Offloaded, IsBatch
<1>2. n \in 0..MaxBatch /\ rows \in [1..n -> Indexes] /\ big \in SUBSET (Fields \X (1..n)) /\ n \in Nat
  BY <1>1, UnitAssumption DEF IsBatch
<1>3. IsFiniteSet(DOMAIN files)
  BY DEF FilesInv, Holds
<1>4. /\ \A p \in big : file(p) \notin DOMAIN files /\ Cell(file(p)) = CellOf(rows, p)
      /\ \A p, q \in big : file(p) = file(q) => p = q
  <2> HIDE DEF big
  <2> QED
    BY <1>2, <1>3, FilesOfBatch
<1>5. IsFiniteSet(big)
  <2>1. IsFiniteSet(Fields \X (1..n))
    <3>1. IsFiniteSet(1..n)
      BY <1>2, FS_Interval
    <3> QED
      BY <3>1, UnitAssumption, FS_Product
  <2> HIDE DEF big
  <2> QED
    BY <1>2, <2>1, FS_Subset
<1> HIDE DEF big
<1>6. DOMAIN new = {file(p) : p \in big} /\ IsMap(new)
  BY DEF Written, IsMap
<1>7. \A p \in big : new[file(p)] = v[p].value
  <2> TAKE p \in big
  <2>1. file(p) \in {file(q) : q \in big}
    OBVIOUS
  <2>2. (CHOOSE q \in big : file(q) = file(p)) = p
    BY <1>4
  <2> QED
    BY <2>1, <2>2 DEF Written
<1>8. IsFiniteSet(DOMAIN new)
  <2> DEFINE f == [p \in big |-> file(p)]
  <2>1. f \in Surjection(big, DOMAIN new)
    BY <1>6 DEF Surjection
  <2> HIDE DEF f, new
  <2> QED
    BY <1>5, <2>1, FS_Surjection
<1>9. DOMAIN new \cap DOMAIN files = {}
  BY <1>4, <1>6
<1> HIDE DEF new, file
<1>10. /\ IsMap(new) /\ IsFiniteSet(DOMAIN new) /\ DOMAIN new \cap DOMAIN files = {}
       /\ big \in SUBSET (F \X (1..n)) /\ (big # {} => hybrid)
       /\ \A p \in big : file(p) \in DOMAIN new /\ new[file(p)] = v[p].value /\ Cell(file(p)) = CellOf(rows, p)
  BY <1>1, <1>4, <1>6, <1>7, <1>8, <1>9
<1> QED
  BY <1>10 DEF new, big, file

(* All the new values are there at once.                                   *)
Stores(cells) ==
  /\ DOMAIN field_data' = DOMAIN field_data \cup cells
  /\ \A c \in cells : Show(field_data'[c], files') \in Values
  /\ ShowsOutside(cells)

LEMMA PutDataKeeps ==
  ASSUME FilesInv, NEW F, NEW n, NEW rows, NEW v, IsBatch(F, n, rows, v),
         PutData(F, rows, v), hybrid' = hybrid
  PROVE  FilesInv' /\ Stores(F \X Range(rows))
<1> DEFINE C == F \X Range(rows)
           big == Offloaded(F, rows, v)
           new == Written(big, rows, v)
           pos(c) == <<c[1], LastRow(rows, c[2])>>
           held == [c \in C |-> Prepared(big, rows, v, pos(c))]
           next == Over(field_data, held)
           old == IF hybrid THEN Refs(Only(field_data, C)) ELSE {}
           obsolete == old \cup (DOMAIN new \ Refs(held))
<1>0. Holds(hybrid, field_data, files, lost) /\ hybrid \in BOOLEAN
  BY DEF FilesInv
<1>1. /\ field_data' = next
      /\ active_values' = active_values + Cardinality(DOMAIN new) - Cardinality(obsolete)
      /\ Unlink(Over(files, new), obsolete, 0)
  BY DEF PutData
<1>2. /\ IsMap(new) /\ IsFiniteSet(DOMAIN new) /\ DOMAIN new \cap DOMAIN files = {}
      /\ big \in SUBSET (F \X (1..n)) /\ (big # {} => hybrid)
      /\ \A p \in big : /\ FileOf(big, rows, p) \in DOMAIN new
                        /\ new[FileOf(big, rows, p)] = v[p].value
                        /\ Cell(FileOf(big, rows, p)) = CellOf(rows, p)
  BY WrittenIs
<1>3. ASSUME NEW c \in C
      PROVE  /\ pos(c) \in F \X (1..n) /\ CellOf(rows, pos(c)) = c /\ c \in Cells
  <2>1. c[1] \in F /\ c[2] \in Range(rows) /\ c = <<c[1], c[2]>>
    OBVIOUS
  <2>2. n \in Nat /\ rows \in [1..n -> Indexes]
    BY UnitAssumption DEF IsBatch
  <2>3. LastRow(rows, c[2]) \in 1..n /\ rows[LastRow(rows, c[2])] = c[2]
    BY <2>1, <2>2, LastRowIs
  <2>4. c[1] \in Fields /\ c[2] \in Indexes
    BY <2>1, <2>2 DEF IsBatch, Range
  <2> QED
    BY <2>1, <2>3, <2>4 DEF CellOf, Cells
<1> HIDE DEF big, new
<1>4. ASSUME NEW c \in C
      PROVE  /\ IsMemory(held[c]) \/ (hybrid /\ IsOwn(held[c], c, new))
             /\ Show(held[c], new) \in Values
  <2>1. held[c] = Prepared(big, rows, v, pos(c))
    OBVIOUS
  <2>2. pos(c) \in DOMAIN v /\ IsMemory(v[pos(c)]) /\ CellOf(rows, pos(c)) = c
    BY <1>3 DEF IsBatch
  <2> HIDE DEF pos
  <2>3. CASE pos(c) \in big
    <3>1. held[c] = SSD(FileOf(big, rows, pos(c)))
      BY <2>1, <2>3 DEF Prepared
    <3>2. IsRef(held[c]) /\ held[c].path = FileOf(big, rows, pos(c))
      BY <3>1, MemoryIsNoRef
    <3> HIDE DEF held
    <3>3. new[held[c].path] \in Values /\ held[c].path \in DOMAIN new /\ Cell(held[c].path) = c
      BY <1>2, <2>2, <2>3, <3>2, MemoryIsNoRef
    <3> QED
      BY <1>2, <2>3, <3>2, <3>3 DEF IsOwn, Show
  <2>4. CASE pos(c) \notin big
    <3>1. held[c] = v[pos(c)]
      BY <2>1, <2>4 DEF Prepared
    <3> QED
      BY <2>2, <3>1, MemoryIsNoRef DEF Show
  <2> QED
    BY <2>3, <2>4
<1>5. /\ DOMAIN held = C
      /\ DOMAIN next = DOMAIN field_data \cup C /\ IsMap(next)
      /\ \A c \in C : next[c] = held[c]
      /\ \A c \in DOMAIN field_data \ C : next[c] = field_data[c]
  BY DEF Over, IsMap
<1> HIDE DEF held
<1>6. IsFiniteSet(C)
  <2>1. n \in Nat /\ rows \in [1..n -> Indexes] /\ F \in SUBSET Fields
    BY UnitAssumption DEF IsBatch
  <2>2. IsFiniteSet(F)
    BY <2>1, UnitAssumption, FS_Subset
  <2>3. rows \in Surjection(1..n, Range(rows))
    BY <2>1 DEF Surjection, Range
  <2>4. IsFiniteSet(Range(rows))
    BY <2>1, <2>3, FS_Interval, FS_Surjection
  <2> QED
    BY <2>2, <2>4, FS_Product
<1>7. Replaces(hybrid, C, new, field_data, files, next)
  <2>1. IsFiniteSet(DOMAIN next) /\ DOMAIN next \subseteq Cells
    <3>1. IsFiniteSet(DOMAIN field_data) /\ DOMAIN field_data \subseteq Cells
      BY <1>0 DEF Holds
    <3>2. C \subseteq Cells
      BY <1>3
    <3> HIDE DEF C, next
    <3> QED
      BY <1>5, <1>6, <3>1, <3>2, FS_Union
  <2> HIDE DEF C, next
  <2> QED
    BY <1>2, <1>4, <1>5, <2>1 DEF Replaces
<1>8. obsolete = Obsolete(C, new, field_data, next)
  <2>1. Refs(held) = {held[c].path : c \in {d \in C : IsRef(held[d])}}
    BY <1>5 DEF Refs
  <2>2. Refs(next) = {next[c].path : c \in {d \in DOMAIN next : IsRef(next[d])}}
    BY DEF Refs
  <2> HIDE DEF next, C
  <2>3. Refs(held) \subseteq Refs(next)
    BY <1>5, <2>1, <2>2
  <2>4. Refs(next) \cap DOMAIN new \subseteq Refs(held)
    <3> SUFFICES ASSUME NEW p \in Refs(next), p \in DOMAIN new PROVE p \in Refs(held)
      OBVIOUS
    <3>1. PICK c \in DOMAIN next : IsRef(next[c]) /\ p = next[c].path
      BY <2>2
    <3>2. CASE c \in C
      BY <1>5, <2>1, <3>1, <3>2
    <3>3. CASE c \notin C
      <4>1. c \in DOMAIN field_data /\ IsRef(field_data[c]) /\ p = field_data[c].path
        BY <1>5, <3>1, <3>3
      <4>2. p \in DOMAIN files
        BY <1>0, <4>1, MemoryIsNoRef DEF Holds, IsOwn
      <4> QED
        BY <1>2, <4>2
    <3> QED
      BY <3>2, <3>3
  <2>5. old = Refs(Only(field_data, C))
    <3>1. CASE ~hybrid
      <4>1. \A c \in DOMAIN field_data : ~IsRef(field_data[c])
        BY <1>0, <3>1, MemoryIsNoRef DEF Holds
      <4>2. Refs(Only(field_data, C)) = {}
        BY <4>1 DEF Refs, Only
      <4> QED
        BY <3>1, <4>2
    <3> QED
      BY <1>0, <3>1
  <2> QED
    BY <2>3, <2>4, <2>5 DEF Obsolete
<1> HIDE DEF obsolete, next, C
<1>9. FilesInv' /\ ShowsOutside(C) /\ ShowsInside(C, new)
  BY <1>1, <1>7, <1>8, ReplacingCounted
<1>10. \A c \in C : Show(field_data'[c], files') \in Values
  BY <1>1, <1>4, <1>5, <1>9 DEF ShowsInside
<1>11. DOMAIN field_data' = DOMAIN field_data \cup C
  BY <1>1, <1>5
<1>12. FilesInv' /\ Stores(C)
  BY <1>9, <1>10, <1>11 DEF Stores
<1> QED
  BY <1>12 DEF C

-----------------------------------------------------------------------------
(* What callers see, before and after a step.                              *)
Rows == [c \in DOMAIN field_data |-> Decode(field_data[c])]
Pictures == [n \in DOMAIN saved |-> Image(saved[n])]

Kept == Promise!Next \/ (Rows' = Rows /\ active_keys' = active_keys /\ Pictures' = Pictures)

LEMMA RowsShow ==
  /\ Rows = [c \in DOMAIN field_data |-> Show(field_data[c], files)]
  /\ Rows' = [c \in DOMAIN field_data' |-> Show(field_data'[c], files')]
BY DEF Rows, Decode, Show

LEMMA EmptyMap ==
  /\ IsMap(<<>>) /\ DOMAIN <<>> = {} /\ Refs(<<>>) = {} /\ RefCells(<<>>) = {}
  /\ \A f : IsMap(f) /\ DOMAIN f = {} => f = <<>>
BY DEF IsMap, Refs, RefCells

LEMMA FilesStay ==
  ASSUME FilesInv, UNCHANGED <<hybrid, field_data, files, active_values, lost>>
  PROVE  FilesInv' /\ Rows' = Rows
<1>1. FilesInv'
  BY DEF FilesInv, CountsOffloaded
<1>2. Rows' = Rows
  BY RowsShow
<1> QED
  BY <1>1, <1>2

LEMMA PicturesStay ==
  ASSUME UNCHANGED saved
  PROVE  Pictures' = Pictures /\ (SavedInv => SavedInv')
<1>1. Pictures' = Pictures
  BY DEF Pictures, Image
<1>2. SavedInv => SavedInv'
  BY DEF SavedInv
<1> QED
  BY <1>1, <1>2

LEMMA StartOver ==
  ASSUME hybrid' \in BOOLEAN, field_data' = <<>>, files' = <<>>, active_values' = 0, lost' = {}
  PROVE  FilesInv' /\ Rows' = <<>>
<1>1. Holds(hybrid', <<>>, <<>>, {})
  BY EmptyMap, FS_EmptySet DEF Holds
<1>2. CountsOffloaded'
  <2>1. {c \in DOMAIN field_data' : IsRef(field_data'[c])} = {}
    BY EmptyMap
  <2> QED
    BY <2>1, FS_EmptySet DEF CountsOffloaded
<1>3. IsMap(Rows') /\ DOMAIN Rows' = {}
  BY EmptyMap, RowsShow DEF IsMap
<1> QED
  BY <1>1, <1>2, <1>3, EmptyMap DEF FilesInv

LEMMA StartsOver ==
  ASSUME hybrid \in BOOLEAN, field_data = <<>>, files = <<>>, active_values = 0, lost = {}
  PROVE  FilesInv /\ Rows = <<>>
<1>1. Holds(hybrid, <<>>, <<>>, {})
  BY EmptyMap, FS_EmptySet DEF Holds
<1>2. CountsOffloaded
  <2>1. {c \in DOMAIN field_data : IsRef(field_data[c])} = {}
    BY EmptyMap
  <2> QED
    BY <2>1, FS_EmptySet DEF CountsOffloaded
<1>3. IsMap(Rows) /\ DOMAIN Rows = {}
  BY EmptyMap, RowsShow DEF IsMap
<1> QED
  BY <1>1, <1>2, <1>3, EmptyMap DEF FilesInv

-----------------------------------------------------------------------------
(* Puts.                                                                   *)
LEMMA StoresIsPut ==
  ASSUME NEW F \in (SUBSET Fields) \ {{}}, NEW I \in (SUBSET Indexes) \ {{}},
         Stores(F \X I), active_keys' = active_keys \cup I, Pictures' = Pictures
  PROVE  Promise!Put
<1>1. /\ DOMAIN Rows = DOMAIN field_data /\ DOMAIN Rows' = DOMAIN field_data'
      /\ \A c \in DOMAIN Rows : Rows[c] = Show(field_data[c], files)
      /\ \A c \in DOMAIN Rows' : Rows'[c] = Show(field_data'[c], files')
  BY RowsShow
<1>2. /\ DOMAIN Rows' = DOMAIN Rows \cup (F \X I)
      /\ \A c \in DOMAIN Rows' : IF c \in F \X I THEN Rows'[c] \in Values ELSE Rows'[c] = Rows[c]
  BY <1>1 DEF Stores, ShowsOutside
<1> QED
  BY <1>2 DEF Promise!Put, Rows, Pictures

LEMMA PutDataIsPut ==
  ASSUME FilesInv, NEW F, F # {}, NEW n, NEW rows, NEW v, IsBatch(F, n, rows, v),
         PutData(F, rows, v), hybrid' = hybrid, Pictures' = Pictures
  PROVE  FilesInv' /\ Promise!Put
<1>1. FilesInv' /\ Stores(F \X Range(rows))
  BY PutDataKeeps
<1>2. F \in (SUBSET Fields) \ {{}} /\ Range(rows) \in (SUBSET Indexes) \ {{}}
  <2>1. rows \in [1..n -> Indexes] /\ 1 \in 1..n
    BY UnitAssumption DEF IsBatch
  <2> QED
    BY <2>1 DEF IsBatch, Range
<1>3. active_keys' = active_keys \cup Range(rows)
  BY DEF PutData
<1> HIDE DEF Stores
<1> QED
  BY <1>1, <1>2, <1>3, StoresIsPut

LEMMA PutFailsKeeps ==
  ASSUME FilesInv, NEW F, NEW n, NEW rows, NEW v, IsBatch(F, n, rows, v),
         PutFails(F, rows, v), hybrid' = hybrid
  PROVE  FilesInv' /\ Rows' = Rows
<1> DEFINE new == Written(Offloaded(F, rows, v), rows, v)
<1>1. IsMap(new) /\ IsFiniteSet(DOMAIN new) /\ DOMAIN new \cap DOMAIN files = {}
  BY WrittenIs
<1>2. PICK k : Unlink(Over(files, new), DOMAIN new, k)
  BY DEF PutFails
<1>3. UNCHANGED <<hybrid, field_data, active_values>>
  BY DEF PutFails
<1> HIDE DEF new
<1>4. FilesInv' /\ ShowsOutside({}) /\ DOMAIN field_data' = DOMAIN field_data
  BY <1>1, <1>2, <1>3, StagingKeeps
<1>5. Rows' = Rows
  BY <1>4, RowsShow DEF ShowsOutside
<1> QED
  BY <1>4, <1>5

LEMMA PutKeeps ==
  ASSUME UnitInv, Put
  PROVE  UnitInv' /\ Kept
<1>1. PICK F \in (SUBSET Fields) \ {{}}, rows \in Batches :
        \E v \in [F \X DOMAIN rows -> {Memory(x) : x \in Values}] :
          PutData(F, rows, v) \/ PutFails(F, rows, v)
  BY DEF Put
<1>2. PICK v \in [F \X DOMAIN rows -> {Memory(x) : x \in Values}] :
        PutData(F, rows, v) \/ PutFails(F, rows, v)
  BY <1>1
<1>3. PICK n \in 1..MaxBatch : rows \in [1..n -> Indexes]
  BY DEF Batches
<1>4. IsBatch(F, n, rows, v)
  BY <1>3 DEF IsBatch, IsMemory
<1>5. UNCHANGED <<hybrid, saved, dump>>
  BY DEF Put
<1>6. Pictures' = Pictures /\ SavedInv' /\ DumpInv'
  BY <1>5, PicturesStay DEF UnitInv, DumpInv
<1>7. FilesInv' /\ Kept
  <2>1. CASE PutData(F, rows, v)
    <3>1. FilesInv' /\ Promise!Put
      BY <1>4, <1>5, <1>6, <2>1, PutDataIsPut DEF UnitInv
    <3> QED
      BY <3>1 DEF Kept, Promise!Next
  <2>2. CASE PutFails(F, rows, v)
    <3>1. FilesInv' /\ Rows' = Rows
      BY <1>4, <1>5, <2>2, PutFailsKeeps DEF UnitInv
    <3> QED
      BY <1>6, <2>2, <3>1 DEF Kept, PutFails
  <2> QED
    BY <1>2, <2>1, <2>2
<1> QED
  BY <1>6, <1>7 DEF UnitInv

LEMMA LoadRowsKeeps ==
  ASSUME UnitInv, LoadRows
  PROVE  UnitInv' /\ Kept
<1>1. PICK i \in {c[2] : c \in DOMAIN dump}, target \in Indexes :
        LET F == {c[1] : c \in {d \in DOMAIN dump : d[2] = i}}
        IN  PutData(F, <<target>>, [p \in F \X {1} |-> dump[<<p[1], i>>]])
  BY DEF LoadRows
<1> DEFINE F == {c[1] : c \in {d \in DOMAIN dump : d[2] = i}}
           rows == <<target>>
           v == [p \in F \X {1} |-> dump[<<p[1], i>>]]
<1>2. PutData(F, rows, v)
  BY <1>1
<1>3. F # {} /\ F \in SUBSET Fields /\ \A g \in F : <<g, i>> \in DOMAIN dump
  <2>1. \A d \in DOMAIN dump : d[1] \in Fields /\ d = <<d[1], d[2]>>
    BY DEF UnitInv, DumpInv, Cells
  <2> QED
    BY <2>1
<1>4. IsBatch(F, 1, rows, v)
  <2>1. 1..1 = {1} /\ 1 \in 1..MaxBatch /\ rows \in [1..1 -> Indexes]
    BY UnitAssumption
  <2>2. DOMAIN v = F \X (1..1)
    BY <2>1
  <2>3. \A p \in DOMAIN v : IsMemory(v[p])
    <3> HIDE DEF F
    <3>1. \A g \in F : IsMemory(dump[<<g, i>>])
      BY <1>3 DEF UnitInv, DumpInv
    <3> QED
      BY <3>1
  <2> HIDE DEF F, rows, v
  <2> QED
    BY <1>3, <2>1, <2>2, <2>3 DEF IsBatch
<1>5. UNCHANGED <<hybrid, saved, dump>>
  BY DEF LoadRows
<1>6. Pictures' = Pictures /\ SavedInv' /\ DumpInv'
  BY <1>5, PicturesStay DEF UnitInv, DumpInv
<1> HIDE DEF F, rows, v
<1>7. FilesInv' /\ Promise!Put
  BY <1>2, <1>3, <1>4, <1>5, <1>6, PutDataIsPut DEF UnitInv
<1> QED
  BY <1>6, <1>7 DEF UnitInv, Kept, Promise!Next

-----------------------------------------------------------------------------
(* Clears.                                                                 *)
LEMMA ClearKeeps ==
  ASSUME UnitInv, Clear
  PROVE  UnitInv' /\ Kept
<1>1. PICK I \in (SUBSET Indexes) \ {{}}, F \in SUBSET Fields :
        LET named == (IF F = {} THEN Fields ELSE F) \X I
            gone  == IF hybrid THEN Refs(Only(field_data, named)) ELSE {}
        IN  /\ field_data' = Without(field_data, named)
            /\ active_keys' = IF F = {} THEN active_keys \ I ELSE active_keys
            /\ active_values' = active_values - Cardinality(gone)
            /\ Unlink(files, gone, 0)
  BY DEF Clear
<1> DEFINE E == IF F = {} THEN Fields ELSE F
           named == E \X I
           gone == IF hybrid THEN Refs(Only(field_data, named)) ELSE {}
           next == Without(field_data, named)
<1>2. /\ field_data' = next
      /\ active_keys' \in {active_keys, active_keys \ I}
      /\ active_values' = active_values - Cardinality(gone)
      /\ Unlink(files, gone, 0)
  BY <1>1
<1>3. Holds(hybrid, field_data, files, lost) /\ hybrid \in BOOLEAN
  BY DEF UnitInv, FilesInv
<1>4. gone = Obsolete(named, Nothing, field_data, next)
  <2>1. CASE ~hybrid
    <3>1. \A c \in DOMAIN field_data : ~IsRef(field_data[c])
      BY <1>3, <2>1, MemoryIsNoRef DEF Holds
    <3>2. Refs(Only(field_data, named)) = {}
      BY <3>1 DEF Refs, Only
    <3> QED
      BY <2>1, <3>2, NothingIs DEF Obsolete
  <2> QED
    BY <1>3, <2>1, NothingIs DEF Obsolete
<1>5. /\ IsMap(next) /\ DOMAIN next = DOMAIN field_data \ named
      /\ \A c \in DOMAIN next : next[c] = field_data[c]
  BY DEF Without, IsMap
<1> HIDE DEF next, named, gone
<1>6. Replaces(hybrid, named, Nothing, field_data, files, next)
  <2>1. IsFiniteSet(DOMAIN field_data) /\ DOMAIN field_data \subseteq Cells
    BY <1>3 DEF Holds
  <2>2. IsFiniteSet(DOMAIN next) /\ DOMAIN next \subseteq Cells
    BY <1>5, <2>1, FS_Subset
  <2> QED
    BY <1>5, <2>2, NothingIs DEF Replaces
<1>7. Over(files, Nothing) = files
  BY <1>3, NothingIs DEF Holds
<1>8. active_values' = active_values + Cardinality(DOMAIN Nothing) - Cardinality(gone)
  <2>1. Cardinality(DOMAIN Nothing) = 0
    BY NothingIs, FS_EmptySet
  <2>2. active_values \in Nat
    <3>1. RefCells(field_data) \in SUBSET DOMAIN field_data /\ IsFiniteSet(DOMAIN field_data)
      BY <1>3 DEF Holds, RefCells
    <3>2. IsFiniteSet(RefCells(field_data))
      BY <3>1, FS_Subset
    <3> QED
      BY <3>2, FS_CardinalityType DEF UnitInv, FilesInv, CountsOffloaded, RefCells
  <2>3. gone \subseteq DOMAIN files /\ IsFiniteSet(DOMAIN files)
    <3>1. /\ Refs(Only(field_data, named)) \subseteq Refs(field_data)
          /\ Refs(field_data) \subseteq DOMAIN files
      BY <1>3, <1>6, RefsOfReplaced
    <3> QED
      BY <1>3, <1>4, <3>1, NothingIs DEF Obsolete, Holds
  <2>4. Cardinality(gone) \in Nat
    BY <2>3, FS_Subset, FS_CardinalityType
  <2> QED
    BY <1>2, <2>1, <2>2, <2>4
<1>9. UNCHANGED <<hybrid, saved, dump>>
  BY DEF Clear
<1>10. FilesInv' /\ ShowsOutside(named)
  BY <1>2, <1>4, <1>6, <1>7, <1>8, <1>9, ReplacingCounted DEF UnitInv
<1>11. Pictures' = Pictures /\ SavedInv' /\ DumpInv'
  BY <1>9, PicturesStay DEF UnitInv, DumpInv
<1>12. Rows' = [c \in DOMAIN Rows \ named |-> Rows[c]]
  <2>1. /\ DOMAIN Rows = DOMAIN field_data /\ \A c \in DOMAIN Rows : Rows[c] = Show(field_data[c], files)
    BY RowsShow
  <2>2. DOMAIN field_data' = DOMAIN Rows \ named
    BY <1>2, <1>5, <2>1
  <2>3. \A c \in DOMAIN Rows \ named : Show(field_data'[c], files') = Rows[c]
    BY <1>10, <2>1, <2>2 DEF ShowsOutside
  <2> QED
    BY <2>2, <2>3, RowsShow
<1>13. E \in SUBSET Fields /\ I \in SUBSET Indexes
  OBVIOUS
<1> HIDE DEF E
<1>14. Promise!Clear
  <2>1. /\ active_keys' \in {active_keys, active_keys \ I}
        /\ Rows' = [c \in DOMAIN Rows \ (E \X I) |-> Rows[c]]
        /\ Pictures' = Pictures
    BY <1>2, <1>11, <1>12 DEF named
  <2> QED
    BY <1>13, <2>1 DEF Promise!Clear, Rows, Pictures
<1> QED
  BY <1>10, <1>11, <1>14 DEF UnitInv, Kept, Promise!Next

-----------------------------------------------------------------------------
(* Checkpoints.                                                            *)

(* The values of a checkpoint, and the files some of them go to.           *)
ValuesOf(k) == Over(k.memory, k.ssd_index)

Imported(k) ==
  [x \in {NewPath(DOMAIN files, c) : c \in ToOffload(k)} |-> ValuesOf(k)[Cell(x)]]

LEMMA ImportedIs ==
  ASSUME FilesInv, NEW k, IsStored(k.memory), IsStored(k.ssd_index), k.format \in BOOLEAN,
         ~k.format => DOMAIN k.ssd_index = {}, Accepts(k)
  PROVE  LET new == Imported(k)
             big == ToOffload(k)
         IN  /\ IsStored(ValuesOf(k))
             /\ big \subseteq DOMAIN ValuesOf(k) /\ (big # {} => hybrid)
             /\ IsMap(new) /\ IsFiniteSet(DOMAIN new) /\ DOMAIN new \cap DOMAIN files = {}
             /\ DOMAIN new = {NewPath(DOMAIN files, c) : c \in big}
             /\ \A c \in big : LET p == NewPath(DOMAIN files, c)
                               IN  p \in DOMAIN new /\ new[p] = ValuesOf(k)[c] /\ Cell(p) = c
<1> DEFINE new == Imported(k)
           big == ToOffload(k)
           vals == ValuesOf(k)
           path(c) == NewPath(DOMAIN files, c)
<1>1. /\ IsMap(vals) /\ DOMAIN vals = DOMAIN k.memory \cup DOMAIN k.ssd_index
      /\ \A c \in DOMAIN vals : vals[c] = IF c \in DOMAIN k.ssd_index THEN k.ssd_index[c] ELSE k.memory[c]
  BY DEF ValuesOf, Over, IsMap
<1> HIDE DEF vals
<1>2. IsStored(vals)
  <2>1. IsFiniteSet(DOMAIN vals)
    <3>1. IsFiniteSet(DOMAIN k.memory) /\ IsFiniteSet(DOMAIN k.ssd_index)
      BY DEF IsStored
    <3>2. IsFiniteSet(DOMAIN k.memory \cup DOMAIN k.ssd_index)
      BY <3>1, FS_Union
    <3> QED
      BY <1>1, <3>2
  <2> QED
    BY <1>1, <2>1 DEF IsStored
<1>3. big \subseteq DOMAIN vals /\ (big # {} => hybrid)
  BY <1>1 DEF ToOffload
<1> HIDE DEF big
<1>4. IsFiniteSet(big) /\ big \subseteq Cells
  BY <1>2, <1>3, FS_Subset DEF IsStored
<1>5. \A c \in big : path(c) \notin DOMAIN files /\ Cell(path(c)) = c
  BY <1>4, NewPathIsNew DEF FilesInv, Holds
<1>6. DOMAIN new = {path(c) : c \in big} /\ IsMap(new) /\ \A x \in DOMAIN new : new[x] = vals[Cell(x)]
  BY DEF Imported, IsMap, big, vals
<1> HIDE DEF new
<1>7. IsFiniteSet(DOMAIN new)
  <2> DEFINE f == [c \in big |-> path(c)]
  <2>1. f \in Surjection(big, DOMAIN new)
    BY <1>6 DEF Surjection
  <2> HIDE DEF f
  <2> QED
    BY <1>4, <2>1, FS_Surjection
<1> HIDE DEF path
<1>8. \A c \in big : path(c) \in DOMAIN new /\ new[path(c)] = vals[c] /\ Cell(path(c)) = c
  BY <1>5, <1>6
<1>9. DOMAIN new \cap DOMAIN files = {}
  BY <1>5, <1>6
<1>10. /\ IsStored(vals)
       /\ big \subseteq DOMAIN vals /\ (big # {} => hybrid)
       /\ IsMap(new) /\ IsFiniteSet(DOMAIN new) /\ DOMAIN new \cap DOMAIN files = {}
       /\ DOMAIN new = {path(c) : c \in big}
       /\ \A c \in big : path(c) \in DOMAIN new /\ new[path(c)] = vals[c] /\ Cell(path(c)) = c
  BY <1>2, <1>3, <1>6, <1>7, <1>8, <1>9
<1> QED
  BY <1>10 DEF new, big, vals, path

LEMMA LoadCheckpointKeeps ==
  ASSUME UnitInv, NEW n, LoadCheckpoint(n)
  PROVE  /\ FilesInv'
         /\ Rows' = ValuesOf(saved[n]) /\ active_keys' = saved[n].active
<1> DEFINE k == saved[n]
           vals == ValuesOf(k)
           big == ToOffload(k)
           new == Imported(k)
           path(c) == NewPath(DOMAIN files, c)
           old == IF hybrid THEN Refs(field_data) ELSE {}
           next == [c \in DOMAIN vals |-> IF c \in big THEN SSD(path(c)) ELSE Memory(vals[c])]
<1>1. /\ n \in DOMAIN saved /\ Accepts(k)
      /\ field_data' = next /\ active_keys' = k.active
      /\ active_values' = Cardinality(big)
      /\ Unlink(Over(files, new), old, 0)
      /\ UNCHANGED <<hybrid, saved, dump>>
  BY DEF LoadCheckpoint, ValuesOf, Imported
<1>2. Holds(hybrid, field_data, files, lost) /\ hybrid \in BOOLEAN
  BY DEF UnitInv, FilesInv
<1>3. /\ IsStored(k.memory) /\ IsStored(k.ssd_index) /\ k.format \in BOOLEAN
      /\ ~k.format => DOMAIN k.ssd_index = {}
  BY <1>1 DEF UnitInv, SavedInv
<1> HIDE DEF k
<1>4. /\ IsStored(vals)
      /\ big \subseteq DOMAIN vals /\ (big # {} => hybrid)
      /\ IsMap(new) /\ IsFiniteSet(DOMAIN new) /\ DOMAIN new \cap DOMAIN files = {}
      /\ DOMAIN new = {path(c) : c \in big}
      /\ \A c \in big : path(c) \in DOMAIN new /\ new[path(c)] = vals[c] /\ Cell(path(c)) = c
  BY <1>1, <1>3, ImportedIs DEF UnitInv
<1> HIDE DEF vals, big, new, path
<1>5. \A c \in DOMAIN vals : /\ next[c] = IF c \in big THEN SSD(path(c)) ELSE Memory(vals[c])
                             /\ IsRef(next[c]) <=> c \in big
                             /\ c \in big => next[c].path = path(c)
                             /\ Show(next[c], new) = vals[c]
  <2> TAKE c \in DOMAIN vals
  <2>1. CASE c \in big
    BY <1>4, <2>1, MemoryIsNoRef DEF Show
  <2>2. CASE c \notin big
    <3>1. IsMemory(Memory(vals[c])) /\ Memory(vals[c]).value = vals[c]
      BY <1>4 DEF IsStored, IsMemory, Memory
    <3> QED
      BY <2>2, <3>1, MemoryIsNoRef DEF Show
  <2> QED
    BY <2>1, <2>2
<1>6. DOMAIN next = DOMAIN vals /\ IsMap(next)
  BY DEF IsMap
<1> HIDE DEF next
<1>7. Replaces(hybrid, Cells, new, field_data, files, next)
  <2>1. DOMAIN field_data \subseteq Cells /\ DOMAIN vals \subseteq Cells /\ IsFiniteSet(DOMAIN vals)
    BY <1>2, <1>4 DEF Holds, IsStored
  <2>2. ASSUME NEW c \in DOMAIN vals
        PROVE  IsMemory(next[c]) \/ (hybrid /\ IsOwn(next[c], c, new))
    <3>1. CASE c \in big
      BY <1>4, <1>5, <3>1 DEF IsOwn, IsStored
    <3>2. CASE c \notin big
      BY <1>4, <1>5, <3>2 DEF IsMemory, IsStored
    <3> QED
      BY <3>1, <3>2
  <2> QED
    BY <1>4, <1>6, <2>1, <2>2 DEF Replaces
<1>8. RefCells(next) = big
  BY <1>4, <1>5, <1>6 DEF RefCells
<1>9. old = Obsolete(Cells, new, field_data, next)
  <2>1. Refs(Only(field_data, Cells)) = Refs(field_data)
    BY <1>2 DEF Refs, Only, Holds
  <2>2. DOMAIN new \subseteq Refs(next)
    BY <1>4, <1>5, <1>6 DEF Refs
  <2>3. ~hybrid => Refs(field_data) = {}
    BY <1>2, MemoryIsNoRef DEF Holds, Refs
  <2> QED
    BY <1>2, <2>1, <2>2, <2>3 DEF Obsolete
<1> HIDE DEF old
<1>10. FilesInv' /\ ShowsInside(Cells, new)
  BY <1>1, <1>7, <1>8, <1>9, ReplacingKeeps DEF UnitInv
<1>11. Rows' = vals
  <2>1. DOMAIN field_data' = DOMAIN vals /\ DOMAIN vals \subseteq Cells /\ IsMap(vals)
    BY <1>1, <1>4, <1>6 DEF IsStored
  <2>2. \A c \in DOMAIN vals : Show(field_data'[c], files') = vals[c]
    BY <1>1, <1>5, <1>10, <2>1 DEF ShowsInside
  <2> QED
    BY <2>1, <2>2, RowsShow DEF IsMap
<1> QED
  BY <1>1, <1>10, <1>11 DEF vals, k

LEMMA LoadFailsKeeps ==
  ASSUME UnitInv, NEW n, LoadFails(n)
  PROVE  FilesInv' /\ Rows' = Rows
<1> DEFINE k == saved[n]
           new == Imported(k)
<1>1. /\ n \in DOMAIN saved /\ Accepts(k)
      /\ Unlink(Over(files, new), DOMAIN new, 1)
      /\ UNCHANGED <<hybrid, field_data, active_values>>
  BY DEF LoadFails, ValuesOf, Imported
<1>2. /\ IsStored(k.memory) /\ IsStored(k.ssd_index) /\ k.format \in BOOLEAN
      /\ ~k.format => DOMAIN k.ssd_index = {}
  BY <1>1 DEF UnitInv, SavedInv
<1> HIDE DEF k
<1>3. IsMap(new) /\ IsFiniteSet(DOMAIN new) /\ DOMAIN new \cap DOMAIN files = {}
  BY <1>1, <1>2, ImportedIs DEF UnitInv
<1> HIDE DEF new
<1>4. FilesInv' /\ ShowsOutside({}) /\ DOMAIN field_data' = DOMAIN field_data
  BY <1>1, <1>3, StagingKeeps DEF UnitInv
<1>5. Rows' = Rows
  BY <1>4, RowsShow DEF ShowsOutside
<1> QED
  BY <1>4, <1>5

LEMMA LoadKeeps ==
  ASSUME UnitInv, NEW n \in Names, Load(n)
  PROVE  UnitInv' /\ Kept
<1>1. UNCHANGED <<hybrid, saved, dump>>
  BY DEF Load, LoadCheckpoint, LoadFails
<1>2. Pictures' = Pictures /\ SavedInv' /\ DumpInv'
  BY <1>1, PicturesStay DEF UnitInv, DumpInv
<1>3. CASE LoadCheckpoint(n)
  <2>1. /\ FilesInv'
        /\ Rows' = ValuesOf(saved[n]) /\ active_keys' = saved[n].active
    BY <1>3, LoadCheckpointKeeps
  <2>2. n \in DOMAIN saved
    BY <1>3 DEF LoadCheckpoint
  <2>3. n \in DOMAIN Pictures /\ Pictures[n].rows = ValuesOf(saved[n]) /\ Pictures[n].keys = saved[n].active
    BY <2>2 DEF Pictures, Image, ValuesOf
  <2>4. Promise!Load(n)
    BY <1>2, <2>1, <2>3 DEF Promise!Load, Rows, Pictures
  <2> QED
    BY <1>2, <2>1, <2>4 DEF UnitInv, Kept, Promise!Next
<1>4. CASE LoadFails(n)
  <2>1. FilesInv' /\ Rows' = Rows
    BY <1>4, LoadFailsKeeps
  <2> QED
    BY <1>2, <1>4, <2>1 DEF UnitInv, Kept, LoadFails
<1> QED
  BY <1>3, <1>4 DEF Load

LEMMA SaveKeeps ==
  ASSUME UnitInv, NEW n \in Names, Save(n)
  PROVE  UnitInv' /\ Kept
<1>1. UNCHANGED <<hybrid, field_data, active_keys, files, active_values, lost, dump>>
  BY DEF Save, SaveCheckpoint, SaveFails
<1>2. FilesInv' /\ Rows' = Rows /\ DumpInv'
  BY <1>1, FilesStay DEF UnitInv, DumpInv
<1>3. CASE SaveCheckpoint(n)
  <2> DEFINE D == {c \in DOMAIN field_data : IsRef(field_data[c])}
             M == {c \in DOMAIN field_data : ~IsRef(field_data[c])}
             memory == [c \in M |-> field_data[c].value]
             index == [c \in D |-> files[field_data[c].path]]
             image == [format |-> hybrid, memory |-> memory, ssd_index |-> index, active |-> active_keys]
  <2>1. saved' = Over(saved, [m \in {n} |-> image])
    BY <1>3 DEF SaveCheckpoint, Images
  <2>2. Holds(hybrid, field_data, files, lost) /\ hybrid \in BOOLEAN
    BY DEF UnitInv, FilesInv
  <2>3. IsStored(memory)
    <3>1. DOMAIN memory \in SUBSET DOMAIN field_data /\ DOMAIN field_data \subseteq Cells
          /\ IsFiniteSet(DOMAIN field_data)
      BY <2>2 DEF Holds
    <3>2. IsFiniteSet(DOMAIN memory)
      BY <3>1, FS_Subset
    <3>3. \A c \in DOMAIN memory : memory[c] \in Values
      BY <2>2, MemoryIsNoRef DEF Holds, IsOwn
    <3>4. IsMap(memory)
      BY DEF IsMap
    <3> HIDE DEF memory
    <3> QED
      BY <3>1, <3>2, <3>3, <3>4 DEF IsStored
  <2>4. IsStored(index)
    <3>1. DOMAIN index \in SUBSET DOMAIN field_data /\ DOMAIN field_data \subseteq Cells
          /\ IsFiniteSet(DOMAIN field_data)
      BY <2>2 DEF Holds
    <3>2. IsFiniteSet(DOMAIN index)
      BY <3>1, FS_Subset
    <3>3. \A c \in DOMAIN index : index[c] \in Values
      BY <2>2, MemoryIsNoRef DEF Holds, IsOwn
    <3>4. IsMap(index)
      BY DEF IsMap
    <3> HIDE DEF index
    <3> QED
      BY <3>1, <3>2, <3>3, <3>4 DEF IsStored
  <2>5. ~hybrid => DOMAIN index = {}
    BY <2>2, MemoryIsNoRef DEF Holds
  <2>6. Over(memory, index) = Rows
    BY RowsShow DEF Over, Show
  <2>7. IsStored(image.memory) /\ IsStored(image.ssd_index) /\ image.format = hybrid
        /\ DOMAIN image.ssd_index = DOMAIN index /\ image.active = active_keys
        /\ Over(image.memory, image.ssd_index) = Rows
    BY <2>3, <2>4, <2>6
  <2> HIDE DEF image
  <2>8. /\ DOMAIN saved' = DOMAIN saved \cup {n} /\ IsMap(saved')
        /\ \A m \in DOMAIN saved' : saved'[m] = IF m = n THEN image ELSE saved[m]
    BY <2>1 DEF Over, IsMap
  <2>9. SavedInv'
    BY <2>2, <2>5, <2>7, <2>8 DEF UnitInv, SavedInv
  <2>10. Image(image) = [rows |-> Rows, keys |-> active_keys]
    BY <2>7 DEF Image
  <2>11. Pictures' = [m \in DOMAIN saved' |-> Image(saved'[m])]
    BY DEF Pictures, Image
  <2>12. DOMAIN Pictures = DOMAIN saved /\ \A m \in DOMAIN saved : Pictures[m] = Image(saved[m])
    BY DEF Pictures
  <2>13. Pictures' = [m \in DOMAIN Pictures \cup {n} |->
                        IF m = n THEN [rows |-> Rows, keys |-> active_keys] ELSE Pictures[m]]
    BY <2>8, <2>10, <2>11, <2>12
  <2>14. Promise!Save(n)
    BY <1>1, <1>2, <2>13 DEF Promise!Save, Rows, Pictures
  <2> QED
    BY <1>2, <2>9, <2>14 DEF UnitInv, Kept, Promise!Next
<1>4. CASE SaveFails(n)
  <2>1. /\ DOMAIN saved' = DOMAIN saved \ {n} /\ IsMap(saved')
        /\ \A m \in DOMAIN saved' : saved'[m] = saved[m]
    BY <1>4 DEF SaveFails, Without, IsMap
  <2>2. SavedInv'
    BY <2>1 DEF UnitInv, SavedInv
  <2>3. Pictures' = [m \in DOMAIN saved' |-> Image(saved'[m])]
    BY DEF Pictures, Image
  <2>4. DOMAIN Pictures = DOMAIN saved /\ \A m \in DOMAIN saved : Pictures[m] = Image(saved[m])
    BY DEF Pictures
  <2>5. Pictures' = [m \in DOMAIN Pictures \ {n} |-> Pictures[m]]
    BY <2>1, <2>3, <2>4
  <2>6. Promise!Forget(n)
    BY <1>1, <1>2, <2>5 DEF Promise!Forget, Rows, Pictures
  <2> QED
    BY <1>2, <2>2, <2>6 DEF UnitInv, Kept, Promise!Next
<1> QED
  BY <1>3, <1>4 DEF Save

-----------------------------------------------------------------------------
(* Dumps and restarts; all steps.                                          *)
LEMMA DumpKeeps ==
  ASSUME UnitInv, DumpOffloaded = FALSE, DumpRows
  PROVE  UnitInv' /\ Kept
<1>1. PICK out \in SUBSET DOMAIN field_data :
        /\ \A c \in out : ~IsRef(field_data[c])
        /\ dump' = [c \in out |-> field_data[c]]
  BY DEF DumpRows
<1>2. UNCHANGED <<hybrid, field_data, active_keys, files, active_values, lost, saved>>
  BY DEF DumpRows
<1>3. FilesInv' /\ Rows' = Rows /\ Pictures' = Pictures /\ SavedInv'
  BY <1>2, FilesStay, PicturesStay DEF UnitInv
<1>4. DumpInv'
  BY <1>1 DEF UnitInv, FilesInv, Holds, IsOwn, DumpInv
<1> QED
  BY <1>2, <1>3, <1>4 DEF UnitInv, Kept

LEMMA RestartKeeps ==
  ASSUME UnitInv, Restart
  PROVE  UnitInv' /\ Kept
<1>1. FilesInv' /\ Rows' = <<>>
  BY StartOver DEF Restart
<1>2. Pictures' = Pictures /\ SavedInv' /\ DumpInv'
  BY PicturesStay DEF UnitInv, DumpInv, Restart
<1>3. Promise!Restart
  BY <1>1, <1>2 DEF Promise!Restart, Restart, Rows, Pictures
<1> QED
  BY <1>1, <1>2, <1>3 DEF UnitInv, Kept, Promise!Next

LEMMA UnitInit ==
  ASSUME HybridInit
  PROVE  UnitInv /\ Promise!Init
<1>1. FilesInv /\ Rows = <<>>
  BY StartsOver DEF HybridInit
<1>2. SavedInv /\ DumpInv
  BY EmptyMap DEF HybridInit, SavedInv, DumpInv
<1>3. Pictures = <<>>
  <2>1. DOMAIN Pictures = {} /\ IsMap(Pictures)
    BY EmptyMap DEF HybridInit, Pictures, IsMap
  <2> QED
    BY <2>1, EmptyMap
<1>4. Promise!Init
  BY <1>1, <1>3 DEF Promise!Init, Rows, Pictures, HybridInit
<1> QED
  BY <1>1, <1>2, <1>4 DEF UnitInv

LEMMA UnitNext ==
  ASSUME UnitInv, DumpOffloaded = FALSE, [HybridNext]_hybridVars
  PROVE  UnitInv' /\ Kept
<1>1. CASE HybridNext
  BY <1>1, PutKeeps, ClearKeeps, DumpKeeps, LoadRowsKeeps, RestartKeeps, SaveKeeps, LoadKeeps DEF HybridNext
<1>2. CASE UNCHANGED hybridVars
  <2>1. UNCHANGED <<hybrid, field_data, active_keys, files, active_values, lost, saved, dump>>
    BY <1>2 DEF hybridVars
  <2>2. FilesInv' /\ Rows' = Rows /\ Pictures' = Pictures /\ SavedInv'
    BY <2>1, FilesStay, PicturesStay DEF UnitInv
  <2>3. DumpInv'
    BY <2>1 DEF UnitInv, DumpInv
  <2> QED
    BY <2>1, <2>2, <2>3 DEF UnitInv, Kept
<1> QED
  BY <1>1, <1>2

(* With row dumps that find all values in memory, files and their count    *)
(* follow the values through every failure, checkpoint and restart.        *)
THEOREM FilesFollowValues ==
  ASSUME DumpOffloaded = FALSE
  PROVE  HybridSpec => []FilesAreAccountedFor
<1>1. HybridInit => UnitInv
  BY UnitInit
<1>2. UnitInv /\ [HybridNext]_hybridVars => UnitInv'
  BY UnitNext
<1>3. UnitInv => FilesAreAccountedFor
  BY DEF UnitInv, FilesInv, Holds, FilesAreAccountedFor, FilesAreReferenced
<1> QED
  BY <1>1, <1>2, <1>3, PTL DEF HybridSpec

(* With the same dumps, and whichever tier keeps a value, the unit is the  *)
(* store that UnitStore describes: puts are all or nothing, clears remove  *)
(* what they name, and a checkpoint that loads is one that was saved.      *)
THEOREM UnitIsAStore ==
  ASSUME DumpOffloaded = FALSE
  PROVE  HybridSpec => ImplementsUnitStore
<1>1. HybridInit => UnitInv /\ Promise!Init
  BY UnitInit
<1>2. UnitInv /\ [HybridNext]_hybridVars => UnitInv' /\ [Promise!Next]_(Promise!vars)
  <2>1. Kept => [Promise!Next]_(Promise!vars)
    BY DEF Kept, Promise!vars, Rows, Pictures
  <2> QED
    BY <2>1, UnitNext
<1> QED
  BY <1>1, <1>2, PTL DEF HybridSpec, ImplementsUnitStore, Promise!Spec
=============================================================================
