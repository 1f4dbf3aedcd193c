-------------------------- MODULE CheckpointProofs --------------------------
(***************************************************************************)
(* Checkpoints and dumps, for any number of units, samples and calls.      *)
(* First part: saves and loads of checkpoints implement AtomicCheckpoint,  *)
(* beside dumps and loads of rows and losses of power: whatever fails or   *)
(* is late, the directory a load would take changes only to a later        *)
(* save's, whole.  Second part: what checkpoints and dumps keep is what    *)
(* the units had, and what loads put back is what was kept.                *)
(***************************************************************************)
EXTENDS Persistence, TLAPS

IsDir(d) ==
  /\ d = [number |-> d.number, state |-> d.state, saved |-> d.saved, files |-> d.files,
          manifest |-> d.manifest, meta |-> d.meta]
  /\ d.number \in Nat

IsCall(c) ==
  /\ c = [op |-> c.op, pc |-> c.pc, open |-> c.open, failed |-> c.failed]
  /\ c.failed \in BOOLEAN

IsSeq(s) == s \in Seq({s[i] : i \in DOMAIN s})

(* Each unit has a sequence of requests of numbered calls.                 *)
Inboxes(box) ==
  /\ box = [u \in Units |-> box[u]]
  /\ \A u \in Units : IsSeq(box[u]) /\ \A i \in 1..Len(box[u]) : box[u][i].call \in Nat

Types ==
  /\ size \in Nat \ {0}
  /\ calls \in [checkpoints : Nat, dumps : Nat]
  /\ Inboxes(inbox)
  /\ IsCall(caller)
  /\ disk = [main |-> disk.main, tmp |-> disk.tmp, old |-> disk.old]
  /\ IsDir(disk.main) /\ IsDir(disk.tmp) /\ IsDir(disk.old)

Saving(steps) == caller.op = "save" /\ caller.pc \in steps
Staging == {"begun", "units", "aside", "install"}

(* No unit takes a request of another kind for the save's, and none is of  *)
(* a call that has not begun.                                              *)
RequestsAreOwn ==
  \A u \in Units : \A i \in 1..Len(inbox[u]) :
    /\ inbox[u][i].call <= Number(calls)
    /\ caller.op = "save" /\ inbox[u][i].call = Number(calls) => inbox[u][i].kind = "save"

(* What is in place was saved before what is staged.                       *)
InPlaceIsOlder ==
  /\ disk.main.number <= Number(calls) /\ disk.old.number <= Number(calls)
  /\ Saving(Staging) => disk.main.number < Number(calls) /\ disk.old.number < Number(calls)

(* The staging directory of a save has the files the save has got so far.  *)
StagedSoFar ==
  /\ Saving(Staging) => disk.tmp.number = Number(calls) /\ DOMAIN disk.tmp.files \subseteq Units
  /\ Saving(Staging \ {"begun"}) => disk.tmp.saved = TRUE
  /\ Saving({"units"}) /\ ~caller.failed => Units \ caller.open \subseteq DOMAIN disk.tmp.files
  /\ Saving({"aside", "install"}) =>
       disk.tmp.meta = TRUE /\ disk.tmp.manifest = size /\ DOMAIN disk.tmp.files = Units

(* The old directory is removed only when the new one is in place.         *)
InstalledFirst == Saving({"tidy"}) => Exists(disk.main)

SaveInv == Types /\ RequestsAreOwn /\ InPlaceIsOlder /\ StagedSoFar /\ InstalledFirst

-----------------------------------------------------------------------------
LEMMA NoDirIsDir == IsDir(NoDir)
BY DEF IsDir, NoDir

LEMMA NumberIsNat ==
  ASSUME NEW c \in [checkpoints : Nat, dumps : Nat]
  PROVE  Number(c) \in Nat
BY DEF Number

LEMMA CalledIsLater ==
  ASSUME calls \in [checkpoints : Nat, dumps : Nat], CallCheckpoint \/ CallDump
  PROVE  /\ calls' \in [checkpoints : Nat, dumps : Nat]
         /\ Number(calls') = Number(calls) + 1
         /\ caller = Idle
BY DEF CallCheckpoint, CallDump, MayCall, Number

LEMMA SeqIsSeq ==
  ASSUME NEW S, NEW s \in Seq(S)
  PROVE  IsSeq(s)
<1> DEFINE T == {s[i] : i \in DOMAIN s}
<1>1. Len(s) \in Nat /\ DOMAIN s = 1..Len(s)
  OBVIOUS
<1>2. s \in [1..Len(s) -> T]
  BY <1>1
<1>3. s \in Seq(T)
  BY <1>1, <1>2
<1> QED
  BY <1>3 DEF IsSeq

LEMMA EmptyIsSeq == IsSeq(<< >>) /\ Len(<< >>) = 0
<1>1. << >> \in Seq({}) /\ Len(<< >>) = 0
  OBVIOUS
<1> QED
  BY <1>1, SeqIsSeq

LEMMA AppendIsSeq ==
  ASSUME NEW s, IsSeq(s), NEW r
  PROVE  /\ IsSeq(Append(s, r))
         /\ \A i \in 1..Len(Append(s, r)) :
              Append(s, r)[i] = r \/ \E j \in 1..Len(s) : Append(s, r)[i] = s[j]
<1> DEFINE T == {s[i] : i \in DOMAIN s}
           U == T \cup {r}
<1>1. s \in Seq(T)
  BY DEF IsSeq
<1>2. Len(s) \in Nat /\ DOMAIN s = 1..Len(s) /\ s \in [1..Len(s) -> T]
  BY <1>1
<1>3. s \in [1..Len(s) -> U]
  BY <1>2
<1>4. s \in Seq(U) /\ r \in U
  BY <1>2, <1>3
<1> HIDE DEF U
<1>5. Append(s, r) \in Seq(U) /\ Len(Append(s, r)) = Len(s) + 1
  BY <1>4
<1>6. \A i \in 1..(Len(s) + 1) : Append(s, r)[i] = IF i = Len(s) + 1 THEN r ELSE s[i]
  BY <1>4
<1>7. \A i \in 1..(Len(s) + 1) : i # Len(s) + 1 => i \in 1..Len(s)
  BY <1>2
<1>8. IsSeq(Append(s, r))
  BY <1>5, SeqIsSeq
<1> QED
  BY <1>5, <1>6, <1>7, <1>8

LEMMA InitEstablishes == Init => SaveInv
<1> SUFFICES ASSUME Init PROVE SaveInv
  OBVIOUS
<1>1. size \in Nat \ {0}
  BY CheckpointAssumption DEF Init, CheckpointAssumption
<1>2. inbox = [u \in Units |-> << >>]
  BY DEF Init, Start, Units
<1>3. Types
  <2>1. Inboxes(inbox)
    BY <1>2, EmptyIsSeq DEF Inboxes
  <2> QED
    BY <1>1, <2>1, NoDirIsDir DEF Init, Types, IsCall, Idle
<1>4. RequestsAreOwn
  BY <1>1, <1>2 DEF RequestsAreOwn
<1>5. InPlaceIsOlder
  BY DEF Init, InPlaceIsOlder, Saving, Idle, NoDir, Number
<1>6. StagedSoFar /\ InstalledFirst
  BY DEF Init, StagedSoFar, InstalledFirst, Saving, Idle
<1> QED
  BY <1>3, <1>4, <1>5, <1>6 DEF SaveInv

(* A step that leaves the calls and the directories alone.                 *)
LEMMA UnchangedPreserves ==
  ASSUME SaveInv, UNCHANGED <<size, calls, inbox, caller, disk>>
  PROVE  SaveInv'
BY DEF SaveInv, Types, RequestsAreOwn, InPlaceIsOlder, StagedSoFar, InstalledFirst, IsCall, IsDir,
       Units, Inboxes, Saving

LEMMA RestartPreserves ==
  ASSUME SaveInv, Restart
  PROVE  SaveInv'
<1>1. size' \in Nat \ {0}
  BY CheckpointAssumption DEF Restart, CheckpointAssumption
<1>2. inbox' = [u \in Units' |-> << >>]
  BY DEF Restart, Start, Units
<1>3. caller' = Idle /\ UNCHANGED <<disk, calls>>
  BY DEF Restart, Return
<1>4. Types'
  <2>1. Inboxes(inbox)'
    BY <1>2, EmptyIsSeq DEF Inboxes
  <2> QED
    BY <1>1, <1>3, <2>1 DEF SaveInv, Types, IsCall, IsDir, Idle
<1>5. RequestsAreOwn'
  BY <1>2 DEF RequestsAreOwn
<1>6. InPlaceIsOlder' /\ StagedSoFar' /\ InstalledFirst'
  BY <1>3 DEF SaveInv, InPlaceIsOlder, StagedSoFar, InstalledFirst, Saving, Idle
<1> QED
  BY <1>4, <1>5, <1>6 DEF SaveInv

(* A step of no save: the caller is idle, or loads.                        *)
LEMMA NotSavingPreserves ==
  ASSUME SaveInv, caller'.op # "save", IsCall(caller'), UNCHANGED <<size, calls, inbox, disk>>
  PROVE  SaveInv'
<1>1. Types'
  BY DEF SaveInv, Types, IsDir, Units, Inboxes
<1>2. RequestsAreOwn'
  BY DEF SaveInv, RequestsAreOwn, Units
<1>3. InPlaceIsOlder' /\ StagedSoFar' /\ InstalledFirst'
  BY DEF SaveInv, InPlaceIsOlder, StagedSoFar, InstalledFirst, Saving
<1> QED
  BY <1>1, <1>2, <1>3 DEF SaveInv

-----------------------------------------------------------------------------
(* Requests to some units join their inboxes, and one that is served leaves.*)
LEMMA AskedJoin ==
  ASSUME Types, size' = size, NEW kind, NEW rows, NEW n \in Nat, Ask(kind, rows, n)
  PROVE  /\ Inboxes(inbox)'
         /\ \A u \in Units : \A i \in 1..Len(inbox'[u]) :
              \/ inbox'[u][i] = [kind |-> kind, call |-> n, rows |-> rows[u]]
              \/ \E j \in 1..Len(inbox[u]) : inbox'[u][i] = inbox[u][j]
<1> DEFINE request(u) == [kind |-> kind, call |-> n, rows |-> rows[u]]
<1>1. inbox' = [u \in Units |-> IF u \in DOMAIN rows THEN Append(inbox[u], request(u)) ELSE inbox[u]]
  BY DEF Ask
<1>2. ASSUME NEW u \in Units
      PROVE  /\ IsSeq(inbox'[u])
             /\ \A i \in 1..Len(inbox'[u]) :
                  \/ inbox'[u][i] = request(u)
                  \/ \E j \in 1..Len(inbox[u]) : inbox'[u][i] = inbox[u][j]
  <2>1. IsSeq(inbox[u])
    BY DEF Types, Inboxes
  <2>2. CASE u \in DOMAIN rows
    <3>1. inbox'[u] = Append(inbox[u], request(u))
      BY <1>1, <2>2
    <3> HIDE DEF request
    <3> QED
      BY <2>1, <3>1, AppendIsSeq
  <2>3. CASE u \notin DOMAIN rows
    <3>1. inbox'[u] = inbox[u]
      BY <1>1, <2>3
    <3> QED
      BY <2>1, <3>1
  <2> QED
    BY <2>2, <2>3
<1>3. ASSUME NEW u \in Units, NEW i \in 1..Len(inbox'[u])
      PROVE  inbox'[u][i].call \in Nat
  <2>1. CASE inbox'[u][i] = request(u)
    BY <2>1
  <2>2. CASE \E j \in 1..Len(inbox[u]) : inbox'[u][i] = inbox[u][j]
    BY <2>2 DEF Types, Inboxes
  <2> QED
    BY <1>2, <2>1, <2>2
<1>4. Units' = Units /\ inbox' = [u \in Units |-> inbox'[u]]
  BY <1>1 DEF Units
<1> QED
  BY <1>2, <1>3, <1>4 DEF Inboxes

LEMMA TailIsSeq ==
  ASSUME NEW s, IsSeq(s), s # << >>
  PROVE  /\ IsSeq(Tail(s))
         /\ \A i \in 1..Len(Tail(s)) : \E j \in 1..Len(s) : Tail(s)[i] = s[j]
         /\ Head(s) = s[1] /\ 1 \in 1..Len(s)
<1> DEFINE T == {s[i] : i \in DOMAIN s}
<1>1. s \in Seq(T)
  BY DEF IsSeq
<1> HIDE DEF T
<1>2. Tail(s) \in Seq(T) /\ Len(Tail(s)) = Len(s) - 1 /\ Len(s) \in Nat
  BY <1>1
<1>3. \A i \in 1..Len(Tail(s)) : Tail(s)[i] = s[i + 1]
  BY <1>1
<1>4. \A i \in 1..Len(Tail(s)) : i + 1 \in 1..Len(s)
  BY <1>2
<1>5. Head(s) = s[1] /\ 1 \in 1..Len(s)
  BY <1>1, <1>2
<1> QED
  BY <1>2, <1>3, <1>4, <1>5, SeqIsSeq

LEMMA ServedLeaves ==
  ASSUME Types, size' = size, NEW u \in Units, NEW kind, Asked(u, kind),
         NEW success \in BOOLEAN, Served(u, success)
  PROVE  /\ Inboxes(inbox)'
         /\ \A v \in Units : \A i \in 1..Len(inbox'[v]) :
              \E j \in 1..Len(inbox[v]) : inbox'[v][i] = inbox[v][j]
         /\ Head(inbox[u]) = inbox[u][1] /\ 1 \in 1..Len(inbox[u])
<1>1. inbox' = [inbox EXCEPT ![u] = Tail(@)] /\ inbox = [v \in Units |-> inbox[v]]
  BY DEF Served, Types, Inboxes
<1>2. inbox' = [v \in Units |-> IF v = u THEN Tail(inbox[u]) ELSE inbox[v]]
  BY <1>1
<1>3. /\ IsSeq(Tail(inbox[u]))
      /\ \A i \in 1..Len(Tail(inbox[u])) : \E j \in 1..Len(inbox[u]) : Tail(inbox[u])[i] = inbox[u][j]
      /\ Head(inbox[u]) = inbox[u][1] /\ 1 \in 1..Len(inbox[u])
  BY TailIsSeq DEF Asked, Types, Inboxes
<1>4. ASSUME NEW v \in Units
      PROVE  /\ IsSeq(inbox'[v])
             /\ \A i \in 1..Len(inbox'[v]) : \E j \in 1..Len(inbox[v]) : inbox'[v][i] = inbox[v][j]
  <2>1. CASE v = u
    <3>1. inbox'[v] = Tail(inbox[u])
      BY <1>2, <2>1
    <3> QED
      BY <1>3, <2>1, <3>1
  <2>2. CASE v # u
    <3>1. inbox'[v] = inbox[v]
      BY <1>2, <2>2
    <3> QED
      BY <3>1 DEF Types, Inboxes
  <2> QED
    BY <2>1, <2>2
<1>5. \A v \in Units : \A i \in 1..Len(inbox'[v]) : inbox'[v][i].call \in Nat
  BY <1>4 DEF Types, Inboxes
<1>6. Units' = Units /\ inbox' = [v \in Units |-> inbox'[v]]
  BY <1>2 DEF Units
<1> QED
  BY <1>3, <1>4, <1>5, <1>6 DEF Inboxes

(* The part of an answer that the caller hears.                            *)
LEMMA ServedKeepsTheCall ==
  ASSUME SaveInv, NEW u \in Units, NEW kind, Asked(u, kind), NEW success \in BOOLEAN, Served(u, success),
         size' = size, calls' = calls
  PROVE  /\ IsCall(caller') /\ caller'.op = caller.op /\ caller'.pc = caller.pc
         /\ RequestsAreOwn'
         /\ Saving({"units"}) /\ ~caller'.failed =>
              /\ ~caller.failed
              /\ \/ caller'.open = caller.open
                 \/ caller'.open = caller.open \ {u} /\ kind = "save" /\ success
<1>1. Types /\ RequestsAreOwn /\ IsCall(caller)
  BY DEF SaveInv, Types
<1>2. /\ Head(inbox[u]) = inbox[u][1] /\ 1 \in 1..Len(inbox[u])
      /\ \A v \in Units : \A i \in 1..Len(inbox'[v]) :
              \E j \in 1..Len(inbox[v]) : inbox'[v][i] = inbox[v][j]
  BY <1>1, ServedLeaves
<1>3. /\ IsCall(caller') /\ caller'.op = caller.op /\ caller'.pc = caller.pc
  BY <1>1 DEF Served, IsCall
<1>4. RequestsAreOwn'
  BY <1>1, <1>2, <1>3 DEF RequestsAreOwn, Units
<1>5. ASSUME Saving({"units"}), ~caller'.failed
      PROVE  /\ ~caller.failed
             /\ \/ caller'.open = caller.open
                \/ caller'.open = caller.open \ {u} /\ kind = "save" /\ success
  <2>1. CASE caller' = caller
    BY <1>5, <2>1
  <2>2. CASE Head(inbox[u]).call = Number(calls)
             /\ caller' = [caller EXCEPT !.open = @ \ {u}, !.failed = @ \/ ~success]
    <3>1. Head(inbox[u]).kind = "save"
      BY <1>1, <1>2, <1>5, <2>2 DEF RequestsAreOwn, Saving
    <3>2. caller'.open = caller.open \ {u} /\ caller'.failed = (caller.failed \/ ~success)
      BY <1>1, <2>2 DEF IsCall
    <3>3. ~caller.failed /\ success
      BY <1>1, <1>5, <3>2 DEF IsCall
    <3> QED
      BY <3>1, <3>2, <3>3 DEF Asked
  <2>3. \/ caller' = caller
        \/ Head(inbox[u]).call = Number(calls)
             /\ caller' = [caller EXCEPT !.open = @ \ {u}, !.failed = @ \/ ~success]
    BY Zenon DEF Served
  <2> QED
    BY <2>1, <2>2, <2>3, Zenon
<1> QED
  BY <1>3, <1>4, <1>5

-----------------------------------------------------------------------------
LEMMA SaveBeginPreserves ==
  ASSUME SaveInv, SaveBegin
  PROVE  SaveInv'
<1>1. /\ calls' \in [checkpoints : Nat, dumps : Nat]
      /\ Number(calls') = Number(calls) + 1
      /\ Number(calls) \in Nat
  BY CalledIsLater, NumberIsNat DEF SaveInv, Types, SaveBegin
<1>2. caller' = [op |-> "save", pc |-> "begun", open |-> {}, failed |-> FALSE]
  BY DEF SaveBegin, Call
<1>3. /\ disk'.main = disk.main /\ disk'.old = disk.old
      /\ disk'.tmp = [NoDir EXCEPT !.number = Number(calls')]
      /\ disk' = [main |-> disk'.main, tmp |-> disk'.tmp, old |-> disk'.old]
  BY DEF SaveBegin, SaveInv, Types
<1>4. /\ IsDir(disk'.tmp) /\ disk'.tmp.number = Number(calls') /\ disk'.tmp.files = << >>
  <2> DEFINE n == Number(calls')
  <2>1. disk'.tmp = [number |-> n, state |-> NoSamples, saved |-> FALSE, files |-> << >>,
                     manifest |-> 0, meta |-> FALSE]
    BY <1>3 DEF NoDir
  <2>2. n \in Nat
    BY <1>1
  <2> HIDE DEF n
  <2>3. /\ IsDir(disk'.tmp) /\ disk'.tmp.number = n /\ disk'.tmp.files = << >>
    BY <2>1, <2>2 DEF IsDir
  <2> QED
    BY <2>3 DEF n
<1>5. Types'
  <2>1. IsCall(caller')
    BY <1>2 DEF IsCall
  <2>2. UNCHANGED <<size, inbox>>
    BY DEF SaveBegin
  <2> QED
    BY <1>1, <1>3, <1>4, <2>1, <2>2 DEF SaveInv, Types, Units, Inboxes, IsDir
<1>6. RequestsAreOwn'
  <2>1. ASSUME NEW u \in Units, NEW i \in 1..Len(inbox[u])
        PROVE  inbox[u][i].call <= Number(calls') /\ inbox[u][i].call # Number(calls')
    <3>1. inbox[u][i].call \in Nat
      BY DEF SaveInv, Types, Inboxes
    <3>2. inbox[u][i].call <= Number(calls)
      BY DEF SaveInv, RequestsAreOwn
    <3> QED
      BY <1>1, <3>1, <3>2
  <2>2. UNCHANGED <<size, inbox>>
    BY DEF SaveBegin
  <2> QED
    BY <2>1, <2>2 DEF RequestsAreOwn, Units
<1>7. InPlaceIsOlder'
  BY <1>1, <1>3 DEF SaveInv, InPlaceIsOlder, Types, IsDir
<1>8. StagedSoFar'
  <2>1. DOMAIN disk'.tmp.files = {}
    BY <1>4
  <2> QED
    BY <1>2, <1>4, <2>1 DEF StagedSoFar, Saving, Staging
<1>9. InstalledFirst'
  BY <1>2 DEF InstalledFirst, Saving
<1> QED
  BY <1>5, <1>6, <1>7, <1>8, <1>9 DEF SaveInv

LEMMA SaveControllerPreserves ==
  ASSUME SaveInv, SaveController
  PROVE  SaveInv'
<1>1. /\ caller' = [op |-> "save", pc |-> "units", open |-> Units, failed |-> FALSE]
      /\ size' = size /\ calls' = calls /\ Saving(Staging)
  BY DEF SaveController, Call, Saving, Staging
<1>2. /\ disk'.main = disk.main /\ disk'.old = disk.old
      /\ disk'.tmp.number = disk.tmp.number /\ disk'.tmp.files = disk.tmp.files
      /\ disk'.tmp.saved = TRUE /\ IsDir(disk'.tmp)
      /\ disk' = [main |-> disk'.main, tmp |-> disk'.tmp, old |-> disk'.old]
  BY DEF SaveController, SaveInv, Types, IsDir
<1>3. Number(calls) \in Nat
  BY NumberIsNat DEF SaveInv, Types
<1>4. /\ Inboxes(inbox)'
      /\ \A u \in Units : \A i \in 1..Len(inbox'[u]) :
           \/ inbox'[u][i].kind = "save" /\ inbox'[u][i].call = Number(calls)
           \/ \E j \in 1..Len(inbox[u]) : inbox'[u][i] = inbox[u][j]
  <2> DEFINE rows == [u \in Units |-> {}]
  <2>1. Ask("save", rows, Number(calls))
    BY DEF SaveController, AskAll
  <2> HIDE DEF rows
  <2>2. /\ Inboxes(inbox)'
        /\ \A u \in Units : \A i \in 1..Len(inbox'[u]) :
             \/ inbox'[u][i] = [kind |-> "save", call |-> Number(calls), rows |-> rows[u]]
             \/ \E j \in 1..Len(inbox[u]) : inbox'[u][i] = inbox[u][j]
    BY <1>1, <1>3, <2>1, AskedJoin DEF SaveInv
  <2>3. \A r, x : r = [kind |-> "save", call |-> Number(calls), rows |-> x] =>
          r.kind = "save" /\ r.call = Number(calls)
    OBVIOUS
  <2> QED
    BY <2>2, <2>3
<1>5. Types'
  <2>1. IsCall(caller')
    BY <1>1 DEF IsCall
  <2> QED
    BY <1>1, <1>2, <1>4, <2>1 DEF SaveInv, Types
<1>6. RequestsAreOwn'
  <2> SUFFICES ASSUME NEW u \in Units, NEW i \in 1..Len(inbox'[u])
               PROVE  /\ inbox'[u][i].call <= Number(calls)
                      /\ inbox'[u][i].call = Number(calls) => inbox'[u][i].kind = "save"
    BY <1>1 DEF RequestsAreOwn, Units
  <2>1. CASE inbox'[u][i].kind = "save" /\ inbox'[u][i].call = Number(calls)
    BY <1>3, <2>1
  <2>2. CASE \E j \in 1..Len(inbox[u]) : inbox'[u][i] = inbox[u][j]
    BY <1>1, <2>2 DEF SaveInv, RequestsAreOwn, Saving
  <2> QED
    BY <1>4, <2>1, <2>2
<1>7. InPlaceIsOlder'
  BY <1>1, <1>2 DEF SaveInv, InPlaceIsOlder
<1>8. StagedSoFar' /\ InstalledFirst'
  BY <1>1, <1>2 DEF SaveInv, StagedSoFar, InstalledFirst, Saving, Staging, Units
<1> QED
  BY <1>5, <1>6, <1>7, <1>8 DEF SaveInv

(* A unit's file joins the staging directory, whichever save asked for it. *)
LEMMA ServeSavePreserves ==
  ASSUME SaveInv, NEW u \in Units, ServeSave(u)
  PROVE  SaveInv'
<1> PICK success \in BOOLEAN :
      /\ disk' = IF success THEN [disk EXCEPT !.tmp.files = Put(@, u, units[u])] ELSE disk
      /\ Served(u, success)
  BY DEF ServeSave
<1>1. Asked(u, "save") /\ size' = size /\ calls' = calls
  BY DEF ServeSave
<1>2. /\ IsCall(caller') /\ caller'.op = caller.op /\ caller'.pc = caller.pc
      /\ RequestsAreOwn'
      /\ Saving({"units"}) /\ ~caller'.failed =>
           ~caller.failed /\ (caller'.open = caller.open \/ (caller'.open = caller.open \ {u} /\ success))
  BY <1>1, ServedKeepsTheCall
<1>3. Inboxes(inbox)'
  BY <1>1, ServedLeaves DEF SaveInv
<1>4. /\ disk'.main = disk.main /\ disk'.old = disk.old
      /\ disk' = [main |-> disk'.main, tmp |-> disk'.tmp, old |-> disk'.old]
      /\ IsDir(disk'.tmp)
      /\ disk'.tmp.number = disk.tmp.number /\ disk'.tmp.saved = disk.tmp.saved
      /\ disk'.tmp.meta = disk.tmp.meta /\ disk'.tmp.manifest = disk.tmp.manifest
  BY DEF SaveInv, Types, IsDir
<1>5. DOMAIN disk'.tmp.files = DOMAIN disk.tmp.files \cup (IF success THEN {u} ELSE {})
  BY DEF SaveInv, Types, IsDir, Put
<1>6. Types'
  BY <1>1, <1>2, <1>3, <1>4 DEF SaveInv, Types
<1>7. InPlaceIsOlder' /\ InstalledFirst'
  BY <1>1, <1>2, <1>4 DEF SaveInv, InPlaceIsOlder, InstalledFirst, Saving
<1>8. StagedSoFar'
  <2>1. Units' = Units
    BY <1>1 DEF Units
  <2>2. \A steps : Saving(steps)' <=> Saving(steps)
    BY <1>2 DEF Saving
  <2>3. Saving(Staging)' => disk'.tmp.number = Number(calls') /\ DOMAIN disk'.tmp.files \subseteq Units'
    BY <1>1, <1>4, <1>5, <2>1, <2>2 DEF SaveInv, StagedSoFar
  <2>4. Saving(Staging \ {"begun"})' => disk'.tmp.saved = TRUE
    BY <1>4, <2>2 DEF SaveInv, StagedSoFar
  <2>5. Saving({"units"})' /\ ~caller'.failed => Units' \ caller'.open \subseteq DOMAIN disk'.tmp.files
    BY <1>2, <1>5, <2>1, <2>2 DEF SaveInv, StagedSoFar
  <2>6. Saving({"aside", "install"})' =>
          disk'.tmp.meta = TRUE /\ disk'.tmp.manifest = size' /\ DOMAIN disk'.tmp.files = Units'
    BY <1>1, <1>4, <1>5, <2>1, <2>2 DEF SaveInv, StagedSoFar
  <2> QED
    BY <2>3, <2>4, <2>5, <2>6 DEF StagedSoFar, Staging
<1> QED
  BY <1>2, <1>6, <1>7, <1>8 DEF SaveInv

(* The answer to another request changes no save.                          *)
LEMMA ServeOthersPreserves ==
  ASSUME SaveInv, NEW u \in Units, NEW kind, kind # "save", Asked(u, kind),
         NEW success \in BOOLEAN, Served(u, success), UNCHANGED <<size, calls, disk>>
  PROVE  SaveInv'
<1>1. UNCHANGED <<size, calls, disk>>
  OBVIOUS
<1>2. /\ IsCall(caller') /\ caller'.op = caller.op /\ caller'.pc = caller.pc
      /\ RequestsAreOwn'
      /\ Saving({"units"}) /\ ~caller'.failed => ~caller.failed /\ caller'.open = caller.open
  BY <1>1, ServedKeepsTheCall
<1>3. Inboxes(inbox)'
  BY <1>1, ServedLeaves DEF SaveInv
<1>4. Types'
  BY <1>1, <1>2, <1>3 DEF SaveInv, Types, IsDir
<1>5. InPlaceIsOlder' /\ InstalledFirst' /\ StagedSoFar'
  BY <1>1, <1>2 DEF SaveInv, InPlaceIsOlder, InstalledFirst, StagedSoFar, Saving, Staging, Units
<1> QED
  BY <1>2, <1>4, <1>5 DEF SaveInv

LEMMA ServeLoadPreserves ==
  ASSUME SaveInv, NEW u \in Units, ServeLoad(u)
  PROVE  SaveInv'
<1> PICK success \in BOOLEAN : Served(u, success)
  BY DEF ServeLoad
<1>1. Asked(u, "load") /\ UNCHANGED <<size, calls, disk>>
  BY DEF ServeLoad
<1> QED
  BY <1>1, ServeOthersPreserves

LEMMA UnitTimeoutPreserves ==
  ASSUME SaveInv, NEW u, UnitTimeout(u)
  PROVE  SaveInv'
<1>1. caller' = [caller EXCEPT !.open = @ \ {u}, !.failed = TRUE] /\ UNCHANGED <<size, inbox, disk, calls>>
  BY DEF UnitTimeout
<1>2. /\ IsCall(caller') /\ caller'.failed
      /\ caller'.op = caller.op /\ caller'.pc = caller.pc
  BY <1>1 DEF SaveInv, Types, IsCall
<1>3. Types'
  BY <1>1, <1>2 DEF SaveInv, Types, Units, Inboxes, IsDir
<1>4. RequestsAreOwn'
  BY <1>1, <1>2 DEF SaveInv, RequestsAreOwn, Units
<1>5. InPlaceIsOlder' /\ InstalledFirst' /\ StagedSoFar'
  BY <1>1, <1>2 DEF SaveInv, InPlaceIsOlder, InstalledFirst, StagedSoFar, Saving, Staging, Units
<1> QED
  BY <1>3, <1>4, <1>5 DEF SaveInv

-----------------------------------------------------------------------------
(* What the steps do to a directory that is there, or is not.              *)
LEMMA LessIsDir ==
  ASSUME NEW d, IsDir(d)
  PROVE  /\ IsDir(LessOf(d))
         /\ LessOf(d).number = d.number \/ LessOf(d).number = 0
BY NoDirIsDir DEF LessOf, IsDir, NoDir

(* A step of the save that keeps its requests and its staging directory.   *)
LEMMA StepPreserves ==
  ASSUME SaveInv, UNCHANGED <<size, calls, inbox>>, IsCall(caller'), caller'.op = "save" => caller.op = "save",
         disk' = [main |-> disk'.main, tmp |-> disk'.tmp, old |-> disk'.old],
         IsDir(disk'.main), IsDir(disk'.tmp), IsDir(disk'.old),
         InPlaceIsOlder', StagedSoFar', InstalledFirst'
  PROVE  SaveInv'
<1>1. Types'
  BY DEF SaveInv, Types, Units, Inboxes
<1>2. RequestsAreOwn'
  BY DEF SaveInv, RequestsAreOwn, Units
<1> QED
  BY <1>1, <1>2 DEF SaveInv

LEMMA SaveManifestsPreserves ==
  ASSUME SaveInv, SaveManifests
  PROVE  SaveInv'
<1>1. /\ caller' = [op |-> "save", pc |-> "aside", open |-> {}, failed |-> FALSE]
      /\ UNCHANGED <<size, calls, inbox>> /\ Saving({"units"}) /\ caller.open = {} /\ ~caller.failed
  BY DEF SaveManifests, AllAnswered, Call, Saving
<1>2. /\ disk'.main = disk.main /\ disk'.old = disk.old
      /\ disk' = [main |-> disk'.main, tmp |-> disk'.tmp, old |-> disk'.old]
      /\ IsDir(disk'.tmp) /\ disk'.tmp.number = disk.tmp.number /\ disk'.tmp.saved = disk.tmp.saved
      /\ disk'.tmp.files = disk.tmp.files /\ disk'.tmp.meta = TRUE /\ disk'.tmp.manifest = size
  BY DEF SaveManifests, SaveInv, Types, IsDir
<1>3. IsCall(caller')
  BY <1>1 DEF IsCall
<1>4. /\ disk.tmp.number = Number(calls) /\ DOMAIN disk.tmp.files \subseteq Units
      /\ disk.tmp.saved = TRUE /\ Units \subseteq DOMAIN disk.tmp.files
  BY <1>1 DEF SaveInv, StagedSoFar, Saving, Staging
<1>5. StagedSoFar'
  BY <1>1, <1>2, <1>4 DEF StagedSoFar, Saving, Staging, Units
<1>6. InPlaceIsOlder'
  BY <1>1, <1>2 DEF SaveInv, InPlaceIsOlder, Saving, Staging
<1>7. InstalledFirst'
  BY <1>1 DEF InstalledFirst, Saving
<1>8. IsDir(disk'.main) /\ IsDir(disk'.old)
  BY <1>2 DEF SaveInv, Types
<1> QED
  BY <1>1, <1>2, <1>3, <1>5, <1>6, <1>7, <1>8, StepPreserves DEF Saving

LEMMA MoveAsidePreserves ==
  ASSUME SaveInv, MoveAside
  PROVE  SaveInv'
<1>1. /\ disk' = Aside /\ UNCHANGED <<size, calls, inbox>> /\ Saving({"aside"})
      /\ caller' = caller \/ caller' = [op |-> "save", pc |-> "install", open |-> {}, failed |-> FALSE]
  BY DEF MoveAside, Call, Saving
<1>2. /\ Number(calls) \in Nat /\ IsDir(disk.main) /\ IsDir(disk.tmp) /\ IsDir(disk.old) /\ IsCall(caller)
      /\ disk = [main |-> disk.main, tmp |-> disk.tmp, old |-> disk.old]
      /\ disk.main.number < Number(calls) /\ disk.old.number < Number(calls)
  BY <1>1, NumberIsNat DEF SaveInv, Types, InPlaceIsOlder, Saving, Staging
<1>3. IsCall(caller') /\ caller'.op = "save" /\ caller'.pc \in {"aside", "install"}
  <2>1. CASE caller' = caller
    BY <1>1, <1>2, <2>1 DEF Saving
  <2>2. CASE caller' = [op |-> "save", pc |-> "install", open |-> {}, failed |-> FALSE]
    BY <2>2 DEF IsCall
  <2> QED
    BY <1>1, <2>1, <2>2
<1>4. /\ disk'.tmp = disk.tmp
      /\ disk' = [main |-> disk'.main, tmp |-> disk'.tmp, old |-> disk'.old]
      /\ \/ disk'.main = disk.main /\ disk'.old = disk.old
         \/ disk'.main = disk.main /\ disk'.old = LessOf(disk.old)
         \/ disk'.main = NoDir /\ disk'.old = disk.main
  BY <1>1, <1>2 DEF Aside
<1>5. /\ IsDir(disk'.main) /\ IsDir(disk'.tmp) /\ IsDir(disk'.old)
      /\ disk'.main.number < Number(calls) /\ disk'.old.number < Number(calls)
  <2>1. NoDir.number = 0 /\ disk.main.number \in Nat
    BY <1>2 DEF NoDir, IsDir
  <2>2. 0 < Number(calls)
    BY <1>2, <2>1
  <2>3. IsDir(LessOf(disk.old)) /\ LessOf(disk.old).number < Number(calls)
    BY <1>2, <2>2, LessIsDir
  <2> QED
    BY <1>2, <1>4, <2>1, <2>2, <2>3, NoDirIsDir
<1>6. InPlaceIsOlder'
  <2>1. disk'.main.number <= Number(calls) /\ disk'.old.number <= Number(calls)
    BY <1>2, <1>5 DEF IsDir
  <2> QED
    BY <1>1, <1>5, <2>1 DEF InPlaceIsOlder
<1>7. StagedSoFar'
  BY <1>1, <1>3, <1>4 DEF SaveInv, StagedSoFar, Saving, Staging, Units
<1>8. InstalledFirst'
  BY <1>3 DEF InstalledFirst, Saving
<1> QED
  BY <1>1, <1>3, <1>4, <1>5, <1>6, <1>7, <1>8, StepPreserves DEF Saving

LEMMA InstallPreserves ==
  ASSUME SaveInv, Install
  PROVE  /\ SaveInv'
         /\ disk'.main = disk.tmp /\ Whole(disk.tmp) /\ disk.tmp.number = Number(calls)
<1>1. /\ UNCHANGED <<size, calls, inbox>> /\ Saving({"install"})
      /\ caller' = [op |-> "save", pc |-> "tidy", open |-> {}, failed |-> FALSE]
      /\ disk' = [disk EXCEPT !.main = disk.tmp, !.tmp = NoDir]
  BY DEF Install, Call, Saving
<1>2. /\ disk = [main |-> disk.main, tmp |-> disk.tmp, old |-> disk.old]
      /\ Number(calls) \in Nat /\ size \in Nat \ {0}
  BY NumberIsNat DEF SaveInv, Types
<1>3. disk' = [main |-> disk.tmp, tmp |-> NoDir, old |-> disk.old]
  BY <1>1, <1>2
<1>4. /\ disk.tmp.number = Number(calls) /\ disk.tmp.saved = TRUE /\ disk.tmp.meta = TRUE
      /\ disk.tmp.manifest = size /\ DOMAIN disk.tmp.files = Units
  BY <1>1 DEF SaveInv, StagedSoFar, Saving, Staging
<1>5. disk.tmp # NoDir
  BY <1>4 DEF NoDir
<1>6. Whole(disk.tmp)
  BY <1>2, <1>4, <1>5 DEF Whole, Exists, Units
<1>7. InstalledFirst'
  BY <1>3, <1>5 DEF InstalledFirst, Exists
<1>8. InPlaceIsOlder'
  <2>1. disk.old.number <= Number(calls) /\ disk.tmp.number <= Number(calls)
    BY <1>2, <1>4 DEF SaveInv, InPlaceIsOlder
  <2> QED
    BY <1>1, <1>3, <2>1 DEF InPlaceIsOlder, Saving, Staging
<1>9. StagedSoFar'
  BY <1>1 DEF StagedSoFar, Saving, Staging
<1>10. IsCall(caller') /\ IsDir(disk'.main) /\ IsDir(disk'.tmp) /\ IsDir(disk'.old)
  BY <1>1, <1>3, NoDirIsDir DEF IsCall, SaveInv, Types
<1>11. SaveInv'
  BY <1>1, <1>3, <1>7, <1>8, <1>9, <1>10, StepPreserves DEF Saving
<1> QED
  BY <1>3, <1>4, <1>6, <1>11

LEMMA TidyPreserves ==
  ASSUME SaveInv, Tidy
  PROVE  SaveInv'
<1>1. /\ UNCHANGED <<size, calls, inbox>> /\ Saving({"tidy"})
      /\ caller' = caller \/ caller' = Idle
      /\ disk' = [disk EXCEPT !.old = LessOf(@)]
  BY DEF Tidy, Saving
<1>2. /\ disk = [main |-> disk.main, tmp |-> disk.tmp, old |-> disk.old]
      /\ Number(calls) \in Nat /\ IsCall(caller)
      /\ IsDir(disk.main) /\ IsDir(disk.tmp) /\ IsDir(disk.old)
      /\ disk.main.number <= Number(calls) /\ disk.old.number <= Number(calls)
  BY NumberIsNat DEF SaveInv, Types, InPlaceIsOlder
<1>3. disk' = [main |-> disk.main, tmp |-> disk.tmp, old |-> LessOf(disk.old)]
  BY <1>1, <1>2
<1>4. IsDir(LessOf(disk.old)) /\ LessOf(disk.old).number <= Number(calls)
  BY <1>2, LessIsDir
<1>5. IsCall(caller') /\ (caller'.op = "save" => caller.op = "save") /\ ~Saving(Staging)'
  <2>1. CASE caller' = caller
    BY <1>1, <1>2, <2>1 DEF Saving, Staging
  <2>2. CASE caller' = Idle
    BY <2>2 DEF IsCall, Idle, Saving, Staging
  <2> QED
    BY <1>1, <2>1, <2>2
<1>6. InPlaceIsOlder'
  BY <1>1, <1>2, <1>3, <1>4, <1>5 DEF InPlaceIsOlder
<1>7. StagedSoFar'
  BY <1>5 DEF StagedSoFar, Saving, Staging
<1>8. InstalledFirst'
  BY <1>1, <1>3 DEF SaveInv, InstalledFirst, Saving
<1>9. IsDir(disk'.main) /\ IsDir(disk'.tmp) /\ IsDir(disk'.old)
  BY <1>2, <1>3, <1>4
<1> QED
  BY <1>1, <1>3, <1>5, <1>6, <1>7, <1>8, <1>9, StepPreserves

LEMMA SaveFailsPreserves ==
  ASSUME SaveInv, SaveFails
  PROVE  SaveInv'
<1>1. CASE disk' = [disk EXCEPT !.tmp = NoDir] /\ caller' = Call("save", "restore", {})
  <2>1. /\ UNCHANGED <<size, calls, inbox>> /\ caller.op = "save"
        /\ caller' = [op |-> "save", pc |-> "restore", open |-> {}, failed |-> FALSE]
    BY <1>1 DEF SaveFails, Call
  <2>2. disk' = [main |-> disk.main, tmp |-> NoDir, old |-> disk.old]
    BY <1>1 DEF SaveInv, Types
  <2>3. IsCall(caller') /\ IsDir(disk'.main) /\ IsDir(disk'.tmp) /\ IsDir(disk'.old)
    BY <2>1, <2>2, NoDirIsDir DEF IsCall, SaveInv, Types
  <2>4. InPlaceIsOlder' /\ StagedSoFar' /\ InstalledFirst'
    BY <2>1, <2>2 DEF SaveInv, InPlaceIsOlder, StagedSoFar, InstalledFirst, Saving, Staging
  <2> QED
    BY <2>1, <2>2, <2>3, <2>4, StepPreserves
<1>2. CASE UNCHANGED disk /\ Return
  <2>1. UNCHANGED <<size, calls, inbox, disk>> /\ caller' = Idle
    BY <1>2 DEF SaveFails, Return
  <2> QED
    BY <2>1, NotSavingPreserves DEF IsCall, Idle
<1> QED
  BY <1>1, <1>2 DEF SaveFails

(* Rolling an interrupted save back moves the old directory into place.    *)
LEMMA RolledBackKeeps ==
  ASSUME Types, InPlaceIsOlder, disk' = RolledBack
  PROVE  /\ disk' = [main |-> disk'.main, tmp |-> disk'.tmp, old |-> disk'.old]
         /\ IsDir(disk'.main) /\ IsDir(disk'.tmp) /\ IsDir(disk'.old)
         /\ disk'.main.number <= Number(calls) /\ disk'.old.number <= Number(calls)
         /\ Kept' = Kept
<1>1. /\ disk = [main |-> disk.main, tmp |-> disk.tmp, old |-> disk.old]
      /\ IsDir(disk.main) /\ IsDir(disk.tmp) /\ IsDir(disk.old) /\ Number(calls) \in Nat
      /\ disk.main.number <= Number(calls) /\ disk.old.number <= Number(calls)
  BY NumberIsNat DEF Types, InPlaceIsOlder
<1>2. CASE Exists(disk.old) /\ ~Exists(disk.main)
  <2>1. disk' = [main |-> disk.old, tmp |-> disk.tmp, old |-> NoDir]
    BY <1>1, <1>2 DEF RolledBack
  <2>2. NoDir.number = 0
    BY DEF NoDir
  <2>3. Kept' = Kept
    BY <1>2, <2>1 DEF Kept, Exists
  <2> QED
    BY <1>1, <2>1, <2>2, <2>3, NoDirIsDir
<1>3. CASE ~(Exists(disk.old) /\ ~Exists(disk.main))
  <2>1. disk' = disk
    BY <1>3 DEF RolledBack
  <2> QED
    BY <1>1, <2>1 DEF Kept
<1> QED
  BY <1>2, <1>3

LEMMA SaveRestoresPreserves ==
  ASSUME SaveInv, SaveRestores
  PROVE  SaveInv'
<1>1. UNCHANGED <<size, calls, inbox>> /\ caller' = Idle /\ disk' = RolledBack
  BY DEF SaveRestores, Return
<1>2. /\ disk' = [main |-> disk'.main, tmp |-> disk'.tmp, old |-> disk'.old]
      /\ IsDir(disk'.main) /\ IsDir(disk'.tmp) /\ IsDir(disk'.old)
      /\ disk'.main.number <= Number(calls) /\ disk'.old.number <= Number(calls)
  BY <1>1, RolledBackKeeps DEF SaveInv
<1>3. InPlaceIsOlder' /\ StagedSoFar' /\ InstalledFirst' /\ IsCall(caller') /\ caller'.op # "save"
  BY <1>1, <1>2 DEF InPlaceIsOlder, StagedSoFar, InstalledFirst, Saving, Staging, Idle, IsCall
<1> QED
  BY <1>1, <1>2, <1>3, StepPreserves

(* Any call but a save, once it began, with or without requests.           *)
LEMMA CallPreserves ==
  ASSUME SaveInv, CallCheckpoint \/ CallDump, size' = size, IsCall(caller'), caller'.op # "save",
         inbox' = inbox \/ \E kind, rows : Ask(kind, rows, Number(calls')),
         disk' = disk \/ disk' = RolledBack
  PROVE  SaveInv'
<1>1. /\ calls' \in [checkpoints : Nat, dumps : Nat]
      /\ Number(calls') = Number(calls) + 1
      /\ Number(calls) \in Nat /\ Number(calls') \in Nat
  BY CalledIsLater, NumberIsNat DEF SaveInv, Types
<1>2. /\ disk' = [main |-> disk'.main, tmp |-> disk'.tmp, old |-> disk'.old]
      /\ IsDir(disk'.main) /\ IsDir(disk'.tmp) /\ IsDir(disk'.old)
      /\ disk'.main.number <= Number(calls) /\ disk'.old.number <= Number(calls)
  <2>1. CASE disk' = disk
    BY <2>1 DEF SaveInv, Types, InPlaceIsOlder
  <2>2. CASE disk' = RolledBack
    BY <2>2, RolledBackKeeps DEF SaveInv
  <2> QED
    BY <2>1, <2>2
<1>3. ASSUME NEW u \in Units, NEW i \in 1..Len(inbox[u])
      PROVE  inbox[u][i].call <= Number(calls')
  <2>1. inbox[u][i].call \in Nat
    BY DEF SaveInv, Types, Inboxes
  <2>2. inbox[u][i].call <= Number(calls)
    BY DEF SaveInv, RequestsAreOwn
  <2> QED
    BY <1>1, <2>1, <2>2
<1>4. /\ Inboxes(inbox)'
      /\ \A u \in Units : \A i \in 1..Len(inbox'[u]) : inbox'[u][i].call <= Number(calls')
  <2>1. CASE inbox' = inbox
    BY <1>3, <2>1 DEF SaveInv, Types, Inboxes, Units
  <2>2. ASSUME NEW kind, NEW rows, Ask(kind, rows, Number(calls'))
        PROVE  /\ Inboxes(inbox)'
               /\ \A u \in Units : \A i \in 1..Len(inbox'[u]) : inbox'[u][i].call <= Number(calls')
    <3>1. /\ Inboxes(inbox)'
          /\ \A u \in Units : \A i \in 1..Len(inbox'[u]) :
               \/ inbox'[u][i] = [kind |-> kind, call |-> Number(calls'), rows |-> rows[u]]
               \/ \E j \in 1..Len(inbox[u]) : inbox'[u][i] = inbox[u][j]
      BY <1>1, <2>2, AskedJoin DEF SaveInv
    <3>2. ASSUME NEW u \in Units, NEW i \in 1..Len(inbox'[u])
          PROVE  inbox'[u][i].call <= Number(calls')
      <4>1. CASE inbox'[u][i] = [kind |-> kind, call |-> Number(calls'), rows |-> rows[u]]
        BY <1>1, <4>1
      <4>2. CASE \E j \in 1..Len(inbox[u]) : inbox'[u][i] = inbox[u][j]
        BY <1>3, <4>2
      <4> QED
        BY <3>1, <4>1, <4>2
    <3> QED
      BY <3>1, <3>2
  <2> QED
    BY <2>1, <2>2
<1>5. Types'
  BY <1>1, <1>2, <1>4 DEF SaveInv, Types
<1>6. RequestsAreOwn'
  BY <1>4 DEF RequestsAreOwn, Units
<1>7. InPlaceIsOlder'
  <2>1. disk'.main.number <= Number(calls') /\ disk'.old.number <= Number(calls')
    BY <1>1, <1>2 DEF IsDir
  <2> QED
    BY <2>1 DEF InPlaceIsOlder, Saving
<1>8. StagedSoFar' /\ InstalledFirst'
  BY DEF StagedSoFar, InstalledFirst, Saving
<1> QED
  BY <1>5, <1>6, <1>7, <1>8 DEF SaveInv

LEMMA LoadBeginPreserves ==
  ASSUME SaveInv, LoadBegin
  PROVE  SaveInv'
<1>1. CallCheckpoint /\ size' = size /\ disk' = RolledBack /\ caller = Idle
  BY CalledIsLater DEF LoadBegin, SaveInv, Types
<1>2. \/ caller' = Call("load", "units", Units) /\ AskAll("load", Number(calls'))
      \/ caller' = Idle /\ inbox' = inbox
  BY <1>1, Zenon DEF LoadBegin
<1>3. IsCall(caller') /\ caller'.op # "save"
  <2>1. CASE caller' = Call("load", "units", Units)
    BY <2>1 DEF IsCall, Call
  <2>2. CASE caller' = Idle
    BY <2>2 DEF IsCall, Idle
  <2> QED
    BY <1>2, <2>1, <2>2
<1>4. inbox' = inbox \/ \E kind, rows : Ask(kind, rows, Number(calls'))
  BY <1>2, Zenon DEF AskAll
<1> QED
  BY <1>1, <1>3, <1>4, CallPreserves

-----------------------------------------------------------------------------
LEMMA IdlePreserves ==
  ASSUME SaveInv, LoadController \/ Stop
  PROVE  SaveInv'
<1>1. UNCHANGED <<size, calls, inbox, disk>> /\ caller' = Idle
  BY DEF LoadController, Stop, Return
<1> QED
  BY <1>1, NotSavingPreserves DEF IsCall, Idle

LEMMA DataLeavesCalls ==
  ASSUME DataStep
  PROVE  UNCHANGED <<size, calls, inbox, caller, disk>>
BY DEF DataStep, DataOp, Register, Store, Notify, MarkClearing, Remove, Release

(* Dumps and loads of rows are calls of their own.                         *)
LEMMA DumpBeginPreserves ==
  ASSUME SaveInv, NEW keys, DumpBegin(keys)
  PROVE  SaveInv'
<1> DEFINE rows  == Described(keys)
           asked == ByUnit(rows, [k \in keys |-> rows[k].index])
<1>1. /\ CallDump /\ UNCHANGED <<size, disk>>
      /\ caller' = Call("dump", "units", DOMAIN asked) /\ Ask("dump", asked, Number(calls'))
  BY DEF DumpBegin
<1> HIDE DEF asked
<1>2. IsCall(caller') /\ caller'.op # "save"
  BY <1>1 DEF IsCall, Call
<1> QED
  BY <1>1, <1>2, CallPreserves

LEMMA LoadRowsBeginPreserves ==
  ASSUME SaveInv, LoadRowsBegin
  PROVE  SaveInv'
<1> DEFINE asked == ByUnit(dump.rows, target')
<1>1. /\ CallDump /\ UNCHANGED <<size, disk>>
      /\ caller' = Call("load_rows", "units", DOMAIN asked) /\ Ask("load_rows", asked, Number(calls'))
  BY DEF LoadRowsBegin
<1> HIDE DEF asked
<1>2. IsCall(caller') /\ caller'.op # "save"
  BY <1>1 DEF IsCall, Call
<1> QED
  BY <1>1, <1>2, CallPreserves

LEMMA ServeDumpPreserves ==
  ASSUME SaveInv, NEW u \in Units, ServeDump(u)
  PROVE  SaveInv'
<1>1. Asked(u, "dump") /\ UNCHANGED <<size, calls, disk>> /\ \E success \in BOOLEAN : Served(u, success)
  BY DEF ServeDump
<1> QED
  BY <1>1, ServeOthersPreserves

LEMMA ServeLoadRowsPreserves ==
  ASSUME SaveInv, NEW u \in Units, ServeLoadRows(u)
  PROVE  SaveInv'
<1>1. PICK some \in SUBSET Head(inbox[u]).rows : Served(u, some = Head(inbox[u]).rows)
  BY DEF ServeLoadRows
<1>2. Asked(u, "load_rows") /\ UNCHANGED <<size, calls, disk>>
  BY DEF ServeLoadRows
<1>3. (some = Head(inbox[u]).rows) \in BOOLEAN
  OBVIOUS
<1> QED
  BY <1>1, <1>2, <1>3, ServeOthersPreserves

LEMMA PublishingPreserves ==
  ASSUME SaveInv, SyncShards \/ WriteManifests \/ SyncStaging \/ Publish \/ DumpEnds \/ NotifyRows
  PROVE  SaveInv'
<1>1. UNCHANGED <<size, calls, inbox, disk>>
  BY DEF SyncShards, WriteManifests, SyncStaging, Publishing, Publish, DumpEnds, NotifyRows
<1>2. caller' = Idle \/ \E op \in {"dump", "load_rows"} : \E pc : caller' = Call(op, pc, {})
  BY DEF SyncShards, WriteManifests, SyncStaging, Publishing, Publish, DumpEnds, NotifyRows, Return
<1>3. IsCall(caller') /\ caller'.op # "save"
  <2>1. CASE caller' = Idle
    BY <2>1 DEF IsCall, Idle
  <2>2. ASSUME NEW op \in {"dump", "load_rows"}, NEW pc, caller' = Call(op, pc, {})
        PROVE  IsCall(caller') /\ caller'.op # "save"
    BY <2>2 DEF IsCall, Call
  <2> QED
    BY <1>2, <2>1, <2>2
<1> QED
  BY <1>1, <1>3, NotSavingPreserves

LEMMA DumpStepPreserves ==
  ASSUME SaveInv, DumpStep
  PROVE  SaveInv' /\ disk' = disk
<1>1. SaveInv'
  BY DumpBeginPreserves, LoadRowsBeginPreserves, ServeDumpPreserves, ServeLoadRowsPreserves,
     PublishingPreserves DEF DumpStep
<1>2. disk' = disk
  BY DEF DumpStep, DumpBegin, ServeDump, ServeLoadRows, SyncShards, WriteManifests, SyncStaging, Publishing,
         Publish, DumpEnds, LoadRowsBegin, NotifyRows
<1> QED
  BY <1>1, <1>2

LEMMA NextPreserves ==
  ASSUME SaveInv, [PNext]_allVars
  PROVE  SaveInv'
<1>1. CASE CheckpointStep
  BY <1>1, SaveBeginPreserves, SaveControllerPreserves, SaveManifestsPreserves, MoveAsidePreserves,
     InstallPreserves, TidyPreserves, SaveFailsPreserves, SaveRestoresPreserves, LoadBeginPreserves,
     IdlePreserves, ServeSavePreserves, ServeLoadPreserves, UnitTimeoutPreserves
     DEF CheckpointStep
<1>2. CASE PausedDataStep
  BY <1>2, DataLeavesCalls, UnchangedPreserves DEF PausedDataStep, DataStep
<1>3. CASE DumpStep
  BY <1>3, DumpStepPreserves
<1>4. CASE LosePower
  BY <1>4, RestartPreserves DEF LosePower
<1>5. CASE UNCHANGED allVars
  BY <1>5, UnchangedPreserves DEF allVars, vars
<1> QED
  BY <1>1, <1>2, <1>3, <1>4, <1>5 DEF PNext

(* The invariant: what is staged is the save's that is under way, and has  *)
(* what the units that answered it wrote; what is in place is older.       *)
THEOREM SaveInvHolds == PSpec => []SaveInv
<1>1. PInit => SaveInv
  BY InitEstablishes DEF PInit
<1>2. SaveInv /\ [PNext]_allVars => SaveInv'
  BY NextPreserves
<1> QED
  BY <1>1, <1>2, PTL DEF PSpec

-----------------------------------------------------------------------------
(* Only Install changes the directory that a load would take.              *)
LEMMA OthersKeep ==
  ASSUME SaveInv, [PNext]_allVars, ~Install
  PROVE  Kept' = Kept
<1>1. CASE SaveBegin \/ SaveController \/ SaveManifests \/ SaveFails
  <2>1. disk'.main = disk.main /\ disk'.old = disk.old
    BY <1>1 DEF SaveBegin, SaveController, SaveManifests, SaveFails, SaveInv, Types
  <2> QED
    BY <2>1 DEF Kept
<1>2. CASE MoveAside
  <2>1. /\ disk' = Aside
        /\ disk = [main |-> disk.main, tmp |-> disk.tmp, old |-> disk.old]
    BY <1>2 DEF MoveAside, SaveInv, Types
  <2>2. CASE ~Exists(disk.main)
    BY <2>1, <2>2 DEF Aside, Kept
  <2>3. CASE Exists(disk.main) /\ Exists(disk.old)
    <3>1. disk'.main = disk.main
      BY <2>1, <2>3 DEF Aside
    <3> QED
      BY <2>3, <3>1 DEF Kept
  <2>4. CASE Exists(disk.main) /\ ~Exists(disk.old)
    <3>1. disk'.main = NoDir /\ disk'.old = disk.main
      BY <2>1, <2>4 DEF Aside
    <3> QED
      BY <2>4, <3>1 DEF Kept, Exists
  <2> QED
    BY <2>2, <2>3, <2>4
<1>3. CASE Tidy
  <2>1. Exists(disk.main) /\ disk'.main = disk.main
    BY <1>3 DEF Tidy, SaveInv, InstalledFirst, Saving, Types
  <2> QED
    BY <2>1 DEF Kept
<1>4. CASE SaveRestores \/ LoadBegin
  BY <1>4, RolledBackKeeps DEF SaveRestores, LoadBegin, SaveInv
<1>5. CASE LoadController \/ Stop \/ LosePower
  BY <1>5 DEF LoadController, Stop, LosePower, Restart, Kept
<1>6. ASSUME NEW u \in Units, ServeSave(u) \/ ServeLoad(u) \/ UnitTimeout(u)
      PROVE  Kept' = Kept
  <2>1. disk'.main = disk.main /\ disk'.old = disk.old
    BY <1>6 DEF ServeSave, ServeLoad, UnitTimeout, SaveInv, Types
  <2> QED
    BY <2>1 DEF Kept
<1>7. CASE PausedDataStep \/ DumpStep \/ UNCHANGED allVars
  <2>1. disk' = disk
    BY <1>7, DataLeavesCalls, DumpStepPreserves DEF PausedDataStep, DataStep, allVars, vars
  <2> QED
    BY <2>1 DEF Kept
<1> QED
  BY <1>1, <1>2, <1>3, <1>4, <1>5, <1>6, <1>7 DEF PNext, CheckpointStep

(* What Install puts in place is whole, and newer.                         *)
LEMMA InstallReplaces ==
  ASSUME SaveInv, Install
  PROVE  Promise!Replace
<1>1. disk'.main = disk.tmp /\ Whole(disk.tmp) /\ disk.tmp.number = Number(calls)
  BY InstallPreserves
<1>2. Kept' = disk.tmp
  BY <1>1 DEF Kept, Whole, Exists
<1>3. disk.main.number < Number(calls) /\ disk.old.number < Number(calls)
  BY DEF SaveInv, InPlaceIsOlder, Install, Saving, Staging
<1>4. Number(calls) \in Nat /\ disk.main.number \in Nat /\ disk.old.number \in Nat
  BY NumberIsNat DEF SaveInv, Types, IsDir
<1>5. Kept.number < Number(calls) /\ Kept.number \in Nat
  BY <1>3, <1>4 DEF Kept
<1> QED
  BY <1>1, <1>2, <1>4, <1>5 DEF Promise!Replace, NumberOf

(* Saves and loads keep the promise of AtomicCheckpoint: at every moment   *)
(* load_checkpoint would find the last checkpoint that was put in place,   *)
(* whole, whichever steps of _save_checkpoint failed or never ran.         *)
THEOREM CheckpointsAreAtomic == PSpec => LoadsFindTheLast
<1>1. PInit => Promise!Init
  BY DEF PInit, Init, Promise!Init, Kept, Exists, NoDir, NumberOf
<1>2. SaveInv /\ [PNext]_allVars => [Promise!Replace]_Kept
  BY OthersKeep, InstallReplaces
<1> QED
  BY <1>1, <1>2, SaveInvHolds, PTL DEF PSpec, LoadsFindTheLast, Promise!Spec

-----------------------------------------------------------------------------
At(f, i) == IF i \in DOMAIN f THEN f[i] ELSE 0

(* Samples: who owns which index, what is taken for written, what is ready.*)
IsState(s) ==
  /\ s = [owner |-> s.owner, held |-> s.held, ready |-> s.ready]
  /\ s.owner = [i \in DOMAIN s.owner |-> s.owner[i]]
  /\ DOMAIN s.owner \subseteq Indexes /\ s.held \subseteq DOMAIN s.owner
  /\ \A i, j \in DOMAIN s.owner : s.owner[i].key = s.owner[j].key => i = j

Has(s, i, v, w) == <<s.owner[i].number, v>> \in w

SamplesOk ==
  /\ IsState(controller)
  /\ units = [u \in Units |-> units[u]]
  /\ Quiet = TRUE /\ mode # "loading" =>
       \A i \in controller.held \ clearing : Has(controller, i, At(units[i % size], i), written)

(* What a checkpoint that may be loaded takes for written, its files have. *)
DirOk(d, w) ==
  d.meta = TRUE =>
    /\ IsState(d.state)
    /\ Quiet = TRUE => \A i \in d.state.held : Has(d.state, i, At(d.files[i % d.manifest], i), w)

DirsOk == DirOk(disk.main, written) /\ DirOk(disk.old, written)

Working == {"save", "dump", "load_rows"}

CallOk ==
  /\ caller.op \in Working \cup {"none", "load"}
  /\ caller.op = "none" => caller = Idle
  /\ Quiet = TRUE /\ caller.op # "none" => clearing = {}
  /\ caller.op \in Working => mode # "loading"

(* What a save staged so far is what the units had.                        *)
SavedAsStored ==
  /\ disk.tmp.state.held \subseteq controller.held
  /\ \A i \in disk.tmp.state.held : disk.tmp.state.owner[i] = controller.owner[i]
  /\ \A u \in DOMAIN disk.tmp.files : \A i \in disk.tmp.state.held :
       i % size = u => Has(disk.tmp.state, i, At(disk.tmp.files[u], i), written)

SaveOk ==
  /\ Saving({"begun"}) => disk.tmp.saved # TRUE /\ disk.tmp.files = << >>
  /\ Saving(Staging \ {"begun"}) =>
       /\ IsState(disk.tmp.state)
       /\ Quiet = TRUE => SavedAsStored

LoadOk ==
  caller.op = "load" =>
    /\ mode = "loading" /\ disk.main.meta = TRUE /\ disk.main.manifest = size
    /\ ~caller.failed => \A u \in Units \ caller.open : units[u] = disk.main.files[u] /\ inbox[u] = << >>

RowsOk(rows, u) ==
  \A r \in rows :
    /\ r.key \in Produced(dump.rows) /\ r.source = dump.rows[r.key].index
    /\ r.index \in Owned /\ r.index % size = u
    /\ controller.owner[r.index].key = r.key /\ controller.owner[r.index].number = r.number

(* A unit's requests are in the order of their calls, and none is of the   *)
(* call under way before it asked.                                         *)
OrderOk ==
  \A u \in Units : \A n \in 1..Len(inbox[u]) :
    /\ \A m \in 1..Len(inbox[u]) : n < m => inbox[u][n].call < inbox[u][m].call
    /\ caller.op # "none" /\ inbox[u][n].call = Number(calls) => inbox[u][n].kind = caller.op
    /\ Saving({"begun"}) => inbox[u][n].call # Number(calls)

Pending(r, u) ==
  /\ r.kind = "load" => mode = "loading"
  /\ r.kind = "load_rows" => mode = "live" /\ dump.there = TRUE /\ RowsOk(r.rows, u)

PendingOk == \A u \in Units : \A n \in 1..Len(inbox[u]) : Pending(inbox[u][n], u)

RequestsOk == OrderOk /\ PendingOk

IsDump(d) ==
  d = [rows |-> d.rows, shards |-> d.shards, files |-> d.files, synced |-> d.synced,
       durable |-> d.durable, there |-> d.there]

(* What the shards have of a row is what it had when the dump began.       *)
Faithful(d) ==
  /\ DOMAIN wanted = DOMAIN d.rows
  /\ \A k \in DOMAIN d.rows : d.rows[k].ready = wanted[k].ready /\ d.rows[k].ready \in BOOLEAN
  /\ \A u \in DOMAIN d.shards : \A k \in DOMAIN d.rows :
       d.rows[k].index \in DOMAIN d.shards[u] => d.shards[u][d.rows[k].index] = wanted[k].value

DumpOk ==
  /\ IsDump(dump) /\ IsDump(staged)
  /\ dump.there = TRUE =>
     /\ Faithful(dump) /\ dump.files = Files /\ dump.synced = Files
     /\ \A k \in Produced(dump.rows) : \E u \in DOMAIN dump.shards : dump.rows[k].index \in DOMAIN dump.shards[u]

Writing == {"units", "manifests", "sync", "rename"}
Dumping == caller.op = "dump" /\ caller.pc \in Writing

(* The rows under dump are where they were, as they were.                  *)
RowsStay ==
  \A k \in DOMAIN staged.rows :
    /\ staged.rows[k].index \in Owned /\ controller.owner[staged.rows[k].index].key = k
    /\ At(units[staged.rows[k].index % size], staged.rows[k].index) = wanted[k].value

(* A unit was asked for all the rows it has, and for no others.            *)
DumpRequests ==
  \A u \in Units : \A n \in 1..Len(inbox[u]) : inbox[u][n].call = Number(calls) =>
    \A k \in Produced(staged.rows) : staged.rows[k].index % size = u =>
      \E r \in inbox[u][n].rows : r.index = staged.rows[k].index

Answered(u) == ~(caller.pc = "units" /\ (caller.failed \/ u \in caller.open))

Covered(d, u, i) == u \in DOMAIN d.shards /\ i \in DOMAIN d.shards[u]

ShardsCover ==
  \A k \in Produced(staged.rows) : Answered(staged.rows[k].index % size) =>
    Covered(staged, staged.rows[k].index % size, staged.rows[k].index)

FilesSoFar ==
  /\ caller.pc \in {"sync", "rename"} => staged.files = Files
  /\ caller.pc = "rename" => staged.synced = Files

DumpingOk ==
  Dumping =>
    dump.there # TRUE /\ Faithful(staged) /\ RowsStay /\ DumpRequests /\ ShardsCover /\ FilesSoFar

(* The rows under load have indexes of their keys.                         *)
TargetsStay ==
  /\ dump.there = TRUE /\ mode = "live"
  /\ \A k \in DOMAIN dump.rows : target[k] \in Owned /\ controller.owner[target[k]].key = k

LoadRequests ==
  \A u \in Units : \A n \in 1..Len(inbox[u]) : inbox[u][n].call = Number(calls) =>
    \A k \in Produced(dump.rows) : target[k] % size = u =>
      \E r \in inbox[u][n].rows : r.index = target[k]

(* A row has the value it had, and the unit knows it for the sample's.     *)
Restored(k) ==
  /\ At(units[target[k] % size], target[k]) = wanted[k].value
  /\ Has(controller, target[k], wanted[k].value, written)

RowsRestored ==
  \A k \in Produced(dump.rows) : Answered(target[k] % size) => Restored(k)

RowsNotified ==
  caller.pc = "tags" /\ ~lost =>
    \A k \in Produced(dump.rows) :
      target[k] \in controller.held /\ (target[k] \in controller.ready) = wanted[k].ready

LoadingOk == caller.op = "load_rows" => TargetsStay /\ LoadRequests /\ RowsRestored /\ RowsNotified

PInv == SamplesOk /\ DirsOk /\ CallOk /\ SaveOk /\ LoadOk /\ RequestsOk /\ DumpOk /\ DumpingOk /\ LoadingOk

-----------------------------------------------------------------------------
LEMMA UnitsOwn ==
  ASSUME size \in Nat \ {0}, NEW i \in Nat
  PROVE  i % size \in Units
BY DEF Units

LEMMA RegisteredIsState ==
  ASSUME NEW s, IsState(s), NEW i, i \in Indexes, i \notin DOMAIN s.owner, NEW k, NEW n,
         \A j \in DOMAIN s.owner : s.owner[j].key # k,
         NEW o, o = Put(s.owner, i, [key |-> k, number |-> n])
  PROVE  /\ IsState([owner |-> o, held |-> s.held, ready |-> s.ready])
         /\ DOMAIN o = DOMAIN s.owner \cup {i}
         /\ \A j \in DOMAIN s.owner : o[j] = s.owner[j]
<1>1. /\ DOMAIN o = DOMAIN s.owner \cup {i} /\ o[i].key = k
      /\ \A j \in DOMAIN s.owner : o[j] = s.owner[j]
      /\ o = [j \in DOMAIN o |-> o[j]]
  BY DEF Put
<1>2. \A j, l \in DOMAIN o : o[j].key = o[l].key => j = l
  BY <1>1 DEF IsState
<1>3. IsState([owner |-> o, held |-> s.held, ready |-> s.ready])
  BY <1>1, <1>2 DEF IsState
<1> QED
  BY <1>1, <1>3

LEMMA ReleasedIsState ==
  ASSUME NEW s, IsState(s), NEW i, NEW o, o = Drop(s.owner, i)
  PROVE  /\ IsState([owner |-> o, held |-> s.held \ {i}, ready |-> s.ready \ {i}])
         /\ DOMAIN o = DOMAIN s.owner \ {i}
         /\ \A j \in DOMAIN o : o[j] = s.owner[j]
<1>1. /\ DOMAIN o = DOMAIN s.owner \ {i}
      /\ \A j \in DOMAIN o : o[j] = s.owner[j]
      /\ o = [j \in DOMAIN o |-> o[j]]
  BY DEF Drop
<1>2. IsState([owner |-> o, held |-> s.held \ {i}, ready |-> s.ready \ {i}])
  BY <1>1 DEF IsState
<1> QED
  BY <1>1, <1>2

(* Everything the controller and the units keep of samples is as it was.   *)
Samples == <<size, controller, units, clearing, written>>

LEMMA SamplesFrame ==
  ASSUME SamplesOk, UNCHANGED Samples, mode' = mode \/ mode' = "loading"
  PROVE  SamplesOk'
BY DEF SamplesOk, Samples, Units, Owned, IsState, Has

LEMMA RegisterSamples ==
  ASSUME SamplesOk, NEW k, Register(k)
  PROVE  SamplesOk'
<1>1. /\ UNCHANGED <<size, units, clearing, written>> /\ mode # "loading"
      /\ \A i \in Owned : controller.owner[i].key # k
  BY DEF Register, DataOp
<1>2. PICK i \in Indexes \ Owned :
        controller' = [controller EXCEPT !.owner = Put(@, i, [key |-> k, number |-> count + 1])]
  BY DEF Register
<1> DEFINE o == Put(controller.owner, i, [key |-> k, number |-> count + 1])
<1>3. controller' = [owner |-> o, held |-> controller.held, ready |-> controller.ready]
  BY <1>2 DEF SamplesOk, IsState
<1>4. IsState(controller') /\ DOMAIN o = Owned \cup {i} /\ \A j \in Owned : o[j] = controller.owner[j]
  <2>1. /\ IsState(controller) /\ i \in Indexes /\ i \notin DOMAIN controller.owner
        /\ \A j \in DOMAIN controller.owner : controller.owner[j].key # k
    BY <1>1 DEF SamplesOk, Owned
  <2>2. /\ IsState([owner |-> o, held |-> controller.held, ready |-> controller.ready])
        /\ DOMAIN o = DOMAIN controller.owner \cup {i}
        /\ \A j \in DOMAIN controller.owner : o[j] = controller.owner[j]
    BY <2>1, RegisteredIsState
  <2> HIDE DEF o
  <2> QED
    BY <1>3, <2>2 DEF Owned
<1> HIDE DEF o
<1>5. /\ controller'.held = controller.held /\ controller'.owner = o /\ Owned \subseteq Owned'
  BY <1>3, <1>4 DEF Owned
<1>6. \A j \in controller.held : controller'.owner[j] = controller.owner[j]
  BY <1>4, <1>5 DEF SamplesOk, IsState, Owned
<1> QED
  BY <1>1, <1>4, <1>5, <1>6 DEF SamplesOk, Has, Units

LEMMA StoreSamples ==
  ASSUME SamplesOk, size \in Nat \ {0}, NEW i \in Indexes, Store(i)
  PROVE  SamplesOk'
<1>1. /\ UNCHANGED <<size, controller, clearing>> /\ mode # "loading" /\ i \in Nat
      /\ written' = written \cup {<<controller.owner[i].number, count + 1>>}
      /\ units' = [units EXCEPT ![UnitOf(i)] = Put(@, i, count + 1)]
  BY DEF Store, DataOp, Indexes
<1>2. i % size \in Units
  BY <1>1, UnitsOwn
<1>3. /\ units' = [u \in Units |-> IF u = i % size THEN Put(units[u], i, count + 1) ELSE units[u]]
  BY <1>1, <1>2 DEF SamplesOk, UnitOf
<1>4. \A j \in Nat : At(units'[j % size], j) = IF j = i THEN count + 1 ELSE At(units[j % size], j)
  <2> SUFFICES ASSUME NEW j \in Nat
               PROVE  At(units'[j % size], j) = IF j = i THEN count + 1 ELSE At(units[j % size], j)
    OBVIOUS
  <2>1. j % size \in Units
    BY UnitsOwn
  <2>2. CASE j % size = i % size
    <3>1. units'[j % size] = Put(units[j % size], i, count + 1)
      BY <1>3, <2>1, <2>2
    <3> QED
      BY <3>1 DEF At, Put
  <2>3. CASE j % size # i % size
    <3>1. units'[j % size] = units[j % size]
      BY <1>3, <2>1, <2>3
    <3> QED
      BY <2>3, <3>1
  <2> QED
    BY <2>2, <2>3
<1>5. controller.held \subseteq Nat
  BY DEF SamplesOk, IsState, Indexes
<1>6. ASSUME Quiet = TRUE, NEW j \in controller.held \ clearing
      PROVE  Has(controller, j, At(units'[j % size], j), written')
  <2>1. CASE j = i
    <3>1. At(units'[j % size], j) = count + 1
      BY <1>1, <1>4, <2>1
    <3> QED
      BY <1>1, <2>1, <3>1 DEF Has
  <2>2. CASE j # i
    <3>1. At(units'[j % size], j) = At(units[j % size], j)
      BY <1>4, <1>5, <1>6, <2>2
    <3>2. Has(controller, j, At(units[j % size], j), written)
      BY <1>1, <1>6 DEF SamplesOk
    <3> QED
      BY <1>1, <3>1, <3>2 DEF Has
  <2> QED
    BY <2>1, <2>2
<1>7. controller' = controller /\ size' = size /\ clearing' = clearing
  BY <1>1
<1>8. IsState(controller)' /\ units' = [u \in Units' |-> units'[u]]
  BY <1>3, <1>7 DEF SamplesOk, Units, IsState
<1> QED
  BY <1>6, <1>7, <1>8 DEF SamplesOk, Has

LEMMA NotifySamples ==
  ASSUME SamplesOk, NEW i \in Indexes, Notify(i)
  PROVE  SamplesOk'
<1>1. /\ UNCHANGED <<size, units, clearing, written>> /\ i \in Owned
      /\ <<controller.owner[i].number, Stored(i)>> \in written
  BY DEF Notify, DataOp
<1>2. PICK ready :
        controller' = [owner |-> controller.owner, held |-> controller.held \cup {i}, ready |-> ready]
  BY DEF Notify, SamplesOk, IsState
<1>3. IsState(controller') /\ Owned' = Owned
  BY <1>1, <1>2 DEF SamplesOk, IsState, Owned
<1>4. Stored(i) = At(units[i % size], i)
  BY DEF Stored, At, UnitOf
<1>5. Has(controller, i, At(units[i % size], i), written)
  BY <1>1, <1>4 DEF Has
<1>6. ASSUME Quiet = TRUE, mode' # "loading", NEW j \in controller'.held \ clearing
      PROVE  Has(controller', j, At(units[j % size], j), written)
  BY <1>2, <1>5, <1>6 DEF SamplesOk, Has, Notify, DataOp
<1> QED
  BY <1>1, <1>3, <1>6 DEF SamplesOk, Units

LEMMA MarkClearingSamples ==
  ASSUME SamplesOk, NEW i \in Indexes, MarkClearing(i)
  PROVE  SamplesOk'
<1>1. /\ UNCHANGED <<size, units, written>> /\ i \in Owned /\ clearing' = clearing \cup {i}
      /\ mode # "loading"
      /\ controller' = [owner |-> controller.owner, held |-> controller.held, ready |-> controller.ready \ {i}]
  BY DEF MarkClearing, DataOp, SamplesOk, IsState
<1>2. IsState(controller') /\ Owned' = Owned
  BY <1>1 DEF SamplesOk, IsState, Owned
<1>3. ASSUME Quiet = TRUE, NEW j \in controller'.held \ clearing'
      PROVE  Has(controller', j, At(units[j % size], j), written)
  BY <1>1, <1>3 DEF SamplesOk, Has
<1> QED
  BY <1>1, <1>2, <1>3 DEF SamplesOk, Units

LEMMA RemoveSamples ==
  ASSUME SamplesOk, size \in Nat \ {0}, NEW i \in Indexes, Remove(i)
  PROVE  SamplesOk'
<1>1. /\ UNCHANGED <<size, controller, clearing, written>> /\ mode # "loading" /\ i \in Nat /\ i \in clearing
      /\ units' = [units EXCEPT ![UnitOf(i)] = Drop(@, i)]
  BY DEF Remove, DataOp, Indexes
<1>2. i % size \in Units
  BY <1>1, UnitsOwn
<1>3. units' = [u \in Units |-> IF u = i % size THEN Drop(units[u], i) ELSE units[u]]
  BY <1>1, <1>2 DEF SamplesOk, UnitOf
<1>4. \A j \in Nat : j # i => At(units'[j % size], j) = At(units[j % size], j)
  <2> SUFFICES ASSUME NEW j \in Nat, j # i
               PROVE  At(units'[j % size], j) = At(units[j % size], j)
    OBVIOUS
  <2>1. units'[j % size] = IF j % size = i % size THEN Drop(units[j % size], i) ELSE units[j % size]
    BY <1>3, UnitsOwn
  <2> QED
    BY <2>1 DEF At, Drop
<1>5. controller.held \subseteq Nat
  BY DEF SamplesOk, IsState, Indexes
<1>6. ASSUME Quiet = TRUE, NEW j \in controller.held \ clearing
      PROVE  Has(controller, j, At(units'[j % size], j), written)
  BY <1>1, <1>4, <1>5, <1>6 DEF SamplesOk, Has
<1> QED
  BY <1>1, <1>3, <1>6 DEF SamplesOk, Units, Owned, IsState, Has

LEMMA ReleaseSamples ==
  ASSUME SamplesOk, NEW i \in Indexes, Release(i)
  PROVE  SamplesOk'
<1> DEFINE o == Drop(controller.owner, i)
<1>1. /\ UNCHANGED <<size, units, written>> /\ mode # "loading" /\ clearing' = clearing \ {i}
      /\ controller' = [owner |-> o, held |-> controller.held \ {i}, ready |-> controller.ready \ {i}]
  BY DEF Release, DataOp
<1>2. /\ IsState(controller') /\ DOMAIN o = Owned \ {i} /\ \A j \in DOMAIN o : o[j] = controller.owner[j]
  BY <1>1, ReleasedIsState DEF SamplesOk, Owned
<1> HIDE DEF o
<1>3. Owned' = Owned \ {i} /\ controller'.held = controller.held \ {i} /\ controller'.owner = o
  BY <1>1, <1>2 DEF Owned
<1>4. ASSUME Quiet = TRUE, NEW j \in controller'.held \ clearing'
      PROVE  Has(controller', j, At(units[j % size], j), written)
  <2>1. j \in controller.held \ clearing /\ j \in DOMAIN o
    BY <1>1, <1>2, <1>3, <1>4 DEF SamplesOk, IsState, Owned
  <2> QED
    BY <1>1, <1>2, <1>3, <1>4, <2>1 DEF SamplesOk, Has
<1> QED
  BY <1>1, <1>2, <1>3, <1>4 DEF SamplesOk, Units

LEMMA DataSamples ==
  ASSUME SamplesOk, size \in Nat \ {0}, DataStep
  PROVE  SamplesOk'
BY RegisterSamples, StoreSamples, NotifySamples, MarkClearingSamples, RemoveSamples, ReleaseSamples DEF DataStep

-----------------------------------------------------------------------------
(* What a load restores: no data step comes in between.                    *)
LEMMA LoadBeginSamples ==
  ASSUME SamplesOk, LoadBegin
  PROVE  SamplesOk'
BY SamplesFrame DEF LoadBegin, Samples, dataVars

LEMMA ServeLoadSamples ==
  ASSUME SaveInv, SamplesOk, RequestsOk, NEW u \in Units, ServeLoad(u)
  PROVE  SamplesOk' /\ mode = "loading"
<1>1. /\ UNCHANGED <<size, controller, clearing, written, mode>> /\ Asked(u, "load")
      /\ \/ units' = units
         \/ units' = [units EXCEPT ![u] = disk.main.files[u]]
  BY DEF ServeLoad
<1>2. units' = [v \in Units |-> units'[v]]
  BY <1>1 DEF SamplesOk
<1>3. mode = "loading"
  <2>1. inbox[u] # << >> /\ IsSeq(inbox[u])
    BY <1>1 DEF Asked, SaveInv, Types, Inboxes
  <2>2. Head(inbox[u]) = inbox[u][1] /\ 1 \in 1..Len(inbox[u])
    BY <2>1, TailIsSeq
  <2> QED
    BY <1>1, <2>2 DEF Asked, RequestsOk, PendingOk, Pending
<1> QED
  BY <1>1, <1>2, <1>3 DEF SamplesOk, Units, Owned, IsState

LEMMA LoadControllerSamples ==
  ASSUME SaveInv, SamplesOk, DirsOk, CallOk, LoadOk, LoadController
  PROVE  SamplesOk'
<1>1. /\ UNCHANGED <<size, units, clearing, written>> /\ controller' = disk.main.state
      /\ caller.op = "load" /\ caller.open = {} /\ ~caller.failed
  BY DEF LoadController, AllAnswered
<1>2. /\ IsState(controller') /\ size \in Nat \ {0}
      /\ Quiet = TRUE => \A i \in controller'.held : Has(controller', i, At(disk.main.files[i % size], i), written)
  BY <1>1 DEF DirsOk, DirOk, CallOk, LoadOk, SaveInv, Types
<1>3. ASSUME Quiet = TRUE, NEW i \in controller'.held
      PROVE  Has(controller', i, At(units[i % size], i), written)
  <2>1. i \in Nat
    BY <1>2 DEF IsState, Indexes
  <2>2. i % size \in Units
    BY <1>2, <2>1, UnitsOwn
  <2>3. units[i % size] = disk.main.files[i % size]
    BY <1>1, <2>2 DEF LoadOk
  <2> QED
    BY <1>2, <1>3, <2>3
<1> QED
  BY <1>1, <1>2, <1>3 DEF SamplesOk, Units, Owned

(* New keys get indexes of their own.                                      *)
LEMMA LoadRowsBeginOwns ==
  ASSUME SamplesOk, LoadRowsBegin
  PROVE  /\ IsState(controller') /\ controller'.held = controller.held
         /\ Owned \subseteq Owned' /\ \A i \in Owned : controller'.owner[i] = controller.owner[i]
         /\ \A k \in DOMAIN dump.rows : target'[k] \in Owned' /\ controller'.owner[target'[k]].key = k
<1> DEFINE new == {k \in DOMAIN dump.rows : ~Known(k)}
<1>1. PICK at \in [new -> Indexes \ Owned], nth \in [new -> 1..Cardinality(new)] :
        /\ \A k, l \in new : k # l => at[k] # at[l] /\ nth[k] # nth[l]
        /\ count' = count + Cardinality(new)
        /\ controller' = [controller EXCEPT !.owner =
                [i \in Owned \cup {at[k] : k \in new} |->
                   IF i \in Owned THEN controller.owner[i]
                   ELSE LET k == CHOOSE x \in new : at[x] = i IN [key |-> k, number |-> count + nth[k]]]]
  BY Zenon DEF LoadRowsBegin
<1>2. target' = Target(controller'.owner)
  BY DEF LoadRowsBegin
<1>3. \A k \in new, i \in Owned : controller.owner[i].key # k
  BY DEF Known
<1>4. \A k \in DOMAIN dump.rows \ new : \E i \in Owned : controller.owner[i].key = k
  BY DEF Known
<1> HIDE DEF new
<1> DEFINE o == [i \in Owned \cup {at[k] : k \in new} |->
                   IF i \in Owned THEN controller.owner[i]
                   ELSE LET k == CHOOSE x \in new : at[x] = i IN [key |-> k, number |-> count + nth[k]]]
<1>5. controller' = [owner |-> o, held |-> controller.held, ready |-> controller.ready]
  BY <1>1 DEF SamplesOk, IsState
<1>6. /\ DOMAIN o = Owned \cup {at[k] : k \in new} /\ o = [i \in DOMAIN o |-> o[i]]
      /\ \A i \in Owned : o[i] = controller.owner[i]
  OBVIOUS
<1>7. \A k \in new : at[k] \in DOMAIN o /\ at[k] \in Indexes \ Owned /\ o[at[k]].key = k
  <2> SUFFICES ASSUME NEW k \in new
               PROVE  at[k] \in DOMAIN o /\ at[k] \in Indexes \ Owned /\ o[at[k]].key = k
    OBVIOUS
  <2>1. at[k] \in Indexes \ Owned /\ at[k] \in DOMAIN o
    BY <1>1
  <2> DEFINE l == CHOOSE x \in new : at[x] = at[k]
  <2>2. l \in new /\ at[l] = at[k]
    OBVIOUS
  <2>3. l = k
    BY <1>1, <2>2
  <2>4. o[at[k]] = [key |-> l, number |-> count + nth[l]]
    BY <2>1
  <2> HIDE DEF l, o
  <2>5. o[at[k]].key = l
    BY <2>4
  <2> QED
    BY <2>1, <2>3, <2>5
<1> HIDE DEF o
<1>8. \A i, j \in DOMAIN o : o[i].key = o[j].key => i = j
  <2> SUFFICES ASSUME NEW i \in DOMAIN o, NEW j \in DOMAIN o, o[i].key = o[j].key
               PROVE  i = j
    OBVIOUS
  <2>1. CASE i \in Owned /\ j \in Owned
    BY <1>6, <2>1 DEF SamplesOk, IsState, Owned
  <2>2. ASSUME NEW k \in new, i = at[k]
        PROVE  i = j
    BY <1>3, <1>6, <1>7, <2>2
  <2>3. ASSUME NEW k \in new, j = at[k]
        PROVE  i = j
    BY <1>3, <1>6, <1>7, <2>3
  <2> QED
    BY <1>6, <2>1, <2>2, <2>3
<1>9. IsState(controller') /\ DOMAIN o \subseteq Indexes
  <2>1. DOMAIN o \subseteq Indexes
    BY <1>6, <1>7 DEF SamplesOk, IsState, Owned
  <2>2. controller.held \subseteq DOMAIN o
    BY <1>6 DEF SamplesOk, IsState, Owned
  <2> QED
    BY <1>5, <1>6, <1>8, <2>1, <2>2 DEF IsState
<1>10. Owned' = DOMAIN o /\ controller'.owner = o /\ controller'.held = controller.held
  BY <1>5 DEF Owned
<1>11. ASSUME NEW k \in DOMAIN dump.rows
       PROVE  target'[k] \in Owned' /\ controller'.owner[target'[k]].key = k
  <2>1. \E i \in DOMAIN o : o[i].key = k
    BY <1>4, <1>6, <1>7
  <2>2. target'[k] = CHOOSE i \in DOMAIN o : o[i].key = k
    BY <1>2, <1>10 DEF Target
  <2> QED
    BY <1>10, <2>1, <2>2
<1> QED
  BY <1>6, <1>9, <1>10, <1>11

LEMMA LoadRowsBeginSamples ==
  ASSUME SamplesOk, LoadRowsBegin
  PROVE  SamplesOk'
<1>1. /\ UNCHANGED <<size, units, clearing, written>> /\ mode # "loading"
  BY DEF LoadRowsBegin
<1>2. /\ IsState(controller') /\ controller'.held = controller.held
      /\ Owned \subseteq Owned' /\ \A i \in Owned : controller'.owner[i] = controller.owner[i]
  BY LoadRowsBeginOwns
<1>3. ASSUME Quiet = TRUE, NEW i \in controller'.held \ clearing
      PROVE  Has(controller', i, At(units[i % size], i), written)
  BY <1>1, <1>2, <1>3 DEF SamplesOk, IsState, Owned, Has
<1> QED
  BY <1>1, <1>2, <1>3 DEF SamplesOk, Units

LEMMA HeadIsFirst ==
  ASSUME SaveInv, NEW u \in Units, NEW kind, Asked(u, kind)
  PROVE  Head(inbox[u]) = inbox[u][1] /\ 1 \in 1..Len(inbox[u]) /\ inbox[u][1].kind = kind
<1>1. inbox[u] # << >> /\ IsSeq(inbox[u])
  BY DEF Asked, SaveInv, Types, Inboxes
<1>2. Head(inbox[u]) = inbox[u][1] /\ 1 \in 1..Len(inbox[u])
  BY <1>1, TailIsSeq
<1> QED
  BY <1>2 DEF Asked

(* A unit stores what the shards have of some of the rows it was asked for.*)
LEMMA RowsLoaded ==
  ASSUME SaveInv, SamplesOk, RequestsOk, NEW u \in Units, ServeLoadRows(u)
  PROVE  /\ mode = "live" /\ dump.there = TRUE /\ RowsOk(inbox[u][1].rows, u)
         /\ units' = [v \in Units |-> units'[v]] /\ written \subseteq written'
         /\ \A j \in Nat :
              \/ At(units'[j % size], j) = At(units[j % size], j)
              \/ \E r \in inbox[u][1].rows :
                   /\ r.index = j /\ At(units'[j % size], j) = Dumped(r.source)
                   /\ <<r.number, Dumped(r.source)>> \in written'
         /\ \E success \in BOOLEAN :
              /\ Served(u, success)
              /\ success => \A r \in inbox[u][1].rows :
                   /\ At(units'[r.index % size], r.index) = Dumped(r.source)
                   /\ <<r.number, Dumped(r.source)>> \in written'
<1>1. Head(inbox[u]) = inbox[u][1] /\ 1 \in 1..Len(inbox[u]) /\ inbox[u][1].kind = "load_rows"
  BY HeadIsFirst DEF ServeLoadRows
<1> DEFINE rows == inbox[u][1].rows
<1>2. mode = "live" /\ dump.there = TRUE /\ RowsOk(rows, u)
  BY <1>1 DEF RequestsOk, PendingOk, Pending
<1>3. PICK some \in SUBSET rows :
           /\ units' = [units EXCEPT ![u] =
                [i \in DOMAIN @ \cup {r.index : r \in some} |->
                   IF \E r \in some : r.index = i
                   THEN Dumped((CHOOSE r \in some : r.index = i).source) ELSE @[i]]]
           /\ written' = written \cup {<<r.number, Dumped(r.source)>> : r \in some}
           /\ Served(u, some = rows)
  BY <1>1, Zenon DEF ServeLoadRows
<1>4. \A r, s \in rows : r.index = s.index => r.source = s.source
  BY <1>2 DEF RowsOk
<1>5. \A r \in rows : r.index % size = u
  BY <1>2 DEF RowsOk
<1> HIDE DEF rows
<1> DEFINE new == [i \in DOMAIN units[u] \cup {r.index : r \in some} |->
                     IF \E r \in some : r.index = i
                     THEN Dumped((CHOOSE r \in some : r.index = i).source) ELSE units[u][i]]
<1>6. units' = [v \in Units |-> IF v = u THEN new ELSE units[v]]
  BY <1>3 DEF SamplesOk
<1>7. ASSUME NEW i, NEW r \in some, r.index = i
      PROVE  At(new, i) = Dumped(r.source)
  <2> DEFINE s == CHOOSE x \in some : x.index = i
  <2>1. s \in some /\ s.index = i
    BY <1>7
  <2>2. s.source = r.source
    BY <1>3, <1>4, <1>7, <2>1
  <2>3. i \in DOMAIN new /\ new[i] = Dumped(s.source)
    BY <1>7
  <2> QED
    BY <2>2, <2>3 DEF At
<1>8. ASSUME NEW i, \A r \in some : r.index # i
      PROVE  At(new, i) = At(units[u], i)
  BY <1>8 DEF At
<1> HIDE DEF new
<1>9. units' = [v \in Units |-> units'[v]] /\ written \subseteq written' /\ units'[u] = new
  BY <1>3, <1>6
<1>10. ASSUME NEW j \in Nat
       PROVE  \/ At(units'[j % size], j) = At(units[j % size], j)
              \/ \E r \in rows :
                   /\ r.index = j /\ At(units'[j % size], j) = Dumped(r.source)
                   /\ <<r.number, Dumped(r.source)>> \in written'
  <2>1. CASE j % size # u
    <3>1. j % size \in Units
      BY UnitsOwn DEF SaveInv, Types
    <3>2. units'[j % size] = units[j % size]
      BY <1>6, <2>1, <3>1
    <3> QED
      BY <3>2
  <2>2. CASE j % size = u /\ \A r \in some : r.index # j
    BY <1>8, <1>9, <2>2
  <2>3. ASSUME j % size = u, NEW r \in some, r.index = j
        PROVE  /\ At(units'[j % size], j) = Dumped(r.source)
               /\ <<r.number, Dumped(r.source)>> \in written'
    BY <1>3, <1>7, <1>9, <2>3
  <2> QED
    BY <1>3, <2>1, <2>2, <2>3
<1>11. ASSUME some = rows, NEW r \in rows
       PROVE  /\ At(units'[r.index % size], r.index) = Dumped(r.source)
              /\ <<r.number, Dumped(r.source)>> \in written'
  BY <1>3, <1>5, <1>7, <1>9, <1>11
<1>12. (some = rows) \in BOOLEAN
  OBVIOUS
<1> QED
  BY <1>2, <1>3, <1>9, <1>10, <1>11, <1>12 DEF rows

LEMMA ServeLoadRowsSamples ==
  ASSUME SaveInv, SamplesOk, RequestsOk, NEW u \in Units, ServeLoadRows(u)
  PROVE  SamplesOk'
<1>1. /\ UNCHANGED <<size, controller, clearing, mode>>
  BY DEF ServeLoadRows
<1>2. /\ mode = "live" /\ RowsOk(inbox[u][1].rows, u)
      /\ units' = [v \in Units |-> units'[v]] /\ written \subseteq written'
      /\ \A j \in Nat :
              \/ At(units'[j % size], j) = At(units[j % size], j)
              \/ \E r \in inbox[u][1].rows :
                   /\ r.index = j /\ At(units'[j % size], j) = Dumped(r.source)
                   /\ <<r.number, Dumped(r.source)>> \in written'
  BY RowsLoaded
<1>3. ASSUME Quiet = TRUE, NEW i \in controller.held \ clearing
      PROVE  Has(controller, i, At(units'[i % size], i), written')
  <2>1. i \in Nat /\ Has(controller, i, At(units[i % size], i), written)
    BY <1>2, <1>3 DEF SamplesOk, IsState, Indexes
  <2>2. ASSUME NEW r \in inbox[u][1].rows, r.index = i
        PROVE  controller.owner[i].number = r.number
    BY <1>2, <2>2 DEF RowsOk
  <2> QED
    BY <1>2, <2>1, <2>2 DEF Has
<1> QED
  BY <1>1, <1>2, <1>3 DEF SamplesOk, Units, Owned, IsState

(* The rows that became held are stored.                                   *)
LEMMA NotifyRowsChanges ==
  ASSUME SamplesOk, NotifyRows
  PROVE  /\ UNCHANGED <<size, units, clearing, written, mode>>
         /\ caller.op = "load_rows" /\ caller.pc = "units" /\ caller.open = {} /\ ~caller.failed
         /\ \E heard \in SUBSET Produced(dump.rows) :
              /\ lost' = (heard # Produced(dump.rows))
              /\ controller' =
                   [owner |-> controller.owner,
                    held |-> controller.held \cup {target[k] : k \in heard},
                    ready |-> (controller.ready \ {target[k] : k \in heard})
                                \cup {target[k] : k \in Ready(dump.rows) \cap heard}]
<1>1. /\ UNCHANGED <<size, units, clearing, written, mode>>
      /\ caller.op = "load_rows" /\ caller.pc = "units" /\ caller.open = {} /\ ~caller.failed
  BY DEF NotifyRows, AllAnswered
<1>2. PICK heard \in SUBSET Produced(dump.rows) :
        /\ controller' = [controller EXCEPT
             !.held = @ \cup {target[k] : k \in Produced(dump.rows) \cap heard},
             !.ready = (@ \ {target[k] : k \in Produced(dump.rows) \cap heard})
                         \cup {target[k] : k \in Ready(dump.rows) \cap heard}]
        /\ lost' = (heard # Produced(dump.rows))
  BY Zenon DEF NotifyRows
<1>3. Produced(dump.rows) \cap heard = heard
  BY <1>2
<1> QED
  BY <1>1, <1>2, <1>3 DEF SamplesOk, IsState

LEMMA NotifyRowsSamples ==
  ASSUME SamplesOk, LoadingOk, NotifyRows
  PROVE  SamplesOk'
<1>1. /\ UNCHANGED <<size, units, clearing, written, mode>>
      /\ caller.op = "load_rows" /\ caller.pc = "units" /\ caller.open = {} /\ ~caller.failed
  BY NotifyRowsChanges
<1>2. PICK heard \in SUBSET Produced(dump.rows) : \E ready :
        controller' = [owner |-> controller.owner, held |-> controller.held \cup {target[k] : k \in heard},
                       ready |-> ready]
  BY NotifyRowsChanges
<1>3. /\ \A k \in heard : target[k] \in Owned
      /\ \A k \in heard : Has(controller, target[k], At(units[target[k] % size], target[k]), written)
  BY <1>1, <1>2 DEF LoadingOk, TargetsStay, RowsRestored, Answered, Restored, Produced
<1>4. IsState(controller') /\ Owned' = Owned
  BY <1>2, <1>3 DEF SamplesOk, IsState, Owned
<1>5. ASSUME Quiet = TRUE, mode # "loading", NEW i \in controller'.held \ clearing
      PROVE  Has(controller', i, At(units[i % size], i), written)
  BY <1>2, <1>3, <1>5 DEF SamplesOk, Has
<1> QED
  BY <1>1, <1>4, <1>5 DEF SamplesOk, Units

LEMMA EmptyIsState == IsState(NoSamples) /\ DOMAIN NoSamples.owner = {} /\ NoSamples.held = {}
<1>1. DOMAIN << >> = {} /\ << >> = [i \in {} |-> << >>[i]]
  OBVIOUS
<1> QED
  BY <1>1 DEF IsState, NoSamples

LEMMA RestartSamples ==
  ASSUME Restart
  PROVE  SamplesOk'
<1>1. /\ controller' = NoSamples /\ clearing' = {} /\ units' = [u \in Units' |-> << >>]
  BY DEF Restart, Start, Units
<1> QED
  BY <1>1, EmptyIsState DEF SamplesOk

-----------------------------------------------------------------------------
(* The values written for a sample stay written.                           *)
LEMMA WrittenStays ==
  ASSUME SaveInv, SamplesOk, RequestsOk, [PNext]_allVars
  PROVE  written \subseteq written'
<1>1. CASE CheckpointStep
  BY <1>1 DEF CheckpointStep, SaveBegin, SaveController, SaveManifests, MoveAside, Install, Tidy, SaveFails,
     SaveRestores, LoadBegin, LoadController, Stop, ServeSave, ServeLoad, UnitTimeout, dataVars
<1>2. CASE PausedDataStep
  BY <1>2 DEF PausedDataStep, Register, Store, Notify, MarkClearing, Remove, Release
<1>3. CASE DumpStep
  <2>1. ASSUME NEW u \in Units, ServeLoadRows(u)
        PROVE  written \subseteq written'
    BY <2>1, RowsLoaded
  <2> QED
    BY <1>3, <2>1 DEF DumpStep, DumpBegin, ServeDump, SyncShards, WriteManifests, SyncStaging, Publishing,
       Publish, DumpEnds, LoadRowsBegin, NotifyRows, dataVars
<1>4. CASE LosePower
  BY <1>4 DEF LosePower, Restart
<1>5. CASE UNCHANGED allVars
  BY <1>5 DEF allVars, vars, dataVars
<1> QED
  BY <1>1, <1>2, <1>3, <1>4, <1>5 DEF PNext

LEMMA DirStays ==
  ASSUME NEW d, NEW w, NEW v, w \subseteq v, DirOk(d, w)
  PROVE  DirOk(d, v)
BY DEF DirOk, Has

LEMMA NoMetaIsOk ==
  ASSUME NEW w
  PROVE  DirOk(NoDir, w) /\ \A d : IsDir(d) => DirOk(LessOf(d), w)
<1>1. DirOk(NoDir, w)
  BY DEF DirOk, NoDir
<1>2. ASSUME NEW d, IsDir(d)
      PROVE  DirOk(LessOf(d), w)
  <2>1. CASE d.meta
    <3>1. LessOf(d) = [number |-> d.number, state |-> d.state, saved |-> d.saved, files |-> d.files,
                       manifest |-> d.manifest, meta |-> FALSE]
      BY <1>2, <2>1 DEF LessOf, IsDir
    <3> QED
      BY <3>1 DEF DirOk
  <2>2. CASE ~d.meta
    BY <1>1, <2>2 DEF LessOf
  <2> QED
    BY <2>1, <2>2
<1> QED
  BY <1>1, <1>2

LEMMA InstallDirs ==
  ASSUME SaveInv, SaveOk, DirsOk, Install
  PROVE  DirOk(disk'.main, written) /\ DirOk(disk'.old, written)
<1>1. disk'.main = disk.tmp /\ disk'.old = disk.old
  BY DEF Install, SaveInv, Types
<1>2. /\ Saving(Staging \ {"begun"}) /\ disk.tmp.manifest = size /\ DOMAIN disk.tmp.files = Units
      /\ size \in Nat \ {0}
  BY DEF Install, Saving, Staging, SaveInv, StagedSoFar, Types
<1>3. /\ IsState(disk.tmp.state)
      /\ Quiet = TRUE => SavedAsStored
  BY <1>2 DEF SaveOk
<1>4. ASSUME Quiet = TRUE, NEW i \in disk.tmp.state.held
      PROVE  Has(disk.tmp.state, i, At(disk.tmp.files[i % disk.tmp.manifest], i), written)
  <2>1. i \in Nat
    BY <1>3 DEF IsState, Indexes
  <2>2. i % size \in Units /\ SavedAsStored
    BY <1>2, <1>3, <1>4, <2>1, UnitsOwn
  <2> QED
    BY <1>2, <1>4, <2>2 DEF SavedAsStored
<1> QED
  BY <1>1, <1>3, <1>4 DEF DirsOk, DirOk

LEMMA RolledBackDirs ==
  ASSUME SaveInv, DirsOk, disk' = RolledBack
  PROVE  DirOk(disk'.main, written) /\ DirOk(disk'.old, written)
<1>1. disk = [main |-> disk.main, tmp |-> disk.tmp, old |-> disk.old]
  BY DEF SaveInv, Types
<1>2. \/ disk' = disk
      \/ disk' = [main |-> disk.old, tmp |-> disk.tmp, old |-> NoDir]
  BY <1>1 DEF RolledBack
<1> QED
  BY <1>2, NoMetaIsOk DEF DirsOk

LEMMA DirsKept ==
  ASSUME SaveInv, SamplesOk, DirsOk, SaveOk, RequestsOk, [PNext]_allVars
  PROVE  DirsOk'
<1>1. written \subseteq written'
  BY WrittenStays
<1>2. /\ disk = [main |-> disk.main, tmp |-> disk.tmp, old |-> disk.old]
      /\ IsDir(disk.main) /\ IsDir(disk.old)
  BY DEF SaveInv, Types
<1>3. SUFFICES DirOk(disk'.main, written) /\ DirOk(disk'.old, written)
  BY <1>1, DirStays DEF DirsOk
<1>4. CASE disk'.main = disk.main /\ disk'.old = disk.old
  BY <1>4 DEF DirsOk
<1>5. CASE CheckpointStep
  <2>1. CASE SaveBegin \/ SaveController \/ SaveManifests \/ SaveFails
    BY <1>2, <1>4, <2>1 DEF SaveBegin, SaveController, SaveManifests, SaveFails
  <2>2. CASE MoveAside
    <3>1. disk' = Aside
      BY <2>2 DEF MoveAside
    <3>2. \/ disk' = disk
          \/ disk' = [main |-> disk.main, tmp |-> disk.tmp, old |-> LessOf(disk.old)]
          \/ disk' = [main |-> NoDir, tmp |-> disk.tmp, old |-> disk.main]
      BY <1>2, <3>1 DEF Aside
    <3> QED
      BY <1>2, <3>2, NoMetaIsOk DEF DirsOk
  <2>3. CASE Install
    BY <2>3, InstallDirs
  <2>4. CASE Tidy
    <3>1. disk' = [main |-> disk.main, tmp |-> disk.tmp, old |-> LessOf(disk.old)]
      BY <1>2, <2>4 DEF Tidy
    <3> QED
      BY <1>2, <3>1, NoMetaIsOk DEF DirsOk
  <2>5. CASE SaveRestores \/ LoadBegin
    BY <2>5, RolledBackDirs DEF SaveRestores, LoadBegin
  <2>6. CASE LoadController \/ Stop
    BY <1>4, <2>6 DEF LoadController, Stop
  <2>7. ASSUME NEW u \in Units, ServeSave(u) \/ ServeLoad(u) \/ UnitTimeout(u)
        PROVE  disk'.main = disk.main /\ disk'.old = disk.old
    BY <1>2, <2>7 DEF ServeSave, ServeLoad, UnitTimeout
  <2> QED
    BY <1>4, <1>5, <2>1, <2>2, <2>3, <2>4, <2>5, <2>6, <2>7 DEF CheckpointStep
<1>6. CASE PausedDataStep \/ DumpStep \/ LosePower \/ UNCHANGED allVars
  <2>1. disk' = disk
    BY <1>6, DataLeavesCalls, DumpStepPreserves DEF PausedDataStep, DataStep, allVars, vars, LosePower, Restart
  <2> QED
    BY <1>4, <2>1
<1> QED
  BY <1>5, <1>6 DEF PNext

-----------------------------------------------------------------------------
LEMMA ServedKeepsOp ==
  ASSUME SaveInv, CallOk, NEW u \in Units, NEW kind, Asked(u, kind), NEW success \in BOOLEAN,
         Served(u, success), size' = size, calls' = calls
  PROVE  /\ caller'.op = caller.op /\ caller'.pc = caller.pc
         /\ caller.op = "none" => caller' = Idle
<1>1. caller'.op = caller.op /\ caller'.pc = caller.pc
  BY ServedKeepsTheCall
<1>2. ASSUME caller.op = "none"
      PROVE  caller' = Idle
  <2>1. caller = Idle /\ caller.open = {}
    BY <1>2 DEF CallOk, Idle
  <2> QED
    BY <2>1 DEF Served
<1> QED
  BY <1>1, <1>2

(* A call that begins finds nothing being cleared.                         *)
LEMMA CallFindsNoClearing ==
  ASSUME CallCheckpoint \/ CallDump
  PROVE  caller = Idle /\ (Quiet = TRUE => clearing = {})
BY DEF CallCheckpoint, CallDump, MayCall

LEMMA CallKept ==
  ASSUME SaveInv, CallOk, [PNext]_allVars
  PROVE  CallOk'
<1>1. CASE SaveBegin \/ (\E keys \in SUBSET Keys : DumpBegin(keys)) \/ LoadRowsBegin
  <2>1. /\ mode # "loading" /\ clearing' = clearing /\ mode' \in {mode, "live"}
        /\ CallCheckpoint \/ CallDump
    BY <1>1 DEF SaveBegin, DumpBegin, LoadRowsBegin, dataVars
  <2>2. \E op \in Working : \E pc, open : caller' = Call(op, pc, open)
    BY <1>1, Zenon DEF SaveBegin, DumpBegin, LoadRowsBegin, Working
  <2>3. caller'.op \in Working
    BY <2>2 DEF Call
  <2> QED
    BY <2>1, <2>3, CallFindsNoClearing DEF CallOk, Working
<1>2. CASE LoadBegin
  <2>1. clearing' = clearing /\ CallCheckpoint
    BY <1>2 DEF LoadBegin, dataVars
  <2>2. caller' = Call("load", "units", Units) \/ caller' = caller
    BY <1>2, Zenon DEF LoadBegin
  <2>3. caller'.op = "load" \/ caller' = Idle
    BY <2>1, <2>2, CallFindsNoClearing DEF Call
  <2>4. Quiet = TRUE => clearing' = {}
    BY <2>1, CallFindsNoClearing
  <2> QED
    BY <2>3, <2>4 DEF CallOk, Idle, Working
<1>3. CASE SaveController \/ SaveManifests \/ MoveAside \/ Install \/ Tidy \/ SaveFails
  <2>1. UNCHANGED <<clearing, mode>> /\ caller.op = "save"
    BY <1>3 DEF SaveController, SaveManifests, MoveAside, Install, Tidy, SaveFails, AllAnswered, dataVars
  <2>2. caller' = caller \/ caller' = Idle \/ \E pc, open : caller' = Call("save", pc, open)
    BY <1>3, Zenon DEF SaveController, SaveManifests, MoveAside, Install, Tidy, SaveFails, Return
  <2>3. caller'.op = "save" \/ caller' = Idle
    BY <2>1, <2>2 DEF Call
  <2> QED
    BY <2>1, <2>3 DEF CallOk, Idle, Working
<1>4. CASE SaveRestores \/ LoadController \/ Stop \/ LosePower \/ DumpEnds
  <2>1. caller' = Idle
    BY <1>4 DEF SaveRestores, LoadController, Stop, LosePower, Restart, DumpEnds, Return
  <2> QED
    BY <2>1 DEF CallOk, Idle, Working
<1>5. CASE SyncShards \/ WriteManifests \/ SyncStaging \/ Publish
  <2>1. UNCHANGED <<clearing, mode>> /\ caller.op = "dump"
    BY <1>5 DEF SyncShards, WriteManifests, SyncStaging, Publishing, Publish, dataVars
  <2>2. \E pc : caller' = Call("dump", pc, {})
    BY <1>5, Zenon DEF SyncShards, WriteManifests, SyncStaging, Publishing, Publish
  <2> QED
    BY <2>1, <2>2 DEF CallOk, Call, Working
<1>6. CASE NotifyRows
  BY <1>6 DEF NotifyRows, AllAnswered, CallOk, Call, Working
<1>7. ASSUME NEW u \in Units, NEW kind, Asked(u, kind), NEW success \in BOOLEAN, Served(u, success),
             UNCHANGED <<size, calls, clearing, mode>>
      PROVE  CallOk'
  BY <1>7, ServedKeepsOp DEF CallOk
<1>8. ASSUME NEW u \in Units, ServeSave(u) \/ ServeLoad(u) \/ ServeDump(u)
      PROVE  CallOk'
  <2>1. /\ UNCHANGED <<size, calls, clearing, mode>>
        /\ \E kind : Asked(u, kind) /\ \E success \in BOOLEAN : Served(u, success)
    BY <1>8 DEF ServeSave, ServeLoad, ServeDump, dataVars
  <2> QED
    BY <1>7, <2>1
<1>9. ASSUME NEW u \in Units, ServeLoadRows(u)
      PROVE  CallOk'
  <2>1. /\ UNCHANGED <<size, calls, clearing, mode>> /\ Asked(u, "load_rows")
        /\ \E some : Served(u, some = Head(inbox[u]).rows)
    BY <1>9, Zenon DEF ServeLoadRows
  <2>2. \A some : (some = Head(inbox[u]).rows) \in BOOLEAN
    OBVIOUS
  <2>3. PICK success \in BOOLEAN : Served(u, success)
    BY <2>1, <2>2
  <2> QED
    BY <1>7, <2>1, <2>3
<1>10. ASSUME NEW u \in Units, UnitTimeout(u)
       PROVE  CallOk'
  <2>1. UNCHANGED <<clearing, mode>> /\ caller'.op = caller.op /\ u \in caller.open
    BY <1>10 DEF UnitTimeout, dataVars, SaveInv, Types, IsCall
  <2>2. caller.op # "none"
    BY <2>1 DEF CallOk, Idle
  <2> QED
    BY <2>1, <2>2 DEF CallOk
<1>11. CASE PausedDataStep
  <2>1. UNCHANGED caller /\ mode' = "live" /\ (Quiet = TRUE => clearing' \subseteq clearing \/ caller = Idle)
    BY <1>11 DEF PausedDataStep, DataOp, Register, Store, Notify, MarkClearing, Remove, Release
  <2>2. Idle.op = "none"
    BY DEF Idle
  <2> QED
    BY <2>1, <2>2 DEF CallOk
<1>12. CASE UNCHANGED allVars
  BY <1>12 DEF allVars, vars, dataVars, CallOk
<1> QED
  BY <1>1, <1>2, <1>3, <1>4, <1>5, <1>6, <1>8, <1>9, <1>10, <1>11, <1>12
     DEF PNext, CheckpointStep, DumpStep

-----------------------------------------------------------------------------
(* Inboxes: a request that is served was the first, those asked come last. *)
LEMMA ServedShifts ==
  ASSUME SaveInv, NEW u \in Units, NEW kind, Asked(u, kind), NEW success, Served(u, success)
  PROVE  /\ inbox[u] # << >> /\ inbox[u][1].kind = kind /\ Len(inbox[u]) \in Nat \ {0}
         /\ \A v \in Units \ {u} : inbox'[v] = inbox[v]
         /\ Len(inbox'[u]) = Len(inbox[u]) - 1
         /\ \A i \in 1..Len(inbox'[u]) : i + 1 \in 1..Len(inbox[u]) /\ inbox'[u][i] = inbox[u][i + 1]
         /\ Len(inbox[u]) = 1 => inbox'[u] = << >>
<1>1. inbox[u] # << >> /\ inbox[u][1].kind = kind
  BY HeadIsFirst DEF Asked
<1> DEFINE s == inbox[u]
<1>2. inbox = [v \in Units |-> inbox[v]] /\ IsSeq(s)
  BY DEF SaveInv, Types, Inboxes
<1>3. inbox' = [v \in Units |-> IF v = u THEN Tail(s) ELSE inbox[v]]
  BY <1>2 DEF Served
<1>4. inbox'[u] = Tail(s) /\ \A v \in Units \ {u} : inbox'[v] = inbox[v]
  BY <1>3
<1>5. s \in Seq({s[i] : i \in DOMAIN s}) /\ s # << >>
  BY <1>1, <1>2 DEF IsSeq
<1> HIDE DEF s
<1>6. /\ Len(s) \in Nat \ {0} /\ Len(Tail(s)) = Len(s) - 1
      /\ \A i \in 1..Len(Tail(s)) : Tail(s)[i] = s[i + 1]
      /\ \A i \in 1..Len(Tail(s)) : i + 1 \in 1..Len(s)
      /\ Tail(s) \in Seq({s[i] : i \in DOMAIN s})
  <2> DEFINE T == {s[i] : i \in DOMAIN s}
  <2>1. s \in Seq(T)
    BY <1>5
  <2> HIDE DEF T
  <2>2. Len(s) \in Nat \ {0} /\ Len(Tail(s)) = Len(s) - 1 /\ Tail(s) \in Seq(T)
    BY <1>5, <2>1
  <2>3. \A i \in 1..Len(Tail(s)) : Tail(s)[i] = s[i + 1]
    BY <1>5, <2>1
  <2>4. \A i \in 1..Len(Tail(s)) : i + 1 \in 1..Len(s)
    BY <2>2
  <2> QED
    BY <2>2, <2>3, <2>4 DEF T
<1>7. Len(s) = 1 => Tail(s) = << >>
  <2> DEFINE T == {s[i] : i \in DOMAIN s}
  <2>1. Tail(s) \in Seq(T)
    BY <1>6
  <2> HIDE DEF T
  <2>2. Len(s) = 1 => Len(Tail(s)) = 0
    BY <1>6
  <2>3. ASSUME NEW t \in Seq(T), Len(t) = 0
        PROVE  t = << >>
    BY <2>3
  <2> QED
    BY <2>1, <2>2, <2>3
<1> QED
  BY <1>1, <1>4, <1>6, <1>7 DEF s

LEMMA ServedHeard ==
  ASSUME SaveInv, NEW u \in Units, NEW kind, Asked(u, kind), NEW success, Served(u, success)
  PROVE  \/ caller' = caller
         \/ /\ inbox[u][1].call = Number(calls) /\ u \in caller.open
            /\ caller' = [op |-> caller.op, pc |-> caller.pc, open |-> caller.open \ {u},
                          failed |-> caller.failed \/ ~success]
<1>1. Head(inbox[u]) = inbox[u][1]
  BY HeadIsFirst
<1>2. caller = [op |-> caller.op, pc |-> caller.pc, open |-> caller.open, failed |-> caller.failed]
  BY DEF SaveInv, Types, IsCall
<1>3. CASE Head(inbox[u]).call = Number(calls) /\ u \in caller.open
  <2>1. caller' = [caller EXCEPT !.open = @ \ {u}, !.failed = @ \/ ~success]
    BY <1>3 DEF Served
  <2>2. caller' = [op |-> caller.op, pc |-> caller.pc, open |-> caller.open \ {u},
                   failed |-> caller.failed \/ ~success]
    BY <1>2, <2>1
  <2> QED
    BY <1>1, <1>3, <2>2
<1>4. CASE ~(Head(inbox[u]).call = Number(calls) /\ u \in caller.open)
  BY <1>4 DEF Served
<1> QED
  BY <1>3, <1>4

LEMMA AskedAppends ==
  ASSUME SaveInv, NEW kind, NEW rows, NEW n, Ask(kind, rows, n)
  PROVE  \A u \in Units :
           \/ u \notin DOMAIN rows /\ inbox'[u] = inbox[u]
           \/ /\ u \in DOMAIN rows /\ Len(inbox[u]) \in Nat /\ Len(inbox'[u]) = Len(inbox[u]) + 1
              /\ inbox'[u][Len(inbox[u]) + 1] = [kind |-> kind, call |-> n, rows |-> rows[u]]
              /\ \A i \in 1..Len(inbox[u]) : inbox'[u][i] = inbox[u][i]
<1> SUFFICES ASSUME NEW u \in Units
             PROVE  \/ u \notin DOMAIN rows /\ inbox'[u] = inbox[u]
                    \/ /\ u \in DOMAIN rows /\ Len(inbox[u]) \in Nat /\ Len(inbox'[u]) = Len(inbox[u]) + 1
                       /\ inbox'[u][Len(inbox[u]) + 1] = [kind |-> kind, call |-> n, rows |-> rows[u]]
                       /\ \A i \in 1..Len(inbox[u]) : inbox'[u][i] = inbox[u][i]
  OBVIOUS
<1> DEFINE request == [kind |-> kind, call |-> n, rows |-> rows[u]]
           s == inbox[u]
<1>1. inbox'[u] = IF u \in DOMAIN rows THEN Append(s, request) ELSE s
  BY DEF Ask
<1>2. s \in Seq({s[i] : i \in DOMAIN s})
  BY DEF SaveInv, Types, Inboxes, IsSeq
<1> HIDE DEF request, s
<1>3. /\ Len(s) \in Nat /\ Len(Append(s, request)) = Len(s) + 1
      /\ Append(s, request)[Len(s) + 1] = request
      /\ \A i \in 1..Len(s) : Append(s, request)[i] = s[i]
  <2> DEFINE T == {s[i] : i \in DOMAIN s} \cup {request}
  <2>1. s \in Seq(T) /\ request \in T
    <3>1. Len(s) \in Nat /\ DOMAIN s = 1..Len(s) /\ s \in [1..Len(s) -> T]
      BY <1>2
    <3> QED
      BY <3>1
  <2> HIDE DEF T
  <2> QED
    BY <2>1
<1> QED
  BY <1>1, <1>3 DEF s, request

LEMMA OrderFrame ==
  ASSUME OrderOk, UNCHANGED <<size, calls, inbox>>, caller'.op \in {"none", caller.op},
         Saving({"begun"})' => Saving({"begun"})
  PROVE  OrderOk'
BY DEF OrderOk, Units

LEMMA OrderServed ==
  ASSUME SaveInv, OrderOk, UNCHANGED <<size, calls>>, NEW u \in Units, NEW kind, Asked(u, kind),
         NEW success \in BOOLEAN, Served(u, success)
  PROVE  OrderOk'
<1>1. /\ Len(inbox[u]) \in Nat \ {0}
      /\ \A v \in Units \ {u} : inbox'[v] = inbox[v]
      /\ Len(inbox'[u]) = Len(inbox[u]) - 1
      /\ \A i \in 1..Len(inbox'[u]) : i + 1 \in 1..Len(inbox[u]) /\ inbox'[u][i] = inbox[u][i + 1]
  BY ServedShifts
<1>2. caller'.op = caller.op /\ caller'.pc = caller.pc
  BY ServedKeepsTheCall
<1>3. ASSUME NEW v \in Units, NEW n \in 1..Len(inbox'[v])
      PROVE  /\ \A m \in 1..Len(inbox'[v]) : n < m => inbox'[v][n].call < inbox'[v][m].call
             /\ caller.op # "none" /\ inbox'[v][n].call = Number(calls) => inbox'[v][n].kind = caller.op
             /\ Saving({"begun"}) => inbox'[v][n].call # Number(calls)
  <2>1. CASE v # u
    <3>1. inbox'[v] = inbox[v]
      BY <1>1, <2>1
    <3> QED
      BY <1>3, <3>1 DEF OrderOk
  <2>2. CASE v = u
    <3>1. n \in 1..Len(inbox'[u])
      BY <1>3, <2>2
    <3>2. n + 1 \in 1..Len(inbox[u]) /\ inbox'[u][n] = inbox[u][n + 1]
      BY <1>1, <3>1
    <3>3. ASSUME NEW m \in 1..Len(inbox'[u]), n < m
          PROVE  inbox'[u][n].call < inbox'[u][m].call
      <4>1. m + 1 \in 1..Len(inbox[u]) /\ inbox'[u][m] = inbox[u][m + 1] /\ n + 1 < m + 1
        BY <1>1, <3>1, <3>3
      <4> QED
        BY <3>2, <4>1 DEF OrderOk
    <3> QED
      BY <2>2, <3>2, <3>3 DEF OrderOk
  <2> QED
    BY <2>1, <2>2
<1> QED
  BY <1>2, <1>3 DEF OrderOk, Units, Saving

LEMMA OrderAsked ==
  ASSUME SaveInv, OrderOk, size' = size, NEW n \in Nat,
         \A u \in Units : \A i \in 1..Len(inbox[u]) : inbox[u][i].call < n,
         NEW kind, inbox' = inbox \/ \E rows : Ask(kind, rows, n),
         Number(calls') = n, caller'.op \in {"none", kind}, Saving({"begun"})' => inbox' = inbox
  PROVE  OrderOk'
<1>1. CASE inbox' = inbox
  <2>1. ASSUME NEW u \in Units, NEW i \in 1..Len(inbox[u])
        PROVE  inbox[u][i].call # n
    <3>1. inbox[u][i].call \in Nat /\ inbox[u][i].call < n
      BY DEF SaveInv, Types, Inboxes
    <3> QED
      BY <3>1
  <2> QED
    BY <1>1, <2>1 DEF OrderOk, Units
<1>2. ASSUME NEW rows, Ask(kind, rows, n), inbox' # inbox
      PROVE  OrderOk'
  <2>1. \A u \in Units :
           \/ inbox'[u] = inbox[u]
           \/ /\ Len(inbox[u]) \in Nat /\ Len(inbox'[u]) = Len(inbox[u]) + 1
              /\ inbox'[u][Len(inbox[u]) + 1] = [kind |-> kind, call |-> n, rows |-> rows[u]]
              /\ \A i \in 1..Len(inbox[u]) : inbox'[u][i] = inbox[u][i]
    BY <1>2, AskedAppends
  <2>2. ~Saving({"begun"})'
    BY <1>2
  <2>3. ASSUME NEW u \in Units, NEW i \in 1..Len(inbox[u])
        PROVE  inbox[u][i].call \in Nat /\ inbox[u][i].call < n
    BY DEF SaveInv, Types, Inboxes
  <2>4. ASSUME NEW u \in Units, NEW i \in 1..Len(inbox'[u])
        PROVE  /\ \A m \in 1..Len(inbox'[u]) : i < m => inbox'[u][i].call < inbox'[u][m].call
               /\ inbox'[u][i].call = n => inbox'[u][i].kind = kind
    <3>1. CASE inbox'[u] = inbox[u]
      BY <2>3, <2>4, <3>1 DEF OrderOk
    <3>2. CASE /\ Len(inbox[u]) \in Nat /\ Len(inbox'[u]) = Len(inbox[u]) + 1
               /\ inbox'[u][Len(inbox[u]) + 1] = [kind |-> kind, call |-> n, rows |-> rows[u]]
               /\ \A j \in 1..Len(inbox[u]) : inbox'[u][j] = inbox[u][j]
      <4>1. CASE i \in 1..Len(inbox[u])
        <5>1. inbox'[u][i] = inbox[u][i] /\ inbox[u][i].call \in Nat /\ inbox[u][i].call < n
          BY <2>3, <3>2, <4>1
        <5>2. ASSUME NEW m \in 1..Len(inbox'[u]), i < m
              PROVE  inbox'[u][i].call < inbox'[u][m].call
          <6>1. CASE m \in 1..Len(inbox[u])
            BY <3>2, <4>1, <5>1, <5>2, <6>1 DEF OrderOk
          <6>2. CASE m = Len(inbox[u]) + 1
            BY <3>2, <5>1, <6>2
          <6> QED
            BY <3>2, <6>1, <6>2
        <5>3. inbox'[u][i].call # n
          BY <5>1
        <5> QED
          BY <5>2, <5>3
      <4>2. CASE i = Len(inbox[u]) + 1
        <5>1. \A m \in 1..Len(inbox'[u]) : ~(i < m)
          BY <3>2, <4>2
        <5> QED
          BY <3>2, <4>2, <5>1
      <4> QED
        BY <2>4, <3>2, <4>1, <4>2
    <3> QED
      BY <2>1, <3>1, <3>2
  <2> QED
    BY <2>2, <2>4 DEF OrderOk, Units
<1> QED
  BY <1>1, <1>2

(* All requests are of earlier calls than the one that begins.             *)
LEMMA CallsAreNew ==
  ASSUME SaveInv, CallCheckpoint \/ CallDump
  PROVE  /\ Number(calls') \in Nat
         /\ \A u \in Units : \A i \in 1..Len(inbox[u]) : inbox[u][i].call < Number(calls')
<1>1. /\ calls' \in [checkpoints : Nat, dumps : Nat]
      /\ Number(calls') = Number(calls) + 1
      /\ Number(calls) \in Nat /\ Number(calls') \in Nat
  BY CalledIsLater, NumberIsNat DEF SaveInv, Types
<1>2. ASSUME NEW u \in Units, NEW i \in 1..Len(inbox[u])
      PROVE  inbox[u][i].call < Number(calls')
  <2>1. inbox[u][i].call \in Nat /\ inbox[u][i].call <= Number(calls)
    BY DEF SaveInv, Types, Inboxes, RequestsAreOwn
  <2> QED
    BY <1>1, <2>1
<1> QED
  BY <1>1, <1>2

LEMMA OrderKept ==
  ASSUME SaveInv, CallOk, OrderOk, [PNext]_allVars
  PROVE  OrderOk'
<1>1. CASE SaveBegin
  <2>1. /\ CallCheckpoint /\ size' = size /\ inbox' = inbox /\ caller'.op = "save"
    BY <1>1 DEF SaveBegin, Call
  <2> QED
    BY <2>1, CallsAreNew, OrderAsked
<1>2. CASE SaveController
  <2>1. /\ size' = size /\ calls' = calls /\ Saving({"begun"})
        /\ Ask("save", [u \in Units |-> {}], Number(calls))
        /\ caller'.op = "save" /\ ~Saving({"begun"})'
    BY <1>2 DEF SaveController, Saving, Call, AskAll
  <2>2. Number(calls) \in Nat
    BY NumberIsNat DEF SaveInv, Types
  <2>3. ASSUME NEW u \in Units, NEW i \in 1..Len(inbox[u])
        PROVE  inbox[u][i].call < Number(calls)
    <3>1. inbox[u][i].call \in Nat /\ inbox[u][i].call <= Number(calls) /\ inbox[u][i].call # Number(calls)
      BY <2>1 DEF SaveInv, Types, Inboxes, RequestsAreOwn, OrderOk
    <3> QED
      BY <2>2, <3>1
  <2> QED
    BY <2>1, <2>2, <2>3, OrderAsked
<1>3. CASE SaveManifests \/ MoveAside \/ Install \/ Tidy \/ SaveFails \/ SaveRestores \/ LoadController \/ Stop
  <2>1. /\ UNCHANGED <<size, calls, inbox>> /\ Idle.op = "none"
    BY <1>3 DEF SaveManifests, MoveAside, Install, Tidy, SaveFails, SaveRestores, LoadController, Stop, Idle
  <2>2. \/ caller' = caller
        \/ caller' = Idle
        \/ /\ caller.op = "save"
           /\ \E pc \in {"aside", "install", "tidy", "restore"} : caller' = Call("save", pc, {})
    BY <1>3 DEF SaveManifests, MoveAside, Install, Tidy, SaveFails, SaveRestores, LoadController, Stop, Return, AllAnswered
  <2>3. caller'.op \in {"none", caller.op} /\ (Saving({"begun"})' => Saving({"begun"}))
    BY <2>1, <2>2 DEF Saving, Call
  <2> QED
    BY <2>1, <2>3, OrderFrame
<1>4. CASE LoadBegin
  <2>1. /\ CallCheckpoint /\ size' = size /\ caller = Idle
    BY <1>4, CallFindsNoClearing DEF LoadBegin
  <2>2. \/ caller' = Call("load", "units", Units) /\ Ask("load", [u \in Units |-> {}], Number(calls'))
        \/ caller' = Idle /\ inbox' = inbox
    BY <1>4, <2>1, Zenon DEF LoadBegin, AskAll
  <2>3. caller'.op \in {"none", "load"} /\ (inbox' = inbox \/ \E rows : Ask("load", rows, Number(calls')))
        /\ ~Saving({"begun"})'
    BY <2>2 DEF Call, Idle, Saving
  <2> QED
    BY <2>1, <2>3, CallsAreNew, OrderAsked
<1>5. ASSUME NEW keys, DumpBegin(keys)
      PROVE  OrderOk'
  <2> DEFINE asked == ByUnit(Described(keys), [k \in keys |-> Described(keys)[k].index])
  <2>1. /\ CallDump /\ size' = size /\ caller' = Call("dump", "units", DOMAIN asked)
        /\ Ask("dump", asked, Number(calls'))
    BY <1>5 DEF DumpBegin
  <2> HIDE DEF asked
  <2>2. caller'.op = "dump"
    BY <2>1 DEF Call
  <2>3. ~Saving({"begun"})'
    BY <2>2 DEF Saving
  <2> QED
    BY <2>1, <2>2, <2>3, CallsAreNew, OrderAsked
<1>6. CASE LoadRowsBegin
  <2> DEFINE asked == ByUnit(dump.rows, target')
  <2>1. /\ CallDump /\ size' = size /\ caller' = Call("load_rows", "units", DOMAIN asked)
        /\ Ask("load_rows", asked, Number(calls'))
    BY <1>6 DEF LoadRowsBegin
  <2> HIDE DEF asked
  <2>2. caller'.op = "load_rows"
    BY <2>1 DEF Call
  <2>3. ~Saving({"begun"})'
    BY <2>2 DEF Saving
  <2> QED
    BY <2>1, <2>2, <2>3, CallsAreNew, OrderAsked
<1>7. CASE SyncShards \/ WriteManifests \/ SyncStaging \/ Publish \/ DumpEnds \/ NotifyRows
  <2>1. /\ UNCHANGED <<size, calls, inbox>>
    BY <1>7 DEF SyncShards, WriteManifests, SyncStaging, Publishing, Publish, DumpEnds, NotifyRows
  <2>2. caller' = Idle \/ \E pc : caller' = Call(caller.op, pc, {}) /\ caller.op # "save"
    BY <1>7 DEF SyncShards, WriteManifests, SyncStaging, Publishing, Publish, DumpEnds, NotifyRows, Return, AllAnswered
  <2>3. caller'.op \in {"none", caller.op} /\ ~Saving({"begun"})'
    BY <2>2 DEF Call, Idle, Saving
  <2> QED
    BY <2>1, <2>3, OrderFrame
<1>8. ASSUME NEW u \in Units, ServeSave(u) \/ ServeLoad(u) \/ ServeDump(u)
      PROVE  OrderOk'
  <2>1. /\ UNCHANGED <<size, calls>>
        /\ \E kind : Asked(u, kind) /\ \E success \in BOOLEAN : Served(u, success)
    BY <1>8 DEF ServeSave, ServeLoad, ServeDump
  <2> QED
    BY <2>1, OrderServed
<1>9. ASSUME NEW u \in Units, ServeLoadRows(u)
      PROVE  OrderOk'
  <2>1. /\ UNCHANGED <<size, calls>> /\ Asked(u, "load_rows")
        /\ \E some : Served(u, some = Head(inbox[u]).rows)
    BY <1>9, Zenon DEF ServeLoadRows
  <2>2. \A some : (some = Head(inbox[u]).rows) \in BOOLEAN
    OBVIOUS
  <2>3. PICK success \in BOOLEAN : Served(u, success)
    BY <2>1, <2>2
  <2> QED
    BY <2>1, <2>3, OrderServed
<1>10. ASSUME NEW u \in Units, UnitTimeout(u)
       PROVE  OrderOk'
  <2>1. UNCHANGED <<size, calls, inbox>> /\ caller'.op = caller.op /\ caller'.pc = caller.pc
    BY <1>10 DEF UnitTimeout, SaveInv, Types, IsCall
  <2> QED
    BY <2>1, OrderFrame DEF Saving
<1>11. CASE PausedDataStep \/ UNCHANGED allVars
  <2>1. UNCHANGED <<size, calls, inbox, caller>>
    BY <1>11, DataLeavesCalls DEF PausedDataStep, DataStep, allVars, vars
  <2> QED
    BY <2>1, OrderFrame DEF Saving
<1>12. CASE LosePower
  <2>1. inbox' = [u \in Units' |-> << >>]
    BY <1>12 DEF LosePower, Restart, Start, Units
  <2>2. \A u \in Units' : Len(inbox'[u]) = 0
    BY <2>1, EmptyIsSeq
  <2> QED
    BY <2>2 DEF OrderOk
<1> QED
  BY <1>1, <1>2, <1>3, <1>4, <1>5, <1>6, <1>7, <1>8, <1>9, <1>10, <1>11, <1>12
     DEF PNext, CheckpointStep, DumpStep

-----------------------------------------------------------------------------
(* The samples of the rows a unit was asked to load keep their indexes.    *)
LEMMA PausedRows ==
  ASSUME SaveInv, PendingOk, NEW i, ~Paused(i)
  PROVE  \A u \in Units : \A n \in 1..Len(inbox[u]) :
           inbox[u][n].kind = "load_rows" => \A r \in inbox[u][n].rows : r.index # i
<1> SUFFICES ASSUME NEW u \in Units, NEW n \in 1..Len(inbox[u]), inbox[u][n].kind = "load_rows",
                    NEW r \in inbox[u][n].rows, r.index = i
             PROVE  FALSE
  OBVIOUS
<1>1. r.index \in Owned
  BY DEF PendingOk, Pending, RowsOk
<1>2. n \in DOMAIN inbox[u]
  BY DEF SaveInv, Types, Inboxes, IsSeq
<1> QED
  BY <1>1, <1>2 DEF Paused

LEMMA DataOwns ==
  ASSUME SamplesOk, NEW i \in Indexes, Store(i) \/ Notify(i) \/ MarkClearing(i) \/ Remove(i) \/ Release(i)
  PROVE  /\ Owned \ {i} \subseteq Owned' /\ clearing' \subseteq clearing \cup {i}
         /\ \A j \in Owned \ {i} : controller'.owner[j] = controller.owner[j]
<1>1. CASE Store(i) \/ Remove(i)
  BY <1>1 DEF Store, Remove, Owned
<1>2. CASE Notify(i) \/ MarkClearing(i)
  <2>1. controller'.owner = controller.owner /\ clearing' \subseteq clearing \cup {i}
    BY <1>2 DEF Notify, MarkClearing, SamplesOk, IsState
  <2> QED
    BY <2>1 DEF Owned
<1>3. CASE Release(i)
  <2>1. controller'.owner = Drop(controller.owner, i) /\ clearing' = clearing \ {i}
    BY <1>3 DEF Release
  <2> QED
    BY <2>1 DEF Owned, Drop
<1> QED
  BY <1>1, <1>2, <1>3

LEMMA RegisterOwns ==
  ASSUME SamplesOk, NEW k, Register(k)
  PROVE  /\ Owned \subseteq Owned' /\ UNCHANGED <<clearing, units, written>>
         /\ controller'.held = controller.held
         /\ \A j \in Owned : controller'.owner[j] = controller.owner[j]
<1>1. PICK i \in Indexes \ Owned :
        controller' = [controller EXCEPT !.owner = Put(@, i, [key |-> k, number |-> count + 1])]
  BY DEF Register
<1> DEFINE o == Put(controller.owner, i, [key |-> k, number |-> count + 1])
<1>2. controller'.owner = o /\ controller'.held = controller.held
  BY <1>1 DEF SamplesOk, IsState
<1>3. DOMAIN o = Owned \cup {i} /\ \A j \in Owned : o[j] = controller.owner[j]
  BY <1>1 DEF Put, Owned
<1> HIDE DEF o
<1> QED
  BY <1>2, <1>3 DEF Owned, Register

LEMMA PendingFrame ==
  ASSUME PendingOk, size' = size,
         \A u \in Units : \A i \in 1..Len(inbox'[u]) :
           \/ \E j \in 1..Len(inbox[u]) : inbox'[u][i] = inbox[u][j]
           \/ inbox'[u][i].kind \in {"save", "dump"}
           \/ inbox'[u][i].kind = "load" /\ mode' = "loading",
         \/ mode' = mode
         \/ mode # "loading" /\ mode' = "live"
         \/ mode # "live" /\ mode' = "loading",
         dump.there = TRUE => dump'.there = TRUE /\ dump'.rows = dump.rows,
         \A u \in Units : \A n \in 1..Len(inbox[u]) : inbox[u][n].kind = "load_rows" =>
           \A r \in inbox[u][n].rows :
             r.index \in Owned' /\ controller'.owner[r.index] = controller.owner[r.index]
  PROVE  PendingOk'
<1> SUFFICES ASSUME NEW u \in Units, NEW i \in 1..Len(inbox'[u])
             PROVE  Pending(inbox[u][i], u)'
  BY DEF PendingOk, Units
<1>1. ASSUME NEW j \in 1..Len(inbox[u]), inbox'[u][i] = inbox[u][j]
      PROVE  Pending(inbox[u][i], u)'
  <2>1. Pending(inbox[u][j], u)
    BY DEF PendingOk
  <2>2. inbox[u][j].kind = "load" => mode' = "loading"
    BY <2>1 DEF Pending
  <2>3. inbox[u][j].kind = "load_rows" => mode' = "live" /\ dump'.there = TRUE
    BY <2>1 DEF Pending
  <2>4. ASSUME inbox[u][j].kind = "load_rows"
        PROVE  RowsOk(inbox[u][i].rows, u)'
    <3>1. RowsOk(inbox[u][j].rows, u) /\ dump'.rows = dump.rows
      BY <2>1, <2>4 DEF Pending
    <3> QED
      BY <1>1, <2>4, <3>1 DEF RowsOk, Produced
  <2> QED
    BY <1>1, <2>2, <2>3, <2>4 DEF Pending
<1>2. CASE inbox'[u][i].kind \in {"save", "dump"}
  BY <1>2 DEF Pending
<1>3. CASE inbox'[u][i].kind = "load" /\ mode' = "loading"
  BY <1>3 DEF Pending
<1> QED
  BY <1>1, <1>2, <1>3

(* Nothing is done to the samples.                                         *)
LEMMA PendingInboxFrame ==
  ASSUME PendingOk, UNCHANGED <<size, controller, clearing>>,
         dump.there = TRUE => dump'.there = TRUE /\ dump'.rows = dump.rows,
         mode' = mode \/ (mode # "live" /\ mode' = "loading"),
         \A u \in Units : \A i \in 1..Len(inbox'[u]) :
           \/ \E j \in 1..Len(inbox[u]) : inbox'[u][i] = inbox[u][j]
           \/ inbox'[u][i].kind \in {"save", "dump"}
           \/ inbox'[u][i].kind = "load" /\ mode' = "loading"
  PROVE  PendingOk'
<1>1. \A u \in Units : \A n \in 1..Len(inbox[u]) : inbox[u][n].kind = "load_rows" =>
           \A r \in inbox[u][n].rows :
             r.index \in Owned' /\ controller'.owner[r.index] = controller.owner[r.index]
  BY DEF PendingOk, Pending, RowsOk, Owned
<1> QED
  BY <1>1, PendingFrame

LEMMA PendingAsked ==
  ASSUME SaveInv, PendingOk, UNCHANGED <<size, controller, clearing, dump>>,
         mode' = mode \/ (mode # "live" /\ mode' = "loading"),
         NEW kind, NEW rows, NEW n \in Nat, Ask(kind, rows, n),
         kind \in {"save", "dump"} \/ (kind = "load" /\ mode' = "loading")
  PROVE  PendingOk'
<1>1. \A u \in Units : \A i \in 1..Len(inbox'[u]) :
              \/ inbox'[u][i] = [kind |-> kind, call |-> n, rows |-> rows[u]]
              \/ \E j \in 1..Len(inbox[u]) : inbox'[u][i] = inbox[u][j]
  BY AskedJoin DEF SaveInv
<1>2. \A u \in Units : \A i \in 1..Len(inbox'[u]) :
              \/ inbox'[u][i].kind = kind
              \/ \E j \in 1..Len(inbox[u]) : inbox'[u][i] = inbox[u][j]
  <2> SUFFICES ASSUME NEW u \in Units, NEW i \in 1..Len(inbox'[u]),
                      inbox'[u][i] = [kind |-> kind, call |-> n, rows |-> rows[u]]
               PROVE  inbox'[u][i].kind = kind
    BY <1>1
  <2> QED
    OBVIOUS
<1> QED
  BY <1>2, PendingInboxFrame

LEMMA RowsAsked ==
  ASSUME LoadRowsBegin, NEW asked, asked = ByUnit(dump.rows, target')
  PROVE  /\ \A k \in Produced(dump.rows) : target'[k] % size \in DOMAIN asked
         /\ \A u \in DOMAIN asked :
           asked[u] = {[key |-> k, source |-> dump.rows[k].index, index |-> target'[k],
                        number |-> controller'.owner[target'[k]].number] :
                         k \in {x \in Produced(dump.rows) : target'[x] % size = u}}
BY DEF ByUnit, UnitOf

LEMMA LoadRowsBeginPending ==
  ASSUME SaveInv, SamplesOk, PendingOk, LoadRowsBegin
  PROVE  PendingOk'
<1> DEFINE asked == ByUnit(dump.rows, target')
<1>1. /\ CallDump /\ size' = size /\ Ask("load_rows", asked, Number(calls'))
      /\ UNCHANGED <<dump, clearing>> /\ mode' = "live" /\ mode # "loading"
      /\ dump.there = TRUE
  BY DEF LoadRowsBegin, Complete
<1>2. /\ Owned \subseteq Owned' /\ \A i \in Owned : controller'.owner[i] = controller.owner[i]
      /\ \A k \in DOMAIN dump.rows : target'[k] \in Owned' /\ controller'.owner[target'[k]].key = k
  BY LoadRowsBeginOwns
<1>3. Number(calls') \in Nat
  BY <1>1, CallFindsNoClearing, CallsAreNew
<1>4. \A u \in DOMAIN asked :
           asked[u] = {[key |-> k, source |-> dump.rows[k].index, index |-> target'[k],
                        number |-> controller'.owner[target'[k]].number] :
                         k \in {x \in Produced(dump.rows) : target'[x] % size = u}}
  BY RowsAsked
<1> HIDE DEF asked
<1>5. \A u \in Units :
           \/ u \notin DOMAIN asked /\ inbox'[u] = inbox[u]
           \/ /\ u \in DOMAIN asked /\ Len(inbox[u]) \in Nat /\ Len(inbox'[u]) = Len(inbox[u]) + 1
              /\ inbox'[u][Len(inbox[u]) + 1] = [kind |-> "load_rows", call |-> Number(calls'), rows |-> asked[u]]
              /\ \A i \in 1..Len(inbox[u]) : inbox'[u][i] = inbox[u][i]
  BY <1>1, AskedAppends
<1> SUFFICES ASSUME NEW u \in Units, NEW i \in 1..Len(inbox'[u])
             PROVE  Pending(inbox[u][i], u)'
  BY <1>1 DEF PendingOk, Units
<1>6. ASSUME NEW j \in 1..Len(inbox[u]), inbox'[u][i] = inbox[u][j]
      PROVE  Pending(inbox[u][i], u)'
  <2>1. Pending(inbox[u][j], u)
    BY DEF PendingOk
  <2>2. inbox[u][j].kind # "load"
    BY <1>1, <2>1 DEF Pending
  <2>3. ASSUME inbox[u][j].kind = "load_rows"
        PROVE  RowsOk(inbox[u][i].rows, u)'
    <3>1. RowsOk(inbox[u][j].rows, u)
      BY <2>1, <2>3 DEF Pending
    <3> QED
      BY <1>1, <1>2, <1>6, <3>1 DEF RowsOk, Produced
  <2> QED
    BY <1>1, <1>6, <2>2, <2>3 DEF Pending
<1>7. ASSUME u \in DOMAIN asked,
             inbox'[u][i] = [kind |-> "load_rows", call |-> Number(calls'), rows |-> asked[u]]
      PROVE  Pending(inbox[u][i], u)'
  <2>1. inbox'[u][i].rows = asked[u] /\ inbox'[u][i].kind = "load_rows"
    BY <1>7
  <2>2. ASSUME NEW r \in asked[u]
        PROVE  /\ r.key \in Produced(dump.rows) /\ r.source = dump.rows[r.key].index
               /\ r.index \in Owned' /\ r.index % size = u
               /\ controller'.owner[r.index].key = r.key /\ controller'.owner[r.index].number = r.number
    <3>1. PICK k \in Produced(dump.rows) :
            /\ target'[k] % size = u
            /\ r = [key |-> k, source |-> dump.rows[k].index, index |-> target'[k],
                    number |-> controller'.owner[target'[k]].number]
      BY <1>4, <1>7, <2>2
    <3>2. target'[k] \in Owned' /\ controller'.owner[target'[k]].key = k
      BY <1>2, <3>1 DEF Produced
    <3> QED
      BY <1>1, <1>3, <3>1, <3>2
  <2> QED
    BY <1>1, <2>1, <2>2 DEF Pending, RowsOk, Produced
<1> QED
  BY <1>5, <1>6, <1>7

LEMMA PendingKept ==
  ASSUME SaveInv, SamplesOk, CallOk, LoadOk, PendingOk, DumpOk, [PNext]_allVars
  PROVE  PendingOk'
<1>1. CASE SaveController /\ UNCHANGED dumpVars
  <2>1. /\ UNCHANGED <<size, controller, clearing, dump, mode>>
        /\ Ask("save", [u \in Units |-> {}], Number(calls)) /\ Number(calls) \in Nat
    BY <1>1, NumberIsNat DEF SaveController, AskAll, dataVars, dumpVars, SaveInv, Types
  <2> QED
    BY <2>1, PendingAsked
<1>2. CASE LoadBegin /\ UNCHANGED dumpVars
  <2>1. /\ UNCHANGED <<size, controller, clearing, dump>> /\ Number(calls') \in Nat /\ mode # "live"
    BY <1>2, CallsAreNew DEF LoadBegin, dataVars, dumpVars
  <2>2. \/ Ask("load", [u \in Units |-> {}], Number(calls')) /\ mode' = "loading"
        \/ inbox' = inbox /\ mode' = mode
    BY <1>2, Zenon DEF LoadBegin, AskAll
  <2>3. CASE Ask("load", [u \in Units |-> {}], Number(calls')) /\ mode' = "loading"
    BY <2>1, <2>3, PendingAsked
  <2>4. CASE inbox' = inbox /\ mode' = mode
    BY <2>1, <2>4, PendingInboxFrame
  <2> QED
    BY <2>2, <2>3, <2>4
<1>3. ASSUME NEW keys, DumpBegin(keys)
      PROVE  PendingOk'
  <2> DEFINE asked == ByUnit(Described(keys), [k \in keys |-> Described(keys)[k].index])
  <2>1. /\ UNCHANGED <<size, controller, clearing, dump, mode>> /\ Ask("dump", asked, Number(calls'))
        /\ Number(calls') \in Nat
    BY <1>3, CallsAreNew DEF DumpBegin, dataVars
  <2> HIDE DEF asked
  <2> QED
    BY <2>1, PendingAsked
<1>4. CASE LoadRowsBegin
  BY <1>4, LoadRowsBeginPending
<1>5. CASE (SaveBegin \/ SaveManifests \/ MoveAside \/ Install \/ Tidy \/ SaveFails \/ SaveRestores \/ Stop)
           /\ UNCHANGED dumpVars
  <2>1. UNCHANGED <<size, controller, clearing, mode, inbox, dump>>
    BY <1>5 DEF SaveBegin, SaveManifests, MoveAside, Install, Tidy, SaveFails, SaveRestores, Stop, dataVars, dumpVars
  <2> QED
    BY <2>1, PendingInboxFrame
<1>6. CASE SyncShards \/ WriteManifests \/ SyncStaging \/ Publish \/ DumpEnds
  <2>1. UNCHANGED <<size, controller, clearing, mode, inbox>>
    BY <1>6 DEF SyncShards, WriteManifests, SyncStaging, Publishing, Publish, DumpEnds, dataVars
  <2>2. dump.there = TRUE => dump'.there = TRUE /\ dump'.rows = dump.rows
    BY <1>6 DEF SyncShards, WriteManifests, SyncStaging, Publishing, Publish, DumpEnds, DumpOk, IsDump
  <2> QED
    BY <2>1, <2>2, PendingInboxFrame
<1>7. CASE NotifyRows
  <2>1. /\ UNCHANGED <<size, clearing, mode, inbox, dump>> /\ controller'.owner = controller.owner
    BY <1>7, NotifyRowsChanges DEF NotifyRows
  <2>2. Owned' = Owned
    BY <2>1 DEF Owned
  <2>3. \A u \in Units : \A n \in 1..Len(inbox[u]) : inbox[u][n].kind = "load_rows" =>
           \A r \in inbox[u][n].rows :
             r.index \in Owned' /\ controller'.owner[r.index] = controller.owner[r.index]
    BY <2>1, <2>2 DEF PendingOk, Pending, RowsOk
  <2> QED
    BY <2>1, <2>3, PendingFrame
<1>8. CASE LoadController
  <2>1. /\ UNCHANGED <<size, inbox>> /\ caller.op = "load" /\ caller.open = {} /\ ~caller.failed
    BY <1>8 DEF LoadController, AllAnswered
  <2>2. \A u \in Units : inbox[u] = << >>
    BY <2>1 DEF LoadOk
  <2>3. \A u \in Units' : Len(inbox'[u]) = 0
    BY <2>1, <2>2, EmptyIsSeq DEF Units
  <2> QED
    BY <2>3 DEF PendingOk
<1>9. ASSUME NEW u \in Units, ServeSave(u) \/ ServeLoad(u) \/ ServeDump(u) \/ ServeLoadRows(u) \/ UnitTimeout(u),
             dump' = dump
      PROVE  PendingOk'
  <2>1. UNCHANGED <<size, controller, clearing, mode>>
    BY <1>9 DEF ServeSave, ServeLoad, ServeDump, ServeLoadRows, UnitTimeout, dataVars
  <2>2. \/ inbox' = inbox
        \/ \E kind : \E success \in BOOLEAN : Asked(u, kind) /\ Served(u, success)
    <3>1. CASE ServeSave(u) \/ ServeLoad(u) \/ ServeDump(u) \/ UnitTimeout(u)
      BY <3>1 DEF ServeSave, ServeLoad, ServeDump, UnitTimeout
    <3>2. CASE ServeLoadRows(u)
      <4>1. \A some : (some = Head(inbox[u]).rows) \in BOOLEAN
        OBVIOUS
      <4>2. Asked(u, "load_rows") /\ \E some : Served(u, some = Head(inbox[u]).rows)
        BY <3>2, Zenon DEF ServeLoadRows
      <4> QED
        BY <4>1, <4>2
    <3> QED
      BY <1>9, <3>1, <3>2
  <2>3. \A v \in Units : \A i \in 1..Len(inbox'[v]) :
              \E j \in 1..Len(inbox[v]) : inbox'[v][i] = inbox[v][j]
    BY <2>1, <2>2, ServedLeaves DEF SaveInv
  <2> QED
    BY <1>9, <2>1, <2>3, PendingInboxFrame
<1>10. CASE PausedDataStep /\ UNCHANGED dumpVars
  <2>1. /\ UNCHANGED <<size, inbox, dump>> /\ mode # "loading" /\ mode' = "live"
    BY <1>10 DEF PausedDataStep, DataOp, Register, Store, Notify, MarkClearing, Remove, Release, dumpVars
  <2>2. \A u \in Units : \A n \in 1..Len(inbox[u]) : inbox[u][n].kind = "load_rows" =>
           \A r \in inbox[u][n].rows : r.index \in Owned
    BY DEF PendingOk, Pending, RowsOk
  <2>3. ASSUME NEW k \in Keys, Register(k)
        PROVE  PendingOk'
    <3>1. \A u \in Units : \A n \in 1..Len(inbox[u]) : inbox[u][n].kind = "load_rows" =>
           \A r \in inbox[u][n].rows :
             r.index \in Owned' /\ controller'.owner[r.index] = controller.owner[r.index]
      BY <2>2, <2>3, RegisterOwns
    <3> QED
      BY <2>1, <3>1, PendingFrame
  <2>4. ASSUME NEW i \in Indexes, ~Paused(i), Store(i) \/ Notify(i) \/ MarkClearing(i) \/ Remove(i) \/ Release(i)
        PROVE  PendingOk'
    <3>1. \A u \in Units : \A n \in 1..Len(inbox[u]) : inbox[u][n].kind = "load_rows" =>
           \A r \in inbox[u][n].rows :
             r.index \in Owned' /\ controller'.owner[r.index] = controller.owner[r.index]
      BY <2>2, <2>4, PausedRows, DataOwns
    <3> QED
      BY <2>1, <3>1, PendingFrame
  <2> QED
    BY <1>10, <2>3, <2>4 DEF PausedDataStep
<1>11. CASE LosePower
  <2>1. inbox' = [u \in Units' |-> << >>]
    BY <1>11 DEF LosePower, Restart, Start, Units
  <2>2. \A u \in Units' : Len(inbox'[u]) = 0
    BY <2>1, EmptyIsSeq
  <2> QED
    BY <2>2 DEF PendingOk
<1>12. CASE UNCHANGED allVars
  BY <1>12, PendingInboxFrame DEF allVars, vars, dataVars, dumpVars
<1>13. \A u \in Units : ServeDump(u) \/ ServeLoadRows(u) => dump' = dump
  BY DEF ServeDump, ServeLoadRows, dumpVars
<1> QED
  BY <1>1, <1>2, <1>3, <1>4, <1>5, <1>6, <1>7, <1>8, <1>9, <1>10, <1>11, <1>12, <1>13
     DEF PNext, CheckpointStep, DumpStep, dumpVars

-----------------------------------------------------------------------------
(* A unit that answered a load has what the checkpoint has, and no request.*)
LEMMA LoadServed ==
  ASSUME SaveInv, LoadOk, OrderOk, caller.op = "load", UNCHANGED <<size, calls, mode>>, disk'.main = disk.main,
         NEW u \in Units, NEW kind, Asked(u, kind), NEW success \in BOOLEAN, Served(u, success),
         \A v \in Units \ {u} : units'[v] = units[v],
         kind = "load" /\ success => units'[u] = disk.main.files[u]
  PROVE  LoadOk'
<1>1. mode = "loading" /\ disk.main.meta = TRUE /\ disk.main.manifest = size
  BY DEF LoadOk
<1>2. SUFFICES ASSUME ~caller'.failed, NEW v \in Units, v \notin caller'.open
               PROVE  units'[v] = disk.main.files[v] /\ inbox'[v] = << >>
  BY <1>1 DEF LoadOk, Units
<1>3. /\ inbox[u] # << >> /\ inbox[u][1].kind = kind /\ Len(inbox[u]) \in Nat \ {0}
      /\ \A w \in Units \ {u} : inbox'[w] = inbox[w]
      /\ Len(inbox[u]) = 1 => inbox'[u] = << >>
  BY ServedShifts
<1>4. \/ caller' = caller
      \/ /\ inbox[u][1].call = Number(calls) /\ u \in caller.open
         /\ caller' = [op |-> caller.op, pc |-> caller.pc, open |-> caller.open \ {u},
                       failed |-> caller.failed \/ ~success]
  BY ServedHeard
<1>5. CASE caller' = caller
  <2>1. units[v] = disk.main.files[v] /\ inbox[v] = << >>
    BY <1>2, <1>5 DEF LoadOk
  <2>2. v # u
    BY <1>3, <2>1
  <2> QED
    BY <1>3, <2>1, <2>2
<1>6. CASE /\ inbox[u][1].call = Number(calls) /\ u \in caller.open
           /\ caller' = [op |-> caller.op, pc |-> caller.pc, open |-> caller.open \ {u},
                         failed |-> caller.failed \/ ~success]
  <2>1. ~caller.failed /\ success /\ caller'.open = caller.open \ {u}
    BY <1>2, <1>6
  <2>2. CASE v # u
    <3>1. units[v] = disk.main.files[v] /\ inbox[v] = << >>
      BY <1>2, <2>1, <2>2 DEF LoadOk
    <3> QED
      BY <1>3, <2>2, <3>1
  <2>3. CASE v = u
    <3>1. 1 \in 1..Len(inbox[u])
      BY <1>3
    <3>2. kind = "load"
      BY <1>3, <1>6, <3>1 DEF OrderOk
    <3>3. Len(inbox[u]) = 1
      <4> SUFFICES ASSUME Len(inbox[u]) # 1
                   PROVE  FALSE
        OBVIOUS
      <4>1. 2 \in 1..Len(inbox[u])
        <5>1. \A n \in Nat \ {0} : n # 1 => 2 \in 1..n
          OBVIOUS
        <5>2. Len(inbox[u]) \in Nat \ {0} /\ Len(inbox[u]) # 1
          BY <1>3
        <5> QED
          BY <5>1, <5>2, Zenon
      <4>2. inbox[u][2].call \in Nat /\ inbox[u][2].call <= Number(calls)
        BY <4>1 DEF SaveInv, Types, Inboxes, RequestsAreOwn
      <4>3. inbox[u][1].call < inbox[u][2].call
        <5>1. 1 < 2
          OBVIOUS
        <5> QED
          BY <3>1, <4>1, <5>1 DEF OrderOk
      <4>4. Number(calls) \in Nat
        BY NumberIsNat DEF SaveInv, Types
      <4> QED
        BY <1>6, <4>2, <4>3, <4>4
    <3> QED
      BY <1>3, <2>1, <2>3, <3>2, <3>3
  <2> QED
    BY <2>2, <2>3
<1> QED
  BY <1>4, <1>5, <1>6

LEMMA LoadKept ==
  ASSUME SaveInv, SamplesOk, CallOk, LoadOk, OrderOk, PendingOk, [PNext]_allVars
  PROVE  LoadOk'
<1> SUFFICES ASSUME caller'.op = "load"
             PROVE  LoadOk'
  BY DEF LoadOk
<1>1. CASE LoadBegin
  <2>1. CallCheckpoint /\ Idle.op = "none" /\ size' = size
    BY <1>1 DEF LoadBegin, Idle
  <2>2. caller = Idle
    BY <2>1, CalledIsLater DEF SaveInv, Types
  <2>3. /\ disk'.main.meta /\ Fits(disk'.main) /\ mode' = "loading" /\ caller' = Call("load", "units", Units)
    BY <1>1, <2>1, <2>2, Zenon DEF LoadBegin
  <2>4. caller'.open = Units /\ disk'.main.meta = TRUE /\ disk'.main.manifest = size
    BY <2>3 DEF Call, Fits
  <2> QED
    BY <2>1, <2>3, <2>4 DEF LoadOk, Units
<1>2. ASSUME NEW u \in Units, ServeLoad(u)
      PROVE  LoadOk'
  <2>1. PICK success \in BOOLEAN :
          /\ Asked(u, "load") /\ Served(u, success)
          /\ units' = IF success THEN [units EXCEPT ![u] = disk.main.files[u]] ELSE units
    BY <1>2 DEF ServeLoad
  <2>2. UNCHANGED <<size, calls, mode, disk>>
    BY <1>2 DEF ServeLoad
  <2>3. caller.op = "load"
    BY <2>1, <2>2, ServedKeepsOp
  <2>4. (\A v \in Units \ {u} : units'[v] = units[v]) /\ (success => units'[u] = disk.main.files[u])
    BY <2>1 DEF SamplesOk
  <2> QED
    BY <2>1, <2>2, <2>3, <2>4, LoadServed
<1>3. ASSUME NEW u \in Units, ServeSave(u) \/ ServeDump(u)
      PROVE  LoadOk'
  <2>1. /\ UNCHANGED <<size, calls, mode, units>> /\ disk'.main = disk.main
        /\ \E kind \in {"save", "dump"} : \E success \in BOOLEAN : Asked(u, kind) /\ Served(u, success)
    BY <1>3 DEF ServeSave, ServeDump, dataVars, SaveInv, Types
  <2>2. caller.op = "load"
    BY <2>1, ServedKeepsOp
  <2> QED
    BY <2>1, <2>2, LoadServed
<1>4. ASSUME NEW u \in Units, ServeLoadRows(u)
      PROVE  FALSE
  <2>1. UNCHANGED <<size, calls>> /\ Asked(u, "load_rows") /\ \E success \in BOOLEAN : Served(u, success)
    BY <1>4, RowsLoaded DEF ServeLoadRows
  <2>2. caller.op = "load" /\ mode = "live"
    BY <1>4, <2>1, ServedKeepsOp, RowsLoaded DEF RequestsOk
  <2> QED
    BY <2>2 DEF LoadOk
<1>5. ASSUME NEW u \in Units, UnitTimeout(u)
      PROVE  LoadOk'
  <2>1. /\ UNCHANGED <<size, mode, disk>> /\ caller'.op = caller.op /\ caller'.failed = TRUE
    BY <1>5 DEF UnitTimeout, SaveInv, Types, IsCall
  <2> QED
    BY <2>1 DEF LoadOk
<1>6. CASE PausedDataStep
  <2>1. mode # "loading" /\ caller' = caller
    BY <1>6 DEF PausedDataStep, DataOp, Register, Store, Notify, MarkClearing, Remove, Release
  <2> QED
    BY <2>1 DEF LoadOk
<1>7. CASE UNCHANGED allVars
  BY <1>7 DEF allVars, vars, dataVars, LoadOk, Units
<1>8. CASE \/ SaveBegin \/ SaveController \/ SaveManifests \/ MoveAside \/ Install \/ Tidy \/ SaveFails
           \/ SaveRestores \/ LoadController \/ Stop \/ LosePower
  <2>1. caller' = Idle \/ (caller' = caller /\ caller.op = "save") \/ \E pc, open : caller' = Call("save", pc, open)
    BY <1>8, Zenon DEF SaveBegin, SaveController, SaveManifests, MoveAside, Install, Tidy, SaveFails, SaveRestores,
       LoadController, Stop, LosePower, Restart, Return
  <2>2. caller'.op # "load"
    BY <2>1 DEF Idle, Call
  <2> QED
    BY <2>2
<1>9. CASE \/ \E keys \in SUBSET Keys : DumpBegin(keys)
           \/ LoadRowsBegin \/ SyncShards \/ WriteManifests \/ SyncStaging \/ Publish \/ DumpEnds \/ NotifyRows
  <2>1. caller' = Idle \/ \E op \in {"dump", "load_rows"} : \E pc, open : caller' = Call(op, pc, open)
    BY <1>9, Zenon DEF DumpBegin, LoadRowsBegin, SyncShards, WriteManifests, SyncStaging, Publishing, Publish,
       DumpEnds, NotifyRows, Return
  <2>2. caller'.op # "load"
    BY <2>1 DEF Idle, Call
  <2> QED
    BY <2>2
<1> QED
  BY <1>1, <1>2, <1>3, <1>4, <1>5, <1>6, <1>7, <1>8, <1>9 DEF PNext, CheckpointStep, DumpStep

-----------------------------------------------------------------------------
LEMMA SaveFrame ==
  ASSUME SaveOk, UNCHANGED <<size>>, disk'.tmp = disk.tmp, caller'.op = caller.op, caller'.pc = caller.pc,
         written \subseteq written',
         Quiet = TRUE => /\ controller.held \subseteq controller'.held
                         /\ \A i \in controller.held : controller'.owner[i] = controller.owner[i]
  PROVE  SaveOk'
<1>1. Saving({"begun"})' => Saving({"begun"})
  BY DEF Saving
<1>2. Saving(Staging \ {"begun"})' => Saving(Staging \ {"begun"})
  BY DEF Saving, Staging
<1>3. Quiet = TRUE /\ SavedAsStored => SavedAsStored'
  BY DEF SavedAsStored, Has
<1> QED
  BY <1>1, <1>2, <1>3 DEF SaveOk

LEMMA NotStagingIsOk ==
  ASSUME ~Saving(Staging)'
  PROVE  SaveOk'
BY DEF SaveOk, Saving, Staging

(* A step of the save itself.                                              *)
LEMMA SaveStepOk ==
  ASSUME SaveInv, SamplesOk, SaveOk,
         SaveBegin \/ SaveController \/ SaveManifests \/ MoveAside \/ Install \/ Tidy \/ SaveFails \/ SaveRestores
  PROVE  SaveOk'
<1>1. UNCHANGED <<size, controller, written>> /\ disk = [main |-> disk.main, tmp |-> disk.tmp, old |-> disk.old]
  BY DEF SaveBegin, SaveController, SaveManifests, MoveAside, Install, Tidy, SaveFails, SaveRestores, dataVars,
     SaveInv, Types
<1>2. CASE SaveBegin
  <2>1. /\ caller'.op = "save" /\ caller'.pc = "begun"
        /\ disk'.tmp = [NoDir EXCEPT !.number = Number(calls')]
    BY <1>1, <1>2 DEF SaveBegin, Call
  <2>2. disk'.tmp.saved = FALSE /\ disk'.tmp.files = << >>
    BY <2>1 DEF NoDir
  <2> QED
    BY <2>1, <2>2 DEF SaveOk, Saving
<1>3. CASE SaveController
  <2>1. /\ caller'.op = "save" /\ caller'.pc = "units" /\ Saving({"begun"})
    BY <1>3 DEF SaveController, Call, Saving
  <2>2. disk'.tmp.state = controller /\ disk'.tmp.files = disk.tmp.files
    <3>1. disk' = [disk EXCEPT !.tmp = [[disk.tmp EXCEPT !.state = controller] EXCEPT !.saved = TRUE]]
      BY <1>1, <1>3 DEF SaveController
    <3>2. disk'.tmp = [[disk.tmp EXCEPT !.state = controller] EXCEPT !.saved = TRUE]
      BY <1>1, <3>1
    <3>3. IsDir(disk.tmp)
      BY DEF SaveInv, Types
    <3> QED
      BY <3>2, <3>3 DEF IsDir
  <2>3. DOMAIN disk'.tmp.files = {}
    BY <2>1, <2>2 DEF SaveOk
  <2>4. SavedAsStored'
    BY <1>1, <2>2, <2>3 DEF SavedAsStored
  <2> QED
    BY <1>1, <2>1, <2>2, <2>4 DEF SaveOk, Saving, SamplesOk
<1>4. CASE SaveManifests \/ MoveAside
  <2>1. Saving(Staging \ {"begun"})
    BY <1>4 DEF SaveManifests, MoveAside, AllAnswered, Saving, Staging
  <2>2. disk'.tmp.state = disk.tmp.state /\ disk'.tmp.files = disk.tmp.files
    <3>1. CASE SaveManifests
      <4>1. disk'.tmp = [[disk.tmp EXCEPT !.manifest = size] EXCEPT !.meta = TRUE]
        BY <1>1, <3>1 DEF SaveManifests
      <4>2. IsDir(disk.tmp)
        BY DEF SaveInv, Types
      <4> QED
        BY <4>1, <4>2 DEF IsDir
    <3>2. CASE MoveAside
      BY <1>1, <3>2 DEF MoveAside, Aside
    <3> QED
      BY <1>4, <3>1, <3>2
  <2>3. ~Saving({"begun"})'
    BY <1>4, <2>1 DEF SaveManifests, MoveAside, Saving, Call
  <2>4. SavedAsStored => SavedAsStored'
    BY <1>1, <2>2 DEF SavedAsStored, Has
  <2> QED
    BY <2>1, <2>2, <2>3, <2>4 DEF SaveOk, Saving
<1>5. CASE Install \/ Tidy \/ SaveFails \/ SaveRestores
  <2>1. ~Saving(Staging)'
    BY <1>5 DEF Install, Tidy, SaveFails, SaveRestores, Saving, Staging, Call, Idle, Return
  <2> QED
    BY <2>1, NotStagingIsOk
<1> QED
  BY <1>2, <1>3, <1>4, <1>5

(* A unit adds its file: what it has of the samples taken for written.     *)
LEMMA ServeSaveOk ==
  ASSUME SaveInv, SamplesOk, CallOk, SaveOk, NEW u \in Units, ServeSave(u)
  PROVE  SaveOk'
<1>1. PICK success \in IF disk.tmp.saved THEN BOOLEAN ELSE {FALSE} :
        /\ disk' = IF success THEN [disk EXCEPT !.tmp.files = Put(@, u, units[u])] ELSE disk
        /\ Served(u, success)
  BY DEF ServeSave
<1>2. UNCHANGED <<size, controller, written, calls>> /\ Asked(u, "save") /\ success \in BOOLEAN
  BY <1>1 DEF ServeSave, dataVars
<1>3. caller'.op = caller.op /\ caller'.pc = caller.pc
  BY <1>1, <1>2, ServedKeepsTheCall
<1>4. CASE ~success
  BY <1>1, <1>2, <1>3, <1>4, SaveFrame
<1>5. CASE success
  <2>1. disk.tmp.saved = TRUE
    BY <1>1, <1>5
  <2>2. /\ disk'.tmp.state = disk.tmp.state
        /\ disk'.tmp.files = Put(disk.tmp.files, u, units[u])
    <3>1. disk' = [disk EXCEPT !.tmp = [disk.tmp EXCEPT !.files = Put(disk.tmp.files, u, units[u])]]
      BY <1>1, <1>5 DEF SaveInv, Types
    <3>2. disk'.tmp = [disk.tmp EXCEPT !.files = Put(disk.tmp.files, u, units[u])]
      BY <3>1 DEF SaveInv, Types
    <3>3. IsDir(disk.tmp)
      BY DEF SaveInv, Types
    <3> QED
      BY <3>2, <3>3 DEF IsDir
  <2>3. ~Saving({"begun"})'
    BY <1>3, <2>1 DEF SaveOk, Saving
  <2>4. ASSUME Saving(Staging \ {"begun"}), Quiet = TRUE
        PROVE  \A v \in DOMAIN disk'.tmp.files : \A i \in disk.tmp.state.held :
                 i % size = v => Has(disk.tmp.state, i, At(disk'.tmp.files[v], i), written)
    <3>0. SavedAsStored
      BY <2>4 DEF SaveOk
    <3> SUFFICES ASSUME NEW v \in DOMAIN disk'.tmp.files, NEW i \in disk.tmp.state.held, i % size = v
                 PROVE  Has(disk.tmp.state, i, At(disk'.tmp.files[v], i), written)
      OBVIOUS
    <3>1. CASE v = u
      <4>1. disk'.tmp.files[v] = units[i % size]
        BY <2>2, <3>1 DEF Put
      <4>2. clearing = {} /\ mode # "loading"
        BY <2>4 DEF CallOk, Saving, Working
      <4>3. Has(controller, i, At(units[i % size], i), written)
        BY <2>4, <3>0, <4>2 DEF SamplesOk, SavedAsStored
      <4> QED
        BY <3>0, <4>1, <4>3 DEF Has, SavedAsStored
    <3>2. CASE v # u
      <4>1. v \in DOMAIN disk.tmp.files /\ disk'.tmp.files[v] = disk.tmp.files[v]
        BY <2>2, <3>2 DEF Put
      <4> QED
        BY <3>0, <4>1 DEF SavedAsStored
    <3> QED
      BY <3>1, <3>2
  <2>5. Saving(Staging \ {"begun"})' => Saving(Staging \ {"begun"})
    BY <1>3 DEF Saving, Staging
  <2>6. Saving(Staging \ {"begun"}) /\ Quiet = TRUE => SavedAsStored'
    BY <1>2, <2>2, <2>4 DEF SaveOk, SavedAsStored
  <2> QED
    BY <2>2, <2>3, <2>5, <2>6 DEF SaveOk
<1> QED
  BY <1>2, <1>4, <1>5

LEMMA SaveKept ==
  ASSUME SaveInv, SamplesOk, CallOk, LoadOk, SaveOk, RequestsOk, [PNext]_allVars
  PROVE  SaveOk'
<1> SUFFICES ASSUME Saving(Staging)'
             PROVE  SaveOk'
  BY NotStagingIsOk
<1>0. caller'.op = "save"
  BY DEF Saving
<1>1. CASE SaveBegin \/ SaveController \/ SaveManifests \/ MoveAside \/ Install \/ Tidy \/ SaveFails \/ SaveRestores
  BY <1>1, SaveStepOk
<1>2. ASSUME NEW u \in Units, ServeSave(u)
      PROVE  SaveOk'
  BY <1>2, ServeSaveOk
<1>3. ASSUME NEW u \in Units, ServeLoad(u) \/ ServeDump(u) \/ ServeLoadRows(u)
      PROVE  SaveOk'
  <2>1. UNCHANGED <<size, calls, controller, disk>>
    BY <1>3 DEF ServeLoad, ServeDump, ServeLoadRows, dataVars
  <2>2. \E kind : \E success \in BOOLEAN : Asked(u, kind) /\ Served(u, success)
    <3>1. CASE ServeLoad(u) \/ ServeDump(u)
      BY <3>1 DEF ServeLoad, ServeDump
    <3>2. CASE ServeLoadRows(u)
      BY <3>2, RowsLoaded DEF ServeLoadRows
    <3> QED
      BY <1>3, <3>1, <3>2
  <2>3. caller'.op = caller.op /\ caller'.pc = caller.pc
    BY <2>1, <2>2, ServedKeepsTheCall
  <2> QED
    BY <2>1, <2>3, WrittenStays, SaveFrame
<1>4. ASSUME NEW u \in Units, UnitTimeout(u)
      PROVE  SaveOk'
  <2>1. UNCHANGED <<size, controller, disk, written>> /\ caller'.op = caller.op /\ caller'.pc = caller.pc
    BY <1>4 DEF UnitTimeout, dataVars, SaveInv, Types, IsCall
  <2> QED
    BY <2>1, SaveFrame
<1>5. CASE PausedDataStep
  <2>1. UNCHANGED <<size, caller, disk>>
    BY <1>5, DataLeavesCalls DEF PausedDataStep, DataStep
  <2>2. Quiet = TRUE => caller # Idle /\ clearing = {}
    BY <1>0, <2>1 DEF Idle, CallOk
  <2>3. ASSUME Quiet = TRUE
        PROVE  controller.held \subseteq controller'.held /\ \A i \in controller.held : controller'.owner[i] = controller.owner[i]
    <3>1. ASSUME NEW k, Register(k)
          PROVE  controller.held \subseteq controller'.held /\ \A i \in controller.held : controller'.owner[i] = controller.owner[i]
      BY <3>1, RegisterOwns DEF SamplesOk, IsState, Owned
    <3>2. ASSUME NEW i, Store(i) \/ Notify(i)
          PROVE  controller.held \subseteq controller'.held /\ controller'.owner = controller.owner
      BY <3>2 DEF Store, Notify, SamplesOk, IsState
    <3>3. ASSUME NEW i, MarkClearing(i) \/ Remove(i) \/ Release(i)
          PROVE  FALSE
      BY <2>2, <2>3, <3>3 DEF MarkClearing, Remove, Release
    <3> QED
      BY <1>5, <3>1, <3>2, <3>3 DEF PausedDataStep
  <2> QED
    BY <2>1, <2>3, WrittenStays, SaveFrame
<1>6. CASE LoadBegin \/ LoadController \/ Stop \/ LosePower
  <2>1. caller' = Idle \/ caller' = Call("load", "units", Units)
    <3>1. CASE LoadBegin
      <4>1. CallCheckpoint /\ (caller' = caller \/ caller' = Call("load", "units", Units))
        BY <3>1, Zenon DEF LoadBegin
      <4> QED
        BY <4>1, CallFindsNoClearing
    <3>2. CASE LoadController \/ Stop \/ LosePower
      BY <3>2 DEF LoadController, Stop, LosePower, Restart, Return
    <3> QED
      BY <1>6, <3>1, <3>2
  <2> QED
    BY <1>0, <2>1 DEF Idle, Call
<1>7. CASE \/ \E keys \in SUBSET Keys : DumpBegin(keys)
           \/ LoadRowsBegin \/ SyncShards \/ WriteManifests \/ SyncStaging \/ Publish \/ DumpEnds \/ NotifyRows
  <2>1. caller' = Idle \/ \E op \in {"dump", "load_rows"} : \E pc, open : caller' = Call(op, pc, open)
    BY <1>7, Zenon DEF DumpBegin, LoadRowsBegin, SyncShards, WriteManifests, SyncStaging, Publishing, Publish,
       DumpEnds, NotifyRows, Return
  <2> QED
    BY <1>0, <2>1 DEF Idle, Call
<1>8. CASE UNCHANGED allVars
  BY <1>8, SaveFrame DEF allVars, vars, dataVars
<1> QED
  BY <1>1, <1>2, <1>3, <1>4, <1>5, <1>6, <1>7, <1>8 DEF PNext, CheckpointStep, DumpStep

-----------------------------------------------------------------------------
(* The changes of a directory, field by field.                             *)
LEMMA WithShards ==
  ASSUME NEW d, IsDump(d), NEW a, NEW b, NEW x, x = [d EXCEPT !.files = a, !.shards = b]
  PROVE  x = [rows |-> d.rows, shards |-> b, files |-> a, synced |-> d.synced,
          durable |-> d.durable, there |-> d.there]
BY DEF IsDump

LEMMA WithSynced ==
  ASSUME NEW d, IsDump(d), NEW a, NEW b, NEW x, x = [d EXCEPT !.files = a, !.synced = b]
  PROVE  x = [rows |-> d.rows, shards |-> d.shards, files |-> a, synced |-> b,
          durable |-> d.durable, there |-> d.there]
BY DEF IsDump

LEMMA WithFiles ==
  ASSUME NEW d, IsDump(d), NEW a, NEW x, x = [d EXCEPT !.files = a]
  PROVE  x = [rows |-> d.rows, shards |-> d.shards, files |-> a, synced |-> d.synced,
          durable |-> d.durable, there |-> d.there]
BY DEF IsDump

LEMMA AllSynced ==
  ASSUME NEW d, IsDump(d), NEW a, NEW x, x = [d EXCEPT !.synced = a]
  PROVE  x = [rows |-> d.rows, shards |-> d.shards, files |-> d.files, synced |-> a,
          durable |-> d.durable, there |-> d.there]
BY DEF IsDump

LEMMA NowThere ==
  ASSUME NEW d, IsDump(d), NEW x, x = [d EXCEPT !.there = TRUE]
  PROVE  x = [rows |-> d.rows, shards |-> d.shards, files |-> d.files, synced |-> d.synced,
          durable |-> d.durable, there |-> TRUE]
BY DEF IsDump

LEMMA NowDurable ==
  ASSUME NEW d, IsDump(d), NEW x, x = [d EXCEPT !.durable = TRUE]
  PROVE  x = [rows |-> d.rows, shards |-> d.shards, files |-> d.files, synced |-> d.synced,
          durable |-> TRUE, there |-> d.there]
BY DEF IsDump

LEMMA NoDumpIsDump == IsDump(NoDump) /\ NoDump.there = FALSE /\ NoDump.shards = << >>
BY DEF IsDump, NoDump

LEMMA DumpedIsWanted ==
  ASSUME DumpOk, dump.there = TRUE, NEW k \in Produced(dump.rows)
  PROVE  Dumped(dump.rows[k].index) = wanted[k].value
<1> DEFINE i == dump.rows[k].index
           u == CHOOSE x \in DOMAIN dump.shards : i \in DOMAIN dump.shards[x]
<1>1. \E x \in DOMAIN dump.shards : i \in DOMAIN dump.shards[x]
  BY DEF DumpOk
<1>2. u \in DOMAIN dump.shards /\ i \in DOMAIN dump.shards[u]
  BY <1>1
<1>3. Dumped(i) = dump.shards[u][i]
  BY DEF Dumped
<1> HIDE DEF u
<1> QED
  BY <1>2, <1>3 DEF DumpOk, Faithful, Produced

(* What a unit writes are its rows' values, and those are what is wanted.  *)
LEMMA ShardWritten ==
  ASSUME SaveInv, RowsStay, DumpRequests, Faithful(staged), ShardsCover, IsDump(staged),
         NEW u \in Units, Asked(u, "dump"), inbox[u][1].call = Number(calls),
         NEW rows, rows = inbox[u][1].rows,
         NEW new, new = Put(staged.shards, u, [i \in {r.index : r \in rows} |-> Stored(i)]),
         staged' = [rows |-> staged.rows, shards |-> new, files |-> staged.files \cup {"shards"},
                    synced |-> staged.synced, durable |-> staged.durable, there |-> staged.there],
         UNCHANGED <<wanted, size>>
  PROVE  /\ Faithful(staged)' /\ staged'.rows = staged.rows
         /\ \A k \in Produced(staged.rows) :
              \/ staged.rows[k].index % size = u
              \/ Covered(staged, staged.rows[k].index % size, staged.rows[k].index)
              => Covered(staged', staged.rows[k].index % size, staged.rows[k].index)
<1> DEFINE mine == [i \in {r.index : r \in rows} |-> Stored(i)]
<1>1. 1 \in 1..Len(inbox[u])
  BY HeadIsFirst
<1>2. /\ DOMAIN new = DOMAIN staged.shards \cup {u} /\ new[u] = mine
      /\ \A v \in DOMAIN staged.shards : v # u => new[v] = staged.shards[v]
  BY DEF Put
<1>3. DOMAIN mine = {r.index : r \in rows} /\ \A i \in DOMAIN mine : mine[i] = Stored(i)
  OBVIOUS
<1>4. staged'.rows = staged.rows /\ staged'.shards = new
  OBVIOUS
<1> HIDE DEF mine
<1>5. ASSUME NEW k \in DOMAIN staged.rows
      PROVE  Stored(staged.rows[k].index) = wanted[k].value
  BY <1>5 DEF Stored, UnitOf, RowsStay, At
<1>6. ASSUME NEW v \in DOMAIN new, NEW k \in DOMAIN staged.rows, staged.rows[k].index \in DOMAIN new[v]
      PROVE  new[v][staged.rows[k].index] = wanted[k].value
  <2>1. CASE v = u
    BY <1>2, <1>3, <1>5, <1>6, <2>1
  <2>2. CASE v # u
    BY <1>2, <1>6, <2>2 DEF Faithful
  <2> QED
    BY <2>1, <2>2
<1>7. Faithful(staged)'
  BY <1>4, <1>6 DEF Faithful
<1>8. ASSUME NEW k \in Produced(staged.rows), staged.rows[k].index % size = u
      PROVE  staged.rows[k].index \in DOMAIN mine
  BY <1>1, <1>3, <1>8 DEF DumpRequests
<1>9. ASSUME NEW k \in Produced(staged.rows),
             \/ staged.rows[k].index % size = u
             \/ Covered(staged, staged.rows[k].index % size, staged.rows[k].index)
      PROVE  Covered(staged', staged.rows[k].index % size, staged.rows[k].index)
  <2>1. CASE staged.rows[k].index % size = u
    BY <1>2, <1>4, <1>8, <2>1 DEF Covered
  <2>2. CASE staged.rows[k].index % size # u
    BY <1>2, <1>4, <1>9, <2>2 DEF Covered
  <2> QED
    BY <2>1, <2>2
<1> QED
  BY <1>4, <1>7, <1>9

LEMMA ServeDumpChanges ==
  ASSUME SaveInv, DumpOk, NEW u \in Units, ServeDump(u)
  PROVE  /\ UNCHANGED <<size, controller, units, clearing, written, mode, calls, dump, wanted, target, lost>>
         /\ Asked(u, "dump")
         /\ \E success \in BOOLEAN :
              /\ Served(u, success)
              /\ \/ staged' = staged /\ ~(success /\ inbox[u][1].call = Number(calls) /\ caller.op = "dump")
                 \/ /\ success /\ inbox[u][1].call = Number(calls) /\ caller.op = "dump"
                    /\ staged' =
                         [rows |-> staged.rows,
                          shards |-> Put(staged.shards, u, [i \in {r.index : r \in inbox[u][1].rows} |-> Stored(i)]),
                          files |-> staged.files \cup {"shards"},
                          synced |-> staged.synced, durable |-> staged.durable, there |-> staged.there]
<1>1. /\ UNCHANGED <<size, controller, units, clearing, written, mode, calls, dump, wanted, target, lost>>
      /\ Asked(u, "dump")
  BY DEF ServeDump, dataVars
<1>2. Head(inbox[u]) = inbox[u][1]
  BY <1>1, HeadIsFirst
<1> DEFINE new == Put(staged.shards, u, [i \in {r.index : r \in inbox[u][1].rows} |-> Stored(i)])
           more == staged.files \cup {"shards"}
<1>3. PICK success \in BOOLEAN :
        /\ Served(u, success)
        /\ staged' = IF success /\ inbox[u][1].call = Number(calls) /\ caller.op = "dump"
                     THEN [staged EXCEPT !.files = @ \cup {"shards"},
                             !.shards = Put(@, u, [i \in {r.index : r \in inbox[u][1].rows} |-> Stored(i)])]
                     ELSE staged
  BY <1>2 DEF ServeDump
<1>4. staged' = IF success /\ inbox[u][1].call = Number(calls) /\ caller.op = "dump"
                THEN [staged EXCEPT !.files = more, !.shards = new]
                ELSE staged
  BY <1>3
<1> HIDE DEF new, more
<1>5. [staged EXCEPT !.files = more, !.shards = new] =
        [rows |-> staged.rows, shards |-> new, files |-> more, synced |-> staged.synced,
         durable |-> staged.durable, there |-> staged.there]
  BY WithShards DEF DumpOk
<1> QED
  BY <1>1, <1>3, <1>4, <1>5 DEF new, more

-----------------------------------------------------------------------------
LEMMA WithRows ==
  ASSUME NEW a, NEW x, x = [NoDump EXCEPT !.rows = a]
  PROVE  x = [rows |-> a, shards |-> << >>, files |-> {}, synced |-> {}, durable |-> FALSE, there |-> FALSE]
BY DEF NoDump

(* What is published is as good as before.                                 *)
LEMMA DumpFrame ==
  ASSUME DumpOk, IsDump(staged'), IsDump(dump'), wanted' = wanted,
         dump'.rows = dump.rows, dump'.shards = dump.shards, dump'.files = dump.files,
         dump'.synced = dump.synced, dump'.there = dump.there
  PROVE  DumpOk'
BY DEF DumpOk, IsDump, Faithful, Produced

(* The files and their names get there one after the other.                *)
LEMMA PublishingChanges ==
  ASSUME IsDump(staged), SyncShards \/ WriteManifests \/ SyncStaging
  PROVE  /\ IsDump(staged') /\ staged'.rows = staged.rows /\ staged'.shards = staged.shards
         /\ WriteManifests => staged'.files = Files
         /\ SyncStaging => staged'.files = staged.files /\ staged'.synced = Files
<1> DEFINE more  == staged.files \cup {"shards", "shard_info"}
           names == {"shards", "shard_info"}
<1>1. CASE SyncShards
  <2>1. staged' = [staged EXCEPT !.files = more, !.synced = names] /\ caller.pc = "units"
    BY <1>1 DEF SyncShards, Publishing
  <2> HIDE DEF more, names
  <2>2. staged' = [rows |-> staged.rows, shards |-> staged.shards, files |-> more, synced |-> names,
                   durable |-> staged.durable, there |-> staged.there]
    BY <2>1, WithSynced
  <2>3. ~WriteManifests /\ ~SyncStaging
    BY <2>1 DEF WriteManifests, SyncStaging, Publishing
  <2> QED
    BY <2>2, <2>3 DEF IsDump
<1>2. CASE WriteManifests
  <2>1. staged' = [staged EXCEPT !.files = Files] /\ caller.pc = "manifests"
    BY <1>2 DEF WriteManifests, Publishing
  <2>2. staged' = [rows |-> staged.rows, shards |-> staged.shards, files |-> Files, synced |-> staged.synced,
                   durable |-> staged.durable, there |-> staged.there]
    BY <2>1, WithFiles
  <2>3. ~SyncStaging
    BY <2>1 DEF SyncStaging, Publishing
  <2> QED
    BY <2>2, <2>3 DEF IsDump
<1>3. CASE SyncStaging
  <2>1. staged' = [staged EXCEPT !.synced = Files] /\ caller.pc = "sync"
    BY <1>3 DEF SyncStaging, Synced, Publishing
  <2>2. staged' = [rows |-> staged.rows, shards |-> staged.shards, files |-> staged.files, synced |-> Files,
                   durable |-> staged.durable, there |-> staged.there]
    BY <2>1, AllSynced
  <2>3. ~WriteManifests
    BY <2>1 DEF WriteManifests, Publishing
  <2> QED
    BY <2>2, <2>3 DEF IsDump
<1> QED
  BY <1>1, <1>2, <1>3

LEMMA PublishOk ==
  ASSUME DumpOk, DumpingOk, Publish
  PROVE  DumpOk'
<1>1. /\ caller.op = "dump" /\ caller.pc = "rename" /\ wanted' = wanted
      /\ dump' = [staged EXCEPT !.there = TRUE] /\ staged' = NoDump
  BY DEF Publish
<1>2. dump' = [rows |-> staged.rows, shards |-> staged.shards, files |-> staged.files, synced |-> staged.synced,
               durable |-> staged.durable, there |-> TRUE]
  BY <1>1, NowThere DEF DumpOk
<1>3. Faithful(staged) /\ staged.files = Files /\ staged.synced = Files
  BY <1>1 DEF DumpingOk, Dumping, Writing, FilesSoFar
<1>4. \A k \in Produced(staged.rows) :
        Covered(staged, staged.rows[k].index % size, staged.rows[k].index)
  BY <1>1 DEF DumpingOk, Dumping, Writing, ShardsCover, Answered
<1>5. /\ dump'.rows = staged.rows /\ dump'.shards = staged.shards
      /\ dump'.files = Files /\ dump'.synced = Files /\ IsDump(dump')
  BY <1>2, <1>3 DEF IsDump
<1>6. IsDump(staged')
  BY <1>1, NoDumpIsDump
<1>7. \A k \in Produced(dump'.rows) : \E u \in DOMAIN dump'.shards : dump'.rows[k].index \in DOMAIN dump'.shards[u]
  BY <1>4, <1>5 DEF Covered
<1>8. Faithful(dump)'
  BY <1>1, <1>3, <1>5 DEF Faithful
<1>9. IsDump(dump)' /\ IsDump(staged)'
  BY <1>5, <1>6 DEF IsDump
<1> QED
  BY <1>5, <1>7, <1>8, <1>9 DEF DumpOk, Produced

LEMMA LosePowerDump ==
  ASSUME DumpOk, LosePower
  PROVE  DumpOk'
<1>1. staged' = NoDump /\ wanted' = wanted
  BY DEF LosePower
<1>2. IsDump(staged')
  BY <1>1, NoDumpIsDump
<1>3. CASE dump' = NoDump
  <2>1. IsDump(dump') /\ dump'.there = FALSE
    BY <1>3, NoDumpIsDump
  <2> QED
    BY <1>2, <2>1 DEF DumpOk, IsDump
<1>4. ASSUME NEW kept \in SUBSET dump.files, dump.synced \subseteq kept, dump' = [dump EXCEPT !.files = kept]
      PROVE  DumpOk'
  <2>1. dump' = [rows |-> dump.rows, shards |-> dump.shards, files |-> kept, synced |-> dump.synced,
                 durable |-> dump.durable, there |-> dump.there]
    BY <1>4, WithFiles DEF DumpOk
  <2>2. /\ dump'.rows = dump.rows /\ dump'.shards = dump.shards /\ dump'.files = kept
        /\ dump'.synced = dump.synced /\ dump'.there = dump.there /\ IsDump(dump')
    BY <2>1 DEF IsDump
  <2>3. dump.there = TRUE => kept = Files
    BY <1>4 DEF DumpOk
  <2> QED
    BY <1>1, <1>2, <2>2, <2>3 DEF DumpOk, IsDump, Faithful, Produced
<1> QED
  BY <1>3, <1>4 DEF LosePower

LEMMA DumpKept ==
  ASSUME SaveInv, DumpOk, DumpingOk, [PNext]_allVars
  PROVE  DumpOk'
<1>1. ASSUME NEW keys, DumpBegin(keys)
      PROVE  DumpOk'
  <2>1. dump' = dump /\ ~dump.there /\ staged' = [NoDump EXCEPT !.rows = Described(keys)]
    BY <1>1 DEF DumpBegin
  <2>2. IsDump(staged')
    BY <2>1, WithRows DEF IsDump
  <2> QED
    BY <2>1, <2>2 DEF DumpOk, IsDump
<1>2. ASSUME NEW u \in Units, ServeDump(u)
      PROVE  DumpOk'
  <2>1. UNCHANGED <<dump, wanted>>
    BY <1>2, ServeDumpChanges
  <2>2. \/ staged' = staged
        \/ \E new, more : staged' = [rows |-> staged.rows, shards |-> new, files |-> more,
                            synced |-> staged.synced, durable |-> staged.durable, there |-> staged.there]
    BY <1>2, ServeDumpChanges
  <2>3. IsDump(staged')
    BY <2>2 DEF IsDump, DumpOk
  <2> QED
    BY <2>1, <2>3, DumpFrame DEF DumpOk
<1>3. CASE SyncShards \/ WriteManifests \/ SyncStaging
  <2>1. UNCHANGED <<dump, wanted>>
    BY <1>3 DEF SyncShards, WriteManifests, SyncStaging, Publishing
  <2>2. IsDump(staged')
    BY <1>3, PublishingChanges DEF DumpOk
  <2> QED
    BY <2>1, <2>2, DumpFrame DEF DumpOk
<1>4. CASE Publish
  BY <1>4, PublishOk
<1>5. CASE DumpEnds
  <2>1. dump' = [dump EXCEPT !.durable = TRUE] /\ UNCHANGED <<staged, wanted>>
    BY <1>5 DEF DumpEnds
  <2>2. dump' = [rows |-> dump.rows, shards |-> dump.shards, files |-> dump.files, synced |-> dump.synced,
                 durable |-> TRUE, there |-> dump.there]
    BY <2>1, NowDurable DEF DumpOk
  <2>3. /\ dump'.rows = dump.rows /\ dump'.shards = dump.shards /\ dump'.files = dump.files
        /\ dump'.synced = dump.synced /\ dump'.there = dump.there /\ IsDump(dump')
    BY <2>2 DEF IsDump
  <2> QED
    BY <2>1, <2>3, DumpFrame DEF DumpOk
<1>6. CASE LosePower
  BY <1>6, LosePowerDump
<1>7. CASE UNCHANGED <<staged, dump, wanted>>
  BY <1>7, DumpFrame DEF DumpOk
<1>8. ASSUME NEW u \in Units, ServeLoadRows(u)
      PROVE  UNCHANGED <<staged, dump, wanted>>
  BY <1>8 DEF ServeLoadRows, dumpVars
<1>9. CASE LoadRowsBegin \/ NotifyRows \/ UNCHANGED dumpVars \/ UNCHANGED allVars
  BY <1>7, <1>9 DEF LoadRowsBegin, NotifyRows, dumpVars, allVars
<1> QED
  BY <1>1, <1>2, <1>3, <1>4, <1>5, <1>6, <1>7, <1>8, <1>9 DEF PNext, DumpStep

-----------------------------------------------------------------------------
(* What is stored of other samples stays.                                  *)
LEMMA DataElsewhere ==
  ASSUME SamplesOk, size \in Nat \ {0}, NEW i \in Indexes,
         Store(i) \/ Notify(i) \/ MarkClearing(i) \/ Remove(i) \/ Release(i)
  PROVE  \A j \in Nat : j # i => At(units'[j % size], j) = At(units[j % size], j)
<1> SUFFICES ASSUME NEW j \in Nat, j # i
             PROVE  At(units'[j % size], j) = At(units[j % size], j)
  OBVIOUS
<1>1. j % size \in Units /\ i % size \in Units
  BY UnitsOwn DEF Indexes
<1>2. CASE units' = units
  BY <1>2
<1>3. ASSUME NEW new, units' = [units EXCEPT ![i % size] = new],
             new = Put(units[i % size], i, count + 1) \/ new = Drop(units[i % size], i)
      PROVE  At(units'[j % size], j) = At(units[j % size], j)
  <2>1. units' = [u \in Units |-> IF u = i % size THEN new ELSE units[u]]
    BY <1>1, <1>3 DEF SamplesOk
  <2>2. units'[j % size] = IF j % size = i % size THEN new ELSE units[j % size]
    BY <1>1, <2>1
  <2>3. At(new, j) = At(units[i % size], j)
    BY <1>3 DEF At, Put, Drop
  <2> QED
    BY <2>2, <2>3
<1>4. Store(i) => units' = [units EXCEPT ![i % size] = Put(units[i % size], i, count + 1)]
  BY <1>1 DEF Store, UnitOf, SamplesOk
<1>5. Remove(i) => units' = [units EXCEPT ![i % size] = Drop(units[i % size], i)]
  BY <1>1 DEF Remove, UnitOf, SamplesOk
<1>6. Notify(i) \/ MarkClearing(i) \/ Release(i) => units' = units
  BY DEF Notify, MarkClearing, Release
<1> QED
  BY <1>2, <1>3, <1>4, <1>5, <1>6

(* The rows under dump are not written, cleared or moved.                  *)
LEMMA DataRowsStay ==
  ASSUME SaveInv, SamplesOk, DumpingOk, Dumping, PausedDataStep, UNCHANGED dumpVars
  PROVE  RowsStay'
<1>1. UNCHANGED <<size, staged, wanted>> /\ caller.op = "dump" /\ size \in Nat \ {0}
  BY DataLeavesCalls DEF PausedDataStep, DataStep, dumpVars, Dumping, SaveInv, Types
<1>2. RowsStay /\ DOMAIN wanted = DOMAIN staged.rows
  BY DEF DumpingOk, Faithful
<1> SUFFICES ASSUME NEW k \in DOMAIN staged.rows, NEW j, j = staged.rows[k].index
             PROVE  /\ j \in Owned' /\ controller'.owner[j].key = k
                    /\ At(units'[j % size], j) = wanted[k].value
  BY <1>1 DEF RowsStay
<1>3. j \in Owned /\ controller.owner[j].key = k /\ At(units[j % size], j) = wanted[k].value /\ j \in Nat
  <2>1. j \in Owned /\ controller.owner[j].key = k /\ At(units[j % size], j) = wanted[k].value
    BY <1>2 DEF RowsStay
  <2>2. Owned \subseteq Nat
    BY DEF SamplesOk, IsState, Owned, Indexes
  <2> QED
    BY <2>1, <2>2
<1>4. Paused(j)
  BY <1>1, <1>2, <1>3 DEF Paused
<1>5. ASSUME NEW l \in Keys, Register(l)
      PROVE  /\ j \in Owned' /\ controller'.owner[j].key = k
             /\ At(units'[j % size], j) = wanted[k].value
  BY <1>3, <1>5, RegisterOwns
<1>6. ASSUME NEW i \in Indexes, ~Paused(i), Store(i) \/ Notify(i) \/ MarkClearing(i) \/ Remove(i) \/ Release(i)
      PROVE  /\ j \in Owned' /\ controller'.owner[j].key = k
             /\ At(units'[j % size], j) = wanted[k].value
  <2>1. i # j
    BY <1>4, <1>6
  <2>2. j \in Owned' /\ controller'.owner[j] = controller.owner[j]
    BY <1>3, <1>6, <2>1, DataOwns
  <2>3. At(units'[j % size], j) = At(units[j % size], j)
    BY <1>1, <1>3, <1>6, <2>1, DataElsewhere
  <2> QED
    BY <1>3, <2>2, <2>3
<1> QED
  BY <1>5, <1>6 DEF PausedDataStep

LEMMA DumpingFrame ==
  ASSUME DumpingOk, UNCHANGED <<size, calls, staged, wanted, dump>>,
         caller'.op = caller.op, caller'.pc = caller.pc, \A u : Answered(u)' => Answered(u),
         \A u \in Units : \A n \in 1..Len(inbox'[u]) : \E m \in 1..Len(inbox[u]) : inbox'[u][n] = inbox[u][m],
         Dumping => RowsStay'
  PROVE  DumpingOk'
<1> SUFFICES ASSUME Dumping'
             PROVE  DumpingOk'
  BY DEF DumpingOk
<1>1. Dumping
  BY DEF Dumping
<1>2. dump.there # TRUE /\ Faithful(staged) /\ DumpRequests /\ ShardsCover /\ FilesSoFar
  BY <1>1 DEF DumpingOk
<1>3. Faithful(staged)' /\ FilesSoFar'
  BY <1>2 DEF Faithful, FilesSoFar
<1>4. DumpRequests'
  <2> SUFFICES ASSUME NEW u \in Units, NEW n \in 1..Len(inbox'[u]), inbox'[u][n].call = Number(calls),
                      NEW k \in Produced(staged.rows), staged.rows[k].index % size = u
               PROVE  \E r \in inbox'[u][n].rows : r.index = staged.rows[k].index
    BY DEF DumpRequests, Units, Produced
  <2>1. PICK m \in 1..Len(inbox[u]) : inbox'[u][n] = inbox[u][m]
    OBVIOUS
  <2>2. \E r \in inbox[u][m].rows : r.index = staged.rows[k].index
    BY <1>2, <2>1 DEF DumpRequests
  <2> QED
    BY <2>1, <2>2
<1>5. ShardsCover'
  BY <1>2 DEF ShardsCover, Covered, Produced
<1> QED
  BY <1>1, <1>2, <1>3, <1>4, <1>5 DEF DumpingOk

LEMMA DumpBeginDumping ==
  ASSUME SaveInv, SamplesOk, NEW keys, DumpBegin(keys)
  PROVE  DumpingOk'
<1>0. PICK rows : rows = Described(keys)
  OBVIOUS
<1>a. PICK asked : asked = ByUnit(rows, [k \in keys |-> rows[k].index])
  OBVIOUS
<1>1. /\ UNCHANGED <<size, controller, units, dump>> /\ ~dump.there /\ CallDump
      /\ staged' = [NoDump EXCEPT !.rows = rows]
      /\ wanted' = [k \in keys |-> [value |-> Stored(IndexOf(k)), ready |-> rows[k].ready]]
      /\ caller' = Call("dump", "units", DOMAIN asked) /\ Ask("dump", asked, Number(calls'))
      /\ \A k \in keys : Known(k)
  BY <1>0, <1>a DEF DumpBegin, dataVars
<1>2. /\ DOMAIN rows = keys
      /\ \A k \in keys : rows[k].index = IndexOf(k) /\ rows[k].ready \in BOOLEAN
  <2>1. \A k \in keys : rows[k].index = IndexOf(k) /\ rows[k].ready = (IndexOf(k) \in controller.ready)
    BY <1>0 DEF Described
  <2>2. \A k : (IndexOf(k) \in controller.ready) \in BOOLEAN
    OBVIOUS
  <2>3. DOMAIN rows = keys
    BY <1>0 DEF Described
  <2> QED
    BY <2>1, <2>2, <2>3
<1>3. \A k \in Produced(rows) : /\ rows[k].index % size \in DOMAIN asked
                                /\ \E r \in asked[rows[k].index % size] : r.index = rows[k].index
  <2>1. DOMAIN rows = keys /\ Produced(rows) \subseteq keys
    BY <1>0 DEF Described, Produced
  <2> SUFFICES ASSUME NEW k \in Produced(rows), NEW u, u = rows[k].index % size
               PROVE  u \in DOMAIN asked /\ \E r \in asked[u] : r.index = rows[k].index
    OBVIOUS
  <2> DEFINE index == [x \in keys |-> rows[x].index]
  <2>2. index[k] = rows[k].index
    BY <2>1
  <2>3. asked = ByUnit(rows, index)
    BY <1>a
  <2> HIDE DEF index
  <2>4. u \in DOMAIN asked
    BY <2>2, <2>3 DEF ByUnit, UnitOf
  <2>5. asked[u] = {[key |-> x, source |-> rows[x].index, index |-> index[x],
                     number |-> controller.owner'[index[x]].number] :
                       x \in {y \in Produced(rows) : UnitOf(index[y]) = u}}
    BY <2>3, <2>4 DEF ByUnit
  <2>6. k \in {y \in Produced(rows) : UnitOf(index[y]) = u}
    BY <2>2 DEF UnitOf
  <2>7. [key |-> k, source |-> rows[k].index, index |-> index[k],
         number |-> controller.owner'[index[k]].number] \in asked[u]
    BY <2>5, <2>6
  <2> QED
    BY <2>2, <2>4, <2>7
<1>4. Produced(rows) \subseteq keys
  BY <1>2 DEF Produced
<1>5. staged'.rows = rows /\ staged'.shards = << >>
  <2>1. staged' = [rows |-> rows, shards |-> << >>, files |-> {}, synced |-> {}, durable |-> FALSE, there |-> FALSE]
    BY <1>1, WithRows
  <2> QED
    BY <2>1
<1>6. caller'.op = "dump" /\ caller'.pc = "units" /\ caller'.open = DOMAIN asked
  BY <1>1 DEF Call
<1>7. \A k \in keys : IndexOf(k) \in Owned /\ controller.owner[IndexOf(k)].key = k
  BY <1>1 DEF Known, IndexOf
<1>8. /\ DOMAIN wanted' = keys
      /\ \A k \in keys : wanted'[k].value = Stored(IndexOf(k)) /\ wanted'[k].ready = rows[k].ready
  BY <1>1
<1>9. Faithful(staged)'
  <2>1. DOMAIN staged'.shards = {}
    BY <1>5
  <2> QED
    BY <1>2, <1>5, <1>8, <2>1 DEF Faithful
<1>10. RowsStay'
  <2>1. \A k \in keys : Stored(IndexOf(k)) = At(units[IndexOf(k) % size], IndexOf(k))
    BY DEF Stored, At, UnitOf
  <2> QED
    BY <1>1, <1>2, <1>5, <1>7, <1>8, <2>1 DEF RowsStay, Owned
<1>11. DumpRequests'
  <2> SUFFICES ASSUME NEW u \in Units, NEW n \in 1..Len(inbox'[u]), inbox'[u][n].call = Number(calls'),
                      NEW k \in Produced(rows), rows[k].index % size = u
               PROVE  \E r \in inbox'[u][n].rows : r.index = rows[k].index
    BY <1>1, <1>5 DEF DumpRequests, Units, Produced
  <2>1. /\ u \in DOMAIN asked /\ Len(inbox[u]) \in Nat /\ Len(inbox'[u]) = Len(inbox[u]) + 1
        /\ inbox'[u][Len(inbox[u]) + 1] = [kind |-> "dump", call |-> Number(calls'), rows |-> asked[u]]
        /\ \A i \in 1..Len(inbox[u]) : inbox'[u][i] = inbox[u][i]
    BY <1>1, <1>3, AskedAppends
  <2>2. Number(calls') \in Nat /\ \A i \in 1..Len(inbox[u]) : inbox[u][i].call < Number(calls')
    BY <1>1, CallsAreNew
  <2>3. \A i \in 1..Len(inbox[u]) : inbox[u][i].call # Number(calls')
    BY <2>2 DEF SaveInv, Types, Inboxes
  <2>4. n = Len(inbox[u]) + 1
    <3>1. n \notin 1..Len(inbox[u])
      BY <2>1, <2>3
    <3>2. n \in 1..(Len(inbox[u]) + 1)
      BY <2>1
    <3> QED
      BY <2>1, <3>1, <3>2
  <2>5. inbox'[u][n].rows = asked[u]
    BY <2>1, <2>4
  <2> QED
    BY <1>3, <2>5
<1>12. ShardsCover'
  <2>1. \A u \in DOMAIN asked : ~Answered(u)'
    BY <1>6 DEF Answered
  <2>2. \A k \in Produced(staged'.rows) : staged'.rows[k].index % size' \in DOMAIN asked
    BY <1>1, <1>3, <1>5
  <2> QED
    BY <2>1, <2>2 DEF ShardsCover, Produced
<1>13. FilesSoFar'
  BY <1>6 DEF FilesSoFar
<1> QED
  BY <1>1, <1>9, <1>10, <1>11, <1>12, <1>13 DEF DumpingOk

(* A request of the dump's that fails leaves the dump unanswered.          *)
LEMMA DumpNotHeard ==
  ASSUME SaveInv, DumpingOk, UNCHANGED <<size, controller, units, calls, staged, wanted, dump>>,
         NEW u \in Units, NEW kind, Asked(u, kind), NEW success \in BOOLEAN, Served(u, success),
         ~success \/ caller' = caller
  PROVE  DumpingOk'
<1>1. \A v \in Units : \A n \in 1..Len(inbox'[v]) : \E m \in 1..Len(inbox[v]) : inbox'[v][n] = inbox[v][m]
  BY ServedLeaves DEF SaveInv
<1>2. \/ caller' = caller
      \/ /\ caller' = [op |-> caller.op, pc |-> caller.pc, open |-> caller.open \ {u},
                       failed |-> caller.failed \/ ~success]
         /\ ~success
  BY ServedHeard
<1>a. caller.failed \in BOOLEAN
  BY DEF SaveInv, Types, IsCall
<1>b. ASSUME caller' # caller
      PROVE  caller'.op = caller.op /\ caller'.pc = caller.pc /\ caller'.failed = TRUE
  <2>1. /\ caller' = [op |-> caller.op, pc |-> caller.pc, open |-> caller.open \ {u},
                      failed |-> caller.failed \/ ~success]
        /\ ~success
    BY <1>2, <1>b
  <2>2. (caller.failed \/ ~success) = TRUE
    BY <1>a, <2>1
  <2> QED
    BY <2>1, <2>2
<1>3. caller'.op = caller.op /\ caller'.pc = caller.pc /\ (caller' = caller \/ caller'.failed = TRUE)
  BY <1>b
<1>4. \A v : Answered(v)' => Answered(v)
  <2>1. CASE caller' = caller
    BY <2>1 DEF Answered
  <2>2. CASE caller'.failed
    BY <1>3, <2>2 DEF Answered
  <2> QED
    BY <1>3, <2>1, <2>2
<1>5. Dumping => RowsStay'
  BY DEF DumpingOk, RowsStay, Owned
<1> QED
  BY <1>1, <1>3, <1>4, <1>5, DumpingFrame

(* A unit serves another call's request.                                   *)
LEMMA OthersNotHeard ==
  ASSUME SaveInv, OrderOk, NEW u \in Units, NEW kind, Asked(u, kind), NEW success, Served(u, success),
         caller.op # "none", caller.op # kind
  PROVE  caller' = caller
<1>1. \/ caller' = caller
      \/ inbox[u][1].call = Number(calls)
  BY ServedHeard
<1>2. 1 \in 1..Len(inbox[u]) /\ inbox[u][1].kind = kind
  BY HeadIsFirst
<1> QED
  BY <1>1, <1>2 DEF OrderOk

LEMMA ServeDumpDumping ==
  ASSUME SaveInv, OrderOk, DumpOk, DumpingOk, NEW u \in Units, ServeDump(u)
  PROVE  DumpingOk'
<1>1. /\ UNCHANGED <<size, controller, units, calls, dump, wanted>> /\ Asked(u, "dump")
  BY ServeDumpChanges
<1>2. PICK success \in BOOLEAN :
        /\ Served(u, success)
        /\ \/ staged' = staged /\ ~(success /\ inbox[u][1].call = Number(calls) /\ caller.op = "dump")
           \/ /\ success /\ inbox[u][1].call = Number(calls) /\ caller.op = "dump"
              /\ staged' =
                   [rows |-> staged.rows,
                    shards |-> Put(staged.shards, u, [i \in {r.index : r \in inbox[u][1].rows} |-> Stored(i)]),
                    files |-> staged.files \cup {"shards"},
                    synced |-> staged.synced, durable |-> staged.durable, there |-> staged.there]
  BY ServeDumpChanges
<1>3. \/ caller' = caller
      \/ /\ inbox[u][1].call = Number(calls) /\ u \in caller.open
         /\ caller' = [op |-> caller.op, pc |-> caller.pc, open |-> caller.open \ {u},
                       failed |-> caller.failed \/ ~success]
  BY <1>1, <1>2, ServedHeard
<1>4. caller'.op = caller.op /\ caller'.pc = caller.pc
  BY <1>3
<1> SUFFICES ASSUME Dumping'
             PROVE  DumpingOk'
  BY DEF DumpingOk
<1>5. Dumping /\ caller.op = "dump"
  BY <1>4 DEF Dumping
<1>6. CASE staged' = staged /\ ~(success /\ inbox[u][1].call = Number(calls))
  <2>1. ~success \/ caller' = caller
    BY <1>3, <1>6
  <2> QED
    BY <1>1, <1>2, <1>6, <2>1, DumpNotHeard
<1>7. CASE /\ success /\ inbox[u][1].call = Number(calls)
           /\ staged' =
                [rows |-> staged.rows,
                 shards |-> Put(staged.shards, u, [i \in {r.index : r \in inbox[u][1].rows} |-> Stored(i)]),
                 files |-> staged.files \cup {"shards"},
                 synced |-> staged.synced, durable |-> staged.durable, there |-> staged.there]
  <2>1. dump.there # TRUE /\ Faithful(staged) /\ RowsStay /\ DumpRequests /\ ShardsCover /\ FilesSoFar
    BY <1>5 DEF DumpingOk
  <2>2. IsDump(staged)
    BY DEF DumpOk
  <2>3. /\ Faithful(staged)' /\ staged'.rows = staged.rows
        /\ \A k \in Produced(staged.rows) :
              \/ staged.rows[k].index % size = u
              \/ Covered(staged, staged.rows[k].index % size, staged.rows[k].index)
              => Covered(staged', staged.rows[k].index % size, staged.rows[k].index)
    <3> DEFINE new == Put(staged.shards, u, [i \in {r.index : r \in inbox[u][1].rows} |-> Stored(i)])
    <3>1. staged' = [rows |-> staged.rows, shards |-> new, files |-> staged.files \cup {"shards"},
                    synced |-> staged.synced, durable |-> staged.durable, there |-> staged.there]
      BY <1>7
    <3>2. UNCHANGED <<wanted, size>>
      BY <1>1
    <3> QED
      BY <1>1, <1>7, <2>1, <2>2, <3>1, <3>2, ShardWritten
  <2>4. \A v : v # u /\ Answered(v)' => Answered(v)
    <3>1. CASE caller' = caller
      BY <3>1 DEF Answered
    <3>2. CASE caller' = [op |-> caller.op, pc |-> caller.pc, open |-> caller.open \ {u},
                          failed |-> caller.failed \/ ~success]
      <4>1. caller.failed \in BOOLEAN
        BY DEF SaveInv, Types, IsCall
      <4>2. caller'.failed = caller.failed /\ caller'.open = caller.open \ {u}
        BY <1>7, <3>2, <4>1
      <4> QED
        BY <1>4, <4>2 DEF Answered
    <3> QED
      BY <1>3, <3>1, <3>2
  <2>5. ShardsCover'
    <3>1. \A k \in Produced(staged.rows) :
            Answered(staged.rows[k].index % size)' =>
              Covered(staged, staged.rows[k].index % size, staged.rows[k].index)'
      BY <1>1, <2>1, <2>3, <2>4 DEF ShardsCover, Covered
    <3> QED
      BY <1>1, <2>3, <3>1 DEF ShardsCover, Produced
  <2>6. FilesSoFar'
    <3>1. staged'.files = staged.files \cup {"shards"} /\ staged'.synced = staged.synced
      BY <1>7
    <3>2. staged.files = Files => staged'.files = Files
      BY <3>1 DEF Files
    <3> QED
      BY <1>4, <2>1, <3>1, <3>2 DEF FilesSoFar
  <2>7. RowsStay'
    BY <1>1, <2>1, <2>3 DEF RowsStay, Owned
  <2>8. DumpRequests'
    <3>1. \A v \in Units : \A n \in 1..Len(inbox'[v]) : \E m \in 1..Len(inbox[v]) : inbox'[v][n] = inbox[v][m]
      BY <1>1, <1>2, ServedLeaves DEF SaveInv
    <3> SUFFICES ASSUME NEW v \in Units, NEW n \in 1..Len(inbox'[v]), inbox'[v][n].call = Number(calls),
                        NEW k \in Produced(staged.rows), staged.rows[k].index % size = v
                 PROVE  \E r \in inbox'[v][n].rows : r.index = staged.rows[k].index
      BY <1>1, <2>3 DEF DumpRequests, Units, Produced
    <3>2. PICK m \in 1..Len(inbox[v]) : inbox'[v][n] = inbox[v][m]
      BY <3>1
    <3>3. \E r \in inbox[v][m].rows : r.index = staged.rows[k].index
      BY <2>1, <3>2 DEF DumpRequests
    <3> QED
      BY <3>2, <3>3
  <2> QED
    BY <1>1, <2>1, <2>3, <2>5, <2>6, <2>7, <2>8 DEF DumpingOk
<1> QED
  BY <1>2, <1>5, <1>6, <1>7

LEMMA PublishingDumping ==
  ASSUME DumpOk, DumpingOk, SyncShards \/ WriteManifests \/ SyncStaging
  PROVE  DumpingOk'
<1>1. /\ UNCHANGED <<size, controller, units, inbox, calls, dump, wanted>>
      /\ caller.op = "dump" /\ caller.pc \in Writing
      /\ caller.pc = "units" => caller.open = {} /\ ~caller.failed
  BY DEF SyncShards, WriteManifests, SyncStaging, Publishing, dataVars, AllAnswered, Writing
<1>2. \/ caller' = Call("dump", "manifests", {})
      \/ caller' = Call("dump", "sync", {}) /\ WriteManifests
      \/ caller' = Call("dump", "rename", {}) /\ SyncStaging /\ caller.pc = "sync"
  BY DEF SyncShards, WriteManifests, SyncStaging, Publishing
<1>3. /\ caller'.pc \in Writing \ {"units"}
      /\ caller'.pc = "sync" => WriteManifests
      /\ caller'.pc = "rename" => SyncStaging /\ caller.pc = "sync"
  BY <1>2 DEF Call, Writing
<1>4. /\ IsDump(staged') /\ staged'.rows = staged.rows /\ staged'.shards = staged.shards
      /\ WriteManifests => staged'.files = Files
      /\ SyncStaging => staged'.files = staged.files /\ staged'.synced = Files
  BY PublishingChanges DEF DumpOk
<1>5. dump.there # TRUE /\ Faithful(staged) /\ RowsStay /\ DumpRequests /\ ShardsCover /\ FilesSoFar
  BY <1>1 DEF DumpingOk, Dumping
<1>6. Faithful(staged)'
  BY <1>1, <1>4, <1>5 DEF Faithful
<1>7. RowsStay' /\ DumpRequests'
  BY <1>1, <1>4, <1>5 DEF RowsStay, DumpRequests, Owned, Units, Produced
<1>8. ShardsCover'
  BY <1>1, <1>4, <1>5 DEF ShardsCover, Answered, Covered, Produced
<1>9. FilesSoFar'
  BY <1>3, <1>4, <1>5 DEF FilesSoFar
<1> QED
  BY <1>1, <1>5, <1>6, <1>7, <1>8, <1>9 DEF DumpingOk

LEMMA NotDumpingIsOk ==
  ASSUME ~Dumping'
  PROVE  DumpingOk'
BY DEF DumpingOk

LEMMA DumpingKept ==
  ASSUME SaveInv, SamplesOk, CallOk, RequestsOk, DumpOk, DumpingOk, [PNext]_allVars
  PROVE  DumpingOk'
<1> SUFFICES ASSUME caller'.op = "dump", Dumping'
             PROVE  DumpingOk'
  BY NotDumpingIsOk DEF Dumping
<1>1. ASSUME NEW keys, DumpBegin(keys)
      PROVE  DumpingOk'
  BY <1>1, DumpBeginDumping
<1>2. ASSUME NEW u \in Units, ServeDump(u)
      PROVE  DumpingOk'
  BY <1>2, ServeDumpDumping DEF RequestsOk
<1>3. ASSUME NEW u \in Units, ServeSave(u), UNCHANGED dumpVars
      PROVE  DumpingOk'
  <2>1. /\ UNCHANGED <<size, controller, units, calls, staged, wanted, dump>> /\ Asked(u, "save")
        /\ \E success \in BOOLEAN : Served(u, success)
    BY <1>3 DEF ServeSave, dataVars, dumpVars
  <2>2. caller.op = "dump"
    BY <2>1, ServedKeepsOp
  <2>3. caller' = caller
    BY <2>1, <2>2, OthersNotHeard DEF RequestsOk
  <2> QED
    BY <2>1, <2>3, DumpNotHeard
<1>4. ASSUME NEW u \in Units, ServeLoad(u) \/ ServeLoadRows(u)
      PROVE  FALSE
  <2>1. /\ UNCHANGED <<size, calls>>
        /\ \E kind \in {"load", "load_rows"} : \E success \in BOOLEAN : Asked(u, kind) /\ Served(u, success)
    BY <1>4, RowsLoaded DEF ServeLoad, ServeLoadRows
  <2>2. caller.op = "dump" /\ Dumping
    BY <2>1, ServedKeepsOp DEF Dumping
  <2>3. mode # "loading" /\ dump.there # TRUE
    BY <2>2 DEF CallOk, Working, DumpingOk
  <2>4. PICK kind \in {"load", "load_rows"} : Asked(u, kind)
    BY <2>1
  <2>5. 1 \in 1..Len(inbox[u]) /\ inbox[u][1].kind = kind
    BY <2>4, HeadIsFirst
  <2> QED
    BY <2>3, <2>4, <2>5 DEF RequestsOk, PendingOk, Pending
<1>5. ASSUME NEW u \in Units, UnitTimeout(u), UNCHANGED dumpVars
      PROVE  DumpingOk'
  <2>1. /\ UNCHANGED <<size, controller, units, inbox, calls, staged, wanted, dump>>
        /\ caller'.op = caller.op /\ caller'.pc = caller.pc /\ caller'.failed = TRUE
    BY <1>5 DEF UnitTimeout, SaveInv, Types, IsCall, dataVars, dumpVars
  <2>2. \A v : Answered(v)' => Answered(v)
    BY <2>1 DEF Answered
  <2>3. Dumping => RowsStay'
    BY <2>1 DEF DumpingOk, RowsStay, Owned
  <2> QED
    BY <2>1, <2>2, <2>3, DumpingFrame
<1>6. CASE SyncShards \/ WriteManifests \/ SyncStaging
  BY <1>6, PublishingDumping
<1>7. CASE PausedDataStep /\ UNCHANGED dumpVars
  <2>1. UNCHANGED <<size, calls, inbox, caller, staged, wanted, dump>>
    BY <1>7, DataLeavesCalls DEF PausedDataStep, DataStep, dumpVars
  <2>2. \A v : Answered(v)' => Answered(v)
    BY <2>1 DEF Answered
  <2> QED
    BY <1>7, <2>1, <2>2, DataRowsStay, DumpingFrame
<1>8. CASE UNCHANGED allVars
  <2>1. UNCHANGED <<size, controller, units, calls, inbox, caller, staged, wanted, dump>>
    BY <1>8 DEF allVars, vars, dataVars, dumpVars
  <2>2. (\A v : Answered(v)' => Answered(v)) /\ (Dumping => RowsStay')
    BY <2>1 DEF Answered, DumpingOk, RowsStay, Owned
  <2> QED
    BY <2>1, <2>2, DumpingFrame
<1>9. CASE \/ SaveBegin \/ SaveController \/ SaveManifests \/ MoveAside \/ Install \/ Tidy \/ SaveFails
           \/ SaveRestores \/ LoadController \/ Stop \/ LosePower
  <2>1. caller' = Idle \/ (caller' = caller /\ caller.op = "save") \/ \E pc, open : caller' = Call("save", pc, open)
    BY <1>9, Zenon DEF SaveBegin, SaveController, SaveManifests, MoveAside, Install, Tidy, SaveFails, SaveRestores,
       LoadController, Stop, LosePower, Restart, Return
  <2> QED
    BY <2>1 DEF Idle, Call
<1>10. CASE LoadBegin \/ LoadRowsBegin \/ NotifyRows
  <2>1. (caller' = caller /\ caller = Idle) \/ \E op \in {"load", "load_rows"} : \E pc, open : caller' = Call(op, pc, open)
    <3>1. CASE LoadBegin
      <4>1. CallCheckpoint /\ (caller' = caller \/ caller' = Call("load", "units", Units))
        BY <3>1, Zenon DEF LoadBegin
      <4> QED
        BY <4>1, CallFindsNoClearing
    <3>2. CASE LoadRowsBegin \/ NotifyRows
      BY <3>2, Zenon DEF LoadRowsBegin, NotifyRows
    <3> QED
      BY <1>10, <3>1, <3>2
  <2> QED
    BY <2>1 DEF Idle, Call
<1>11. CASE Publish \/ DumpEnds
  <2>1. caller' = Idle \/ caller' = Call("dump", "parent", {})
    BY <1>11 DEF Publish, DumpEnds, Return
  <2> QED
    BY <2>1 DEF Idle, Call, Dumping, Writing
<1> QED
  BY <1>1, <1>2, <1>3, <1>4, <1>5, <1>6, <1>7, <1>8, <1>9, <1>10, <1>11 DEF PNext, CheckpointStep, DumpStep

-----------------------------------------------------------------------------
(* What the controller has of other samples stays.                         *)
LEMMA DataHeld ==
  ASSUME SamplesOk, NEW i, Store(i) \/ Notify(i) \/ MarkClearing(i) \/ Remove(i) \/ Release(i)
  PROVE  \A j : j # i => /\ (j \in controller'.held) = (j \in controller.held)
                         /\ (j \in controller'.ready) = (j \in controller.ready)
<1>1. CASE Store(i) \/ Remove(i)
  BY <1>1 DEF Store, Remove
<1>2. CASE Notify(i)
  <2>1. PICK ready \in BOOLEAN :
        controller' = [controller EXCEPT !.held = @ \cup {i}, !.ready = IF ready THEN @ \cup {i} ELSE @ \ {i}]
    BY <1>2 DEF Notify
  <2>2. /\ controller'.held = controller.held \cup {i}
        /\ controller'.ready = controller.ready \cup {i} \/ controller'.ready = controller.ready \ {i}
    BY <2>1 DEF SamplesOk, IsState
  <2> QED
    BY <2>2
<1>3. CASE MarkClearing(i)
  <2>1. controller'.held = controller.held /\ controller'.ready = controller.ready \ {i}
    BY <1>3 DEF MarkClearing, SamplesOk, IsState
  <2> QED
    BY <2>1
<1>4. CASE Release(i)
  <2>1. controller'.held = controller.held \ {i} /\ controller'.ready = controller.ready \ {i}
    BY <1>4 DEF Release
  <2> QED
    BY <2>1
<1> QED
  BY <1>1, <1>2, <1>3, <1>4

(* A step that leaves the rows under load alone.                           *)
RowsKeep ==
  \A k \in DOMAIN dump.rows :
    LET i == target[k]
    IN  /\ i \in Owned' /\ controller'.owner[i] = controller.owner[i]
        /\ (i \in controller'.held) = (i \in controller.held)
        /\ (i \in controller'.ready) = (i \in controller.ready)

LEMMA LoadingFrame ==
  ASSUME LoadingOk, UNCHANGED <<size, calls, target, lost, wanted>>, dump' = dump, mode' = "live",
         caller'.op = caller.op, caller'.pc = caller.pc,
         \A u \in Units : \A n \in 1..Len(inbox'[u]) : \E m \in 1..Len(inbox[u]) : inbox'[u][n] = inbox[u][m],
         caller.op = "load_rows" =>
           RowsKeep /\ \A k \in Produced(dump.rows) : Answered(target[k] % size)' => Restored(k)'
  PROVE  LoadingOk'
<1> SUFFICES ASSUME caller.op = "load_rows"
             PROVE  LoadingOk'
  BY DEF LoadingOk
<1>1. TargetsStay /\ LoadRequests /\ RowsNotified /\ RowsKeep
  BY DEF LoadingOk
<1>2. \A k \in Produced(dump.rows) : k \in DOMAIN dump.rows
  BY DEF Produced
<1>3. TargetsStay'
  BY <1>1 DEF TargetsStay, RowsKeep
<1>4. LoadRequests'
  <2> SUFFICES ASSUME NEW u \in Units, NEW n \in 1..Len(inbox'[u]), inbox'[u][n].call = Number(calls),
                      NEW k \in Produced(dump.rows), target[k] % size = u
               PROVE  \E r \in inbox'[u][n].rows : r.index = target[k]
    BY DEF LoadRequests, Units, Produced
  <2>1. PICK m \in 1..Len(inbox[u]) : inbox'[u][n] = inbox[u][m]
    OBVIOUS
  <2>2. \E r \in inbox[u][m].rows : r.index = target[k]
    BY <1>1, <2>1 DEF LoadRequests
  <2> QED
    BY <2>1, <2>2
<1>5. RowsRestored'
  BY DEF RowsRestored, Produced
<1>6. RowsNotified'
  <2> SUFFICES ASSUME caller.pc = "tags", ~lost, NEW k \in Produced(dump.rows)
               PROVE  target[k] \in controller'.held /\ (target[k] \in controller'.ready) = wanted[k].ready
    BY DEF RowsNotified, Produced
  <2>1. target[k] \in controller.held /\ (target[k] \in controller.ready) = wanted[k].ready
    BY <1>1 DEF RowsNotified
  <2>2. /\ (target[k] \in controller'.held) = (target[k] \in controller.held)
        /\ (target[k] \in controller'.ready) = (target[k] \in controller.ready)
    BY <1>1, <1>2, Zenon DEF RowsKeep
  <2> QED
    BY <2>1, <2>2
<1> QED
  BY <1>3, <1>4, <1>5, <1>6 DEF LoadingOk

(* Restored rows stay so when nothing is done to the samples.              *)
LEMMA RestoredStays ==
  ASSUME LoadingOk, UNCHANGED <<size, controller, units, target, wanted>>, dump' = dump,
         written \subseteq written', \A u : Answered(u)' => Answered(u), caller.op = "load_rows"
  PROVE  RowsKeep /\ \A k \in Produced(dump.rows) : Answered(target[k] % size)' => Restored(k)'
<1>1. TargetsStay /\ RowsRestored
  BY DEF LoadingOk
<1>2. RowsKeep
  BY <1>1 DEF RowsKeep, TargetsStay, Owned
<1>3. ASSUME NEW k \in Produced(dump.rows), Answered(target[k] % size)'
      PROVE  Restored(k)'
  <2>1. Answered(target[k] % size)
    BY <1>3 DEF Answered
  <2>2. Restored(k)
    BY <1>1, <2>1 DEF RowsRestored
  <2> QED
    BY <2>2 DEF Restored, Has
<1> QED
  BY <1>2, <1>3

(* The rows under load are not written, cleared or moved.                  *)
LEMMA DataRowsKeep ==
  ASSUME SaveInv, SamplesOk, RequestsOk, LoadingOk, caller.op = "load_rows", [PNext]_allVars,
         PausedDataStep, UNCHANGED dumpVars
  PROVE  RowsKeep /\ \A k \in Produced(dump.rows) : Answered(target[k] % size)' => Restored(k)'
<1>1. UNCHANGED <<size, caller, dump, target, wanted>> /\ size \in Nat \ {0}
  BY DataLeavesCalls DEF PausedDataStep, DataStep, dumpVars, SaveInv, Types
<1>2. TargetsStay /\ RowsRestored /\ written \subseteq written'
  BY WrittenStays DEF LoadingOk
<1>3. ASSUME NEW k \in DOMAIN dump.rows, NEW j, j = target[k]
      PROVE  /\ j \in Owned' /\ controller'.owner[j] = controller.owner[j]
             /\ (j \in controller'.held) = (j \in controller.held)
             /\ (j \in controller'.ready) = (j \in controller.ready)
             /\ At(units'[j % size], j) = At(units[j % size], j)
  <2>1. j \in Owned /\ controller.owner[j].key = k /\ j \in Nat
    BY <1>2, <1>3 DEF TargetsStay, SamplesOk, IsState, Owned, Indexes
  <2>2. Paused(j)
    BY <2>1 DEF Paused
  <2>3. ASSUME NEW l \in Keys, Register(l)
        PROVE  /\ j \in Owned' /\ controller'.owner[j] = controller.owner[j]
               /\ (j \in controller'.held) = (j \in controller.held)
               /\ (j \in controller'.ready) = (j \in controller.ready)
               /\ At(units'[j % size], j) = At(units[j % size], j)
    <3>1. controller'.ready = controller.ready
      BY <2>3 DEF Register, SamplesOk, IsState
    <3> QED
      BY <2>1, <2>3, <3>1, RegisterOwns
  <2>4. ASSUME NEW i \in Indexes, ~Paused(i), Store(i) \/ Notify(i) \/ MarkClearing(i) \/ Remove(i) \/ Release(i)
        PROVE  /\ j \in Owned' /\ controller'.owner[j] = controller.owner[j]
               /\ (j \in controller'.held) = (j \in controller.held)
               /\ (j \in controller'.ready) = (j \in controller.ready)
               /\ At(units'[j % size], j) = At(units[j % size], j)
    <3>1. i # j
      BY <2>2, <2>4
    <3>2. j \in Owned' /\ controller'.owner[j] = controller.owner[j]
      BY <2>1, <2>4, <3>1, DataOwns
    <3>3. At(units'[j % size], j) = At(units[j % size], j)
      BY <1>1, <2>1, <2>4, <3>1, DataElsewhere
    <3>4. (j \in controller'.held) = (j \in controller.held) /\ (j \in controller'.ready) = (j \in controller.ready)
      BY <2>4, <3>1, DataHeld
    <3> QED
      BY <3>2, <3>3, <3>4
  <2> QED
    BY <2>3, <2>4 DEF PausedDataStep
<1>4. RowsKeep
  BY <1>3 DEF RowsKeep
<1>5. ASSUME NEW k \in Produced(dump.rows), Answered(target[k] % size)'
      PROVE  Restored(k)'
  <2>1. Answered(target[k] % size)
    BY <1>1, <1>5 DEF Answered
  <2>2. Restored(k)
    BY <1>2, <2>1 DEF RowsRestored
  <2>3. /\ At(units'[target[k] % size], target[k]) = At(units[target[k] % size], target[k])
        /\ controller'.owner[target[k]] = controller.owner[target[k]]
    BY <1>3 DEF Produced
  <2> QED
    BY <1>1, <1>2, <2>2, <2>3 DEF Restored, Has
<1> QED
  BY <1>4, <1>5

(* A row that a unit loads is one that was dumped.                         *)
LEMMA RowIsItsKeys ==
  ASSUME DumpOk, TargetsStay, NEW u, NEW rows, RowsOk(rows, u), NEW r \in rows,
         NEW k \in Produced(dump.rows), r.index = target[k]
  PROVE  Dumped(r.source) = wanted[k].value /\ r.number = controller.owner[target[k]].number
<1>1. controller.owner[target[k]].key = k
  BY DEF TargetsStay, Produced
<1>2. r.key = k /\ r.source = dump.rows[k].index /\ r.number = controller.owner[target[k]].number
  BY <1>1 DEF RowsOk
<1> QED
  BY <1>2, DumpedIsWanted DEF TargetsStay

LEMMA ServeLoadRowsLoading ==
  ASSUME SaveInv, SamplesOk, RequestsOk, DumpOk, LoadingOk, NEW u \in Units, ServeLoadRows(u)
  PROVE  LoadingOk'
<1>1. UNCHANGED <<size, controller, calls, mode, dump, target, lost, wanted>> /\ Asked(u, "load_rows")
  BY DEF ServeLoadRows, dumpVars
<1>2. /\ mode = "live" /\ RowsOk(inbox[u][1].rows, u) /\ written \subseteq written'
      /\ \A j \in Nat :
              \/ At(units'[j % size], j) = At(units[j % size], j)
              \/ \E r \in inbox[u][1].rows :
                   /\ r.index = j /\ At(units'[j % size], j) = Dumped(r.source)
                   /\ <<r.number, Dumped(r.source)>> \in written'
  BY RowsLoaded
<1>3. PICK success \in BOOLEAN :
        /\ Served(u, success)
        /\ success => \A r \in inbox[u][1].rows :
             /\ At(units'[r.index % size], r.index) = Dumped(r.source)
             /\ <<r.number, Dumped(r.source)>> \in written'
  BY RowsLoaded
<1>4. \/ caller' = caller
      \/ /\ inbox[u][1].call = Number(calls) /\ u \in caller.open
         /\ caller' = [op |-> caller.op, pc |-> caller.pc, open |-> caller.open \ {u},
                       failed |-> caller.failed \/ ~success]
  BY <1>1, <1>3, ServedHeard
<1>5. caller'.op = caller.op /\ caller'.pc = caller.pc
  BY <1>4
<1>6. \A v \in Units : \A n \in 1..Len(inbox'[v]) : \E m \in 1..Len(inbox[v]) : inbox'[v][n] = inbox[v][m]
  BY <1>1, <1>3, ServedLeaves DEF SaveInv
<1>7. ASSUME caller.op = "load_rows"
      PROVE  RowsKeep /\ \A k \in Produced(dump.rows) : Answered(target[k] % size)' => Restored(k)'
  <2>1. TargetsStay /\ LoadRequests /\ RowsRestored
    BY <1>7 DEF LoadingOk
  <2>2. RowsKeep
    BY <1>1, <2>1 DEF RowsKeep, TargetsStay, Owned
  <2>3. ASSUME NEW k \in Produced(dump.rows), NEW r \in inbox[u][1].rows, r.index = target[k],
               At(units'[r.index % size], r.index) = Dumped(r.source),
               <<r.number, Dumped(r.source)>> \in written'
        PROVE  Restored(k)'
    <3>1. Dumped(r.source) = wanted[k].value /\ r.number = controller.owner[target[k]].number
      BY <1>2, <2>1, <2>3, RowIsItsKeys
    <3> QED
      BY <1>1, <2>3, <3>1 DEF Restored, Has
  <2>4. ASSUME NEW k \in Produced(dump.rows), Restored(k)
        PROVE  Restored(k)'
    <3>1. target[k] \in Nat
      BY <2>1 DEF TargetsStay, Produced, SamplesOk, IsState, Owned, Indexes
    <3>2. CASE At(units'[target[k] % size], target[k]) = At(units[target[k] % size], target[k])
      BY <1>1, <1>2, <2>4, <3>2 DEF Restored, Has
    <3>3. ASSUME NEW r \in inbox[u][1].rows,
                 r.index = target[k], At(units'[target[k] % size], target[k]) = Dumped(r.source),
                 <<r.number, Dumped(r.source)>> \in written'
          PROVE  Restored(k)'
      BY <2>3, <3>3
    <3> QED
      BY <1>2, <3>1, <3>2, <3>3
  <2>5. ASSUME NEW k \in Produced(dump.rows), Answered(target[k] % size)'
        PROVE  Restored(k)'
    <3>1. CASE Answered(target[k] % size)
      BY <2>1, <2>4, <3>1 DEF RowsRestored
    <3>2. CASE ~Answered(target[k] % size)
      <4>1. /\ caller.pc = "units"
            /\ inbox[u][1].call = Number(calls)
            /\ caller'.failed = (caller.failed \/ ~success) /\ caller'.open = caller.open \ {u}
        BY <1>1, <1>4, <2>5, <3>2 DEF Answered
      <4>2. caller.failed \in BOOLEAN
        BY DEF SaveInv, Types, IsCall
      <4>3. ~caller'.failed /\ target[k] % size \notin caller'.open
        BY <1>1, <1>5, <2>5, <4>1 DEF Answered
      <4>4. success /\ ~caller.failed
        BY <4>1, <4>2, <4>3
      <4>5. target[k] % size = u
        BY <3>2, <4>1, <4>3, <4>4 DEF Answered
      <4>6. 1 \in 1..Len(inbox[u])
        BY <1>1, HeadIsFirst
      <4>7. PICK r \in inbox[u][1].rows : r.index = target[k]
        BY <2>1, <4>1, <4>5, <4>6 DEF LoadRequests
      <4> QED
        BY <1>3, <2>3, <4>4, <4>7
    <3> QED
      BY <3>1, <3>2
  <2> QED
    BY <2>2, <2>5
<1> QED
  BY <1>1, <1>2, <1>5, <1>6, <1>7, LoadingFrame

LEMMA LoadRowsBeginLoading ==
  ASSUME SaveInv, SamplesOk, LoadRowsBegin
  PROVE  LoadingOk'
<1>0. PICK asked : asked = ByUnit(dump.rows, target')
  OBVIOUS
<1>1. /\ CallDump /\ size' = size /\ Ask("load_rows", asked, Number(calls'))
      /\ dump' = dump /\ mode' = "live" /\ dump.there = TRUE
      /\ caller' = Call("load_rows", "units", DOMAIN asked)
  BY <1>0 DEF LoadRowsBegin, Complete
<1>2. \A k \in DOMAIN dump.rows : target'[k] \in Owned' /\ controller'.owner[target'[k]].key = k
  BY LoadRowsBeginOwns
<1>3. /\ \A k \in Produced(dump.rows) : target'[k] % size \in DOMAIN asked
      /\ \A u \in DOMAIN asked :
           asked[u] = {[key |-> k, source |-> dump.rows[k].index, index |-> target'[k],
                        number |-> controller'.owner[target'[k]].number] :
                         k \in {x \in Produced(dump.rows) : target'[x] % size = u}}
  BY <1>0, RowsAsked
<1>4. caller'.op = "load_rows" /\ caller'.pc = "units" /\ caller'.open = DOMAIN asked
  BY <1>1 DEF Call
<1>5. TargetsStay'
  BY <1>1, <1>2 DEF TargetsStay
<1>6. LoadRequests'
  <2> SUFFICES ASSUME NEW u \in Units, NEW n \in 1..Len(inbox'[u]), inbox'[u][n].call = Number(calls'),
                      NEW k \in Produced(dump.rows), target'[k] % size = u
               PROVE  \E r \in inbox'[u][n].rows : r.index = target'[k]
    BY <1>1 DEF LoadRequests, Units, Produced
  <2>1. /\ u \in DOMAIN asked /\ Len(inbox[u]) \in Nat /\ Len(inbox'[u]) = Len(inbox[u]) + 1
        /\ inbox'[u][Len(inbox[u]) + 1] = [kind |-> "load_rows", call |-> Number(calls'), rows |-> asked[u]]
        /\ \A i \in 1..Len(inbox[u]) : inbox'[u][i] = inbox[u][i]
    BY <1>1, <1>3, AskedAppends
  <2>2. Number(calls') \in Nat /\ \A i \in 1..Len(inbox[u]) : inbox[u][i].call < Number(calls')
    BY <1>1, CallsAreNew
  <2>3. \A i \in 1..Len(inbox[u]) : inbox[u][i].call # Number(calls')
    BY <2>2 DEF SaveInv, Types, Inboxes
  <2>4. n = Len(inbox[u]) + 1
    <3>1. n \notin 1..Len(inbox[u])
      BY <2>1, <2>3
    <3>2. n \in 1..(Len(inbox[u]) + 1)
      BY <2>1
    <3> QED
      BY <2>1, <3>1, <3>2
  <2>5. inbox'[u][n].rows = asked[u]
    BY <2>1, <2>4
  <2>6. k \in {x \in Produced(dump.rows) : target'[x] % size = u}
    OBVIOUS
  <2>7. [key |-> k, source |-> dump.rows[k].index, index |-> target'[k],
         number |-> controller'.owner[target'[k]].number] \in asked[u]
    BY <1>3, <2>1, <2>6
  <2> QED
    BY <2>5, <2>7
<1>7. RowsRestored'
  <2>1. \A u \in DOMAIN asked : ~Answered(u)'
    BY <1>4 DEF Answered
  <2>2. \A k \in Produced(dump'.rows) : target'[k] % size' \in DOMAIN asked
    BY <1>1, <1>3
  <2> QED
    BY <2>1, <2>2 DEF RowsRestored, Produced
<1>8. RowsNotified'
  BY <1>4 DEF RowsNotified
<1> QED
  BY <1>5, <1>6, <1>7, <1>8 DEF LoadingOk

LEMMA NotifyRowsLoading ==
  ASSUME SamplesOk, DumpOk, LoadingOk, NotifyRows
  PROVE  LoadingOk'
<1>1. /\ UNCHANGED <<size, units, clearing, written, mode, inbox, calls, dump, wanted, target>>
      /\ caller.op = "load_rows" /\ caller.pc = "units" /\ caller.open = {} /\ ~caller.failed
      /\ caller' = Call("load_rows", "tags", {})
  BY NotifyRowsChanges DEF NotifyRows
<1>2. PICK heard \in SUBSET Produced(dump.rows) :
        /\ lost' = (heard # Produced(dump.rows))
        /\ controller' =
             [owner |-> controller.owner,
              held |-> controller.held \cup {target[k] : k \in heard},
              ready |-> (controller.ready \ {target[k] : k \in heard})
                          \cup {target[k] : k \in Ready(dump.rows) \cap heard}]
  BY NotifyRowsChanges
<1>3. TargetsStay /\ LoadRequests /\ \A k \in Produced(dump.rows) : Restored(k)
  BY <1>1 DEF LoadingOk, RowsRestored, Answered
<1>4. controller'.owner = controller.owner /\ Owned' = Owned
  BY <1>2 DEF Owned
<1>5. TargetsStay'
  BY <1>1, <1>3, <1>4 DEF TargetsStay
<1>6. LoadRequests'
  BY <1>1, <1>3 DEF LoadRequests, Units, Produced
<1>7. RowsRestored'
  BY <1>1, <1>3, <1>4 DEF RowsRestored, Restored, Has, Produced
<1>8. RowsNotified'
  <2> SUFFICES ASSUME ~lost', NEW k \in Produced(dump.rows)
               PROVE  target[k] \in controller'.held /\ (target[k] \in controller'.ready) = wanted[k].ready
    BY <1>1 DEF RowsNotified, Produced
  <2>1. heard = Produced(dump.rows)
    BY <1>2
  <2>2. /\ controller'.held = controller.held \cup {target[l] : l \in Produced(dump.rows)}
        /\ controller'.ready = (controller.ready \ {target[l] : l \in Produced(dump.rows)})
                                 \cup {target[l] : l \in Ready(dump.rows)}
    <3>1. Ready(dump.rows) \cap Produced(dump.rows) = Ready(dump.rows)
      BY DEF Ready
    <3> QED
      BY <1>2, <2>1, <3>1
  <2>3. ASSUME NEW l \in Produced(dump.rows), target[l] = target[k]
        PROVE  l = k
    BY <1>3, <2>3 DEF TargetsStay, Produced
  <2>4. dump.rows[k].ready = wanted[k].ready /\ dump.rows[k].ready \in BOOLEAN
    BY <1>3 DEF TargetsStay, DumpOk, Faithful, Produced
  <2>5. CASE dump.rows[k].ready = TRUE
    <3>1. k \in Ready(dump.rows)
      BY <2>5 DEF Ready
    <3>2. target[k] \in controller'.ready
      BY <2>2, <3>1
    <3>3. (target[k] \in controller'.ready) = TRUE
      BY <3>2
    <3> QED
      BY <2>2, <2>4, <2>5, <3>3
  <2>6. CASE dump.rows[k].ready = FALSE
    <3>1. target[k] \notin controller'.ready
      <4>1. \A l \in Ready(dump.rows) : target[l] # target[k]
        BY <2>3, <2>6 DEF Ready
      <4> QED
        BY <2>2, <4>1
    <3>2. (target[k] \in controller'.ready) = FALSE
      BY <3>1
    <3> QED
      BY <2>2, <2>4, <2>6, <3>2
  <2> QED
    BY <2>4, <2>5, <2>6
<1> QED
  BY <1>5, <1>6, <1>7, <1>8 DEF LoadingOk

LEMMA LoadingKept ==
  ASSUME SaveInv, SamplesOk, CallOk, RequestsOk, DumpOk, LoadingOk, [PNext]_allVars
  PROVE  LoadingOk'
<1> SUFFICES ASSUME caller'.op = "load_rows"
             PROVE  LoadingOk'
  BY DEF LoadingOk
<1>1. CASE LoadRowsBegin
  BY <1>1, LoadRowsBeginLoading
<1>2. ASSUME NEW u \in Units, ServeLoadRows(u)
      PROVE  LoadingOk'
  BY <1>2, ServeLoadRowsLoading
<1>3. CASE NotifyRows
  BY <1>3, NotifyRowsLoading
<1>4. CASE PausedDataStep /\ UNCHANGED dumpVars
  <2>1. UNCHANGED <<size, calls, inbox, caller, target, lost, wanted, dump>> /\ mode' = "live"
    BY <1>4, DataLeavesCalls DEF PausedDataStep, DataStep, dumpVars, DataOp, Register, Store, Notify, MarkClearing,
       Remove, Release
  <2> QED
    BY <1>4, <2>1, DataRowsKeep, LoadingFrame
<1>5. ASSUME NEW u \in Units, ServeSave(u) \/ ServeDump(u), UNCHANGED <<dump, target, lost, wanted>>
      PROVE  LoadingOk'
  <2>1. /\ UNCHANGED <<size, controller, units, written, calls, mode>>
        /\ \E kind \in {"save", "dump"} : \E success \in BOOLEAN : Asked(u, kind) /\ Served(u, success)
    BY <1>5 DEF ServeSave, ServeDump, dataVars
  <2>2. PICK kind \in {"save", "dump"}, success \in BOOLEAN : Asked(u, kind) /\ Served(u, success)
    BY <2>1
  <2>3. caller.op = "load_rows"
    BY <2>1, <2>2, ServedKeepsOp
  <2>4. caller' = caller
    BY <2>2, <2>3, OthersNotHeard DEF RequestsOk
  <2>5. \A v \in Units : \A n \in 1..Len(inbox'[v]) : \E m \in 1..Len(inbox[v]) : inbox'[v][n] = inbox[v][m]
    BY <2>1, <2>2, ServedLeaves DEF SaveInv
  <2>6. (\A v : Answered(v)' => Answered(v)) /\ mode' = "live"
    BY <2>1, <2>3, <2>4 DEF Answered, LoadingOk, TargetsStay
  <2> QED
    BY <1>5, <2>1, <2>3, <2>4, <2>5, <2>6, RestoredStays, LoadingFrame
<1>6. ASSUME NEW u \in Units, ServeLoad(u)
      PROVE  FALSE
  <2>1. UNCHANGED <<size, calls>> /\ Asked(u, "load") /\ \E success \in BOOLEAN : Served(u, success)
    BY <1>6 DEF ServeLoad
  <2>2. caller.op = "load_rows"
    BY <2>1, ServedKeepsOp
  <2> QED
    BY <1>6, <2>2, ServeLoadSamples DEF CallOk, Working
<1>7. ASSUME NEW u \in Units, UnitTimeout(u), UNCHANGED dumpVars
      PROVE  LoadingOk'
  <2>1. /\ UNCHANGED <<size, controller, units, written, inbox, calls, mode, target, lost, wanted, dump>>
        /\ caller'.op = caller.op /\ caller'.pc = caller.pc /\ caller'.failed = TRUE
    BY <1>7 DEF UnitTimeout, SaveInv, Types, IsCall, dataVars, dumpVars
  <2>2. (\A v : Answered(v)' => Answered(v)) /\ mode' = "live"
    BY <2>1 DEF Answered, LoadingOk, TargetsStay
  <2> QED
    BY <2>1, <2>2, RestoredStays, LoadingFrame
<1>8. CASE UNCHANGED allVars
  <2>1. UNCHANGED <<size, controller, units, written, inbox, calls, mode, target, lost, wanted, dump, caller>>
    BY <1>8 DEF allVars, vars, dataVars, dumpVars
  <2>2. (\A v : Answered(v)' => Answered(v)) /\ mode' = "live"
    BY <2>1 DEF Answered, LoadingOk, TargetsStay
  <2> QED
    BY <2>1, <2>2, RestoredStays, LoadingFrame
<1>9. CASE \/ SaveBegin \/ SaveController \/ SaveManifests \/ MoveAside \/ Install \/ Tidy \/ SaveFails
           \/ SaveRestores \/ LoadController \/ Stop \/ LosePower
  <2>1. caller' = Idle \/ (caller' = caller /\ caller.op = "save") \/ \E pc, open : caller' = Call("save", pc, open)
    BY <1>9, Zenon DEF SaveBegin, SaveController, SaveManifests, MoveAside, Install, Tidy, SaveFails, SaveRestores,
       LoadController, Stop, LosePower, Restart, Return
  <2> QED
    BY <2>1 DEF Idle, Call
<1>10. CASE LoadBegin \/ \E keys \in SUBSET Keys : DumpBegin(keys)
  <2>1. caller' = Idle \/ \E op \in {"load", "dump"} : \E pc, open : caller' = Call(op, pc, open)
    <3>1. CASE LoadBegin
      <4>1. CallCheckpoint /\ (caller' = caller \/ caller' = Call("load", "units", Units))
        BY <3>1, Zenon DEF LoadBegin
      <4> QED
        BY <4>1, CallFindsNoClearing
    <3>2. CASE \E keys \in SUBSET Keys : DumpBegin(keys)
      BY <3>2, Zenon DEF DumpBegin
    <3> QED
      BY <1>10, <3>1, <3>2
  <2> QED
    BY <2>1 DEF Idle, Call
<1>11. CASE SyncShards \/ WriteManifests \/ SyncStaging \/ Publish \/ DumpEnds
  <2>1. caller' = Idle \/ \E pc : caller' = Call("dump", pc, {})
    BY <1>11, Zenon DEF SyncShards, WriteManifests, SyncStaging, Publishing, Publish, DumpEnds, Return
  <2> QED
    BY <2>1 DEF Idle, Call
<1>12. \A u \in Units : ServeDump(u) => UNCHANGED <<dump, target, lost, wanted>>
  BY DEF ServeDump
<1>13. UNCHANGED dumpVars => UNCHANGED <<dump, target, lost, wanted>>
  BY DEF dumpVars
<1> QED
  BY <1>1, <1>2, <1>3, <1>4, <1>5, <1>6, <1>7, <1>8, <1>9, <1>10, <1>11, <1>12, <1>13
     DEF PNext, CheckpointStep, DumpStep

-----------------------------------------------------------------------------
LEMMA SamplesKept ==
  ASSUME SaveInv, SamplesOk, DirsOk, CallOk, LoadOk, RequestsOk, LoadingOk, [PNext]_allVars
  PROVE  SamplesOk'
<1>1. CASE UNCHANGED <<size, dataVars, mode>>
  BY <1>1, SamplesFrame DEF Samples, dataVars
<1>2. CASE CheckpointStep
  <2>1. CASE \/ SaveBegin \/ SaveController \/ SaveManifests \/ MoveAside \/ Install \/ Tidy \/ SaveFails
             \/ SaveRestores \/ Stop
    BY <1>1, <2>1 DEF SaveBegin, SaveController, SaveManifests, MoveAside, Install, Tidy, SaveFails, SaveRestores, Stop
  <2>2. ASSUME NEW u \in Units, ServeSave(u) \/ UnitTimeout(u)
        PROVE  SamplesOk'
    BY <1>1, <2>2 DEF ServeSave, UnitTimeout
  <2> QED
    BY <1>2, <2>1, <2>2, LoadBeginSamples, LoadControllerSamples, ServeLoadSamples DEF CheckpointStep
<1>3. CASE PausedDataStep
  <2>1. DataStep
    BY <1>3 DEF PausedDataStep, DataStep
  <2> QED
    BY <2>1, DataSamples DEF SaveInv, Types
<1>4. CASE DumpStep
  <2>1. CASE SyncShards \/ WriteManifests \/ SyncStaging \/ Publish \/ DumpEnds
    BY <1>1, <2>1 DEF SyncShards, WriteManifests, SyncStaging, Publishing, Publish, DumpEnds
  <2>2. ASSUME NEW keys, DumpBegin(keys)
        PROVE  SamplesOk'
    BY <1>1, <2>2 DEF DumpBegin
  <2>3. ASSUME NEW u \in Units, ServeDump(u)
        PROVE  SamplesOk'
    BY <1>1, <2>3 DEF ServeDump
  <2> QED
    BY <1>4, <2>1, <2>2, <2>3, LoadRowsBeginSamples, ServeLoadRowsSamples, NotifyRowsSamples DEF DumpStep
<1>5. CASE LosePower
  BY <1>5, RestartSamples DEF LosePower
<1>6. CASE UNCHANGED allVars
  BY <1>1, <1>6 DEF allVars, vars
<1> QED
  BY <1>2, <1>3, <1>4, <1>5, <1>6 DEF PNext

LEMMA PInitEstablishes == PInit => PInv
<1> SUFFICES ASSUME PInit
             PROVE  PInv
  OBVIOUS
<1>1. /\ controller = NoSamples /\ clearing = {} /\ mode = "fresh" /\ caller = Idle
      /\ units = [u \in Units |-> << >>] /\ inbox = [u \in Units |-> << >>]
      /\ disk = [main |-> NoDir, tmp |-> NoDir, old |-> NoDir]
      /\ staged = NoDump /\ dump = NoDump
  BY DEF PInit, Init, Start, Units
<1>2. caller.op = "none"
  BY <1>1 DEF Idle
<1>3. SamplesOk
  BY <1>1, EmptyIsState DEF SamplesOk
<1>4. DirsOk
  BY <1>1, NoMetaIsOk DEF DirsOk
<1>5. CallOk
  BY <1>1, <1>2 DEF CallOk, Working
<1>6. SaveOk /\ LoadOk /\ DumpingOk /\ LoadingOk
  BY <1>2 DEF SaveOk, Saving, LoadOk, DumpingOk, Dumping, LoadingOk
<1>7. RequestsOk
  <2>1. \A u \in Units : Len(inbox[u]) = 0
    BY <1>1, EmptyIsSeq
  <2> QED
    BY <2>1 DEF RequestsOk, OrderOk, PendingOk
<1>8. DumpOk
  BY <1>1, NoDumpIsDump DEF DumpOk
<1> QED
  BY <1>3, <1>4, <1>5, <1>6, <1>7, <1>8 DEF PInv

LEMMA PInvHolds == PSpec => []PInv
<1>1. PInit => PInv
  BY PInitEstablishes
<1>2. SaveInv /\ PInv /\ [PNext]_allVars => PInv'
  <2> SUFFICES ASSUME SaveInv, PInv, [PNext]_allVars
               PROVE  PInv'
    OBVIOUS
  <2>1. SamplesOk' /\ DirsOk'
    BY SamplesKept, DirsKept DEF PInv
  <2>2. CallOk' /\ SaveOk' /\ LoadOk'
    BY CallKept, SaveKept, LoadKept DEF PInv, RequestsOk
  <2>3. RequestsOk'
    BY OrderKept, PendingKept DEF PInv, RequestsOk
  <2>4. DumpOk' /\ DumpingOk' /\ LoadingOk'
    BY DumpKept, DumpingKept, LoadingKept DEF PInv
  <2> QED
    BY <2>1, <2>2, <2>3, <2>4 DEF PInv
<1> QED
  BY <1>1, <1>2, SaveInvHolds, PTL DEF PSpec

(* What the controller takes for written, its unit has as it was written   *)
(* for that sample: while samples are put and cleared beside saves, after  *)
(* _handle_load_checkpoint and after load_data_by_key, whatever is late or *)
(* fails, as long as clears and saves keep out of each other's way.        *)
THEOREM HeldStaysStored ==
  ASSUME Quiet = TRUE
  PROVE  PSpec => []HeldIsStored
<1>1. PInv => HeldIsStored
  <2> SUFFICES ASSUME PInv, mode # "loading", NEW i \in controller.held \ clearing
               PROVE  <<controller.owner[i].number, Stored(i)>> \in written
    BY DEF HeldIsStored
  <2>1. Has(controller, i, At(units[i % size], i), written)
    BY DEF PInv, SamplesOk
  <2>2. Stored(i) = At(units[i % size], i)
    BY DEF Stored, At, UnitOf
  <2> QED
    BY <2>1, <2>2 DEF Has
<1> QED
  BY <1>1, PInvHolds, PTL

(* publish_dump: a dump that is there has all its files, and each row with *)
(* the value its key had when the dump began, also after a loss of power   *)
(* and whichever answers of the units came too late.                       *)
THEOREM PublishedStaysComplete == PSpec => []PublishedIsComplete
<1>1. PInv => PublishedIsComplete
  <2> SUFFICES ASSUME PInv, dump.there
               PROVE  Complete(dump) /\ \A k \in Produced(dump.rows) : Dumped(dump.rows[k].index) = wanted[k].value
    BY DEF PublishedIsComplete
  <2>1. DumpOk /\ dump.there = TRUE
    BY DEF PInv
  <2>2. Complete(dump)
    BY <2>1 DEF DumpOk, Complete
  <2> QED
    BY <2>1, <2>2, DumpedIsWanted
<1> QED
  BY <1>1, PInvHolds, PTL

(* load_data_by_key puts each row back under its key, with the value and   *)
(* the readiness it had, at whatever index and unit the key has then.      *)
THEOREM LoadsRestoreRows == PSpec => []LoadedAsDumped
<1>1. PInv => LoadedAsDumped
  <2> SUFFICES ASSUME PInv, caller.op = "load_rows", caller.pc = "tags", ~lost,
                      NEW k \in Produced(dump.rows), NEW i, i = IndexOf(k)
               PROVE  /\ Known(k) /\ i \in controller.held /\ Stored(i) = wanted[k].value
                      /\ (i \in controller.ready) = wanted[k].ready
    BY DEF LoadedAsDumped
  <2>1. TargetsStay /\ RowsRestored /\ RowsNotified
    BY DEF PInv, LoadingOk
  <2>2. target[k] \in Owned /\ controller.owner[target[k]].key = k
    BY <2>1 DEF TargetsStay, Produced
  <2>3. Known(k)
    BY <2>2 DEF Known
  <2>4. i = target[k]
    <3>1. i \in Owned /\ controller.owner[i].key = k
      BY <2>2 DEF IndexOf
    <3> QED
      BY <2>2, <3>1 DEF PInv, SamplesOk, IsState, Owned
  <2>5. i \in controller.held /\ (i \in controller.ready) = wanted[k].ready
    BY <2>1, <2>4 DEF RowsNotified
  <2>6. Restored(k)
    BY <2>1 DEF RowsRestored, Answered
  <2>7. Stored(i) = At(units[i % size], i)
    BY DEF Stored, At, UnitOf
  <2> QED
    BY <2>3, <2>4, <2>5, <2>6, <2>7 DEF Restored
<1> QED
  BY <1>1, PInvHolds, PTL
=============================================================================
