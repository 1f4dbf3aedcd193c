--------------------------- MODULE DataPlaneProofs ---------------------------
(***************************************************************************)
(* Theorems about the data plane for careful users (ClearBusy = FALSE) and *)
(* any number of calls, units, partitions, samples, fields and keys, any   *)
(* unit size and any number of attempts.                                   *)
(*                                                                         *)
(* The inductive invariant has two layers.  The calls layer relates what   *)
(* calls work on to what the controller records: the samples of a call     *)
(* under way are there, and a call that removes works alone.  The units    *)
(* layer relates both to the units and their inboxes: no request that is   *)
(* still to be served spoils a cell that is ready, or promised to a get,   *)
(* or stored by a put that has yet to notify.  It rests on the inboxes'    *)
(* order: what may spoil a cell was sent before the put that stores it.    *)
(***************************************************************************)
EXTENDS DataPlane, ControllerProofs

(* A call under way; one that removes, and may have begun to.              *)
Alive(call)    == call.phase \notin {"none", "ended"}
Removes(call)  == call.op \in {"clear", "clear_all", "drop"}
Removing(call) == Removes(call) /\ call.phase # "marking"
Overlap(a, b)  == a.p = b.p /\ a.S \cap b.S # {}

(* Calls that remove work alone; but a get may come to other fields of     *)
(* samples whose fields are dropped.                                       *)
Compatible(a, b) ==
  Overlap(a, b) =>
    /\ ~(Removes(a) /\ Removes(b))
    /\ Removing(a) => a.op = "drop" /\ b.op = "get" /\ a.fs \cap b.fs = {}

(* What its phase says of a call.                                          *)
WellFormed(call) ==
  /\ call.phase = "none" <=> call.op = "idle"
  /\ call.phase \in {"opened", "notify"} => call.op = "put"
  /\ call.phase = "marking" => call.op = "clear_all"
  /\ call.phase # "units" => call.open = {} /\ call.failed = {}
  /\ call.op \in {"clear", "clear_all"} => call.fs = Fields
  /\ Alive(call) => call.S # {} /\ call.gone = {}

CallsAgree ==
  \A c \in Calls : WellFormed(calls[c]) /\ (calls[c].phase = "none" => calls[c] = Idle)

(* The samples of a call under way are there.                              *)
Present(call) ==
  /\ Exists(call.p)
  /\ IF call.op = "clear_all" THEN call.S = partition_to_indexes[call.p]
     ELSE call.S \subseteq partitions[call.p].global_indexes
  /\ call.op = "clear" => InRange(partitions[call.p], call.S)

SamplesArePresent == \A c \in Calls : Alive(calls[c]) => Present(calls[c])

CallsExclude ==
  \A c, d \in Calls :
    c # d /\ Alive(calls[c]) /\ Alive(calls[d]) => Compatible(calls[c], calls[d])

(* What is being removed is not ready.                                     *)
Hidden(call) ==
  \A e \in partitions[call.p].production_status : ~(e[1] \in call.S /\ e[2] \in call.fs)

RemovedAreHidden ==
  \A c \in Calls : Alive(calls[c]) /\ Removing(calls[c]) => Hidden(calls[c])

CallsInv == CallsAgree /\ SamplesArePresent /\ CallsExclude /\ RemovedAreHidden

-----------------------------------------------------------------------------
(* A request of this call, when it is served, takes the value of cell e or *)
(* leaves an earlier owner's.                                              *)
Spoils(call, e) ==
  /\ e[1] \in call.S /\ e[2] \in call.fs
  /\ Removes(call) \/ (call.op = "put" /\ e[1] \in call.gone)

(* A request of this call, when it is served, takes space for sample i.    *)
Fills(call, i) == call.op = "put" /\ i \in call.S

Caller(u, k)  == calls[inbox[u][k][1]]
Asks(c, u, k) == inbox[u][k] = <<c, calls[c].attempt[u]>>

(* The cell has a current value, for good as far as requests sent go.      *)
Safe(u, e) ==
  /\ e \in stored /\ e \notin stale
  /\ \A k \in DOMAIN inbox[u] : ~Spoils(Caller(u, k), e)

(* The sample takes no space, for good as far as requests sent go.         *)
Clean(u, i) ==
  /\ i \notin active
  /\ \A k \in DOMAIN inbox[u] : ~Fills(Caller(u, k), i)

(* What c awaits an answer to comes after all that spoils the cell ...     *)
AfterSpoils(c, u, e) ==
  \A j, k \in DOMAIN inbox[u] : Asks(c, u, k) /\ Spoils(Caller(u, j), e) => j < k

(* ... and after all that takes space for the sample.                      *)
AfterFills(c, u, i) ==
  \A j, k \in DOMAIN inbox[u] : Asks(c, u, k) /\ Fills(Caller(u, j), i) => j < k

(* What a call under way may rely on for its cell <<i, f>> at unit u.      *)
CellIsKept(c, u, e) ==
  /\ calls[c].op = "get" /\ u \in calls[c].open => Safe(u, e)
  /\ calls[c].op = "put" /\ calls[c].phase \in {"units", "notify"} =>
       /\ u \notin calls[c].open /\ u \notin calls[c].failed => Safe(u, e)
       /\ u \in calls[c].open => AfterSpoils(c, u, e)

SpaceIsCleared(c, u, i) ==
  calls[c].op \in {"clear", "clear_all"} /\ calls[c].phase = "units" =>
    /\ u \notin calls[c].open /\ u \notin calls[c].failed => Clean(u, i)
    /\ u \in calls[c].open => AfterFills(c, u, i)

BoxesAgree ==
  \A u \in Units : \A k \in DOMAIN inbox[u] :
    /\ Caller(u, k).phase \in {"units", "notify", "ended"}
    /\ inbox[u][k][2] <= Caller(u, k).attempt[u]

ReadyIsSafe == \A e \in ReadyCells : Safe(UnitOf(e[1]), e)

CallsAreSafe ==
  \A c \in Calls : \A i \in calls[c].S :
    /\ \A f \in calls[c].fs : CellIsKept(c, UnitOf(i), <<i, f>>)
    /\ SpaceIsCleared(c, UnitOf(i), i)

SpaceAgrees ==
  /\ active \subseteq Owned \cup leaked
  /\ \A u \in Units : \A k \in DOMAIN inbox[u] : \A i \in Indexes :
       UnitOf(i) = u /\ Fills(Caller(u, k), i) => i \in Owned \cup leaked

UnitsInv == BoxesAgree /\ ReadyIsSafe /\ CallsAreSafe /\ SpaceAgrees

PlaneTypes ==
  /\ deployment \in Deployments
  /\ calls \in [Calls -> CallType]
  /\ inbox \in [Units -> Seq(Calls \X (1..MaxAttempts))]
  /\ stale \subseteq stored /\ stored \subseteq Cells
  /\ active \subseteq Indexes /\ leaked \subseteq Indexes

PlaneInv == ControllerSafe /\ ControllerTidy /\ PlaneTypes /\ CallsInv /\ UnitsInv

-----------------------------------------------------------------------------
(* Constants and types.                                                    *)

(* The deployment never changes, so neither do the units nor what a sample *)
(* is stored at.                                                           *)
LEMMA DeploymentStays ==
  ASSUME deployment' = deployment
  PROVE  /\ Units' = Units /\ CallType' = CallType /\ Idle' = Idle
         /\ MaxAttempts' = MaxAttempts
         /\ \A i : UnitOf(i)' = UnitOf(i)
  BY DEF Units, CallType, Idle, MaxAttempts, NumUnits, UnitOf, Indexes

LEMMA PlaneNumbers ==
  ASSUME PlaneTypes
  PROVE  /\ NumUnits \in Nat /\ NumUnits > 0
         /\ MaxAttempts \in Nat /\ MaxAttempts > 0
         /\ \A i \in Indexes : UnitOf(i) \in Units
         /\ Universe = Indexes
<1>1. deployment \in [units : Nat \ {0}, size : Nat, attempts : Nat \ {0}]
  BY DataPlaneAssumption DEF PlaneTypes
<1>2. NumUnits \in Nat /\ NumUnits > 0 /\ MaxAttempts \in Nat /\ MaxAttempts > 0
  BY <1>1 DEF NumUnits, MaxAttempts
<1>3. ASSUME NEW i \in Indexes PROVE UnitOf(i) \in Units
  <2>1. i \in Nat
    BY IndexManagerAssumption DEF Indexes
  <2>2. i % NumUnits \in 0..(NumUnits - 1)
    BY <1>2, <2>1
  <2> QED
    BY <2>2 DEF UnitOf, Units
<1> QED
  BY <1>2, <1>3 DEF Universe, Indexes

LEMMA CallIsTyped ==
  ASSUME PlaneTypes, NEW c \in Calls
  PROVE  calls[c] \in CallType
  BY DEF PlaneTypes

(* Idle is a call.  Whatever partition it names, it works on none.         *)
LEMMA IdleIsTyped ==
  ASSUME PlaneTypes
  PROVE  Idle \in CallType
  BY PlaneNumbers, DataPlaneAssumption DEF Idle, CallType

-----------------------------------------------------------------------------
(* Steps of one call.                                                      *)

(* Call c becomes `new`, the others stay.                                  *)
CallStep(c, new) == calls' = [calls EXCEPT ![c] = new]

LEMMA OthersStay ==
  ASSUME PlaneTypes, NEW c \in Calls, NEW new, CallStep(c, new)
  PROVE  calls'[c] = new /\ \A d \in Calls : d # c => calls'[d] = calls[d]
  BY DEF PlaneTypes, CallStep

(* What the other calls rely on stays.                                     *)
OthersKeep(c) ==
  \A d \in Calls : d # c =>
    \A call : call = calls[d] /\ Alive(call) =>
      Present(call)' /\ (Removing(call) => Hidden(call)')

(* A call under way that agrees with the controller and the other calls.   *)
LEMMA CallStepKeepsCalls ==
  ASSUME PlaneTypes, CallsInv, deployment' = deployment,
         NEW c \in Calls, NEW new, CallStep(c, new), OthersKeep(c),
         WellFormed(new), new.phase = "none" => new = Idle,
         Alive(new) => Present(new)' /\ (Removing(new) => Hidden(new)'),
         Alive(new) => \A d \in Calls : d # c /\ Alive(calls[d]) =>
           Compatible(new, calls[d]) /\ Compatible(calls[d], new)
  PROVE  CallsInv'
<1>1. calls'[c] = new /\ \A d \in Calls : d # c => calls'[d] = calls[d]
  BY OthersStay
<1>2. CallsAgree'
  BY <1>1, DeploymentStays DEF CallsAgree, CallsInv
<1>3. ASSUME NEW d \in Calls, d # c, Alive(calls[d])
      PROVE  Present(calls[d])' /\ (Removing(calls[d]) => Hidden(calls[d])')
  <2>1. PICK call : call = calls[d]
    OBVIOUS
  <2>2. Present(call)' /\ (Removing(call) => Hidden(call)') /\ call = calls'[d]
    BY <1>1, <1>3, <2>1 DEF OthersKeep
  <2> QED
    BY <1>1, <2>1, <2>2 DEF Present, Hidden, Exists
<1>4. SamplesArePresent'
  BY <1>1, <1>3 DEF SamplesArePresent, Present, Exists
<1>5. CallsExclude'
  BY <1>1 DEF CallsExclude, CallsInv
<1>6. RemovedAreHidden'
  BY <1>1, <1>3 DEF RemovedAreHidden, Hidden
<1> QED
  BY <1>2, <1>4, <1>5, <1>6 DEF CallsInv

-----------------------------------------------------------------------------
(* Requests on their way.                                                  *)

(* The box of u takes at most one more request, the a-th attempt of c.     *)
BoxGrows(c, a, u) ==
  /\ \A k \in DOMAIN inbox[u] : k \in DOMAIN inbox'[u] /\ inbox'[u][k] = inbox[u][k]
  /\ \A k \in DOMAIN inbox'[u] : k \notin DOMAIN inbox[u] =>
       /\ inbox' # inbox
       /\ inbox'[u][k] = <<c, a>>
       /\ \A j \in DOMAIN inbox'[u] : j < k \/ j = k

(* What matters of a call to those who wait behind its requests.           *)
SameWork(d) ==
  /\ calls'[d].op = calls[d].op /\ calls'[d].S = calls[d].S
  /\ calls'[d].fs = calls[d].fs /\ calls'[d].gone = calls[d].gone

(* The calls that have requests in a box.                                  *)
Boxed(d) == \E u \in Units : \E k \in DOMAIN inbox[u] : inbox[u][k][1] = d

LEMMA GrowthKeepsSafe ==
  ASSUME NEW c, NEW a, NEW u \in Units, NEW e, BoxGrows(c, a, u),
         UNCHANGED <<stored, stale>>,
         \A d : Boxed(d) => SameWork(d),
         inbox' # inbox => ~Spoils(calls'[c], e),
         Safe(u, e)
  PROVE  Safe(u, e)'
<1>1. ASSUME NEW k \in DOMAIN inbox'[u]
      PROVE  ~Spoils(calls'[inbox'[u][k][1]], e)
  <2>1. CASE k \in DOMAIN inbox[u]
    <3>1. inbox'[u][k] = inbox[u][k] /\ SameWork(inbox[u][k][1])
      BY <2>1 DEF BoxGrows, Boxed
    <3>2. ~Spoils(calls[inbox[u][k][1]], e)
      BY <2>1 DEF Safe, Caller
    <3> QED
      BY <3>1, <3>2 DEF SameWork, Spoils, Removes
  <2>2. CASE k \notin DOMAIN inbox[u]
    BY <2>2 DEF BoxGrows
  <2> QED
    BY <2>1, <2>2
<1> QED
  BY <1>1 DEF Safe, Caller

LEMMA GrowthKeepsClean ==
  ASSUME NEW c, NEW a, NEW u \in Units, NEW i, BoxGrows(c, a, u),
         UNCHANGED active,
         \A d : Boxed(d) => SameWork(d),
         inbox' # inbox => ~Fills(calls'[c], i),
         Clean(u, i)
  PROVE  Clean(u, i)'
<1>1. ASSUME NEW k \in DOMAIN inbox'[u]
      PROVE  ~Fills(calls'[inbox'[u][k][1]], i)
  <2>1. CASE k \in DOMAIN inbox[u]
    <3>1. inbox'[u][k] = inbox[u][k] /\ SameWork(inbox[u][k][1])
      BY <2>1 DEF BoxGrows, Boxed
    <3>2. ~Fills(calls[inbox[u][k][1]], i)
      BY <2>1 DEF Clean, Caller
    <3> QED
      BY <3>1, <3>2 DEF SameWork, Fills
  <2>2. CASE k \notin DOMAIN inbox[u]
    BY <2>2 DEF BoxGrows
  <2> QED
    BY <2>1, <2>2
<1> QED
  BY <1>1 DEF Clean, Caller

(* Another call d still waits behind all it did: what is new in the box is *)
(* not its own.                                                            *)
LEMMA GrowthKeepsOrder ==
  ASSUME NEW c, NEW a, NEW u \in Units, BoxGrows(c, a, u),
         \A x : Boxed(x) => SameWork(x),
         NEW d, d # c, calls'[d] = calls[d]
  PROVE  /\ \A e : AfterSpoils(d, u, e) /\ (inbox' # inbox => ~Spoils(calls'[c], e))
                     => AfterSpoils(d, u, e)'
         /\ \A i : AfterFills(d, u, i) /\ (inbox' # inbox => ~Fills(calls'[c], i))
                     => AfterFills(d, u, i)'
<1>1. ASSUME NEW k \in DOMAIN inbox'[u], inbox'[u][k] = <<d, calls'[d].attempt[u]>>
      PROVE  k \in DOMAIN inbox[u] /\ Asks(d, u, k)
  BY <1>1 DEF BoxGrows, Asks
<1>2. ASSUME NEW j \in DOMAIN inbox'[u]
      PROVE  \/ /\ j \in DOMAIN inbox[u]
                /\ \A e : Spoils(calls'[inbox'[u][j][1]], e) => Spoils(Caller(u, j), e)
                /\ \A i : Fills(calls'[inbox'[u][j][1]], i) => Fills(Caller(u, j), i)
             \/ inbox' # inbox /\ inbox'[u][j][1] = c
  <2>1. CASE j \in DOMAIN inbox[u]
    <3>1. inbox'[u][j] = inbox[u][j] /\ SameWork(inbox[u][j][1])
      BY <2>1 DEF BoxGrows, Boxed
    <3> QED
      BY <2>1, <3>1 DEF SameWork, Spoils, Fills, Removes, Caller
  <2>2. CASE j \notin DOMAIN inbox[u]
    BY <2>2 DEF BoxGrows
  <2> QED
    BY <2>1, <2>2
<1>3. ASSUME NEW e, AfterSpoils(d, u, e), inbox' # inbox => ~Spoils(calls'[c], e)
      PROVE  AfterSpoils(d, u, e)'
  BY <1>1, <1>2, <1>3 DEF AfterSpoils, Asks, Caller
<1>4. ASSUME NEW i, AfterFills(d, u, i), inbox' # inbox => ~Fills(calls'[c], i)
      PROVE  AfterFills(d, u, i)'
  BY <1>1, <1>2, <1>4 DEF AfterFills, Asks, Caller
<1> QED
  BY <1>3, <1>4

(* What another call d relies on is kept.                                  *)
LEMMA GrowthKeepsCell ==
  ASSUME NEW c, NEW a, NEW u \in Units, BoxGrows(c, a, u),
         UNCHANGED <<stored, stale, active>>,
         \A x : Boxed(x) => SameWork(x),
         NEW d, d # c, calls'[d] = calls[d]
  PROVE  /\ \A e : /\ CellIsKept(d, u, e)
                   /\ inbox' # inbox /\ Alive(calls[d]) /\ calls[d].op \in {"get", "put"}
                        => ~Spoils(calls'[c], e)
                   /\ calls[d].phase # "units" => calls[d].open = {}
                   => CellIsKept(d, u, e)'
         /\ \A i : /\ SpaceIsCleared(d, u, i)
                   /\ inbox' # inbox /\ calls[d].phase = "units"
                        /\ calls[d].op \in {"clear", "clear_all"}
                        => ~Fills(calls'[c], i)
                   => SpaceIsCleared(d, u, i)'
<1>1. ASSUME NEW e, CellIsKept(d, u, e),
             inbox' # inbox /\ Alive(calls[d]) /\ calls[d].op \in {"get", "put"}
               => ~Spoils(calls'[c], e),
             calls[d].phase # "units" => calls[d].open = {}
      PROVE  CellIsKept(d, u, e)'
  <2>1. CASE calls[d].op = "get" /\ u \in calls[d].open
    <3>1. Safe(u, e) /\ Alive(calls[d])
      BY <1>1, <2>1 DEF CellIsKept, Alive
    <3>2. Safe(u, e)'
      BY <1>1, <2>1, <3>1, GrowthKeepsSafe
    <3> QED
      BY <2>1, <3>2 DEF CellIsKept
  <2>2. CASE calls[d].op = "put" /\ calls[d].phase \in {"units", "notify"}
    <3>1. Alive(calls[d])
      BY <2>2 DEF Alive
    <3>2. u \notin calls[d].open /\ u \notin calls[d].failed => Safe(u, e)'
      BY <1>1, <2>2, <3>1, GrowthKeepsSafe DEF CellIsKept
    <3>3. u \in calls[d].open => AfterSpoils(d, u, e)'
      BY <1>1, <2>2, <3>1, GrowthKeepsOrder DEF CellIsKept
    <3> QED
      BY <2>2, <3>2, <3>3 DEF CellIsKept
  <2>3. CASE /\ ~(calls[d].op = "get" /\ u \in calls[d].open)
             /\ ~(calls[d].op = "put" /\ calls[d].phase \in {"units", "notify"})
    BY <2>3 DEF CellIsKept
  <2> QED
    BY <2>1, <2>2, <2>3
<1>2. ASSUME NEW i, SpaceIsCleared(d, u, i),
             inbox' # inbox /\ calls[d].phase = "units" /\ calls[d].op \in {"clear", "clear_all"}
               => ~Fills(calls'[c], i)
      PROVE  SpaceIsCleared(d, u, i)'
  <2>1. CASE calls[d].op \in {"clear", "clear_all"} /\ calls[d].phase = "units"
    <3>1. u \notin calls[d].open /\ u \notin calls[d].failed => Clean(u, i)'
      BY <1>2, <2>1, GrowthKeepsClean DEF SpaceIsCleared
    <3>2. u \in calls[d].open => AfterFills(d, u, i)'
      BY <1>2, <2>1, GrowthKeepsOrder DEF SpaceIsCleared
    <3> QED
      BY <3>1, <3>2 DEF SpaceIsCleared
  <2>2. CASE ~(calls[d].op \in {"clear", "clear_all"} /\ calls[d].phase = "units")
    BY <2>2 DEF SpaceIsCleared
  <2> QED
    BY <2>1, <2>2
<1> QED
  BY <1>1, <1>2

(* What the calls under way rely on gets no worse by c's next request.     *)
Tolerated(c, new) ==
  /\ \A e \in ReadyCells' : ~Spoils(new, e)
  /\ \A i : Fills(new, i) => i \in Owned'
  /\ \A d \in Calls : d # c /\ Alive(calls[d]) => \A i \in calls[d].S :
       /\ calls[d].op \in {"get", "put"} => \A f \in calls[d].fs : ~Spoils(new, <<i, f>>)
       /\ calls[d].op \in {"clear", "clear_all"} /\ calls[d].phase = "units" => ~Fills(new, i)

(* A step of call c that serves no request, and may send one to each unit. *)
LEMMA SendKeepsUnits ==
  ASSUME PlaneTypes, CallsInv, UnitsInv, deployment' = deployment,
         UNCHANGED <<stored, stale, active, leaked>>, Owned \subseteq Owned',
         NEW c \in Calls, NEW new, CallStep(c, new),
         NEW a, \A u \in Units : BoxGrows(c, a, u),
         Boxed(c) => SameWork(c) /\ new.phase \in {"units", "notify", "ended"},
         \A u \in Units : \A k \in DOMAIN inbox[u] :
           inbox[u][k][1] = c => inbox[u][k][2] <= new.attempt[u],
         \A u \in Units : inbox'[u] # inbox[u] => new.phase = "units" /\ a <= new.attempt[u],
         \A e \in ReadyCells' : Safe(UnitOf(e[1]), e),
         inbox' # inbox => Tolerated(c, new),
         \A i \in new.S : \A u : u = UnitOf(i) =>
           /\ \A f \in new.fs : CellIsKept(c, u, <<i, f>>)'
           /\ SpaceIsCleared(c, u, i)'
  PROVE  UnitsInv'
<1>1. calls'[c] = new /\ \A d \in Calls : d # c => calls'[d] = calls[d]
  BY OthersStay
<1>2. \A u \in Units : \A k \in DOMAIN inbox[u] : inbox[u][k][1] \in Calls
  <2>1. ASSUME NEW u \in Units, NEW k \in DOMAIN inbox[u]
        PROVE  inbox[u][k] \in Calls \X (1..MaxAttempts)
    <3>1. inbox[u] \in Seq(Calls \X (1..MaxAttempts))
      BY DEF PlaneTypes
    <3>2. k \in 1..Len(inbox[u])
      BY <3>1
    <3> QED
      BY <3>1, <3>2
  <2> QED
    BY <2>1
<1>3. \A d : Boxed(d) => SameWork(d)
  BY <1>1, <1>2 DEF Boxed, SameWork
<1>4. \A i \in Indexes : UnitOf(i) \in Units
  BY PlaneNumbers
<1>5. /\ Units' = Units
      /\ \A i : UnitOf(i)' = UnitOf(i)
  BY DeploymentStays
<1>6. BoxesAgree'
  <2>1. ASSUME NEW u \in Units, NEW k \in DOMAIN inbox'[u]
        PROVE  /\ calls'[inbox'[u][k][1]].phase \in {"units", "notify", "ended"}
               /\ inbox'[u][k][2] <= calls'[inbox'[u][k][1]].attempt[u]
    <3>1. CASE k \in DOMAIN inbox[u]
      <4>1. /\ inbox'[u][k] = inbox[u][k] /\ inbox[u][k][1] \in Calls
            /\ Caller(u, k).phase \in {"units", "notify", "ended"}
            /\ inbox[u][k][2] <= Caller(u, k).attempt[u]
        BY <1>2, <3>1 DEF BoxGrows, UnitsInv, BoxesAgree
      <4>2. CASE inbox[u][k][1] = c
        BY <1>1, <3>1, <4>1, <4>2 DEF Boxed
      <4>3. CASE inbox[u][k][1] # c
        BY <1>1, <4>1, <4>3 DEF Caller
      <4> QED
        BY <4>2, <4>3
    <3>2. CASE k \notin DOMAIN inbox[u]
      BY <1>1, <3>2 DEF BoxGrows
    <3> QED
      BY <3>1, <3>2
  <2> QED
    BY <1>5, <2>1 DEF BoxesAgree, Caller
<1>7. ReadyIsSafe'
  <2>1. ASSUME NEW e \in ReadyCells', NEW u, u = UnitOf(e[1])
        PROVE  Safe(u, e)'
    <3>1. Safe(u, e)
      BY <2>1
    <3>2. u \in Units
      <4>1. e \in Cells
        BY <3>1 DEF Safe, PlaneTypes
      <4> QED
        BY <1>4, <2>1, <4>1 DEF Cells
    <3> QED
      BY <1>1, <1>3, <3>1, <3>2, GrowthKeepsSafe DEF Tolerated
  <2> QED
    BY <1>5, <2>1 DEF ReadyIsSafe
<1>8. CallsAreSafe'
  <2>1. ASSUME NEW d \in Calls, d # c, NEW i \in calls[d].S, NEW u, u = UnitOf(i)
        PROVE  /\ \A f \in calls[d].fs : CellIsKept(d, u, <<i, f>>)'
               /\ SpaceIsCleared(d, u, i)'
    <3>1. u \in Units
      BY <1>4, <2>1, CallIsTyped DEF CallType
    <3>2. /\ calls[d].phase # "units" => calls[d].open = {}
          /\ calls[d].phase = "units" => Alive(calls[d])
      BY DEF CallsInv, CallsAgree, WellFormed, Alive
    <3>3. /\ \A f \in calls[d].fs : CellIsKept(d, u, <<i, f>>)
          /\ SpaceIsCleared(d, u, i)
      BY <2>1 DEF UnitsInv, CallsAreSafe
    <3>4. \A f \in calls[d].fs : CellIsKept(d, u, <<i, f>>)'
      BY <1>1, <1>3, <2>1, <3>1, <3>2, <3>3, GrowthKeepsCell DEF Tolerated
    <3>5. SpaceIsCleared(d, u, i)'
      BY <1>1, <1>3, <2>1, <3>1, <3>2, <3>3, GrowthKeepsCell DEF Tolerated
    <3> QED
      BY <3>4, <3>5
  <2>2. ASSUME NEW d \in Calls, NEW i \in calls'[d].S, NEW u, u = UnitOf(i)
        PROVE  /\ \A f \in calls'[d].fs : CellIsKept(d, u, <<i, f>>)'
               /\ SpaceIsCleared(d, u, i)'
    <3>1. CASE d = c
      BY <1>1, <2>2, <3>1
    <3>2. CASE d # c
      <4>1. calls'[d] = calls[d]
        BY <1>1, <3>2
      <4> QED
        BY <2>1, <2>2, <3>2, <4>1
    <3> QED
      BY <3>1, <3>2
  <2> QED
    BY <1>5, <2>2 DEF CallsAreSafe
<1>9. SpaceAgrees'
  <2>1. ASSUME NEW u \in Units, NEW k \in DOMAIN inbox'[u], NEW i \in Indexes,
               UnitOf(i) = u, Fills(calls'[inbox'[u][k][1]], i)
        PROVE  i \in Owned' \cup leaked
    <3>1. CASE k \in DOMAIN inbox[u]
      <4>1. inbox'[u][k] = inbox[u][k] /\ SameWork(inbox[u][k][1])
        BY <1>3, <3>1 DEF BoxGrows, Boxed
      <4>2. Fills(Caller(u, k), i)
        BY <2>1, <4>1 DEF Caller, SameWork, Fills
      <4> QED
        BY <2>1, <3>1, <4>2 DEF UnitsInv, SpaceAgrees
    <3>2. CASE k \notin DOMAIN inbox[u]
      BY <1>1, <2>1, <3>2 DEF BoxGrows, Tolerated
    <3> QED
      BY <3>1, <3>2
  <2>2. active \subseteq Owned' \cup leaked
    BY DEF UnitsInv, SpaceAgrees
  <2> QED
    BY <1>5, <2>1, <2>2 DEF SpaceAgrees, Caller, Indexes
<1> QED
  BY <1>6, <1>7, <1>8, <1>9 DEF UnitsInv

-----------------------------------------------------------------------------
(* What the controller's handlers leave of what calls rely on.             *)

(* The cells of a partition are its samples', and it owns them.            *)
LEMMA OwnersOfCells ==
  ASSUME ControllerSafe, ControllerTidy
  PROVE  /\ \A p \in DOMAIN partitions : \A e \in partitions[p].production_status :
              p \in Partitions /\ e[1] \in partition_to_indexes[p] /\ e[1] \in Owned
         /\ \A p \in DOMAIN partitions :
              p \in Partitions /\ partitions[p].global_indexes \subseteq partition_to_indexes[p]
         /\ \A p, q \in Partitions :
              p # q => partition_to_indexes[p] \cap partition_to_indexes[q] = {}
<1>1. ASSUME NEW p \in DOMAIN partitions
      PROVE  /\ p \in Partitions
             /\ partitions[p].global_indexes \subseteq partition_to_indexes[p]
             /\ ReadyCellsAreSamples(partitions[p])
  BY StatusOf DEF ControllerSafe, Exists, Sound, ControllerTidy, OwnershipAgrees
<1>2. ASSUME NEW p \in DOMAIN partitions, NEW e \in partitions[p].production_status
      PROVE  e[1] \in partition_to_indexes[p] /\ e[1] \in Owned
  BY <1>1 DEF ReadyCellsAreSamples, Owned
<1> QED
  BY <1>1, <1>2 DEF ControllerSafe, IMInv, OwnersDisjoint

(* The samples of a call under way are its partition's.                    *)
LEMMA OwnersOfCalls ==
  ASSUME ControllerSafe, ControllerTidy, PlaneTypes, SamplesArePresent,
         NEW c \in Calls, Alive(calls[c])
  PROVE  /\ calls[c].p \in Partitions /\ Exists(calls[c].p)
         /\ calls[c].S \subseteq partition_to_indexes[calls[c].p]
         /\ calls[c].S \subseteq Owned
<1>1. calls[c].p \in Partitions
  BY CallIsTyped DEF CallType
<1>2. Present(calls[c])
  BY DEF SamplesArePresent
<1>3. calls[c].S \subseteq partition_to_indexes[calls[c].p] /\ Exists(calls[c].p)
  BY <1>2, OwnersOfCells DEF Present, Exists
<1> QED
  BY <1>1, <1>3 DEF Owned

(* A handler that replaces the status of p by st, which has no fewer rows  *)
(* and samples.                                                            *)
LEMMA StatusKeepsOthers ==
  ASSUME PlaneTypes, CallsInv, NEW c \in Calls, NEW p \in Partitions, NEW st,
         partitions' = With(p, st),
         \A q \in Partitions \ {p} : partition_to_indexes'[q] = partition_to_indexes[q],
         Exists(p) => /\ partitions[p].global_indexes \subseteq st.global_indexes
                      /\ partitions[p].rows \subseteq st.rows,
         \A d \in Calls : d # c /\ Alive(calls[d]) /\ calls[d].p = p =>
           /\ calls[d].op = "clear_all" => partition_to_indexes'[p] = partition_to_indexes[p]
           /\ Removing(calls[d]) => \A e \in st.production_status :
                \/ e \in partitions[p].production_status
                \/ ~(e[1] \in calls[d].S /\ e[2] \in calls[d].fs)
  PROVE  OthersKeep(c)
<1>1. /\ p \in DOMAIN partitions' /\ partitions'[p] = st
      /\ \A q \in DOMAIN partitions : q \in DOMAIN partitions'
                                      /\ (q # p => partitions'[q] = partitions[q])
  BY DEF With
<1>2. ASSUME NEW d \in Calls, d # c, NEW call, call = calls[d], Alive(call)
      PROVE  Present(call)' /\ (Removing(call) => Hidden(call)')
  <2>1. /\ call.p \in Partitions
        /\ Present(call)
        /\ Removing(call) => Hidden(call)
    BY <1>2, CallIsTyped DEF CallType, CallsInv, SamplesArePresent, RemovedAreHidden
  <2>2. CASE call.p # p
    BY <1>1, <2>1, <2>2 DEF Present, Exists, Hidden
  <2>3. CASE call.p = p
    <3>1. Present(call)'
      BY <1>1, <1>2, <2>1, <2>3 DEF Present, Exists, InRange
    <3>2. Removing(call) => Hidden(call)'
      BY <1>1, <1>2, <2>1, <2>3 DEF Hidden
    <3> QED
      BY <3>1, <3>2
  <2> QED
    BY <2>2, <2>3
<1> QED
  BY <1>2 DEF OthersKeep

LEMMA UnchangedKeepsOthers ==
  ASSUME CallsInv, NEW c \in Calls, UNCHANGED controllerVars
  PROVE  OthersKeep(c)
<1>1. partitions' = partitions /\ partition_to_indexes' = partition_to_indexes
  BY DEF controllerVars, imVars
<1>2. ASSUME NEW d \in Calls, NEW call, call = calls[d], Alive(call)
      PROVE  Present(call)' /\ (Removing(call) => Hidden(call)')
  BY <1>1, <1>2 DEF CallsInv, SamplesArePresent, RemovedAreHidden, Present, Hidden, Exists
<1> QED
  BY <1>2 DEF OthersKeep

-----------------------------------------------------------------------------
(* The samples of a new batch: there is one, and they are new.             *)
LEMMA LargerBatchHasMore ==
  ASSUME IMTypeOK, IMInv, NEW r \in Nat, NEW m \in Nat, r < m
  PROVE  Batch(m) \ Batch(r) # {}
<1>1. \A n \in Nat :
        /\ ReuseCount(n) \in 0..Len(reusable_indexes)
        /\ n # ReuseCount(n) => ReuseCount(n) = Len(reusable_indexes)
        /\ n - ReuseCount(n) \in Nat
  BY ReuseCountType
<1>2. global_index_counter \in Nat /\ Len(reusable_indexes) \in Nat
  BY ReuseCountType DEF IMTypeOK
<1>3. CASE m > Len(reusable_indexes)
  <2> DEFINE x == global_index_counter + m - Len(reusable_indexes) - 1
  <2>1. ReuseCount(m) = Len(reusable_indexes)
    BY <1>2, <1>3 DEF ReuseCount
  <2>2. x \in NewIndexes(m) /\ x \notin NewIndexes(r) /\ x >= global_index_counter
    <3>1. x \in Nat /\ x >= global_index_counter
      BY <1>2, <1>3
    <3>2. x \in NewIndexes(m)
      BY <1>2, <1>3, <2>1, <3>1 DEF NewIndexes
    <3>3. x \notin NewIndexes(r)
      <4>1. r - ReuseCount(r) < m - Len(reusable_indexes)
        BY <1>2, <1>3 DEF ReuseCount
      <4>2. ReuseCount(r) \in Nat
        BY <1>1, <1>2
      <4> QED
        BY <1>2, <1>3, <4>1, <4>2 DEF NewIndexes
    <3> QED
      BY <3>1, <3>2, <3>3
  <2>3. x \notin Pooled
    BY <1>2, <2>2 DEF IMInv, IndexesConserved
  <2> HIDE DEF x
  <2>4. x \in Batch(m)
    BY <2>2 DEF Batch
  <2>5. x \notin Batch(r)
    BY <2>2, <2>3, BatchOrigin
  <2> QED
    BY <2>4, <2>5
<1>4. CASE m <= Len(reusable_indexes)
  <2>1. ReuseCount(m) = m /\ ReuseCount(r) = r
    BY <1>2, <1>4 DEF ReuseCount
  <2>2. NewIndexes(r) = {}
    BY <1>2, <2>1 DEF NewIndexes
  <2>3. reusable_indexes[m] \in Batch(m)
    BY <1>4, <2>1 DEF Batch
  <2>4. \A k \in 1..r : reusable_indexes[k] # reusable_indexes[m]
    <3>1. \A j, k \in 1..Len(reusable_indexes) :
            reusable_indexes[j] = reusable_indexes[k] => j = k
      BY PoolElements DEF IMInv, PoolIsFree, IMTypeOK
    <3> QED
      BY <1>2, <1>4, <3>1
  <2>5. reusable_indexes[m] \notin Batch(r)
    BY <2>1, <2>2, <2>4 DEF Batch
  <2> QED
    BY <2>3, <2>5
<1> QED
  BY <1>2, <1>3, <1>4

(* What both kinds of insert do to the controller.                         *)
Inserts(p, n, A, st) ==
  /\ A \in Activations(p, n)
  /\ AllocateIndexes(p, ToAllocate(p, n, A))
  /\ partitions' = With(p, st)
  /\ st.production_status = Opened(p).production_status
  /\ Opened(p).rows \subseteq st.rows
  /\ Opened(p).global_indexes \subseteq st.global_indexes
  /\ NewBatch(p, n, A) \subseteq st.global_indexes

LEMMA InsertInserts ==
  ASSUME ControllerSafe, ControllerTidy, NEW p \in Partitions, NEW n \in Nat, NEW A,
         GetMetaInsert(p, n, A)
  PROVE  \E st : Inserts(p, n, A, st)
<1> DEFINE S == NewBatch(p, n, A)
<1>1. Opened(p) \in PartitionStatus
  BY NewBatchAgrees DEF GetMetaInsert
<1> HIDE DEF S
<1>2. /\ AddIndexes(Opened(p), S).production_status = Opened(p).production_status
      /\ AddIndexes(Opened(p), S).rows = Opened(p).rows
      /\ AddIndexes(Opened(p), S).global_indexes = Opened(p).global_indexes \cup S
  BY <1>1 DEF AddIndexes, PartitionStatus
<1> QED
  BY <1>2 DEF GetMetaInsert, Inserts, S

LEMMA CreateInserts ==
  ASSUME ControllerSafe, ControllerTidy, NEW p \in Partitions, NEW keys \in SUBSET Keys, NEW A,
         KvCreate(p, keys, A)
  PROVE  \E st : Inserts(p, Cardinality(keys), A, st)
<1> DEFINE S == NewBatch(p, Cardinality(keys), A)
<1>1. PICK idx \in Bijection(keys, S) : partitions' = With(p, AddKeys(Opened(p), idx))
  BY DEF KvCreate
<1>2. S \subseteq {idx[k] : k \in DOMAIN idx}
  BY <1>1 DEF Bijection, Surjection
<1>3. Opened(p) \in PartitionStatus
  BY NewBatchAgrees, KeysAreCounted DEF KvCreate
<1> HIDE DEF S
<1>4. /\ AddKeys(Opened(p), idx).production_status = Opened(p).production_status
      /\ Opened(p).rows \subseteq AddKeys(Opened(p), idx).rows
      /\ Opened(p).global_indexes \subseteq AddKeys(Opened(p), idx).global_indexes
      /\ S \subseteq AddKeys(Opened(p), idx).global_indexes
  BY <1>2, <1>3 DEF AddKeys, AddIndexes, EnsureSamplesCapacity, PartitionStatus
<1> QED
  BY <1>1, <1>4 DEF Inserts, KvCreate, S

LEMMA BatchIsNew ==
  ASSUME ControllerSafe, ControllerTidy, NEW p \in Partitions, NEW n \in Nat, n > 0,
         NEW A, NEW st, Inserts(p, n, A, st)
  PROVE  /\ NewBatch(p, n, A) # {}
         /\ Exists(p) => NewBatch(p, n, A) \cap partitions[p].global_indexes = {}
         /\ \A q \in Partitions \ {p} : partition_to_indexes'[q] = partition_to_indexes[q]
         /\ Owned \subseteq Owned'
<1> DEFINE m == ToAllocate(p, n, A)
<1>1. A \in Activations(p, n) /\ AllocateIndexes(p, m)
  BY DEF Inserts
<1>2. m \in Nat
  BY <1>1, NewBatchType
<1>3. /\ NewBatch(p, n, A) \cap Opened(p).global_indexes = {}
      /\ \A q \in Partitions \ {p} : partition_to_indexes'[q] = partition_to_indexes[q]
  BY <1>1, NewBatchAgrees
<1>4. NewBatch(p, n, A) # {}
  <2>1. CASE A # {}
    BY <2>1 DEF NewBatch
  <2>2. CASE A = {}
    <3>1. Cardinality(A) = 0
      BY <2>2, FS_EmptySet
    <3>2. Reserve(p) \in Nat
      BY PartitionAssumption DEF Reserve
    <3>3. Reserve(p) < m
      BY <3>1, <3>2 DEF ToAllocate
    <3> HIDE DEF m
    <3>4. Batch(m) \ Batch(Reserve(p)) # {}
      BY <1>2, <3>2, <3>3, LargerBatchHasMore DEF ControllerSafe
    <3> QED
      BY <3>4 DEF NewBatch, m
  <2> QED
    BY <2>1, <2>2
<1>5. partition_to_indexes[p] \subseteq partition_to_indexes'[p]
  BY <1>1 DEF AllocateIndexes, ControllerSafe, IMTypeOK
<1>6. \A q \in Partitions : partition_to_indexes[q] \subseteq partition_to_indexes'[q]
  BY <1>3, <1>5
<1>7. Owned \subseteq Owned'
  BY <1>6 DEF Owned
<1> QED
  BY <1>3, <1>4, <1>7 DEF Opened

-----------------------------------------------------------------------------
(* Calls that begin, ask the units, and end.                               *)

(* A call that has asked the units of its samples, once.                   *)
Asked(new, op, p, S, fs) ==
  /\ new \in CallType
  /\ new.op = op /\ new.p = p /\ new.S = S /\ new.fs = fs
  /\ new.phase = "units" /\ new.gone = {}
  /\ new.open = Targets(S) /\ new.failed = {}
  /\ \A u \in Targets(S) : new.attempt[u] = 1

(* What a step that sends or not leaves of the boxes.                      *)
Sent(c, a, new) ==
  /\ inbox' \in [Units -> Seq(Calls \X (1..MaxAttempts))]
  /\ \A u \in Units :
       /\ BoxGrows(c, a, u)
       /\ inbox'[u] # inbox[u] => new.phase = "units" /\ a <= new.attempt[u]

LEMMA AppendGrows ==
  ASSUME PlaneTypes, NEW c \in Calls, NEW a \in 1..MaxAttempts, NEW u \in Units,
         inbox' # inbox, inbox'[u] = Append(inbox[u], <<c, a>>)
  PROVE  BoxGrows(c, a, u) /\ inbox'[u] \in Seq(Calls \X (1..MaxAttempts))
<1>1. PICK box : box = inbox[u]
  OBVIOUS
<1>2. box \in Seq(Calls \X (1..MaxAttempts)) /\ <<c, a>> \in Calls \X (1..MaxAttempts)
  BY <1>1 DEF PlaneTypes
<1>3. Append(box, <<c, a>>) \in Seq(Calls \X (1..MaxAttempts))
  BY <1>2
<1>4. /\ \A k \in DOMAIN box : k \in DOMAIN Append(box, <<c, a>>) /\ Append(box, <<c, a>>)[k] = box[k]
      /\ \A k \in DOMAIN Append(box, <<c, a>>) : k \notin DOMAIN box =>
           /\ Append(box, <<c, a>>)[k] = <<c, a>>
           /\ \A j \in DOMAIN Append(box, <<c, a>>) : j < k \/ j = k
  BY <1>2
<1> QED
  BY <1>1, <1>3, <1>4 DEF BoxGrows

LEMMA SameBoxGrows ==
  ASSUME PlaneTypes, NEW c, NEW a, NEW u \in Units, inbox'[u] = inbox[u]
  PROVE  BoxGrows(c, a, u)
BY DEF BoxGrows

LEMMA SameBoxesAreSent ==
  ASSUME PlaneTypes, NEW c, NEW a, NEW new, inbox' = inbox
  PROVE  Sent(c, a, new)
BY SameBoxGrows DEF Sent, PlaneTypes

LEMMA TargetsAreUnits ==
  ASSUME PlaneTypes, NEW S \in SUBSET Indexes
  PROVE  Targets(S) \in SUBSET Units
BY PlaneNumbers DEF Targets

LEMMA AskStep ==
  ASSUME PlaneTypes, NEW c \in Calls, NEW call \in CallType, call.gone = {}, call.failed = {},
         NEW lost, Ask(c, call, lost)
  PROVE  \E new : CallStep(c, new) /\ Sent(c, 1, new) /\ Asked(new, call.op, call.p, call.S, call.fs)
<1> DEFINE new == [call EXCEPT !.phase = "units", !.open = Targets(call.S),
                     !.attempt = [u \in Units |-> IF u \in Targets(call.S) THEN 1 ELSE 0]]
<1>1. CallStep(c, new)
  BY DEF Ask, CallStep
<1>2. call.S \in SUBSET Indexes
  BY DEF CallType
<1>3. Targets(call.S) \in SUBSET Units
  BY <1>2, TargetsAreUnits
<1>4. 1 \in 1..MaxAttempts /\ 0 \in 0..MaxAttempts /\ 1 \in 0..MaxAttempts
  BY PlaneNumbers
<1>5. [u \in Units |-> IF u \in Targets(call.S) THEN 1 ELSE 0] \in [Units -> 0..MaxAttempts]
  BY <1>4
<1>6. Asked(new, call.op, call.p, call.S, call.fs)
  BY <1>3, <1>5 DEF Asked, CallType
<1>7. \A u \in Units :
        \/ inbox'[u] = inbox[u]
        \/ inbox'[u] = Append(inbox[u], <<c, 1>>) /\ u \in Targets(call.S)
  BY DEF Ask
<1>8. inbox' = [u \in Units |-> inbox'[u]]
  BY DEF Ask
<1> HIDE DEF new
<1>9. ASSUME NEW u \in Units
      PROVE  /\ BoxGrows(c, 1, u)
             /\ inbox'[u] # inbox[u] => new.phase = "units" /\ 1 <= new.attempt[u]
             /\ inbox'[u] \in Seq(Calls \X (1..MaxAttempts))
  <2>1. CASE inbox'[u] = inbox[u]
    BY <2>1, SameBoxGrows DEF PlaneTypes
  <2>2. CASE inbox'[u] # inbox[u]
    <3>1. /\ inbox' # inbox /\ inbox'[u] = Append(inbox[u], <<c, 1>>)
          /\ u \in Targets(call.S)
      BY <1>7, <2>2
    <3>2. BoxGrows(c, 1, u) /\ inbox'[u] \in Seq(Calls \X (1..MaxAttempts))
      BY <1>4, <3>1, AppendGrows
    <3> QED
      BY <1>6, <3>1, <3>2 DEF Asked
  <2> QED
    BY <2>1, <2>2
<1>10. Sent(c, 1, new)
  BY <1>8, <1>9 DEF Sent
<1> QED
  BY <1>1, <1>6, <1>10

LEMMA BeginAskingStep ==
  ASSUME PlaneTypes, NEW c \in Calls, NEW op \in {"put", "get", "clear", "drop"},
         NEW p \in Partitions, NEW S \in SUBSET Indexes, NEW fs \in SUBSET Fields,
         BeginAsking(c, op, p, S, fs)
  PROVE  \E new : CallStep(c, new) /\ Sent(c, 1, new) /\ Asked(new, op, p, S, fs)
<1> DEFINE call == [Idle EXCEPT !.op = op, !.p = p, !.S = S, !.fs = fs]
<1>1. PICK lost : Ask(c, call, lost)
  BY DEF BeginAsking
<1>2. Idle \in CallType /\ Idle.gone = {} /\ Idle.failed = {}
  BY IdleIsTyped DEF Idle
<1>3. /\ call \in CallType /\ call.gone = {} /\ call.failed = {}
      /\ call.op = op /\ call.p = p /\ call.S = S /\ call.fs = fs
  BY <1>2 DEF CallType
<1> HIDE DEF call
<1> QED
  BY <1>1, <1>3, AskStep

(* A call that has asked nothing yet.                                      *)
Begun(new, op, phase, p, S, fs) ==
  /\ new \in CallType
  /\ new.op = op /\ new.phase = phase /\ new.p = p /\ new.S = S /\ new.fs = fs
  /\ new.open = {} /\ new.failed = {} /\ new.gone = {}

LEMMA BeginStep ==
  ASSUME PlaneTypes, NEW c \in Calls, NEW op \in {"put", "clear_all"},
         NEW phase \in {"opened", "marking"},
         NEW p \in Partitions, NEW S \in SUBSET Indexes, NEW fs \in SUBSET Fields,
         Begin(c, op, phase, p, S, fs)
  PROVE  \E new : CallStep(c, new) /\ Begun(new, op, phase, p, S, fs)
<1> DEFINE call == [Idle EXCEPT !.op = op, !.phase = phase, !.p = p, !.S = S, !.fs = fs]
<1>1. CallStep(c, call)
  BY DEF Begin, CallStep
<1>2. Idle \in CallType /\ Idle.gone = {} /\ Idle.failed = {} /\ Idle.open = {}
  BY IdleIsTyped DEF Idle
<1>3. /\ call \in CallType /\ call.gone = {} /\ call.failed = {} /\ call.open = {}
      /\ call.op = op /\ call.phase = phase /\ call.p = p /\ call.S = S /\ call.fs = fs
  BY <1>2 DEF CallType
<1>4. Begun(call, op, phase, p, S, fs)
  BY <1>3 DEF Begun
<1> QED
  BY <1>1, <1>4

(* A call that ended: kept for its requests that are still to be served.   *)
Over(c, new) ==
  /\ new \in CallType
  /\ new.phase \in {"none", "ended"} /\ new.open = {} /\ new.failed = {}
  /\ new.phase = "none" <=> new.op = "idle"
  /\ new.phase = "none" => new = Idle
  /\ Boxed(c) => new.phase = "ended"
  /\ new.phase = "ended" =>
       /\ new.op = calls[c].op /\ new.S = calls[c].S
       /\ new.fs = calls[c].fs /\ new.gone = calls[c].gone
       /\ new.attempt = calls[c].attempt

LEMMA EndedIsOver ==
  ASSUME PlaneTypes, CallsAgree, NEW c \in Calls, calls[c].phase # "none"
  PROVE  Over(c, Ended(c, inbox))
<1>1. calls[c] \in CallType /\ Idle \in CallType
  BY CallIsTyped, IdleIsTyped
<1>2. Left(c, inbox) <=> Boxed(c)
  BY DEF Left, Boxed
<1>3. calls[c].op # "idle"
  BY DEF CallsAgree, WellFormed
<1>4. CASE Left(c, inbox)
  <2>1. Ended(c, inbox) = [calls[c] EXCEPT !.phase = "ended", !.open = {}, !.failed = {}]
    BY <1>4 DEF Ended
  <2> QED
    BY <1>1, <1>3, <2>1 DEF Over, CallType
<1>5. CASE ~Left(c, inbox)
  <2>1. Ended(c, inbox) = Idle /\ ~Boxed(c)
    BY <1>2, <1>5 DEF Ended
  <2>2. Idle.phase = "none" /\ Idle.op = "idle" /\ Idle.open = {} /\ Idle.failed = {}
    BY DEF Idle
  <2> QED
    BY <1>1, <2>1, <2>2 DEF Over
<1> QED
  BY <1>4, <1>5

-----------------------------------------------------------------------------
(* The types, after a step of one call.                                    *)
LEMMA CallStepKeepsTypes ==
  ASSUME PlaneTypes, deployment' = deployment, UNCHANGED <<stored, active, stale, leaked>>,
         NEW c \in Calls, NEW new \in CallType, CallStep(c, new),
         inbox' \in [Units -> Seq(Calls \X (1..MaxAttempts))]
  PROVE  PlaneTypes'
<1>1. calls' \in [Calls -> CallType]
  BY DEF PlaneTypes, CallStep
<1>2. Cells' = Cells /\ Indexes' = Indexes
  BY DEF Cells, Indexes
<1> QED
  BY <1>1, <1>2, DeploymentStays DEF PlaneTypes

(* Requests of calls that agree with the others are no harm.               *)
LEMMA AskIsTolerated ==
  ASSUME PlaneTypes', ControllerSafe', ControllerTidy', CallsInv',
         NEW c \in Calls, NEW new, calls'[c] = new, new.phase = "units",
         \A d \in Calls : d # c => calls'[d] = calls[d]
  PROVE  Tolerated(c, new)
<1>1. Alive(new) /\ (Removes(new) => Removing(new))
  BY DEF Alive, Removing
<1>2. new.gone = {}
  BY <1>1 DEF CallsInv, CallsAgree, WellFormed
<1>3. /\ \A p \in DOMAIN partitions' : \A e \in partitions'[p].production_status :
           p \in Partitions /\ e[1] \in partition_to_indexes'[p]
      /\ \A p \in DOMAIN partitions' : /\ p \in Partitions
           /\ partitions'[p].global_indexes \subseteq partition_to_indexes'[p]
      /\ \A p, q \in Partitions :
           p # q => partition_to_indexes'[p] \cap partition_to_indexes'[q] = {}
  <2>1. ASSUME NEW p \in DOMAIN partitions'
        PROVE  /\ p \in Partitions
               /\ partitions'[p].global_indexes \subseteq partition_to_indexes'[p]
               /\ ReadyCellsAreSamples(partitions'[p])
    BY DEF ControllerSafe, StatusesSound, Exists, Sound, ControllerTidy, OwnershipAgrees
  <2>2. ASSUME NEW p \in DOMAIN partitions', NEW e \in partitions'[p].production_status
        PROVE  e[1] \in partition_to_indexes'[p]
    BY <2>1 DEF ReadyCellsAreSamples
  <2>3. \A p, q \in Partitions :
           p # q => partition_to_indexes'[p] \cap partition_to_indexes'[q] = {}
    BY DEF ControllerSafe, IMInv, OwnersDisjoint
  <2> QED
    BY <2>1, <2>2, <2>3
<1>4. ASSUME NEW d \in Calls, Alive(calls'[d])
      PROVE  /\ calls'[d].p \in Partitions
             /\ calls'[d].S \subseteq partition_to_indexes'[calls'[d].p]
             /\ calls'[d].S \subseteq Owned'
  <2>1. calls'[d].p \in Partitions
    BY DEF PlaneTypes, CallType
  <2>2. Present(calls[d])'
    BY <1>4 DEF CallsInv, SamplesArePresent, Alive
  <2>3. calls'[d].S \subseteq partition_to_indexes'[calls'[d].p]
    BY <1>3, <2>2 DEF Present, Exists
  <2> QED
    BY <2>1, <2>3 DEF Owned
<1>5. ASSUME NEW e \in ReadyCells'
      PROVE  ~Spoils(new, e)
  <2>1. PICK p \in DOMAIN partitions' : e \in partitions'[p].production_status
    BY DEF ReadyCells
  <2>2. ASSUME Removes(new), e[1] \in new.S, e[2] \in new.fs
        PROVE  FALSE
    <3>1. p = new.p
      BY <1>1, <1>4, <1>3, <2>1, <2>2
    <3>2. Hidden(new)'
      BY <1>1, <2>2 DEF CallsInv, RemovedAreHidden, Hidden
    <3> QED
      BY <2>1, <2>2, <3>1, <3>2 DEF Hidden
  <2> QED
    BY <1>2, <2>2 DEF Spoils
<1>6. \A i : Fills(new, i) => i \in Owned'
  BY <1>1, <1>4 DEF Fills
<1>7. ASSUME NEW d \in Calls, d # c, Alive(calls[d]), NEW i \in calls[d].S
      PROVE  /\ calls[d].op \in {"get", "put"} => \A f \in calls[d].fs : ~Spoils(new, <<i, f>>)
             /\ calls[d].op \in {"clear", "clear_all"} /\ calls[d].phase = "units" => ~Fills(new, i)
  <2>1. calls'[d] = calls[d]
    BY <1>7
  <2>2. Compatible(new, calls[d]) /\ Compatible(calls[d], new)
    BY <1>1, <1>7, <2>1 DEF CallsInv, CallsExclude
  <2>3. i \in new.S => Overlap(new, calls[d]) /\ Overlap(calls[d], new)
    BY <1>1, <1>4, <1>3, <1>7, <2>1 DEF Overlap
  <2>4. ASSUME calls[d].op \in {"get", "put"}, NEW f \in calls[d].fs
        PROVE  ~Spoils(new, <<i, f>>)
    BY <1>1, <1>2, <2>2, <2>3, <2>4 DEF Spoils, Compatible
  <2>5. ASSUME calls[d].op \in {"clear", "clear_all"}, calls[d].phase = "units"
        PROVE  ~Fills(new, i)
    BY <2>2, <2>3, <2>5 DEF Fills, Compatible, Removing, Removes
  <2> QED
    BY <2>4, <2>5
<1> QED
  BY <1>5, <1>6, <1>7 DEF Tolerated

-----------------------------------------------------------------------------
(* A request with a new number comes last in its box: what c awaits then   *)
(* comes after all that may spoil or fill.                                 *)
LEMMA NewRequestIsLast ==
  ASSUME NEW c, NEW a, NEW u, BoxGrows(c, a, u), calls'[c].attempt[u] = a,
         \A k \in DOMAIN inbox[u] : inbox[u][k] # <<c, a>>
  PROVE  /\ \A e : ~Spoils(calls'[c], e) => AfterSpoils(c, u, e)'
         /\ \A i : ~Fills(calls'[c], i) => AfterFills(c, u, i)'
<1>1. ASSUME NEW k \in DOMAIN inbox'[u], inbox'[u][k] = <<c, calls'[c].attempt[u]>>
      PROVE  /\ inbox'[u][k][1] = c
             /\ \A j \in DOMAIN inbox'[u] : j < k \/ j = k
  <2>1. k \notin DOMAIN inbox[u]
    BY <1>1 DEF BoxGrows
  <2> QED
    BY <1>1, <2>1 DEF BoxGrows
<1>2. ASSUME NEW e, ~Spoils(calls'[c], e)
      PROVE  AfterSpoils(c, u, e)'
  BY <1>1, <1>2 DEF AfterSpoils, Asks, Caller
<1>3. ASSUME NEW i, ~Fills(calls'[c], i)
      PROVE  AfterFills(c, u, i)'
  BY <1>1, <1>3 DEF AfterFills, Asks, Caller
<1> QED
  BY <1>2, <1>3

LEMMA NotBoxed ==
  ASSUME UnitsInv, NEW c, calls[c].phase \in {"none", "opened", "marking"}
  PROVE  ~Boxed(c) /\ \A u \in Units : \A k \in DOMAIN inbox[u] : inbox[u][k][1] # c
BY DEF UnitsInv, BoxesAgree, Boxed, Caller

(* The first requests of a call.                                           *)
LEMMA AskKeepsUnits ==
  ASSUME PlaneTypes, CallsInv, UnitsInv,
         ControllerSafe', ControllerTidy', CallsInv', deployment' = deployment,
         UNCHANGED <<stored, stale, active, leaked>>, Owned \subseteq Owned',
         ReadyCells' \subseteq ReadyCells,
         NEW c \in Calls, calls[c].phase \in {"none", "opened", "marking"},
         NEW new, CallStep(c, new), Sent(c, 1, new),
         Asked(new, new.op, new.p, new.S, new.fs),
         new.op = "get" => new.S \X new.fs \subseteq ReadyCells
  PROVE  PlaneTypes' /\ UnitsInv'
<1>1. calls'[c] = new /\ \A d \in Calls : d # c => calls'[d] = calls[d]
  BY OthersStay
<1>2. PlaneTypes'
  BY CallStepKeepsTypes DEF Asked, Sent
<1>3. Tolerated(c, new)
  BY <1>1, <1>2, AskIsTolerated DEF Asked
<1>4. ~Boxed(c) /\ \A u \in Units : \A k \in DOMAIN inbox[u] : inbox[u][k][1] # c
  BY NotBoxed
<1>5. \A e \in ReadyCells' : Safe(UnitOf(e[1]), e)
  BY DEF UnitsInv, ReadyIsSafe
<1>6. \A d : Boxed(d) => SameWork(d)
  <2>1. \A u \in Units : \A k \in DOMAIN inbox[u] : inbox[u][k][1] \in Calls
    <3>1. ASSUME NEW u \in Units, NEW k \in DOMAIN inbox[u]
          PROVE  inbox[u][k] \in Calls \X (1..MaxAttempts)
      BY ElementOfSeq DEF PlaneTypes
    <3> QED
      BY <3>1
  <2> QED
    BY <1>1, <1>4, <2>1 DEF Boxed, SameWork
<1>7. ASSUME NEW i \in new.S, NEW u, u = UnitOf(i)
      PROVE  /\ \A f \in new.fs : CellIsKept(c, u, <<i, f>>)'
             /\ SpaceIsCleared(c, u, i)'
  <2>1. i \in Indexes /\ u \in Units /\ u \in new.open
    BY <1>7, PlaneNumbers DEF Asked, Targets, CallType
  <2>2. BoxGrows(c, 1, u) /\ calls'[c].attempt[u] = 1
    BY <1>1, <2>1 DEF Sent, Asked
  <2>3. \A k \in DOMAIN inbox[u] : inbox[u][k] # <<c, 1>>
    BY <1>4, <2>1
  <2>4. ASSUME NEW f \in new.fs
        PROVE  CellIsKept(c, u, <<i, f>>)'
    <3>1. CASE new.op = "get"
      <4>1. <<i, f>> \in ReadyCells
        BY <1>7, <2>4, <3>1
      <4>2. Safe(u, <<i, f>>)
        BY <1>7, <4>1 DEF UnitsInv, ReadyIsSafe
      <4>3. ~Spoils(new, <<i, f>>)
        BY <3>1 DEF Spoils, Removes
      <4>4. Safe(u, <<i, f>>)'
        BY <1>1, <1>6, <2>1, <2>2, <4>2, <4>3, GrowthKeepsSafe
      <4> QED
        BY <1>1, <3>1, <4>4 DEF CellIsKept
    <3>2. CASE new.op = "put"
      <4>1. ~Spoils(new, <<i, f>>)
        BY <3>2 DEF Spoils, Removes, Asked
      <4>2. AfterSpoils(c, u, <<i, f>>)'
        BY <1>1, <2>2, <2>3, <4>1, NewRequestIsLast
      <4> QED
        BY <1>1, <2>1, <3>2, <4>2 DEF CellIsKept
    <3>3. CASE new.op \notin {"get", "put"}
      BY <1>1, <3>3 DEF CellIsKept
    <3> QED
      BY <3>1, <3>2, <3>3
  <2>5. SpaceIsCleared(c, u, i)'
    <3>1. CASE new.op = "put"
      BY <1>1, <3>1 DEF SpaceIsCleared
    <3>2. CASE new.op # "put"
      <4>1. ~Fills(new, i)
        BY <3>2 DEF Fills
      <4>2. AfterFills(c, u, i)'
        BY <1>1, <2>2, <2>3, <4>1, NewRequestIsLast
      <4> QED
        BY <1>1, <2>1, <4>2 DEF SpaceIsCleared
    <3> QED
      BY <3>1, <3>2
  <2> QED
    BY <2>4, <2>5
<1>8. UnitsInv'
  <2>1. \A u \in Units : BoxGrows(c, 1, u)
    BY DEF Sent
  <2>2. \A u \in Units : inbox'[u] # inbox[u] => new.phase = "units" /\ 1 <= new.attempt[u]
    BY DEF Sent
  <2> QED
    BY <1>3, <1>4, <1>5, <1>7, <2>1, <2>2, SendKeepsUnits
<1> QED
  BY <1>2, <1>8

(* A step of c that sends nothing.                                         *)
LEMMA QuietKeepsUnits ==
  ASSUME PlaneTypes, CallsInv, UnitsInv, deployment' = deployment,
         UNCHANGED <<inbox, stored, stale, active, leaked>>, Owned \subseteq Owned',
         \A e \in ReadyCells' : Safe(UnitOf(e[1]), e),
         NEW c \in Calls, NEW new \in CallType, CallStep(c, new),
         Boxed(c) => SameWork(c) /\ new.phase \in {"units", "notify", "ended"}
                     /\ new.attempt = calls[c].attempt,
         \A i \in new.S : \A u : u = UnitOf(i) =>
           /\ \A f \in new.fs : CellIsKept(c, u, <<i, f>>)'
           /\ SpaceIsCleared(c, u, i)'
  PROVE  PlaneTypes' /\ UnitsInv'
<1>1. PlaneTypes'
  BY CallStepKeepsTypes DEF PlaneTypes
<1>2. \A u \in Units : BoxGrows(c, 1, u)
  BY SameBoxGrows
<1>3. \A u \in Units : \A k \in DOMAIN inbox[u] :
        inbox[u][k][1] = c => inbox[u][k][2] <= new.attempt[u]
  BY DEF UnitsInv, BoxesAgree, Boxed, Caller
<1>4. UnitsInv'
  BY <1>2, <1>3, SendKeepsUnits
<1> QED
  BY <1>1, <1>4

(* A call that ends, or has only begun, relies on nothing.                 *)
LEMMA RestingReliesOnNothing ==
  ASSUME NEW c, calls'[c].phase \in {"none", "opened", "marking", "ended"}, calls'[c].open = {}
  PROVE  /\ \A u, e : CellIsKept(c, u, e)'
         /\ \A u, i : SpaceIsCleared(c, u, i)'
BY DEF CellIsKept, SpaceIsCleared

LEMMA BeginKeepsUnits ==
  ASSUME PlaneTypes, CallsInv, UnitsInv, deployment' = deployment,
         UNCHANGED <<inbox, stored, stale, active, leaked>>, Owned \subseteq Owned',
         ReadyCells' \subseteq ReadyCells,
         NEW c \in Calls, calls[c].phase \in {"none", "opened", "marking"},
         NEW new \in CallType, CallStep(c, new),
         new.phase \in {"opened", "marking"}, new.open = {}
  PROVE  PlaneTypes' /\ UnitsInv'
<1>1. calls'[c] = new
  BY OthersStay
<1>2. ~Boxed(c)
  BY NotBoxed
<1>3. \A e \in ReadyCells' : Safe(UnitOf(e[1]), e)
  BY DEF UnitsInv, ReadyIsSafe
<1>4. \A i \in new.S : \A u : u = UnitOf(i) =>
           /\ \A f \in new.fs : CellIsKept(c, u, <<i, f>>)'
           /\ SpaceIsCleared(c, u, i)'
  BY <1>1, RestingReliesOnNothing
<1> QED
  BY <1>2, <1>3, <1>4, QuietKeepsUnits

LEMMA EndKeepsUnits ==
  ASSUME PlaneTypes, CallsInv, UnitsInv, deployment' = deployment,
         UNCHANGED <<inbox, stored, stale, active, leaked>>, Owned \subseteq Owned',
         \A e \in ReadyCells' : Safe(UnitOf(e[1]), e),
         NEW c \in Calls, NEW new, CallStep(c, new), Over(c, new)
  PROVE  PlaneTypes' /\ UnitsInv'
<1>1. calls'[c] = new /\ new \in CallType
  BY OthersStay DEF Over
<1>2. Boxed(c) => SameWork(c) /\ new.phase \in {"units", "notify", "ended"}
                  /\ new.attempt = calls[c].attempt
  BY <1>1 DEF Over, SameWork
<1>3. \A i \in new.S : \A u : u = UnitOf(i) =>
           /\ \A f \in new.fs : CellIsKept(c, u, <<i, f>>)'
           /\ SpaceIsCleared(c, u, i)'
  BY <1>1, RestingReliesOnNothing DEF Over
<1> QED
  BY <1>1, <1>2, <1>3, QuietKeepsUnits

(* An ended call works on nothing.                                         *)
LEMMA EndKeepsCalls ==
  ASSUME PlaneTypes, CallsInv, deployment' = deployment,
         NEW c \in Calls, NEW new, CallStep(c, new), Over(c, new), OthersKeep(c)
  PROVE  CallsInv'
<1>1. ~Alive(new) /\ (new.phase = "none" => new = Idle)
  BY DEF Over, Alive
<1>2. WellFormed(new)
  <2>1. CASE new.phase = "none"
    <3>1. new.op = "idle" /\ new.open = {} /\ new.failed = {}
      BY <2>1 DEF Over
    <3> QED
      BY <1>1, <2>1, <3>1 DEF WellFormed
  <2>2. CASE new.phase # "none"
    BY <1>1, <2>2 DEF WellFormed, Over, CallsInv, CallsAgree
  <2> QED
    BY <2>1, <2>2
<1> QED
  BY <1>1, <1>2, CallStepKeepsCalls

-----------------------------------------------------------------------------
(* The steps of calls that the controller serves.                          *)

(* A call fits in when it agrees with the controller and all others.       *)
Fits(c, new) ==
  /\ Present(new)'
  /\ Removing(new) => Hidden(new)'
  /\ \A d \in Calls : d # c /\ Alive(calls[d]) =>
       Compatible(new, calls[d]) /\ Compatible(calls[d], new)

(* What the controller may do beside it.                                   *)
ControllerAgrees(c) ==
  /\ ControllerSafe' /\ ControllerTidy'
  /\ Owned \subseteq Owned' /\ ReadyCells' \subseteq ReadyCells
  /\ OthersKeep(c)

LEMMA AskKeepsInv ==
  ASSUME PlaneInv, deployment' = deployment, UNCHANGED <<stored, stale, active, leaked>>,
         NEW c \in Calls, calls[c].phase \in {"none", "opened", "marking"},
         ControllerAgrees(c),
         NEW new, CallStep(c, new), Sent(c, 1, new),
         Asked(new, new.op, new.p, new.S, new.fs),
         new.op # "idle", new.S # {}, new.op \in {"clear", "clear_all"} => new.fs = Fields,
         new.op = "get" => new.S \X new.fs \subseteq ReadyCells,
         Fits(c, new)
  PROVE  PlaneInv'
<1>1. WellFormed(new) /\ new.phase # "none"
  BY DEF WellFormed, Asked, Alive
<1>2. CallsInv'
  BY <1>1, CallStepKeepsCalls DEF PlaneInv, Fits, ControllerAgrees
<1>3. PlaneTypes' /\ UnitsInv'
  BY <1>2, AskKeepsUnits DEF PlaneInv, ControllerAgrees
<1> QED
  BY <1>2, <1>3 DEF PlaneInv, ControllerAgrees

LEMMA BeginKeepsInv ==
  ASSUME PlaneInv, deployment' = deployment, UNCHANGED <<inbox, stored, stale, active, leaked>>,
         NEW c \in Calls, calls[c].phase \in {"none", "opened", "marking"},
         ControllerAgrees(c),
         NEW new \in CallType, CallStep(c, new),
         \/ new.op = "put" /\ new.phase = "opened"
         \/ new.op = "clear_all" /\ new.phase = "marking" /\ new.fs = Fields,
         new.open = {}, new.failed = {}, new.gone = {}, new.S # {},
         Fits(c, new)
  PROVE  PlaneInv'
<1>1. WellFormed(new) /\ new.phase # "none"
  BY DEF WellFormed, Alive
<1>2. CallsInv'
  BY <1>1, CallStepKeepsCalls DEF PlaneInv, Fits, ControllerAgrees
<1>3. PlaneTypes' /\ UnitsInv'
  BY BeginKeepsUnits DEF PlaneInv, ControllerAgrees
<1> QED
  BY <1>2, <1>3 DEF PlaneInv, ControllerAgrees

LEMMA EndKeepsInv ==
  ASSUME PlaneInv, deployment' = deployment, UNCHANGED <<inbox, stored, stale, active, leaked>>,
         NEW c \in Calls, calls[c].phase # "none", End(c),
         ControllerSafe', ControllerTidy', Owned \subseteq Owned',
         \A e \in ReadyCells' : Safe(UnitOf(e[1]), e), OthersKeep(c)
  PROVE  PlaneInv'
<1>1. PICK new : new = Ended(c, inbox)
  OBVIOUS
<1>2. CallStep(c, new) /\ Over(c, new)
  BY <1>1, EndedIsOver DEF PlaneInv, CallsInv, End, CallStep
<1>3. CallsInv'
  BY <1>2, EndKeepsCalls DEF PlaneInv
<1>4. PlaneTypes' /\ UnitsInv'
  BY <1>2, EndKeepsUnits DEF PlaneInv
<1> QED
  BY <1>3, <1>4 DEF PlaneInv

(* What is ready when the status of p is replaced by st.                   *)
LEMMA ReadyAfter ==
  ASSUME NEW p, NEW st, partitions' = With(p, st)
  PROVE  \A e \in ReadyCells' : e \in ReadyCells \/ e \in st.production_status
BY DEF With, ReadyCells

(* A status that loses no sample and gains no ready cell.                  *)
LEMMA StatusAgrees ==
  ASSUME PlaneInv, NEW c \in Calls, NEW p \in Partitions, Exists(p), NEW st,
         partitions' = With(p, st), UNCHANGED imVars,
         partitions[p].global_indexes \subseteq st.global_indexes,
         partitions[p].rows \subseteq st.rows,
         st.production_status \subseteq partitions[p].production_status,
         ControllerSafe', ControllerTidy'
  PROVE  ControllerAgrees(c) /\ Exists(p)' /\ partitions'[p] = st
<1>1. partition_to_indexes' = partition_to_indexes
  BY DEF imVars
<1>2. Owned' = Owned
  BY <1>1 DEF Owned
<1>3. ReadyCells' \subseteq ReadyCells
  BY ReadyAfter DEF ReadyCells, Exists
<1>4. OthersKeep(c)
  BY <1>1, StatusKeepsOthers DEF PlaneInv
<1> QED
  BY <1>2, <1>3, <1>4 DEF ControllerAgrees, With, Exists

LEMMA UnchangedAgrees ==
  ASSUME PlaneInv, NEW c \in Calls, UNCHANGED controllerVars
  PROVE  ControllerAgrees(c) /\ ReadyCells' = ReadyCells
<1>1. /\ partitions' = partitions /\ partition_to_indexes' = partition_to_indexes
      /\ UNCHANGED imVars
  BY DEF controllerVars, imVars
<1>2. Owned' = Owned /\ ReadyCells' = ReadyCells
  BY <1>1 DEF Owned, ReadyCells
<1>3. ControllerSafe' /\ ControllerTidy'
  BY <1>1, UnchangedIsSafe, UnchangedIsTidy DEF PlaneInv
<1>4. OthersKeep(c)
  BY UnchangedKeepsOthers DEF PlaneInv
<1> QED
  BY <1>2, <1>3, <1>4 DEF ControllerAgrees

LEMMA FreeIsIdle ==
  ASSUME NEW c \in Calls, Free(c)
  PROVE  calls[c].phase = "none"
BY DEF Free, Idle

(* Careful users.                                                          *)
LEMMA CarefulUse ==
  ASSUME PlaneInv, ~ClearBusy, NEW p, NEW S, MayUse(p, S), NEW d \in Calls, Alive(calls[d]),
         Removes(calls[d]), calls[d].p = p
  PROVE  calls[d].S \cap S = {}
BY DEF MayUse, Working, Removes, Alive

LEMMA CarefulClear ==
  ASSUME PlaneInv, ~ClearBusy, NEW c \in Calls, NEW p, NEW S, MayClear(c, p, S),
         NEW d \in Calls, d # c, Alive(calls[d]), calls[d].p = p, calls[d].op # "clear_all"
  PROVE  calls[d].S \cap S = {}
<1>1. calls[d].op \in {"put", "get", "clear", "drop"}
  <2>1. calls[d].op # "idle"
    BY DEF PlaneInv, CallsInv, CallsAgree, WellFormed, Alive
  <2> QED
    BY <2>1, CallIsTyped DEF PlaneInv, CallType
<1> QED
  BY <1>1 DEF MayClear, Working, Alive

-----------------------------------------------------------------------------
(* async_put of new samples: no call can know of them.                     *)
LEMMA InsertKeepsInv ==
  ASSUME PlaneInv, ~ClearBusy, deployment' = deployment, UNCHANGED unitVars,
         NEW c \in Calls, NEW p \in Partitions, Free(c), MayOpen(p),
         NEW n \in Nat, n > 0, NEW A, NEW st, Inserts(p, n, A, st),
         NewBatch(p, n, A) \in SUBSET Universe, ControllerSafe', ControllerTidy',
         NEW fs \in SUBSET Fields, Begin(c, "put", "opened", p, NewBatch(p, n, A), fs)
  PROVE  PlaneInv'
<1>1. PICK S : S = NewBatch(p, n, A)
  OBVIOUS
<1>2. /\ S # {}
      /\ Exists(p) => S \cap partitions[p].global_indexes = {}
      /\ \A q \in Partitions \ {p} : partition_to_indexes'[q] = partition_to_indexes[q]
      /\ Owned \subseteq Owned'
  BY <1>1, BatchIsNew DEF PlaneInv
<1>3. S \in SUBSET Indexes
  BY <1>1 DEF Universe, Indexes
<1>4. PICK new : CallStep(c, new) /\ Begun(new, "put", "opened", p, S, fs)
  <2>1. Begin(c, "put", "opened", p, S, fs)
    BY <1>1 DEF Begin
  <2> QED
    BY <1>3, <2>1, BeginStep DEF PlaneInv
<1>5. /\ partitions' = With(p, st)
      /\ Exists(p) => st.production_status = partitions[p].production_status
      /\ ~Exists(p) => st.production_status = {}
      /\ Exists(p) => /\ partitions[p].global_indexes \subseteq st.global_indexes
                      /\ partitions[p].rows \subseteq st.rows
      /\ S \subseteq st.global_indexes
  BY <1>1 DEF Inserts, Opened, NewPartition, RegisterPreAllocated, EnsureSamplesCapacity
<1>6. ASSUME NEW d \in Calls, Alive(calls[d]), calls[d].p = p
      PROVE  /\ Exists(p) /\ calls[d].op # "clear_all"
             /\ calls[d].S \subseteq partitions[p].global_indexes
  <2>1. Present(calls[d])
    BY <1>6 DEF PlaneInv, CallsInv, SamplesArePresent
  <2>2. calls[d].op # "clear_all"
    BY <1>6 DEF MayOpen, Alive
  <2> QED
    BY <1>6, <2>1, <2>2 DEF Present
<1>7. OthersKeep(c)
  BY <1>2, <1>5, <1>6, StatusKeepsOthers DEF PlaneInv
<1>8. ReadyCells' \subseteq ReadyCells
  BY <1>5, ReadyAfter DEF ReadyCells, Exists
<1>9. ControllerAgrees(c)
  BY <1>2, <1>7, <1>8 DEF ControllerAgrees
<1>10. Fits(c, new)
  <2>1. Present(new)'
    BY <1>4, <1>5 DEF Begun, Present, Exists, With
  <2>2. ~Removes(new)
    BY <1>4 DEF Begun, Removes
  <2>3. ASSUME NEW d \in Calls, Alive(calls[d])
        PROVE  ~Overlap(new, calls[d]) /\ ~Overlap(calls[d], new)
    BY <1>2, <1>4, <1>6, <2>3 DEF Begun, Overlap
  <2> QED
    BY <2>1, <2>2, <2>3 DEF Fits, Removing, Compatible
<1> QED
  BY <1>2, <1>4, <1>9, <1>10, FreeIsIdle, BeginKeepsInv DEF Begun, unitVars

LEMMA PutNewKeepsInv ==
  ASSUME PlaneInv, ~ClearBusy, deployment' = deployment,
         NEW c \in Calls, NEW p \in Partitions, PutNew(c, p)
  PROVE  PlaneInv'
<1>1. PICK fs \in (SUBSET Fields) \ {{}} :
       \/ \E n \in 1..MaxBatch : \E A \in Activations(p, n) :
            /\ GetMetaInsert(p, n, A)
            /\ Begin(c, "put", "opened", p, NewBatch(p, n, A), fs)
       \/ \E keys \in (SUBSET Keys) \ {{}} : \E A \in Activations(p, Cardinality(keys)) :
            /\ KvCreate(p, keys, A)
            /\ Begin(c, "put", "opened", p, NewBatch(p, Cardinality(keys), A), fs)
  BY DEF PutNew
<1>2. Free(c) /\ MayOpen(p) /\ UNCHANGED unitVars
  BY DEF PutNew
<1>3. ASSUME NEW n \in 1..MaxBatch, NEW A, GetMetaInsert(p, n, A),
             Begin(c, "put", "opened", p, NewBatch(p, n, A), fs)
      PROVE  PlaneInv'
  <2>1. n \in Nat /\ n > 0
    BY DataPlaneAssumption
  <2>2. PICK st : Inserts(p, n, A, st)
    BY <1>3, <2>1, InsertInserts DEF PlaneInv
  <2>3. ControllerSafe' /\ NewBatch(p, n, A) \in SUBSET Universe
    BY <1>3, <2>1, InsertIsSafe DEF PlaneInv
  <2>4. ControllerTidy'
    BY <1>3, <2>1, InsertIsTidy DEF PlaneInv
  <2> QED
    BY <1>2, <1>3, <2>1, <2>2, <2>3, <2>4, InsertKeepsInv
<1>4. ASSUME NEW keys \in (SUBSET Keys) \ {{}}, NEW A, KvCreate(p, keys, A),
             Begin(c, "put", "opened", p, NewBatch(p, Cardinality(keys), A), fs)
      PROVE  PlaneInv'
  <2>1. Cardinality(keys) \in Nat /\ Cardinality(keys) > 0
    <3>1. IsFiniteSet(keys)
      BY FS_Subset, PartitionAssumption
    <3> QED
      BY <3>1, FS_CardinalityType, FS_EmptySet
  <2>2. PICK st : Inserts(p, Cardinality(keys), A, st)
    BY <1>4, CreateInserts DEF PlaneInv
  <2>3. ControllerSafe' /\ NewBatch(p, Cardinality(keys), A) \in SUBSET Universe
    BY <1>4, CreateIsSafe DEF PlaneInv
  <2>4. ControllerTidy'
    BY <1>4, CreateIsTidy DEF PlaneInv
  <2> QED
    BY <1>2, <1>4, <2>1, <2>2, <2>3, <2>4, InsertKeepsInv
<1> QED
  BY <1>1, <1>3, <1>4

-----------------------------------------------------------------------------
(* A call that stays idle.                                                 *)
LEMMA StayIdleKeepsInv ==
  ASSUME PlaneInv, deployment' = deployment,
         UNCHANGED <<calls, inbox, stored, stale, active, leaked>>,
         NEW c \in Calls, Free(c), ControllerAgrees(c)
  PROVE  PlaneInv'
<1>1. PICK new : new = calls[c]
  OBVIOUS
<1>2. /\ new = Idle /\ new \in CallType /\ new.phase = "none" /\ new.open = {}
      /\ calls'[c] = new
  BY <1>1, CallIsTyped, FreeIsIdle DEF PlaneInv, Free, Idle
<1>3. CallStep(c, new)
  BY <1>1 DEF CallStep, PlaneInv, PlaneTypes
<1>4. WellFormed(new) /\ ~Alive(new)
  BY <1>1, <1>2 DEF PlaneInv, CallsInv, CallsAgree, Alive
<1>5. CallsInv'
  BY <1>2, <1>3, <1>4, CallStepKeepsCalls DEF PlaneInv, ControllerAgrees
<1>6. ~Boxed(c)
  <2>1. calls[c].phase \in {"none", "opened", "marking"} /\ UnitsInv
    BY FreeIsIdle DEF PlaneInv
  <2> QED
    BY <2>1, NotBoxed
<1>7. \A e \in ReadyCells' : Safe(UnitOf(e[1]), e)
  BY DEF PlaneInv, UnitsInv, ReadyIsSafe, ControllerAgrees
<1>8. \A i \in new.S : \A u : u = UnitOf(i) =>
           /\ \A f \in new.fs : CellIsKept(c, u, <<i, f>>)'
           /\ SpaceIsCleared(c, u, i)'
  BY <1>2, RestingReliesOnNothing
<1>9. PlaneTypes' /\ UnitsInv'
  BY <1>2, <1>3, <1>6, <1>7, <1>8, QuietKeepsUnits DEF PlaneInv, ControllerAgrees
<1> QED
  BY <1>5, <1>9 DEF PlaneInv, ControllerAgrees

(* The values of the new samples.                                          *)
LEMMA SendPutKeepsInv ==
  ASSUME PlaneInv, deployment' = deployment, NEW c \in Calls, SendPut(c)
  PROVE  PlaneInv'
<1>1. PICK call : call = calls[c]
  OBVIOUS
<1>2. /\ call \in CallType /\ call.phase = "opened" /\ call.op = "put" /\ Alive(call)
      /\ call.gone = {} /\ call.failed = {} /\ call.S # {}
  BY <1>1, CallIsTyped DEF PlaneInv, CallsInv, CallsAgree, WellFormed, SendPut, Alive
<1>3. PICK lost : Ask(c, call, lost)
  BY <1>1 DEF SendPut, Ask
<1>4. PICK new : CallStep(c, new) /\ Sent(c, 1, new) /\ Asked(new, "put", call.p, call.S, call.fs)
  BY <1>2, <1>3, AskStep DEF PlaneInv
<1>5. ControllerAgrees(c)
  BY UnchangedAgrees DEF SendPut
<1>6. Fits(c, new)
  <2>1. Present(call) /\ partitions' = partitions
    BY <1>1, <1>2 DEF PlaneInv, CallsInv, SamplesArePresent, SendPut, controllerVars
  <2>2. Present(new)'
    BY <1>2, <1>4, <2>1 DEF Present, Exists, Asked
  <2>3. ~Removes(new)
    BY <1>4 DEF Removes, Asked
  <2>4. \A d \in Calls : d # c /\ Alive(calls[d]) => Compatible(calls[d], call)
    BY <1>1, <1>2 DEF PlaneInv, CallsInv, CallsExclude
  <2>5. \A d \in Calls : d # c /\ Alive(calls[d]) => Compatible(calls[d], new)
    BY <1>2, <1>4, <2>4 DEF Compatible, Overlap, Asked, Removes
  <2> QED
    BY <2>2, <2>3, <2>5 DEF Fits, Compatible, Removing
<1>7. UNCHANGED <<stored, active, stale, leaked>>
  BY DEF SendPut
<1>8. Asked(new, new.op, new.p, new.S, new.fs) /\ new.op = "put" /\ new.S # {}
  BY <1>2, <1>4 DEF Asked
<1> QED
  BY <1>1, <1>2, <1>4, <1>5, <1>6, <1>7, <1>8, AskKeepsInv

(* A put of samples there are.                                             *)
LEMMA PutOverKeepsInv ==
  ASSUME PlaneInv, ~ClearBusy, deployment' = deployment,
         NEW c \in Calls, NEW p \in Partitions, PutOver(c, p)
  PROVE  PlaneInv'
<1>1. PICK S \in (SUBSET partitions[p].global_indexes) \ {{}}, fs \in (SUBSET Fields) \ {{}} :
        MayUse(p, S) /\ BeginAsking(c, "put", p, S, fs)
  BY DEF PutOver
<1>2. Exists(p) /\ S \in SUBSET Indexes
  <2>1. Exists(p)
    BY DEF PutOver
  <2> QED
    BY <2>1, StatusOf DEF PlaneInv, ControllerSafe, Sound, Universe, Indexes
<1>3. PICK new : CallStep(c, new) /\ Sent(c, 1, new) /\ Asked(new, "put", p, S, fs)
  BY <1>1, <1>2, BeginAskingStep DEF PlaneInv
<1>4. ControllerAgrees(c)
  BY UnchangedAgrees DEF PutOver
<1>5. Fits(c, new)
  <2>1. partitions' = partitions
    BY DEF PutOver, controllerVars
  <2>2. Present(new)'
    BY <1>2, <1>3, <2>1 DEF Present, Exists, Asked
  <2>3. ~Removes(new)
    BY <1>3 DEF Removes, Asked
  <2>4. ASSUME NEW d \in Calls, Alive(calls[d]), Removes(calls[d])
        PROVE  ~Overlap(calls[d], new)
    BY <1>1, <1>3, <2>4, CarefulUse DEF Overlap, Asked
  <2> QED
    BY <2>2, <2>3, <2>4 DEF Fits, Compatible, Removing
<1>6. UNCHANGED <<stored, active, stale, leaked>> /\ Free(c)
  BY DEF PutOver
<1>7. Asked(new, new.op, new.p, new.S, new.fs) /\ new.op = "put" /\ new.S # {}
  BY <1>1, <1>3 DEF Asked
<1> QED
  BY <1>3, <1>4, <1>5, <1>6, <1>7, FreeIsIdle, AskKeepsInv

(* What a get is given is ready, so nobody is removing it.                 *)
LEMMA GetKeepsInv ==
  ASSUME PlaneInv, deployment' = deployment, NEW c \in Calls, NEW p \in Partitions, Get(c, p)
  PROVE  PlaneInv'
<1>1. PICK fs \in (SUBSET Fields) \ {{}}, t \in Tasks, n \in 1..MaxBatch :
        \E B \in Lowest(ScanDataStatus(partitions[p], fs, t), n) :
            GetMetaFetch(p, fs, t, n, B) /\ BeginAsking(c, "get", p, B, fs)
  BY DEF Get
<1>2. PICK B \in Lowest(ScanDataStatus(partitions[p], fs, t), n) :
            GetMetaFetch(p, fs, t, n, B) /\ BeginAsking(c, "get", p, B, fs)
  BY <1>1
<1>3. Exists(p)
  BY <1>2 DEF GetMetaFetch
<1>4. /\ B \in SUBSET partitions[p].global_indexes
      /\ B \in SUBSET Universe
      /\ B \X fs \subseteq partitions[p].production_status
  BY <1>3, FoundAreSamples DEF PlaneInv
<1>5. B # {}
  <2>1. Cardinality(B) = IF n < Cardinality(ScanDataStatus(partitions[p], fs, t))
                         THEN n ELSE Cardinality(ScanDataStatus(partitions[p], fs, t))
    BY DEF Lowest, kSubset
  <2>2. n >= 1 /\ n \in Nat /\ Cardinality(ScanDataStatus(partitions[p], fs, t)) >= n
    BY <1>2, DataPlaneAssumption DEF GetMetaFetch
  <2> QED
    BY <2>1, <2>2, FS_EmptySet
<1>6. PICK new : CallStep(c, new) /\ Sent(c, 1, new) /\ Asked(new, "get", p, B, fs)
  BY <1>2, <1>4, BeginAskingStep DEF PlaneInv, Universe, Indexes
<1>7. PICK st : st = MarkConsumed(partitions[p], t, B)
  OBVIOUS
<1>8. /\ partitions' = With(p, st) /\ UNCHANGED imVars
      /\ st.global_indexes = partitions[p].global_indexes
      /\ st.rows = partitions[p].rows
      /\ st.production_status = partitions[p].production_status
  <2>1. partitions[p] \in PartitionStatus
    BY <1>3, StatusOf DEF PlaneInv, ControllerSafe, Sound
  <2> QED
    BY <1>2, <1>7, <2>1 DEF GetMetaFetch, MarkConsumed, PartitionStatus
<1>9. ControllerSafe' /\ ControllerTidy'
  BY <1>2, FetchIsSafe, FetchIsTidy DEF PlaneInv
<1>10. ControllerAgrees(c) /\ Exists(p)' /\ partitions'[p] = st
  BY <1>3, <1>8, <1>9, StatusAgrees
<1>11. Fits(c, new)
  <2>1. Present(new)'
    BY <1>4, <1>6, <1>8, <1>10 DEF Present, Asked, Exists
  <2>2. ~Removes(new)
    BY <1>6 DEF Removes, Asked
  <2>3. ASSUME NEW d \in Calls, Alive(calls[d]), Removing(calls[d]), Overlap(calls[d], new)
        PROVE  calls[d].op = "drop" /\ calls[d].fs \cap fs = {}
    <3>1. Hidden(calls[d]) /\ (calls[d].op # "drop" => calls[d].fs = Fields)
      BY <2>3 DEF PlaneInv, CallsInv, CallsAgree, WellFormed, RemovedAreHidden, Removing, Removes
    <3>2. PICK i : i \in calls[d].S /\ i \in B /\ calls[d].p = p
      BY <1>6, <2>3 DEF Overlap, Asked
    <3>3. \A f \in fs : <<i, f>> \in partitions[p].production_status
      BY <1>4, <3>2
    <3>4. calls[d].fs \cap fs = {}
      BY <3>1, <3>2, <3>3 DEF Hidden
    <3> QED
      BY <1>1, <3>1, <3>4
  <2> QED
    BY <1>6, <2>1, <2>2, <2>3 DEF Fits, Compatible, Removing, Asked
<1>12. UNCHANGED <<stored, active, stale, leaked>> /\ Free(c)
  BY DEF Get
<1>13. Asked(new, new.op, new.p, new.S, new.fs) /\ new.op = "get" /\ new.S # {}
       /\ new.S \X new.fs \subseteq ReadyCells
  BY <1>3, <1>4, <1>5, <1>6 DEF Asked, ReadyCells, Exists
<1> QED
  BY <1>6, <1>10, <1>11, <1>12, <1>13, FreeIsIdle, AskKeepsInv

-----------------------------------------------------------------------------
(* The steps of calls that remove.                                         *)

(* What a mark leaves of a partition.                                      *)
Marks(p, S, st) ==
  /\ partitions' = With(p, st) /\ UNCHANGED imVars
  /\ st.global_indexes = partitions[p].global_indexes
  /\ st.rows = partitions[p].rows
  /\ st.production_status \subseteq partitions[p].production_status
  /\ InRange(partitions[p], S \cap partitions[p].global_indexes) =>
       \A e \in st.production_status : e[1] \notin S

LEMMA MarkMarks ==
  ASSUME ControllerSafe, NEW p \in Partitions, NEW S, MarkClearing(p, S)
  PROVE  \E st : Marks(p, S, st)
<1>1. Exists(p)
  BY DEF MarkClearing
<1>2. PICK old : old = partitions[p]
  OBVIOUS
<1>3. old \in PartitionStatus /\ ReadyCellsAreSamples(old)
  BY <1>1, <1>2, StatusOf DEF ControllerSafe, Sound
<1>4. \A Z : /\ ZeroRows(old, Z).global_indexes = old.global_indexes
             /\ ZeroRows(old, Z).rows = old.rows
             /\ ZeroRows(old, Z).production_status \subseteq old.production_status
             /\ \A e \in ZeroRows(old, Z).production_status : e[1] \notin Z
  BY <1>3 DEF ZeroRows, PartitionStatus
<1>5. CASE InRange(old, S \cap old.global_indexes)
  <2>1. partitions' = With(p, ZeroRows(old, S \cap old.global_indexes)) /\ UNCHANGED imVars
    BY <1>2, <1>5 DEF MarkClearing
  <2>2. \A e \in ZeroRows(old, S \cap old.global_indexes).production_status : e[1] \notin S
    BY <1>3, <1>4 DEF ReadyCellsAreSamples
  <2> QED
    BY <1>2, <1>4, <2>1, <2>2 DEF Marks
<1>6. CASE ~InRange(old, S \cap old.global_indexes)
  <2>1. PICK st \in PartlyZeroed(old, S \cap old.global_indexes) :
          partitions' = With(p, st) /\ UNCHANGED imVars
    BY <1>2, <1>6 DEF MarkClearing
  <2>2. PICK Z : st = ZeroRows(old, Z)
    BY <2>1 DEF PartlyZeroed
  <2> QED
    BY <1>2, <1>4, <1>6, <2>1, <2>2 DEF Marks
<1> QED
  BY <1>5, <1>6

LEMMA MarkAgrees ==
  ASSUME PlaneInv, NEW c \in Calls, NEW p \in Partitions, NEW S, MarkClearing(p, S),
         NEW st, Marks(p, S, st)
  PROVE  ControllerAgrees(c) /\ Exists(p)' /\ partitions'[p] = st
<1>1. Exists(p)
  BY DEF MarkClearing
<1>2. ControllerSafe' /\ ControllerTidy'
  BY MarkIsSafe, MarkIsTidy DEF PlaneInv
<1> QED
  BY <1>1, <1>2, StatusAgrees DEF Marks

(* async_clear_samples.                                                    *)
LEMMA ClearKeepsInv ==
  ASSUME PlaneInv, ~ClearBusy, deployment' = deployment,
         NEW c \in Calls, NEW p \in Partitions, Clear(c, p)
  PROVE  PlaneInv'
<1>1. PICK S \in (SUBSET partitions[p].global_indexes) \ {{}} :
       /\ MayClear(c, p, S) /\ MayUse(p, S)
       /\ MarkClearing(p, S)
       /\ IF InRange(partitions[p], S) THEN BeginAsking(c, "clear", p, S, Fields)
          ELSE UNCHANGED <<calls, inbox>>
  BY DEF Clear
<1>2. /\ Exists(p) /\ Free(c) /\ UNCHANGED <<stored, active, stale, leaked>>
      /\ S \in SUBSET Indexes /\ S \cap partitions[p].global_indexes = S
  <2>1. Exists(p) /\ Free(c) /\ UNCHANGED <<stored, active, stale, leaked>>
    BY DEF Clear
  <2> QED
    BY <2>1, StatusOf DEF PlaneInv, ControllerSafe, Sound, Universe, Indexes
<1>3. PICK st : Marks(p, S, st)
  BY <1>1, MarkMarks DEF PlaneInv
<1>4. ControllerAgrees(c) /\ Exists(p)' /\ partitions'[p] = st
  BY <1>1, <1>3, MarkAgrees
<1>5. CASE ~InRange(partitions[p], S)
  BY <1>1, <1>2, <1>4, <1>5, StayIdleKeepsInv
<1>6. CASE InRange(partitions[p], S)
  <2>1. BeginAsking(c, "clear", p, S, Fields)
    BY <1>1, <1>6
  <2>2. PICK new : CallStep(c, new) /\ Sent(c, 1, new) /\ Asked(new, "clear", p, S, Fields)
    BY <1>2, <2>1, BeginAskingStep DEF PlaneInv
  <2>3. Present(new)'
    BY <1>3, <1>4, <1>6, <2>2 DEF Marks, Present, Asked, InRange, Exists
  <2>4. Hidden(new)'
    BY <1>2, <1>3, <1>4, <1>6, <2>2 DEF Marks, Hidden, Asked
  <2>5. ASSUME NEW d \in Calls, d # c, Alive(calls[d])
        PROVE  ~Overlap(calls[d], new) /\ ~Overlap(new, calls[d])
    <3>1. calls[d].p = p => calls[d].S \cap S = {}
      BY <1>1, <2>5, CarefulUse, CarefulClear DEF Removes
    <3> QED
      BY <2>2, <3>1 DEF Overlap, Asked
  <2>6. Fits(c, new)
    BY <2>3, <2>4, <2>5 DEF Fits, Compatible
  <2>7. Asked(new, new.op, new.p, new.S, new.fs) /\ new.op = "clear" /\ new.S # {}
        /\ new.fs = Fields
    BY <1>1, <2>2 DEF Asked
  <2> QED
    BY <1>2, <1>4, <2>2, <2>6, <2>7, FreeIsIdle, AskKeepsInv
<1> QED
  BY <1>5, <1>6

(* async_clear_partition lists the indexes.                                *)
LEMMA ClearAllKeepsInv ==
  ASSUME PlaneInv, ~ClearBusy, deployment' = deployment,
         NEW c \in Calls, NEW p \in Partitions, ClearAll(c, p)
  PROVE  PlaneInv'
<1>1. /\ Exists(p) /\ Free(c) /\ MayUse(p, Indexes) /\ partition_to_indexes[p] # {}
      /\ Begin(c, "clear_all", "marking", p, partition_to_indexes[p], Fields)
      /\ UNCHANGED controllerVars /\ UNCHANGED <<inbox, stored, active, stale, leaked>>
  BY DEF ClearAll, unitVars
<1>2. PICK S : S = partition_to_indexes[p]
  OBVIOUS
<1>3. S \in SUBSET Indexes
  BY <1>2, OwnedInUniverse DEF PlaneInv, Owned, Universe, Indexes
<1>4. Begin(c, "clear_all", "marking", p, S, Fields)
  BY <1>1, <1>2 DEF Begin
<1>5. PICK new : CallStep(c, new) /\ Begun(new, "clear_all", "marking", p, S, Fields)
  BY <1>3, <1>4, BeginStep DEF PlaneInv
<1>6. ControllerAgrees(c)
  BY <1>1, UnchangedAgrees
<1>7. Fits(c, new)
  <2>1. partitions' = partitions /\ partition_to_indexes' = partition_to_indexes
    BY <1>1 DEF controllerVars, imVars
  <2>2. Present(new)'
    BY <1>1, <1>2, <1>5, <2>1 DEF Present, Exists, Begun
  <2>3. ~Removing(new)
    BY <1>5 DEF Removing, Begun
  <2>4. ASSUME NEW d \in Calls, Alive(calls[d]), Removes(calls[d])
        PROVE  ~Overlap(calls[d], new) /\ ~Overlap(new, calls[d])
    <3>1. calls[d].S # {} /\ calls[d].S \subseteq Indexes
      BY <2>4, CallIsTyped DEF PlaneInv, CallsInv, CallsAgree, WellFormed, CallType
    <3>2. calls[d].p # p
      BY <1>1, <2>4, <3>1, CarefulUse
    <3> QED
      BY <1>5, <3>2 DEF Overlap, Begun
  <2> QED
    BY <2>2, <2>3, <2>4 DEF Fits, Compatible, Removing
<1>8. /\ new \in CallType /\ new.op = "clear_all" /\ new.phase = "marking" /\ new.fs = Fields
      /\ new.open = {} /\ new.failed = {} /\ new.gone = {} /\ new.S # {}
  BY <1>1, <1>2, <1>5 DEF Begun
<1> QED
  BY <1>1, <1>5, <1>6, <1>7, <1>8, FreeIsIdle, BeginKeepsInv

(* async_clear_partition marks.                                            *)
LEMMA MarkAllKeepsInv ==
  ASSUME PlaneInv, ~ClearBusy, deployment' = deployment, NEW c \in Calls, MarkAll(c)
  PROVE  PlaneInv'
<1>1. PICK call : call = calls[c]
  OBVIOUS
<1>2. /\ call \in CallType /\ call.phase = "marking" /\ call.op = "clear_all" /\ Alive(call)
      /\ call.gone = {} /\ call.failed = {} /\ call.S # {} /\ call.fs = Fields
      /\ call.p \in Partitions
  BY <1>1, CallIsTyped
  DEF PlaneInv, CallsInv, CallsAgree, WellFormed, MarkAll, Alive, CallType
<1>3. Exists(call.p) /\ call.S = partition_to_indexes[call.p]
  BY <1>1, <1>2 DEF PlaneInv, CallsInv, SamplesArePresent, Present
<1>4. /\ MayClear(c, call.p, call.S)
      /\ MarkClearing(call.p, call.S)
      /\ UNCHANGED <<stored, active, stale, leaked>>
      /\ IF ~InRange(partitions[call.p], call.S \cap partitions[call.p].global_indexes)
         THEN End(c) /\ UNCHANGED inbox
         ELSE \E lost \in SUBSET Targets(call.S) : Ask(c, call, lost)
  <2>1. /\ MayClear(c, calls[c].p, calls[c].S)
        /\ MarkClearing(calls[c].p, calls[c].S)
        /\ UNCHANGED <<stored, active, stale, leaked>>
        /\ IF ~InRange(partitions[calls[c].p], calls[c].S \cap partitions[calls[c].p].global_indexes)
           THEN End(c) /\ UNCHANGED inbox
           ELSE \E lost \in SUBSET Targets(calls[c].S) : Ask(c, calls[c], lost)
    BY <1>1, <1>3 DEF MarkAll
  <2>2. MayClear(c, call.p, call.S)
    BY <1>1, <2>1
  <2>3. MarkClearing(call.p, call.S)
    BY <1>1, <2>1 DEF MarkClearing
  <2>4. \A lost : Ask(c, calls[c], lost) => Ask(c, call, lost)
    BY <1>1 DEF Ask
  <2> QED
    BY <1>1, <2>1, <2>2, <2>3, <2>4
<1>5. PICK st : Marks(call.p, call.S, st)
  BY <1>2, <1>4, MarkMarks DEF PlaneInv
<1>6. ControllerAgrees(c) /\ Exists(call.p)' /\ partitions'[call.p] = st
  BY <1>2, <1>4, <1>5, MarkAgrees
<1>7. CASE ~InRange(partitions[call.p], call.S \cap partitions[call.p].global_indexes)
  <2>1. \A e \in ReadyCells' : Safe(UnitOf(e[1]), e)
    BY <1>6 DEF PlaneInv, UnitsInv, ReadyIsSafe, ControllerAgrees
  <2> QED
    BY <1>1, <1>2, <1>4, <1>6, <1>7, <2>1, EndKeepsInv DEF ControllerAgrees
<1>8. CASE InRange(partitions[call.p], call.S \cap partitions[call.p].global_indexes)
  <2>1. PICK lost : Ask(c, call, lost)
    BY <1>4, <1>8
  <2>2. PICK new : CallStep(c, new) /\ Sent(c, 1, new)
                   /\ Asked(new, "clear_all", call.p, call.S, call.fs)
    BY <1>2, <2>1, AskStep DEF PlaneInv
  <2>3. partition_to_indexes' = partition_to_indexes
    BY <1>5 DEF Marks, imVars
  <2>4. Present(new)'
    BY <1>3, <1>6, <2>2, <2>3 DEF Present, Exists, Asked
  <2>5. Hidden(new)'
    BY <1>5, <1>6, <1>8, <2>2 DEF Marks, Hidden, Asked
  <2>6. ASSUME NEW d \in Calls, d # c, Alive(calls[d])
        PROVE  ~Overlap(calls[d], new) /\ ~Overlap(new, calls[d])
    <3>1. Compatible(call, calls[d])
      BY <1>1, <1>2, <2>6 DEF PlaneInv, CallsInv, CallsExclude
    <3>2. calls[d].p = call.p => calls[d].S \cap call.S = {}
      BY <1>2, <1>4, <2>6, <3>1, CarefulClear DEF Compatible, Overlap, Removes
    <3> QED
      BY <2>2, <3>2 DEF Overlap, Asked
  <2>7. Fits(c, new)
    BY <2>4, <2>5, <2>6 DEF Fits, Compatible
  <2>8. Asked(new, new.op, new.p, new.S, new.fs) /\ new.op = "clear_all" /\ new.S # {}
        /\ new.fs = Fields
    BY <1>2, <2>2 DEF Asked
  <2> QED
    BY <1>1, <1>2, <1>4, <1>6, <2>2, <2>7, <2>8, AskKeepsInv
<1> QED
  BY <1>7, <1>8

(* async_kv_clear_fields.                                                  *)
LEMMA DropKeepsInv ==
  ASSUME PlaneInv, ~ClearBusy, deployment' = deployment,
         NEW c \in Calls, NEW p \in Partitions, Drop(c, p)
  PROVE  PlaneInv'
<1>1. Exists(p) /\ Free(c) /\ UNCHANGED <<stored, active, stale, leaked>>
  BY DEF Drop
<1>2. PICK keys \in (SUBSET Keys) \ {{}}, fs \in (SUBSET Fields) \ {{}} :
        LET S    == IndexesOf(partitions[p], keys)
            held == {f \in fs : partitions[p].field_metadata[f] # {}}
        IN  /\ MayClear(c, p, S) /\ MayUse(p, S)
            /\ KvClearFields(p, keys, fs)
            /\ BeginAsking(c, "drop", p, S, held)
  BY DEF Drop
<1>3. PICK S, held : /\ S = IndexesOf(partitions[p], keys)
                     /\ held = {f \in fs : partitions[p].field_metadata[f] # {}}
  OBVIOUS
<1>4. /\ MayClear(c, p, S) /\ MayUse(p, S)
      /\ KvClearFields(p, keys, fs)
      /\ BeginAsking(c, "drop", p, S, held)
  <2>1. MayClear(c, p, S) /\ MayUse(p, S)
    BY <1>2, <1>3
  <2>2. KvClearFields(p, keys, fs)
    BY <1>2
  <2>3. BeginAsking(c, "drop", p, S, held)
    BY ZenonT(30), <1>2, <1>3 DEF BeginAsking, Ask
  <2> QED
    BY <2>1, <2>2, <2>3
<1>5. PICK old : old = partitions[p]
  OBVIOUS
<1>6. old \in PartitionStatus /\ KeysNameSamples(old) /\ Sound(old, Universe)
  BY <1>1, <1>5, TidyStatusOf, StatusOf DEF PlaneInv, ControllerSafe, Tidy
<1>7. S \subseteq old.global_indexes /\ S \in SUBSET Indexes
  BY <1>3, <1>5, <1>6 DEF IndexesOf, KeysNameSamples, Sound, Universe, Indexes
<1>8. PICK st : st = ClearFields(old, S, held)
  OBVIOUS
<1>9. /\ S # {} /\ UNCHANGED imVars /\ partitions' = With(p, st)
      /\ st.global_indexes = old.global_indexes
      /\ st.rows = old.rows
      /\ st.production_status = old.production_status \ (S \X held)
  <2>1. S # {} /\ UNCHANGED imVars /\ partitions' = With(p, st)
    BY <1>3, <1>4, <1>5, <1>8 DEF KvClearFields
  <2>2. /\ st.global_indexes = old.global_indexes
        /\ st.rows = old.rows
        /\ st.production_status = old.production_status \ (S \X held)
    BY <1>6, <1>8 DEF ClearFields, PartitionStatus
  <2> QED
    BY <2>1, <2>2
<1>10. ControllerSafe' /\ ControllerTidy'
  BY <1>4, DropIsSafe, MarkIsTidy DEF PlaneInv
<1>11. ControllerAgrees(c) /\ Exists(p)' /\ partitions'[p] = st
  BY <1>1, <1>5, <1>9, <1>10, StatusAgrees
<1>12. PICK new : CallStep(c, new) /\ Sent(c, 1, new) /\ Asked(new, "drop", p, S, held)
  <2>1. held \in SUBSET Fields
    BY <1>2, <1>3
  <2> QED
    BY <1>4, <1>7, <2>1, BeginAskingStep DEF PlaneInv
<1>13. Present(new)'
  BY <1>7, <1>9, <1>11, <1>12 DEF Present, Asked, Exists
<1>14. Hidden(new)'
  <2>1. ASSUME NEW e \in st.production_status, e[1] \in S, e[2] \in held
        PROVE  FALSE
    <3>1. e \in Nat \X Fields
      BY <1>6, <1>9, <2>1 DEF PartitionStatus
    <3> QED
      BY <1>9, <2>1, <3>1
  <2> QED
    BY <1>11, <1>12, <2>1 DEF Hidden, Asked
<1>15. ASSUME NEW d \in Calls, d # c, Alive(calls[d])
       PROVE  ~Overlap(calls[d], new) /\ ~Overlap(new, calls[d])
  <2>1. calls[d].p = p => calls[d].S \cap S = {}
    BY <1>4, <1>15, CarefulUse, CarefulClear DEF Removes
  <2> QED
    BY <1>12, <2>1 DEF Overlap, Asked
<1>16. Fits(c, new)
  BY <1>13, <1>14, <1>15 DEF Fits, Compatible
<1>17. Asked(new, new.op, new.p, new.S, new.fs) /\ new.op = "drop" /\ new.S # {}
  BY <1>9, <1>12 DEF Asked
<1> QED
  BY <1>1, <1>11, <1>12, <1>16, <1>17, FreeIsIdle, AskKeepsInv

-----------------------------------------------------------------------------
(* The steps of calls that await the units.                                *)

(* A call that goes on with the same samples.                              *)
GoesOn(c, new) ==
  /\ calls[c].phase \in {"units", "notify"} /\ new.phase \in {"units", "notify"}
  /\ new.op = calls[c].op /\ new.p = calls[c].p /\ new.S = calls[c].S
  /\ new.fs = calls[c].fs /\ new.gone = calls[c].gone

LEMMA GoingOnKeepsCalls ==
  ASSUME PlaneInv, deployment' = deployment, UNCHANGED controllerVars,
         NEW c \in Calls, NEW new, CallStep(c, new), GoesOn(c, new), WellFormed(new)
  PROVE  CallsInv'
<1>1. PICK call : call = calls[c]
  OBVIOUS
<1>2. /\ Alive(call) /\ Alive(new) /\ new.phase # "none"
      /\ Removes(new) = Removes(call) /\ Removing(new) = Removing(call)
      /\ new.op = call.op /\ new.p = call.p /\ new.S = call.S /\ new.fs = call.fs
  BY <1>1 DEF GoesOn, Alive, Removes, Removing
<1>3. partitions' = partitions /\ partition_to_indexes' = partition_to_indexes
  BY DEF controllerVars, imVars
<1>4. Present(call) /\ (Removing(call) => Hidden(call))
  BY <1>1, <1>2 DEF PlaneInv, CallsInv, SamplesArePresent, RemovedAreHidden
<1>5. Present(new)' /\ (Removing(new) => Hidden(new)')
  BY <1>2, <1>3, <1>4 DEF Present, Hidden, Exists
<1>6. ASSUME NEW d \in Calls, d # c, Alive(calls[d])
      PROVE  Compatible(new, calls[d]) /\ Compatible(calls[d], new)
  <2>1. Compatible(call, calls[d]) /\ Compatible(calls[d], call)
    BY <1>1, <1>2, <1>6 DEF PlaneInv, CallsInv, CallsExclude
  <2> QED
    BY <1>2, <2>1 DEF Compatible, Overlap
<1>7. OthersKeep(c)
  BY UnchangedKeepsOthers DEF PlaneInv
<1> QED
  BY <1>2, <1>5, <1>6, <1>7, CallStepKeepsCalls DEF PlaneInv

(* What c relied on at a unit it sends nothing to.                         *)
LEMMA GoingOnKeepsCells ==
  ASSUME NEW c, NEW v \in Units, inbox'[v] = inbox[v], UNCHANGED <<stored, stale, active>>,
         \A d : Boxed(d) => SameWork(d),
         calls'[c].op = calls[c].op, calls[c].phase = "units",
         calls'[c].attempt[v] = calls[c].attempt[v],
         v \in calls'[c].open => v \in calls[c].open,
         v \notin calls'[c].open /\ v \notin calls'[c].failed
           => v \notin calls[c].open /\ v \notin calls[c].failed
  PROVE  /\ \A e : CellIsKept(c, v, e) => CellIsKept(c, v, e)'
         /\ \A i : SpaceIsCleared(c, v, i) => SpaceIsCleared(c, v, i)'
<1>1. \A k \in DOMAIN inbox[v] :
        /\ SameWork(inbox[v][k][1])
        /\ \A e : Spoils(calls'[inbox[v][k][1]], e) <=> Spoils(calls[inbox[v][k][1]], e)
        /\ \A i : Fills(calls'[inbox[v][k][1]], i) <=> Fills(calls[inbox[v][k][1]], i)
  BY DEF Boxed, SameWork, Spoils, Fills, Removes
<1>2. ASSUME NEW e PROVE  Safe(v, e) => Safe(v, e)'
  BY <1>1 DEF Safe, Caller
<1>3. ASSUME NEW i PROVE  Clean(v, i) => Clean(v, i)'
  BY <1>1 DEF Clean, Caller
<1>4. ASSUME NEW e PROVE  AfterSpoils(c, v, e) => AfterSpoils(c, v, e)'
  BY <1>1 DEF AfterSpoils, Asks, Caller
<1>5. ASSUME NEW i PROVE  AfterFills(c, v, i) => AfterFills(c, v, i)'
  BY <1>1 DEF AfterFills, Asks, Caller
<1>6. ASSUME NEW e, CellIsKept(c, v, e) PROVE CellIsKept(c, v, e)'
  BY <1>2, <1>4, <1>6 DEF CellIsKept
<1>7. ASSUME NEW i, SpaceIsCleared(c, v, i) PROVE SpaceIsCleared(c, v, i)'
  BY <1>3, <1>5, <1>7 DEF SpaceIsCleared
<1> QED
  BY <1>6, <1>7

LEMMA SameWorkStays ==
  ASSUME PlaneTypes, NEW c \in Calls, NEW new, CallStep(c, new),
         new.op = calls[c].op, new.S = calls[c].S, new.fs = calls[c].fs, new.gone = calls[c].gone
  PROVE  /\ \A d : Boxed(d) => SameWork(d)
         /\ \A u \in Units : \A k \in DOMAIN inbox[u] : inbox[u][k][1] \in Calls
<1>1. calls'[c] = new /\ \A d \in Calls : d # c => calls'[d] = calls[d]
  BY OthersStay
<1>2. ASSUME NEW u \in Units, NEW k \in DOMAIN inbox[u]
      PROVE  inbox[u][k] \in Calls \X (1..MaxAttempts)
  BY ElementOfSeq DEF PlaneTypes
<1>3. \A u \in Units : \A k \in DOMAIN inbox[u] : inbox[u][k][1] \in Calls
  BY <1>2
<1> QED
  BY <1>1, <1>3 DEF Boxed, SameWork

(* A step of c that sends nothing and goes on with the same samples.       *)
LEMMA GoingOnKeepsInv ==
  ASSUME PlaneInv, deployment' = deployment, UNCHANGED controllerVars,
         UNCHANGED <<inbox, stored, stale, active, leaked>>,
         NEW c \in Calls, NEW new \in CallType, CallStep(c, new), GoesOn(c, new), WellFormed(new),
         calls[c].phase = "units", new.attempt = calls[c].attempt,
         new.open \subseteq calls[c].open,
         calls[c].open \cup calls[c].failed \subseteq new.open \cup new.failed
  PROVE  PlaneInv'
<1>1. calls'[c] = new
  BY OthersStay DEF PlaneInv
<1>2. CallsInv'
  BY GoingOnKeepsCalls
<1>3. \A d : Boxed(d) => SameWork(d)
  BY SameWorkStays DEF GoesOn, PlaneInv
<1>4. ASSUME NEW i \in new.S, NEW v, v = UnitOf(i)
      PROVE  /\ \A f \in new.fs : CellIsKept(c, v, <<i, f>>)'
             /\ SpaceIsCleared(c, v, i)'
  <2>1. v \in Units /\ i \in calls[c].S
    BY <1>4, PlaneNumbers DEF PlaneInv, CallType, GoesOn
  <2>2. /\ \A f \in calls[c].fs : CellIsKept(c, v, <<i, f>>)
        /\ SpaceIsCleared(c, v, i)
    BY <1>4, <2>1 DEF PlaneInv, UnitsInv, CallsAreSafe
  <2> QED
    BY <1>1, <1>3, <2>1, <2>2, GoingOnKeepsCells DEF GoesOn
<1>5. ControllerSafe' /\ ControllerTidy' /\ Owned' = Owned /\ ReadyCells' = ReadyCells
  BY UnchangedAgrees DEF ControllerAgrees, Owned, controllerVars, imVars
<1>6. \A e \in ReadyCells' : Safe(UnitOf(e[1]), e)
  BY <1>5 DEF PlaneInv, UnitsInv, ReadyIsSafe
<1>7. Boxed(c) => SameWork(c) /\ new.phase \in {"units", "notify", "ended"}
                  /\ new.attempt = calls[c].attempt
  BY <1>3 DEF GoesOn
<1>8. PlaneTypes' /\ UnitsInv'
  BY <1>4, <1>5, <1>6, <1>7, QuietKeepsUnits DEF PlaneInv
<1> QED
  BY <1>2, <1>5, <1>8 DEF PlaneInv

(* Every unit stored its group.                                            *)
LEMMA SendNotifyKeepsInv ==
  ASSUME PlaneInv, deployment' = deployment, NEW c \in Calls, SendNotify(c)
  PROVE  PlaneInv'
<1>1. PICK call : call = calls[c]
  OBVIOUS
<1>2. /\ call \in CallType /\ call.op = "put" /\ call.phase = "units"
      /\ call.open = {} /\ call.failed = {} /\ WellFormed(call)
  BY <1>1, CallIsTyped DEF PlaneInv, CallsInv, CallsAgree, SendNotify
<1>3. PICK new : new = [call EXCEPT !.phase = "notify"]
  OBVIOUS
<1>4. /\ CallStep(c, new) /\ UNCHANGED controllerVars
      /\ UNCHANGED <<inbox, stored, stale, active, leaked>>
  BY <1>1, <1>3 DEF SendNotify, CallStep, unitVars
<1>5. /\ new \in CallType /\ new.phase = "notify" /\ new.op = "put" /\ new.open = {}
      /\ new.failed = {} /\ new.attempt = call.attempt
      /\ new.p = call.p /\ new.S = call.S /\ new.fs = call.fs /\ new.gone = call.gone
  BY <1>2, <1>3 DEF CallType
<1>6. GoesOn(c, new) /\ WellFormed(new)
  BY <1>1, <1>2, <1>5 DEF GoesOn, WellFormed, Alive
<1> QED
  BY <1>1, <1>2, <1>4, <1>5, <1>6, GoingOnKeepsInv

(* The controller records what all units stored.                           *)
LEMMA EndNotifyKeepsInv ==
  ASSUME PlaneInv, deployment' = deployment, NEW c \in Calls, EndNotify(c)
  PROVE  PlaneInv'
<1>1. PICK call : call = calls[c]
  OBVIOUS
<1>2. /\ call \in CallType /\ call.phase = "notify" /\ call.op = "put" /\ Alive(call)
      /\ call.open = {} /\ call.failed = {} /\ call.p \in Partitions
      /\ call.S \in SUBSET Universe /\ call.fs \in SUBSET Fields
  BY <1>1, CallIsTyped
  DEF PlaneInv, CallsInv, CallsAgree, WellFormed, EndNotify, Alive, CallType, Universe, Indexes
<1>3. End(c) /\ UNCHANGED <<inbox, stored, stale, active, leaked>>
  BY DEF EndNotify, unitVars
<1>4. Exists(call.p) /\ call.S \subseteq partitions[call.p].global_indexes
  BY <1>1, <1>2 DEF PlaneInv, CallsInv, SamplesArePresent, Present
<1>5. CASE UNCHANGED controllerVars
  <2>1. ControllerAgrees(c)
    BY <1>5, UnchangedAgrees
  <2>2. \A e \in ReadyCells' : Safe(UnitOf(e[1]), e)
    BY <2>1 DEF PlaneInv, UnitsInv, ReadyIsSafe, ControllerAgrees
  <2> QED
    BY <1>1, <1>2, <1>3, <2>1, <2>2, EndKeepsInv DEF ControllerAgrees
<1>6. CASE ~UNCHANGED controllerVars
  <2>1. NotifyDataUpdate(call.p, call.S, call.fs, TRUE)
    BY <1>1, <1>6 DEF EndNotify, NotifyDataUpdate
  <2>2. ControllerSafe'
    BY <1>2, <2>1, NotifyIsSafe DEF PlaneInv
  <2>3. ControllerTidy'
    BY <1>2, <1>4, <2>1, NotifyIsTidy DEF PlaneInv
  <2>4. PICK old : old = partitions[call.p]
    OBVIOUS
  <2>5. old \in PartitionStatus
    BY <1>4, <2>4, StatusOf DEF PlaneInv, ControllerSafe, Sound
  <2>6. PICK st : st = UpdateProductionStatus(old, call.S, call.fs, TRUE)
    OBVIOUS
  <2>7. partitions' = With(call.p, st) /\ UNCHANGED imVars
    BY <2>1, <2>4, <2>6 DEF NotifyDataUpdate
  <2>8. /\ old.global_indexes \subseteq st.global_indexes
        /\ old.rows \subseteq st.rows
        /\ st.production_status = old.production_status \cup (call.S \X call.fs)
    BY <2>5, <2>6 DEF UpdateProductionStatus, EnsureSamplesCapacity, PartitionStatus
  <2>9. partition_to_indexes' = partition_to_indexes /\ Owned' = Owned
    BY <2>7 DEF imVars, Owned
  <2>10. ASSUME NEW d \in Calls, d # c, Alive(calls[d]), calls[d].p = call.p, Removing(calls[d])
         PROVE  \A e \in st.production_status :
                  \/ e \in old.production_status
                  \/ ~(e[1] \in calls[d].S /\ e[2] \in calls[d].fs)
    <3>1. Compatible(calls[d], call)
      BY <1>1, <1>2, <2>10 DEF PlaneInv, CallsInv, CallsExclude
    <3>2. calls[d].S \cap call.S = {}
      BY <1>2, <2>10, <3>1 DEF Compatible, Overlap
    <3>3. \A e \in call.S \X call.fs : e[1] \in call.S
      OBVIOUS
    <3> QED
      BY <2>8, <3>2, <3>3
  <2>11. OthersKeep(c)
    BY <1>2, <2>4, <2>7, <2>8, <2>9, <2>10, StatusKeepsOthers DEF PlaneInv
  <2>12. ASSUME NEW e \in ReadyCells'
         PROVE  Safe(UnitOf(e[1]), e)
    <3>1. e \in ReadyCells \/ e \in call.S \X call.fs
      <4>1. e \in ReadyCells \/ e \in st.production_status
        BY <2>7, <2>12, ReadyAfter
      <4> QED
        BY <1>4, <2>4, <2>8, <4>1 DEF ReadyCells, Exists
    <3>2. CASE e \in ReadyCells
      BY <3>2 DEF PlaneInv, UnitsInv, ReadyIsSafe
    <3>3. CASE e \in call.S \X call.fs
      <4>1. PICK i \in call.S, f \in call.fs : e = <<i, f>>
        BY <3>3
      <4>2. CellIsKept(c, UnitOf(i), <<i, f>>)
        BY <1>1, <4>1 DEF PlaneInv, UnitsInv, CallsAreSafe
      <4>3. Safe(UnitOf(i), <<i, f>>)
        BY <1>1, <1>2, <4>2 DEF CellIsKept
      <4>4. e[1] = i
        BY <4>1
      <4> QED
        BY <4>1, <4>3, <4>4
    <3> QED
      BY <3>1, <3>2, <3>3
  <2> QED
    BY <1>1, <1>2, <1>3, <2>2, <2>3, <2>9, <2>11, <2>12, EndKeepsInv
<1> QED
  BY <1>5, <1>6

LEMMA EndCallKeepsInv ==
  ASSUME PlaneInv, deployment' = deployment, NEW c \in Calls, EndCall(c)
  PROVE  PlaneInv'
<1>1. /\ calls[c].phase # "none" /\ End(c) /\ UNCHANGED controllerVars
      /\ UNCHANGED <<inbox, stored, stale, active, leaked>>
  BY DEF EndCall, unitVars
<1>2. ControllerAgrees(c)
  BY <1>1, UnchangedAgrees
<1>3. \A e \in ReadyCells' : Safe(UnitOf(e[1]), e)
  BY <1>2 DEF PlaneInv, UnitsInv, ReadyIsSafe, ControllerAgrees
<1> QED
  BY <1>1, <1>2, <1>3, EndKeepsInv DEF ControllerAgrees

(* A call that gave up on a unit, or asked it again.                       *)
LEMMA TimeoutKeepsInv ==
  ASSUME PlaneInv, deployment' = deployment, NEW c \in Calls, NEW u \in Units, Timeout(c, u)
  PROVE  PlaneInv'
<1>1. PICK call : call = calls[c]
  OBVIOUS
<1>2. PICK k : k = call.attempt[u]
  OBVIOUS
<1>3. /\ call \in CallType /\ u \in call.open /\ call.phase = "units" /\ WellFormed(call)
      /\ call.gone = {} /\ k \in 0..MaxAttempts
      /\ UNCHANGED controllerVars /\ UNCHANGED <<stored, active, stale, leaked>>
  BY <1>1, <1>2, CallIsTyped
  DEF PlaneInv, CallsInv, CallsAgree, WellFormed, Timeout, Alive, CallType
<1>4. CASE ~(call.op \in {"put", "get"} /\ k < MaxAttempts)
  <2>1. PICK new : new = [call EXCEPT !.open = @ \ {u}, !.failed = @ \cup {u}]
    OBVIOUS
  <2>2. CallStep(c, new) /\ UNCHANGED inbox
    BY <1>1, <1>2, <1>4, <2>1 DEF Timeout, CallStep
  <2>3. /\ new \in CallType /\ new.phase = "units" /\ new.op = call.op
        /\ new.open = call.open \ {u} /\ new.failed = call.failed \cup {u}
        /\ new.attempt = call.attempt
        /\ new.p = call.p /\ new.S = call.S /\ new.fs = call.fs /\ new.gone = call.gone
    BY <1>3, <2>1 DEF CallType
  <2>4. GoesOn(c, new) /\ WellFormed(new)
    BY <1>1, <1>3, <2>3 DEF GoesOn, WellFormed, Alive
  <2>5. new.open \subseteq call.open /\ call.open \cup call.failed \subseteq new.open \cup new.failed
    BY <2>3
  <2> QED
    BY <1>1, <1>3, <2>2, <2>3, <2>4, <2>5, GoingOnKeepsInv
<1>5. CASE call.op \in {"put", "get"} /\ k < MaxAttempts
  <2>1. PICK new : new = [call EXCEPT !.attempt[u] = k + 1]
    OBVIOUS
  <2>2. CallStep(c, new)
    BY <1>1, <1>2, <1>5, <2>1 DEF Timeout, CallStep
  <2>3. k + 1 \in 1..MaxAttempts /\ k + 1 \in 0..MaxAttempts
    BY <1>3, <1>5, PlaneNumbers DEF PlaneInv
  <2>4. /\ new \in CallType /\ new.phase = "units" /\ new.op = call.op
        /\ new.open = call.open /\ new.failed = call.failed
        /\ new.attempt = [call.attempt EXCEPT ![u] = k + 1]
        /\ new.p = call.p /\ new.S = call.S /\ new.fs = call.fs /\ new.gone = call.gone
    BY <1>3, <2>1, <2>3 DEF CallType
  <2>5. /\ new.attempt[u] = k + 1
        /\ \A v \in Units : v # u => new.attempt[v] = call.attempt[v]
    BY <1>3, <2>4 DEF CallType
  <2>6. GoesOn(c, new) /\ WellFormed(new)
    BY <1>1, <1>3, <2>4 DEF GoesOn, WellFormed, Alive
  <2>7. CallsInv'
    BY <1>3, <2>2, <2>6, GoingOnKeepsCalls
  <2>8. calls'[c] = new /\ \A d \in Calls : d # c => calls'[d] = calls[d]
    BY <2>2, OthersStay DEF PlaneInv
  <2>9. \/ inbox' = inbox
        \/ inbox' = [inbox EXCEPT ![u] = Append(@, <<c, k + 1>>)]
    BY <1>1, <1>2, <1>5 DEF Timeout
  <2>10. /\ \A v \in Units \ {u} : inbox'[v] = inbox[v]
         /\ BoxGrows(c, k + 1, u)
         /\ inbox' \in [Units -> Seq(Calls \X (1..MaxAttempts))]
    <3>1. CASE inbox' = inbox
      BY <3>1, SameBoxGrows DEF PlaneInv, PlaneTypes
    <3>2. CASE inbox' # inbox
      <4>1. inbox' = [inbox EXCEPT ![u] = Append(inbox[u], <<c, k + 1>>)]
        BY <2>9, <3>2
      <4>2. inbox'[u] = Append(inbox[u], <<c, k + 1>>)
            /\ \A v \in Units \ {u} : inbox'[v] = inbox[v]
        BY <4>1 DEF PlaneInv, PlaneTypes
      <4>3. BoxGrows(c, k + 1, u) /\ inbox'[u] \in Seq(Calls \X (1..MaxAttempts))
        BY <2>3, <3>2, <4>2, AppendGrows DEF PlaneInv
      <4>4. \A v \in Units : inbox'[v] \in Seq(Calls \X (1..MaxAttempts))
        BY <4>2, <4>3 DEF PlaneInv, PlaneTypes
      <4>5. inbox' = [v \in Units |-> inbox'[v]]
        BY <4>1 DEF PlaneInv, PlaneTypes
      <4> QED
        BY <4>2, <4>3, <4>4, <4>5
    <3> QED
      BY <3>1, <3>2
  <2>11. PlaneTypes'
    BY <1>3, <2>2, <2>4, <2>10, CallStepKeepsTypes DEF PlaneInv
  <2>12. ControllerSafe' /\ ControllerTidy' /\ Owned' = Owned /\ ReadyCells' = ReadyCells
    BY <1>3, UnchangedAgrees DEF ControllerAgrees, Owned, controllerVars, imVars
  <2>13. Tolerated(c, new)
    BY <2>4, <2>7, <2>8, <2>11, <2>12, AskIsTolerated
  <2>14. /\ \A d : Boxed(d) => SameWork(d)
         /\ Boxed(c) => new.phase \in {"units", "notify", "ended"}
    BY <2>2, <2>4, <1>1, SameWorkStays DEF PlaneInv
  <2>15. \A v \in Units : BoxGrows(c, k + 1, v)
    BY <2>10, SameBoxGrows DEF PlaneInv
  <2>16. \A v \in Units : \A j \in DOMAIN inbox[v] :
           inbox[v][j][1] = c => inbox[v][j][2] <= call.attempt[v]
    BY <1>1 DEF PlaneInv, UnitsInv, BoxesAgree, Caller
  <2>17. \A v \in Units : \A j \in DOMAIN inbox[v] :
           inbox[v][j][1] = c => inbox[v][j][2] <= new.attempt[v]
    <3>1. ASSUME NEW v \in Units, NEW j \in DOMAIN inbox[v], inbox[v][j][1] = c
          PROVE  inbox[v][j][2] <= new.attempt[v]
      <4>1. inbox[v][j][2] <= call.attempt[v]
        BY <2>16, <3>1
      <4>2. inbox[v][j][2] \in 1..MaxAttempts
        <5>1. inbox[v][j] \in Calls \X (1..MaxAttempts)
          BY ElementOfSeq DEF PlaneInv, PlaneTypes
        <5> QED
          BY <5>1
      <4>3. MaxAttempts \in Nat
        BY PlaneNumbers DEF PlaneInv
      <4> QED
        BY <1>2, <1>3, <2>5, <4>1, <4>2, <4>3
    <3> QED
      BY <3>1
  <2>18. \A j \in DOMAIN inbox[u] : inbox[u][j] # <<c, k + 1>>
    BY <1>2, <1>3, <2>16, PlaneNumbers DEF PlaneInv
  <2>19. ASSUME NEW i \in new.S, NEW v, v = UnitOf(i)
         PROVE  /\ \A f \in new.fs : CellIsKept(c, v, <<i, f>>)'
                /\ SpaceIsCleared(c, v, i)'
    <3>1. v \in Units /\ i \in calls[c].S
      BY <1>1, <1>3, <2>4, <2>19, PlaneNumbers DEF PlaneInv, CallType
    <3>2. /\ \A f \in calls[c].fs : CellIsKept(c, v, <<i, f>>)
          /\ SpaceIsCleared(c, v, i)
      BY <2>19, <3>1 DEF PlaneInv, UnitsInv, CallsAreSafe
    <3>3. CASE v # u
      BY <1>1, <1>3, <2>4, <2>5, <2>8, <2>10, <2>14, <3>1, <3>2, <3>3, GoingOnKeepsCells
    <3>4. CASE v = u
      <4>1. SpaceIsCleared(c, v, i)'
        BY <1>5, <2>4, <2>8 DEF SpaceIsCleared
      <4>2. ASSUME NEW f \in new.fs
            PROVE  CellIsKept(c, v, <<i, f>>)'
        <5>1. ~Spoils(new, <<i, f>>)
          BY <1>3, <1>5, <2>4 DEF Spoils, Removes
        <5>2. AfterSpoils(c, v, <<i, f>>)'
          BY <2>5, <2>8, <2>10, <2>18, <3>4, <5>1, NewRequestIsLast
        <5>3. ASSUME call.op = "get"
              PROVE  Safe(v, <<i, f>>)'
          <6>1. Safe(v, <<i, f>>)
            BY <1>1, <1>3, <2>4, <3>2, <3>4, <4>2, <5>3 DEF CellIsKept
          <6> QED
            BY <1>3, <2>8, <2>10, <2>14, <3>1, <3>4, <5>1, <6>1, GrowthKeepsSafe
        <5> QED
          BY <1>3, <1>5, <2>4, <2>8, <3>4, <5>2, <5>3 DEF CellIsKept
      <4> QED
        BY <4>1, <4>2
    <3> QED
      BY <3>3, <3>4
  <2>20. \A v \in Units : inbox'[v] # inbox[v] => new.phase = "units" /\ k + 1 <= new.attempt[v]
    BY <2>3, <2>4, <2>5, <2>10
  <2>21. \A e \in ReadyCells' : Safe(UnitOf(e[1]), e)
    BY <2>12 DEF PlaneInv, UnitsInv, ReadyIsSafe
  <2>22. UnitsInv'
    BY <1>3, <2>2, <2>12, <2>13, <2>14, <2>15, <2>17, <2>19, <2>20, <2>21, SendKeepsUnits
    DEF PlaneInv
  <2> QED
    BY <2>7, <2>11, <2>12, <2>22 DEF PlaneInv
<1> QED
  BY <1>4, <1>5

-----------------------------------------------------------------------------
(* A unit serves the oldest request in its box.                            *)

Taker(u) == inbox[u][1][1]

(* Every other request moves up.                                           *)
BoxMoves(u) ==
  /\ 1 \in DOMAIN inbox[u]
  /\ \A k \in DOMAIN inbox'[u] :
       k \in Nat /\ k > 0 /\ k + 1 \in DOMAIN inbox[u] /\ inbox'[u][k] = inbox[u][k + 1]
  /\ \A v \in Units \ {u} : inbox'[v] = inbox[v]
  /\ inbox' \in [Units -> Seq(Calls \X (1..MaxAttempts))]

LEMMA TakenMoves ==
  ASSUME PlaneTypes, NEW u \in Units, inbox[u] # <<>>, inbox' = Taken(u)
  PROVE  BoxMoves(u) /\ Taker(u) \in Calls /\ Head(inbox[u]) = inbox[u][1]
<1>1. PICK box : box = inbox[u]
  OBVIOUS
<1>2. box \in Seq(Calls \X (1..MaxAttempts)) /\ box # <<>>
  BY <1>1 DEF PlaneTypes
<1>3. Tail(box) \in Seq(Calls \X (1..MaxAttempts))
  BY <1>2
<1>4. /\ Len(box) \in Nat /\ Len(box) > 0 /\ DOMAIN box = 1..Len(box)
      /\ Len(Tail(box)) = Len(box) - 1 /\ DOMAIN Tail(box) = 1..(Len(box) - 1)
      /\ \A k \in 1..(Len(box) - 1) : Tail(box)[k] = box[k + 1]
      /\ Head(box) = box[1]
  BY <1>2
<1>5. inbox'[u] = Tail(box) /\ \A v \in Units \ {u} : inbox'[v] = inbox[v]
  BY <1>1 DEF Taken, PlaneTypes
<1>6. inbox' \in [Units -> Seq(Calls \X (1..MaxAttempts))]
  BY <1>1, <1>3 DEF Taken, PlaneTypes
<1>7. \A k \in DOMAIN inbox'[u] :
        k \in Nat /\ k > 0 /\ k + 1 \in DOMAIN inbox[u] /\ inbox'[u][k] = inbox[u][k + 1]
  BY <1>1, <1>4, <1>5
<1>8. box[1] \in Calls \X (1..MaxAttempts) /\ 1 \in DOMAIN box
  BY <1>2, <1>4, ElementOfSeq
<1> QED
  BY <1>1, <1>4, <1>5, <1>6, <1>7, <1>8 DEF BoxMoves, Taker

(* What the request of `call` does to u: it spoils cells and fills space   *)
(* as it must, and forgets no leak that is still there or to come.         *)
Serves(u, call) ==
  /\ stale' \subseteq stored' /\ stored' \subseteq Cells
  /\ active' \subseteq Indexes /\ leaked' \subseteq Indexes
  /\ \A e \in stored \ stale :
       UnitOf(e[1]) # u \/ ~Spoils(call, e) => e \in stored' /\ e \notin stale'
  /\ \A i : i \in active' => i \in active \/ (UnitOf(i) = u /\ Fills(call, i))
  /\ \A i \in leaked : i \in leaked' \/ (UnitOf(i) = u /\ i \notin active')
  /\ \A i \in leaked : \A k \in DOMAIN inbox'[u] :
       Fills(calls[inbox'[u][k][1]], i) => i \in leaked'
  /\ call.op \in {"clear", "clear_all"} =>
       \A i \in call.S : UnitOf(i) = u => i \notin active'

(* A put that went well.                                                   *)
Stores(u, call) ==
  \A i \in call.S, f \in call.fs :
    UnitOf(i) = u /\ i \notin call.gone => <<i, f>> \in stored' /\ <<i, f>> \notin stale'

LEMMA PutServes ==
  ASSUME PlaneTypes, NEW u, NEW call \in CallType, call.op = "put",
         ServePut(Group(call.S, u), call.fs, call.gone)
  PROVE  Serves(u, call) /\ Stores(u, call)
<1> DEFINE S == Group(call.S, u)
<1>1. \A i : i \in S <=> i \in call.S /\ UnitOf(i) = u
  BY DEF Group
<1>2. /\ call.S \subseteq Indexes /\ call.fs \subseteq Fields
      /\ stale \subseteq stored /\ stored \subseteq Indexes \X Fields
      /\ active \subseteq Indexes /\ leaked \subseteq Indexes
  BY DEF CallType, PlaneTypes, Cells
<1> HIDE DEF S
<1>3. /\ stored' = stored \cup (S \X call.fs)
      /\ active' = active \cup S
      /\ stale' = (stale \ (S \X call.fs)) \cup ((S \cap call.gone) \X call.fs)
      /\ leaked' = leaked
  BY DEF ServePut, S
<1>4. stale' \subseteq stored' /\ stored' \subseteq Cells
  BY <1>1, <1>2, <1>3 DEF Cells
<1>5. active' \subseteq Indexes /\ leaked' \subseteq Indexes
  BY <1>1, <1>2, <1>3
<1>6. ASSUME NEW e \in stored \ stale, UnitOf(e[1]) # u \/ ~Spoils(call, e)
      PROVE  e \in stored' /\ e \notin stale'
  <2>1. ASSUME e \in (S \cap call.gone) \X call.fs
        PROVE  FALSE
    <3>1. e[1] \in S /\ e[1] \in call.gone /\ e[2] \in call.fs
      BY <2>1
    <3> QED
      BY <1>1, <1>6, <3>1 DEF Spoils
  <2> QED
    BY <1>3, <1>6, <2>1
<1>7. \A i : i \in active' => i \in active \/ (UnitOf(i) = u /\ Fills(call, i))
  BY <1>1, <1>3 DEF Fills
<1>8. Stores(u, call)
  <2>1. ASSUME NEW i \in call.S, NEW f \in call.fs, UnitOf(i) = u, i \notin call.gone
        PROVE  <<i, f>> \in stored' /\ <<i, f>> \notin stale'
    <3>1. i \in S
      BY <1>1, <2>1
    <3> QED
      BY <1>3, <2>1, <3>1
  <2> QED
    BY <2>1 DEF Stores
<1> QED
  BY <1>3, <1>4, <1>5, <1>6, <1>7, <1>8 DEF Serves

LEMMA ClearServes ==
  ASSUME PlaneTypes, NEW u \in Units, NEW call \in CallType, Removes(call), BoxMoves(u),
         ServeClear(Group(call.S, u), call.fs, call.op # "drop", PutsIn(inbox'[u]))
  PROVE  Serves(u, call)
<1> DEFINE S == Group(call.S, u)
<1>1. \A i : i \in S <=> i \in call.S /\ UnitOf(i) = u
  BY DEF Group
<1>2. /\ call.S \subseteq Indexes /\ call.fs \subseteq Fields
      /\ stale \subseteq stored /\ stored \subseteq Indexes \X Fields
      /\ active \subseteq Indexes /\ leaked \subseteq Indexes
  BY DEF CallType, PlaneTypes, Cells
<1> DEFINE late == PutsIn(inbox'[u])
<1>3. \A i : \A k \in DOMAIN inbox'[u] : Fills(calls[inbox'[u][k][1]], i) => i \in late
  BY DEF PutsIn, Fills
<1> HIDE DEF S, late
<1>4. /\ stored' = stored \ (S \X call.fs)
      /\ active' = IF call.op # "drop" THEN active \ S ELSE active
      /\ stale' = stale \ (S \X call.fs)
      /\ leaked' = IF call.op # "drop" THEN leaked \ (S \ late) ELSE leaked
  BY DEF ServeClear, S, late
<1>5. stale' \subseteq stored' /\ stored' \subseteq Cells
  BY <1>2, <1>4 DEF Cells
<1>6. active' \subseteq Indexes /\ leaked' \subseteq Indexes
  BY <1>2, <1>4
<1>7. ASSUME NEW e \in stored \ stale, UnitOf(e[1]) # u \/ ~Spoils(call, e)
      PROVE  e \in stored' /\ e \notin stale'
  <2>1. ASSUME e \in S \X call.fs
        PROVE  FALSE
    <3>1. e[1] \in S /\ e[2] \in call.fs
      BY <2>1
    <3> QED
      BY <1>1, <1>7, <3>1 DEF Spoils
  <2> QED
    BY <1>4, <1>7, <2>1
<1>8. \A i : i \in active' => i \in active
  BY <1>4
<1>9. \A i \in leaked : i \in leaked' \/ (UnitOf(i) = u /\ i \notin active')
  BY <1>1, <1>4
<1>10. \A i \in leaked : \A k \in DOMAIN inbox'[u] :
         Fills(calls[inbox'[u][k][1]], i) => i \in leaked'
  BY <1>3, <1>4
<1>11. call.op \in {"clear", "clear_all"} =>
         \A i \in call.S : UnitOf(i) = u => i \notin active'
  BY <1>1, <1>4
<1> QED
  BY <1>5, <1>6, <1>7, <1>8, <1>9, <1>10, <1>11 DEF Serves

LEMMA NothingServes ==
  ASSUME PlaneTypes, NEW u, NEW call, call.op \notin {"clear", "clear_all"},
         UNCHANGED <<stored, active, stale, leaked>>
  PROVE  Serves(u, call)
BY DEF Serves, PlaneTypes

-----------------------------------------------------------------------------
(* What the caller c of the request makes of it.                           *)
Hears(u, c, new, ok) ==
  \/ calls[c].phase = "ended" /\ new = Ended(c, inbox')
  \/ /\ calls[c].phase # "ended"
     /\ u \in calls[c].open /\ calls[c].attempt[u] = inbox[u][1][2]
     /\ new = [calls[c] EXCEPT !.open = @ \ {u}, !.failed = IF ok THEN @ ELSE @ \cup {u}]
  \/ calls[c].phase # "ended" /\ new = calls[c]

LEMMA ServeStep ==
  ASSUME PlaneInv, NEW u \in Units, Serve(u)
  PROVE  /\ BoxMoves(u) /\ Taker(u) \in Calls /\ UNCHANGED controllerVars
         /\ Serves(u, calls[Taker(u)])
         /\ \E new, ok : /\ CallStep(Taker(u), new) /\ Hears(u, Taker(u), new, ok)
                         /\ ok /\ calls[Taker(u)].op = "put" => Stores(u, calls[Taker(u)])
<1>1. inbox[u] # <<>> /\ inbox' = Taken(u) /\ UNCHANGED controllerVars
  BY DEF Serve
<1>2. BoxMoves(u) /\ Taker(u) \in Calls /\ Head(inbox[u]) = inbox[u][1]
  BY <1>1, TakenMoves DEF PlaneInv
<1>3. PICK c : c = Taker(u) /\ c \in Calls
  BY <1>2
<1>4. PICK call : call = calls[c]
  OBVIOUS
<1>5. call \in CallType
  BY <1>3, <1>4, CallIsTyped DEF PlaneInv
<1>6. Head(inbox[u])[1] = c
  BY <1>2, <1>3 DEF Taker
<1>7. inbox'[u] = Tail(inbox[u])
  BY <1>1 DEF Taken, PlaneInv, PlaneTypes
<1>8. PICK ok : ok = Succeeds(call, u)
  OBVIOUS
<1>9. /\ call.op = "put" /\ ok => ServePut(Group(call.S, u), call.fs, call.gone)
      /\ call.op \in {"clear", "clear_all", "drop"} =>
           ServeClear(Group(call.S, u), call.fs, call.op # "drop", PutsIn(Tail(inbox[u])))
      /\ ~(call.op = "put" /\ ok) /\ call.op \notin {"clear", "clear_all", "drop"} =>
           UNCHANGED <<stored, active, stale, leaked>>
  BY <1>4, <1>6, <1>8 DEF Serve, ServePut, ServeClear
<1>10. Serves(u, call) /\ (ok /\ call.op = "put" => Stores(u, call))
  <2>1. CASE call.op = "put" /\ ok
    <3>1. ServePut(Group(call.S, u), call.fs, call.gone)
      BY <1>9, <2>1
    <3> QED
      BY <1>5, <2>1, <3>1, PutServes DEF PlaneInv
  <2>2. CASE Removes(call)
    <3>1. ServeClear(Group(call.S, u), call.fs, call.op # "drop", PutsIn(Tail(inbox[u])))
      BY <1>9, <2>2 DEF Removes
    <3>2. ServeClear(Group(call.S, u), call.fs, call.op # "drop", PutsIn(inbox'[u]))
      BY <1>7, <3>1 DEF ServeClear
    <3>3. Serves(u, call)
      BY <1>2, <1>5, <2>2, <3>2, ClearServes DEF PlaneInv
    <3> QED
      BY <2>2, <3>3 DEF Removes
  <2>3. CASE ~(call.op = "put" /\ ok) /\ ~Removes(call)
    <3>1. UNCHANGED <<stored, active, stale, leaked>>
      BY <1>9, <2>3 DEF Removes
    <3>2. Serves(u, call)
      BY <2>3, <3>1, NothingServes DEF PlaneInv, Removes
    <3> QED
      BY <2>3, <3>2
  <2> QED
    BY <2>1, <2>2, <2>3
<1>11. \E new : CallStep(c, new) /\ Hears(u, c, new, ok)
  <2>1. PICK new : new = Answered(c, u, inbox[u][1][2], ok)
    OBVIOUS
  <2>2. calls' = [calls EXCEPT ![c] = new]
    BY <1>2, <1>4, <1>6, <1>8, <2>1 DEF Serve
  <2>3. Ended(c, Taken(u)) = Ended(c, inbox')
    BY <1>1
  <2>4. Hears(u, c, new, ok)
    <3>1. CASE calls[c].phase = "ended"
      BY <2>1, <2>3, <3>1 DEF Answered, Hears
    <3>2. CASE calls[c].phase # "ended"
      BY <2>1, <3>2 DEF Answered, Hears
    <3> QED
      BY <3>1, <3>2
  <2> QED
    BY <2>2, <2>4 DEF CallStep
<1>12. PICK new : CallStep(c, new) /\ Hears(u, c, new, ok)
  BY <1>11
<1>13. CallStep(Taker(u), new) /\ Hears(u, Taker(u), new, ok)
  BY <1>3, <1>12 DEF CallStep, Hears
<1>14. Serves(u, calls[Taker(u)]) /\ (ok /\ calls[Taker(u)].op = "put" => Stores(u, calls[Taker(u)]))
  BY <1>3, <1>4, <1>10 DEF Serves, Stores
<1> QED
  BY <1>1, <1>2, <1>13, <1>14

(* What is left of a call that is not answered for good is as it was.      *)
Same(c, new) ==
  /\ new.op = calls[c].op /\ new.p = calls[c].p /\ new.S = calls[c].S /\ new.fs = calls[c].fs
  /\ new.gone = calls[c].gone /\ new.attempt = calls[c].attempt /\ new.phase = calls[c].phase

StillBoxed(d) == \E v \in Units : \E k \in DOMAIN inbox'[v] : inbox'[v][k][1] = d

LEMMA HearingIsTyped ==
  ASSUME PlaneInv, deployment' = deployment, NEW u \in Units, NEW c \in Calls,
         calls[c].phase \in {"units", "notify", "ended"}, NEW new, NEW ok, Hears(u, c, new, ok)
  PROVE  /\ new \in CallType /\ WellFormed(new) /\ (new.phase = "none" => new = Idle)
         /\ StillBoxed(c) \/ Alive(new) => Same(c, new)
         /\ Alive(new) => /\ new.open \subseteq calls[c].open
                          /\ \A v \in Units : v \notin new.open /\ v \notin new.failed =>
                               \/ v \notin calls[c].open /\ v \notin calls[c].failed
                               \/ /\ v = u /\ ok /\ calls[c].phase = "units"
                                  /\ u \in calls[c].open /\ calls[c].attempt[u] = inbox[u][1][2]
<1>1. PICK call : call = calls[c]
  OBVIOUS
<1>2. call \in CallType /\ WellFormed(call) /\ Idle \in CallType
  BY <1>1, CallIsTyped, IdleIsTyped DEF PlaneInv, CallsInv, CallsAgree
<1>3. CASE call.phase = "ended" /\ new = Ended(c, inbox')
  <2>1. Units' = Units
    BY DeploymentStays
  <2>2. Left(c, inbox') <=> StillBoxed(c)
    BY DEF Left, StillBoxed
  <2>3. CASE StillBoxed(c)
    <3>1. new = [call EXCEPT !.phase = "ended", !.open = {}, !.failed = {}]
      BY <1>1, <1>3, <2>2, <2>3 DEF Ended
    <3>2. new \in CallType /\ Same(c, new) /\ new.open = {} /\ new.failed = {}
      BY <1>1, <1>2, <1>3, <3>1 DEF CallType, Same
    <3> QED
      BY <1>1, <1>2, <1>3, <3>2 DEF WellFormed, Same, Alive
  <2>4. CASE ~StillBoxed(c)
    <3>1. new = Idle
      BY <1>3, <2>2, <2>4 DEF Ended
    <3>2. /\ Idle.phase = "none" /\ Idle.op = "idle" /\ Idle.open = {} /\ Idle.failed = {}
          /\ Idle.gone = {}
      BY DEF Idle
    <3> QED
      BY <1>2, <2>4, <3>1, <3>2 DEF WellFormed, Alive
  <2> QED
    BY <2>3, <2>4
<1>4. CASE /\ u \in call.open /\ call.attempt[u] = inbox[u][1][2]
           /\ new = [call EXCEPT !.open = @ \ {u}, !.failed = IF ok THEN @ ELSE @ \cup {u}]
  <2>1. call.phase = "units"
    BY <1>2, <1>4 DEF WellFormed
  <2>2. CASE ok
    <3>1. new = [call EXCEPT !.open = @ \ {u}, !.failed = @]
      BY <1>4, <2>2
    <3>2. new \in CallType /\ Same(c, new) /\ new.open = call.open \ {u} /\ new.failed = call.failed
      BY <1>1, <1>2, <3>1 DEF CallType, Same
    <3> QED
      BY <1>1, <1>2, <1>4, <2>1, <2>2, <3>2 DEF WellFormed, Same, Alive
  <2>3. CASE ~ok
    <3>1. new = [call EXCEPT !.open = @ \ {u}, !.failed = @ \cup {u}]
      BY <1>4, <2>3
    <3>2. /\ new \in CallType /\ Same(c, new) /\ new.open = call.open \ {u}
          /\ new.failed = call.failed \cup {u}
      BY <1>1, <1>2, <3>1 DEF CallType, Same
    <3> QED
      BY <1>1, <1>2, <1>4, <2>1, <3>2 DEF WellFormed, Same, Alive
  <2> QED
    BY <2>2, <2>3
<1>5. CASE new = call
  BY <1>1, <1>2, <1>5 DEF Same, PlaneInv, CallsInv, CallsAgree
<1> QED
  BY <1>1, <1>3, <1>4, <1>5 DEF Hears

-----------------------------------------------------------------------------
(* What requests that have not been served yet do stays.                   *)
StaysBoxed ==
  \A d : StillBoxed(d) => /\ SameWork(d) /\ calls'[d].phase = calls[d].phase
                          /\ calls'[d].attempt = calls[d].attempt

LEMMA MovedFrom ==
  ASSUME NEW u \in Units, BoxMoves(u), NEW v \in Units, NEW k \in DOMAIN inbox'[v]
  PROVE  \E j \in DOMAIN inbox[v] : inbox'[v][k] = inbox[v][j]
<1>1. CASE v # u
  BY <1>1 DEF BoxMoves
<1>2. CASE v = u
  BY <1>2 DEF BoxMoves
<1> QED
  BY <1>1, <1>2

LEMMA MovingKeepsSafe ==
  ASSUME NEW u \in Units, BoxMoves(u), StaysBoxed, Serves(u, calls[Taker(u)]),
         NEW e, NEW v \in Units, v = UnitOf(e[1]), Safe(v, e)
  PROVE  Safe(v, e)'
<1>1. ASSUME NEW k \in DOMAIN inbox'[v]
      PROVE  ~Spoils(calls'[inbox'[v][k][1]], e)
  <2>1. SameWork(inbox'[v][k][1])
    BY DEF StaysBoxed, StillBoxed
  <2>2. ~Spoils(calls[inbox'[v][k][1]], e)
    BY MovedFrom DEF Safe, Caller
  <2> QED
    BY <2>1, <2>2 DEF SameWork, Spoils, Removes
<1>2. v # u \/ ~Spoils(calls[Taker(u)], e)
  BY DEF Safe, Caller, Taker, BoxMoves
<1>3. e \in stored' /\ e \notin stale'
  BY <1>2 DEF Serves, Safe
<1> QED
  BY <1>1, <1>3 DEF Safe, Caller

LEMMA MovingKeepsClean ==
  ASSUME NEW u \in Units, BoxMoves(u), StaysBoxed, Serves(u, calls[Taker(u)]),
         NEW i, NEW v \in Units, v = UnitOf(i), Clean(v, i)
  PROVE  Clean(v, i)'
<1>1. ASSUME NEW k \in DOMAIN inbox'[v]
      PROVE  ~Fills(calls'[inbox'[v][k][1]], i)
  <2>1. SameWork(inbox'[v][k][1])
    BY DEF StaysBoxed, StillBoxed
  <2>2. ~Fills(calls[inbox'[v][k][1]], i)
    BY MovedFrom DEF Clean, Caller
  <2> QED
    BY <2>1, <2>2 DEF SameWork, Fills
<1>2. v # u \/ ~Fills(calls[Taker(u)], i)
  BY DEF Clean, Caller, Taker, BoxMoves
<1>3. i \notin active'
  BY <1>2 DEF Serves, Clean
<1> QED
  BY <1>1, <1>3 DEF Clean, Caller

LEMMA MovingKeepsOrder ==
  ASSUME PlaneTypes, NEW u \in Units, BoxMoves(u), StaysBoxed, NEW v \in Units,
         NEW d, calls'[d].attempt[v] = calls[d].attempt[v]
  PROVE  /\ \A e : AfterSpoils(d, v, e) => AfterSpoils(d, v, e)'
         /\ \A i : AfterFills(d, v, i) => AfterFills(d, v, i)'
<1>1. \A k \in DOMAIN inbox'[v] : \A e :
        Spoils(calls'[inbox'[v][k][1]], e) => Spoils(calls[inbox'[v][k][1]], e)
  BY DEF StaysBoxed, StillBoxed, SameWork, Spoils, Removes
<1>2. \A k \in DOMAIN inbox'[v] : \A i :
        Fills(calls'[inbox'[v][k][1]], i) => Fills(calls[inbox'[v][k][1]], i)
  BY DEF StaysBoxed, StillBoxed, SameWork, Fills
<1>3. CASE v # u
  <2>1. inbox'[v] = inbox[v]
    BY <1>3 DEF BoxMoves
  <2> QED
    BY <1>1, <1>2, <2>1 DEF AfterSpoils, AfterFills, Asks, Caller
<1>4. CASE v = u
  <2>1. \A k \in DOMAIN inbox'[v] :
          k \in Nat /\ k + 1 \in DOMAIN inbox[v] /\ inbox'[v][k] = inbox[v][k + 1]
    BY <1>4 DEF BoxMoves
  <2>2. \A j, k \in DOMAIN inbox'[v] : j + 1 < k + 1 => j < k
    BY <2>1
  <2>3. ASSUME NEW e, AfterSpoils(d, v, e)
        PROVE  AfterSpoils(d, v, e)'
    BY <1>1, <2>1, <2>2, <2>3 DEF AfterSpoils, Asks, Caller
  <2>4. ASSUME NEW i, AfterFills(d, v, i)
        PROVE  AfterFills(d, v, i)'
    BY <1>2, <2>1, <2>2, <2>4 DEF AfterFills, Asks, Caller
  <2> QED
    BY <2>3, <2>4
<1> QED
  BY <1>3, <1>4

(* The request that c awaited has been served: nothing that was sent       *)
(* before it is left.                                                      *)
LEMMA AnswerIsSafe ==
  ASSUME PlaneTypes, NEW u \in Units, BoxMoves(u), StaysBoxed, calls[Taker(u)].gone = {},
         inbox[u][1] \in Calls \X (1..MaxAttempts),
         calls[Taker(u)].attempt[u] = inbox[u][1][2], NEW i, UnitOf(i) = u, i \in calls[Taker(u)].S
  PROVE  /\ \A f \in calls[Taker(u)].fs :
              AfterSpoils(Taker(u), u, <<i, f>>) /\ Stores(u, calls[Taker(u)]) => Safe(u, <<i, f>>)'
         /\ /\ AfterFills(Taker(u), u, i) /\ Serves(u, calls[Taker(u)])
            /\ calls[Taker(u)].op \in {"clear", "clear_all"}
            => Clean(u, i)'
<1>1. Asks(Taker(u), u, 1) /\ 1 \in DOMAIN inbox[u]
  BY DEF Asks, Taker, BoxMoves
<1>2. ASSUME NEW f \in calls[Taker(u)].fs, AfterSpoils(Taker(u), u, <<i, f>>),
             Stores(u, calls[Taker(u)])
      PROVE  Safe(u, <<i, f>>)'
  <2>1. <<i, f>> \in stored' /\ <<i, f>> \notin stale'
    BY <1>2 DEF Stores
  <2>2. ASSUME NEW k \in DOMAIN inbox'[u]
        PROVE  ~Spoils(calls'[inbox'[u][k][1]], <<i, f>>)
    <3>1. k \in Nat /\ k > 0 /\ k + 1 \in DOMAIN inbox[u] /\ inbox'[u][k] = inbox[u][k + 1]
      BY DEF BoxMoves
    <3>2. Spoils(Caller(u, k + 1), <<i, f>>) => k + 1 < 1
      BY <1>1, <1>2, <3>1 DEF AfterSpoils
    <3>3. ~Spoils(calls[inbox'[u][k][1]], <<i, f>>)
      BY <3>1, <3>2 DEF Caller
    <3>4. SameWork(inbox'[u][k][1])
      BY DEF StaysBoxed, StillBoxed
    <3> QED
      BY <3>3, <3>4 DEF SameWork, Spoils, Removes
  <2> QED
    BY <2>1, <2>2 DEF Safe, Caller
<1>3. ASSUME AfterFills(Taker(u), u, i), Serves(u, calls[Taker(u)]),
             calls[Taker(u)].op \in {"clear", "clear_all"}
      PROVE  Clean(u, i)'
  <2>1. i \notin active'
    BY <1>3 DEF Serves
  <2>2. ASSUME NEW k \in DOMAIN inbox'[u]
        PROVE  ~Fills(calls'[inbox'[u][k][1]], i)
    <3>1. k \in Nat /\ k > 0 /\ k + 1 \in DOMAIN inbox[u] /\ inbox'[u][k] = inbox[u][k + 1]
      BY DEF BoxMoves
    <3>2. Fills(Caller(u, k + 1), i) => k + 1 < 1
      BY <1>1, <1>3, <3>1 DEF AfterFills
    <3>3. ~Fills(calls[inbox'[u][k][1]], i)
      BY <3>1, <3>2 DEF Caller
    <3>4. SameWork(inbox'[u][k][1])
      BY DEF StaysBoxed, StillBoxed
    <3> QED
      BY <3>3, <3>4 DEF SameWork, Fills
  <2> QED
    BY <2>1, <2>2 DEF Clean, Caller
<1> QED
  BY <1>2, <1>3

LEMMA ServeKeepsInv ==
  ASSUME PlaneInv, deployment' = deployment, NEW u \in Units, Serve(u)
  PROVE  PlaneInv'
<1>1. PICK c \in Calls : c = Taker(u)
  BY ServeStep
<1>2. PICK call : call = calls[c]
  OBVIOUS
<1>3. BoxMoves(u) /\ UNCHANGED controllerVars /\ Serves(u, calls[Taker(u)])
  BY ServeStep
<1>4. PICK new, ok : /\ CallStep(c, new) /\ Hears(u, c, new, ok)
                     /\ ok /\ call.op = "put" => Stores(u, calls[Taker(u)])
  <2>1. PICK n, o : /\ CallStep(Taker(u), n) /\ Hears(u, Taker(u), n, o)
                    /\ o /\ calls[Taker(u)].op = "put" => Stores(u, calls[Taker(u)])
    BY ServeStep
  <2>2. CallStep(c, n) /\ Hears(u, c, n, o)
    BY <1>1, <2>1 DEF CallStep, Hears
  <2> QED
    BY <1>1, <1>2, <2>1, <2>2
<1>5. inbox[u][1] \in Calls \X (1..MaxAttempts) /\ inbox[u][1][1] = c
  BY <1>1, <1>3, ElementOfSeq DEF BoxMoves, Taker, PlaneInv, PlaneTypes
<1>6. call.phase \in {"units", "notify", "ended"}
  BY <1>2, <1>3, <1>5 DEF PlaneInv, UnitsInv, BoxesAgree, Caller, BoxMoves
<1>7. /\ new \in CallType /\ WellFormed(new) /\ (new.phase = "none" => new = Idle)
      /\ StillBoxed(c) \/ Alive(new) => Same(c, new)
  BY <1>2, <1>4, <1>6, HearingIsTyped
<1>8. Alive(new) =>
        /\ new.open \subseteq call.open
        /\ \A v \in Units : v \notin new.open /\ v \notin new.failed =>
             \/ v \notin call.open /\ v \notin call.failed
             \/ /\ v = u /\ ok /\ call.phase = "units"
                /\ u \in call.open /\ call.attempt[u] = inbox[u][1][2]
  BY <1>2, <1>4, <1>6, HearingIsTyped
<1>9. calls'[c] = new /\ \A d \in Calls : d # c => calls'[d] = calls[d]
  BY <1>4, OthersStay DEF PlaneInv
<1>10. /\ Units' = Units
       /\ \A i : UnitOf(i)' = UnitOf(i)
  BY DeploymentStays
<1>11. ControllerSafe' /\ ControllerTidy' /\ Owned' = Owned /\ ReadyCells' = ReadyCells
  BY <1>3, UnchangedAgrees DEF ControllerAgrees, Owned, controllerVars, imVars
<1>12. CallsInv'
  <2>1. CASE Alive(new)
    <3>1. GoesOn(c, new)
      BY <1>2, <1>6, <1>7, <2>1 DEF GoesOn, Same, Alive
    <3> QED
      BY <1>3, <1>4, <1>7, <3>1, GoingOnKeepsCalls
  <2>2. CASE ~Alive(new)
    <3>1. OthersKeep(c)
      BY <1>3, UnchangedKeepsOthers DEF PlaneInv
    <3> QED
      BY <1>4, <1>7, <2>2, <3>1, CallStepKeepsCalls DEF PlaneInv
  <2> QED
    BY <2>1, <2>2
<1>13. PlaneTypes'
  <2>1. calls' \in [Calls -> CallType]
    BY <1>4, <1>7 DEF PlaneInv, PlaneTypes, CallStep
  <2>2. inbox' \in [Units -> Seq(Calls \X (1..MaxAttempts))]
    BY <1>3 DEF BoxMoves
  <2>3. /\ stale' \subseteq stored' /\ stored' \subseteq Cells
        /\ active' \subseteq Indexes /\ leaked' \subseteq Indexes
    BY <1>3 DEF Serves
  <2>4. Cells' = Cells /\ Indexes' = Indexes
    BY DEF Cells, Indexes
  <2> QED
    BY <2>1, <2>2, <2>3, <2>4, DeploymentStays DEF PlaneTypes, PlaneInv
<1>14. StaysBoxed
  <2>1. ASSUME NEW d, StillBoxed(d)
        PROVE  d \in Calls
    <3>0. PICK v \in Units : \E k \in DOMAIN inbox'[v] : inbox'[v][k][1] = d
      BY <2>1 DEF StillBoxed
    <3>1. PICK k \in DOMAIN inbox'[v] : inbox'[v][k][1] = d
      BY <3>0
    <3>2. PICK j \in DOMAIN inbox[v] : inbox'[v][k] = inbox[v][j]
      BY <1>3, <3>1, MovedFrom
    <3>3. inbox[v][j] \in Calls \X (1..MaxAttempts)
      BY <3>1, <3>2, ElementOfSeq DEF PlaneInv, PlaneTypes
    <3> QED
      BY <3>1, <3>2, <3>3
  <2> QED
    BY <1>7, <1>9, <2>1 DEF StaysBoxed, SameWork, Same
<1>15. BoxesAgree'
  <2>1. ASSUME NEW v \in Units, NEW k \in DOMAIN inbox'[v]
        PROVE  /\ calls'[inbox'[v][k][1]].phase \in {"units", "notify", "ended"}
               /\ inbox'[v][k][2] <= calls'[inbox'[v][k][1]].attempt[v]
    <3>1. PICK j \in DOMAIN inbox[v] : inbox'[v][k] = inbox[v][j]
      BY <1>3, <2>1, MovedFrom
    <3>2. /\ Caller(v, j).phase \in {"units", "notify", "ended"}
          /\ inbox[v][j][2] <= Caller(v, j).attempt[v]
      BY <2>1, <3>1 DEF PlaneInv, UnitsInv, BoxesAgree
    <3>3. /\ calls'[inbox'[v][k][1]].phase = calls[inbox'[v][k][1]].phase
          /\ calls'[inbox'[v][k][1]].attempt = calls[inbox'[v][k][1]].attempt
      BY <1>14, <2>1 DEF StaysBoxed, StillBoxed
    <3> QED
      BY <3>1, <3>2, <3>3 DEF Caller
  <2> QED
    BY <1>10, <2>1 DEF BoxesAgree, Caller
<1>16. ReadyIsSafe'
  <2>1. ASSUME NEW e \in ReadyCells, NEW v, v = UnitOf(e[1])
        PROVE  Safe(v, e)'
    <3>1. Safe(v, e)
      BY <2>1 DEF PlaneInv, UnitsInv, ReadyIsSafe
    <3>2. v \in Units
      <4>1. e \in Cells
        BY <3>1 DEF Safe, PlaneInv, PlaneTypes
      <4> QED
        BY <2>1, <4>1, PlaneNumbers DEF Cells, PlaneInv
    <3> QED
      BY <1>3, <1>14, <2>1, <3>1, <3>2, MovingKeepsSafe
  <2> QED
    BY <1>10, <1>11, <2>1 DEF ReadyIsSafe
<1>17. ASSUME NEW d \in Calls, NEW i \in calls'[d].S, NEW v, v = UnitOf(i)
       PROVE  /\ \A f \in calls'[d].fs : CellIsKept(d, v, <<i, f>>)'
              /\ SpaceIsCleared(d, v, i)'
  <2>1. CASE ~Alive(calls'[d])
    <3>1. calls'[d].phase \in {"none", "ended"} /\ calls'[d].open = {}
      BY <1>12, <2>1 DEF CallsInv, CallsAgree, WellFormed, Alive
    <3> QED
      BY <3>1, RestingReliesOnNothing
  <2>2. CASE Alive(calls'[d])
    <3>1. Same(d, calls'[d])
      BY <1>7, <1>9, <2>2 DEF Same
    <3>2. /\ calls'[d].open \subseteq calls[d].open
          /\ v \in Units => (v \notin calls'[d].open /\ v \notin calls'[d].failed =>
               \/ v \notin calls[d].open /\ v \notin calls[d].failed
               \/ /\ d = c /\ v = u /\ ok /\ call.phase = "units"
                  /\ u \in call.open /\ call.attempt[u] = inbox[u][1][2])
      BY <1>2, <1>8, <1>9, <2>2
    <3>3. v \in Units /\ i \in calls[d].S
      BY <1>17, <3>1, PlaneNumbers, CallIsTyped DEF PlaneInv, CallType, Same
    <3>4. /\ \A f \in calls[d].fs : CellIsKept(d, v, <<i, f>>)
          /\ SpaceIsCleared(d, v, i)
      BY <1>17, <3>3 DEF PlaneInv, UnitsInv, CallsAreSafe
    <3>5. /\ \A e : AfterSpoils(d, v, e) => AfterSpoils(d, v, e)'
          /\ AfterFills(d, v, i) => AfterFills(d, v, i)'
          /\ Clean(v, i) => Clean(v, i)'
          /\ \A f : Safe(v, <<i, f>>) => Safe(v, <<i, f>>)'
      <4>1. calls'[d].attempt[v] = calls[d].attempt[v]
        BY <3>1 DEF Same
      <4>2. \A f : <<i, f>>[1] = i
        OBVIOUS
      <4> QED
        BY <1>3, <1>14, <1>17, <3>3, <4>1, <4>2,
           MovingKeepsOrder, MovingKeepsClean, MovingKeepsSafe DEF PlaneInv
    <3>6. ASSUME d = c, v = u, ok, call.phase = "units", u \in call.open,
                 call.attempt[u] = inbox[u][1][2]
          PROVE  /\ call.op = "put" => \A f \in call.fs : Safe(u, <<i, f>>)'
                 /\ call.op \in {"clear", "clear_all"} => Clean(u, i)'
      <4>1. call.gone = {}
        BY <1>2, <3>6 DEF PlaneInv, CallsInv, CallsAgree, WellFormed, Alive
      <4>2. call.op = "put" => \A f \in call.fs : AfterSpoils(c, u, <<i, f>>)
        BY <1>2, <3>4, <3>6 DEF CellIsKept
      <4>3. call.op \in {"clear", "clear_all"} => AfterFills(c, u, i)
        BY <1>2, <3>4, <3>6 DEF SpaceIsCleared
      <4> QED
        BY <1>1, <1>2, <1>3, <1>4, <1>5, <1>14, <1>17, <3>3, <3>6, <4>1, <4>2, <4>3, AnswerIsSafe
        DEF PlaneInv
    <3>7. ASSUME NEW f \in calls'[d].fs
          PROVE  CellIsKept(d, v, <<i, f>>)'
      <4>1. f \in calls[d].fs /\ CellIsKept(d, v, <<i, f>>)
        BY <3>1, <3>4, <3>7 DEF Same
      <4> QED
        BY <1>2, <3>1, <3>2, <3>3, <3>5, <3>6, <4>1 DEF CellIsKept, Same
    <3>8. SpaceIsCleared(d, v, i)'
      BY <1>2, <3>1, <3>2, <3>3, <3>4, <3>5, <3>6 DEF SpaceIsCleared, Same
    <3> QED
      BY <3>7, <3>8
  <2> QED
    BY <2>1, <2>2
<1>18. CallsAreSafe'
  BY <1>10, <1>17 DEF CallsAreSafe
<1>19. SpaceAgrees'
  <2>1. ASSUME NEW i \in active'
        PROVE  i \in Owned \cup leaked'
    <3>1. i \in active \/ (UnitOf(i) = u /\ Fills(calls[Taker(u)], i))
      BY <1>3, <2>1 DEF Serves
    <3>2. i \in Indexes
      BY <1>3, <2>1 DEF Serves
    <3>3. i \in Owned \cup leaked
      BY <1>3, <3>1, <3>2 DEF PlaneInv, UnitsInv, SpaceAgrees, Caller, Taker, BoxMoves
    <3> QED
      BY <1>3, <2>1, <3>3 DEF Serves
  <2>2. ASSUME NEW v \in Units, NEW k \in DOMAIN inbox'[v], NEW i \in Indexes,
               UnitOf(i) = v, Fills(calls'[inbox'[v][k][1]], i)
        PROVE  i \in Owned \cup leaked'
    <3>1. PICK j \in DOMAIN inbox[v] : inbox'[v][k] = inbox[v][j]
      BY <1>3, <2>2, MovedFrom
    <3>2. SameWork(inbox'[v][k][1])
      BY <1>14, <2>2 DEF StaysBoxed, StillBoxed
    <3>3. Fills(calls[inbox'[v][k][1]], i)
      BY <2>2, <3>2 DEF SameWork, Fills
    <3>4. i \in Owned \cup leaked
      BY <2>2, <3>1, <3>3 DEF PlaneInv, UnitsInv, SpaceAgrees, Caller
    <3>5. ASSUME i \in leaked
          PROVE  i \in leaked'
      <4>1. CASE v = u
        BY <1>3, <2>2, <3>3, <3>5, <4>1 DEF Serves
      <4>2. CASE v # u
        BY <1>3, <2>2, <3>5, <4>2 DEF Serves
      <4> QED
        BY <4>1, <4>2
    <3> QED
      BY <3>4, <3>5
  <2>3. active' \subseteq Owned' \cup leaked'
    BY <1>11, <2>1
  <2> QED
    BY <1>10, <1>11, <2>2, <2>3 DEF SpaceAgrees, Caller, Indexes
<1> QED
  BY <1>11, <1>12, <1>13, <1>15, <1>16, <1>18, <1>19 DEF PlaneInv, UnitsInv

-----------------------------------------------------------------------------
(* The last request of a clear.                                            *)

(* The controller releases the samples of c.                               *)
Releases(c) ==
  /\ ControllerSafe' /\ ControllerTidy'
  /\ Owned \subseteq Owned' \cup calls[c].S
  /\ ReadyCells' \subseteq ReadyCells
  /\ \A e \in ReadyCells' : e[1] \notin calls[c].S
  /\ partition_to_indexes[calls[c].p] \ partition_to_indexes'[calls[c].p] = calls[c].S
  /\ \A d \in Calls : d # c /\ Alive(calls[d]) => calls[d].S \cap calls[c].S = {}
  /\ OthersKeep(c)

LEMMA EndClearReleases ==
  ASSUME PlaneInv, NEW c \in Calls, EndClear(c)
  PROVE  Releases(c)
<1>1. PICK call : call = calls[c]
  OBVIOUS
<1>2. PICK p, S : p = call.p /\ S = call.S
  OBVIOUS
<1>3. /\ call.op \in {"clear", "clear_all"} /\ call.phase = "units" /\ Alive(call)
      /\ call.S # {} /\ Removes(call) /\ Removing(call) /\ call.op # "drop"
  BY <1>1 DEF EndClear, PlaneInv, CallsInv, CallsAgree, WellFormed, Alive, Removes, Removing
<1>4. Present(call)
  BY <1>1, <1>3 DEF PlaneInv, CallsInv, SamplesArePresent
<1>5. p \in Partitions /\ Exists(p) /\ S \subseteq partition_to_indexes[p]
  BY <1>1, <1>2, <1>3, OwnersOfCalls DEF PlaneInv, CallsInv
<1>6. partition_to_indexes \in [Partitions -> SUBSET Nat] /\ partitions[p] \in PartitionStatus
  BY <1>5, TidyStatusOf DEF PlaneInv, ControllerSafe, IMTypeOK
<1>7. PICK old : old = partitions[p]
  OBVIOUS
<1>8. call.op = "clear" =>
        /\ S \in SUBSET old.global_indexes /\ InRange(old, S)
        /\ ClearMeta(p, S)
  <2>1. ASSUME call.op = "clear"
        PROVE  S \in SUBSET old.global_indexes /\ InRange(old, S)
    BY <1>2, <1>4, <1>7, <2>1 DEF Present
  <2>2. ASSUME call.op = "clear"
        PROVE  ClearMeta(calls[c].p, calls[c].S)
    BY <1>1, <1>2, <1>3, <1>5, <1>7, <2>1, <2>2 DEF EndClear
  <2> QED
    BY <1>1, <1>2, <2>1, <2>2
<1>9. call.op = "clear_all" => S = partition_to_indexes[p] /\ ClearPartition(p)
  <2>1. ASSUME call.op = "clear_all"
        PROVE  ClearPartition(calls[c].p)
    BY <1>1, <1>2, <1>5, <2>1 DEF EndClear
  <2> QED
    BY <1>1, <1>2, <1>4, <2>1 DEF Present
<1>10. ControllerSafe' /\ ControllerTidy'
  BY <1>3, <1>5, <1>7, <1>8, <1>9, ClearIsSafe, ClearIsTidy, ClearAllIsSafe, ClearAllIsTidy
  DEF PlaneInv
<1>11. partition_to_indexes' = [partition_to_indexes EXCEPT ![p] = @ \ S]
  <2>1. CASE call.op = "clear"
    BY <1>5, <1>7, <1>8, <2>1, ClearReleases DEF PlaneInv
  <2>2. CASE call.op = "clear_all"
    BY <1>9, <2>2 DEF ClearPartition, ReleasePartition, Release
  <2> QED
    BY <1>3, <2>1, <2>2
<1>12. /\ partition_to_indexes'[p] = partition_to_indexes[p] \ S
       /\ \A q \in Partitions \ {p} : partition_to_indexes'[q] = partition_to_indexes[q]
  BY <1>5, <1>6, <1>11
<1>13. PICK st : st = Cleared(old, S)
  OBVIOUS
<1>14. /\ st.global_indexes = old.global_indexes \ S /\ st.rows = old.rows
       /\ st.production_status \subseteq old.production_status
       /\ \A e \in st.production_status : e[1] \notin S
  BY <1>6, <1>7, <1>13 DEF Cleared, ZeroRows, PartitionStatus
<1>15. /\ call.op = "clear" => partitions' = With(p, st)
       /\ call.op = "clear_all" => partitions' = [q \in DOMAIN partitions \ {p} |-> partitions[q]]
  BY <1>5, <1>7, <1>8, <1>9, <1>13, ClearReleases DEF PlaneInv, ClearPartition
<1>16. /\ \A q \in DOMAIN partitions \ {p} :
            q \in DOMAIN partitions' /\ partitions'[q] = partitions[q]
       /\ \A q \in DOMAIN partitions' \ {p} : q \in DOMAIN partitions
       /\ p \in DOMAIN partitions' => call.op = "clear" /\ partitions'[p] = st
       /\ call.op = "clear" => p \in DOMAIN partitions'
  BY <1>3, <1>5, <1>15 DEF With, Exists
<1>17. ASSUME NEW e \in ReadyCells'
       PROVE  e \in ReadyCells /\ e[1] \notin S
  <2>1. PICK q \in DOMAIN partitions' : e \in partitions'[q].production_status
    BY <1>17 DEF ReadyCells
  <2>2. CASE q = p
    BY <1>5, <1>7, <1>14, <1>16, <2>1, <2>2 DEF ReadyCells, Exists
  <2>3. CASE q # p
    <3>1. q \in DOMAIN partitions /\ e \in partitions[q].production_status
      BY <1>16, <2>1, <2>3
    <3>2. q \in Partitions /\ e[1] \in partition_to_indexes[q]
      BY <3>1, OwnersOfCells DEF PlaneInv
    <3>3. partition_to_indexes[p] \cap partition_to_indexes[q] = {}
      BY <1>5, <2>3, <3>2, OwnersOfCells DEF PlaneInv
    <3> QED
      BY <1>5, <3>1, <3>2, <3>3 DEF ReadyCells
  <2> QED
    BY <2>2, <2>3
<1>18. ASSUME NEW i \in Owned
       PROVE  i \in Owned' \cup S
  <2>1. PICK q \in Partitions : i \in partition_to_indexes[q]
    BY <1>18 DEF Owned
  <2>2. i \in S \/ i \in partition_to_indexes'[q]
    BY <1>12, <2>1
  <2> QED
    BY <2>2 DEF Owned
<1>19. ASSUME NEW d \in Calls, d # c, Alive(calls[d])
       PROVE  calls[d].S \cap S = {}
  <2>1. CASE calls[d].p = p
    <3>1. Compatible(call, calls[d])
      BY <1>1, <1>3, <1>19 DEF PlaneInv, CallsInv, CallsExclude
    <3> QED
      BY <1>2, <1>3, <2>1, <3>1 DEF Compatible, Overlap
  <2>2. CASE calls[d].p # p
    <3>1. calls[d].p \in Partitions /\ calls[d].S \subseteq partition_to_indexes[calls[d].p]
      BY <1>19, OwnersOfCalls DEF PlaneInv, CallsInv
    <3>2. partition_to_indexes[p] \cap partition_to_indexes[calls[d].p] = {}
      BY <1>5, <2>2, <3>1, OwnersOfCells DEF PlaneInv
    <3> QED
      BY <1>5, <3>1, <3>2
  <2> QED
    BY <2>1, <2>2
<1>20. ASSUME NEW d \in Calls, d # c, NEW other, other = calls[d], Alive(other)
       PROVE  Present(other)' /\ (Removing(other) => Hidden(other)')
  <2>1. /\ Present(other) /\ (Removing(other) => Hidden(other)) /\ other.p \in Partitions
        /\ other.S # {} /\ other.S \cap S = {}
    BY <1>19, <1>20, CallIsTyped
    DEF PlaneInv, CallsInv, SamplesArePresent, RemovedAreHidden, CallsAgree, WellFormed, CallType
  <2>2. CASE other.p = p
    <3>1. other.S \subseteq partition_to_indexes[p]
      BY <1>20, <2>2, OwnersOfCalls DEF PlaneInv, CallsInv
    <3>2. call.op = "clear"
      BY <1>3, <1>9, <2>1, <3>1
    <3>3. other.op # "clear_all"
      BY <1>5, <1>2, <1>3, <2>1, <2>2 DEF Present
    <3>4. p \in DOMAIN partitions' /\ partitions'[p] = st
      BY <1>16, <3>2
    <3>5. Present(other)'
      BY <1>7, <1>14, <2>1, <2>2, <3>3, <3>4 DEF Present, Exists, InRange
    <3>6. Removing(other) => Hidden(other)'
      BY <1>7, <1>14, <2>1, <2>2, <3>4 DEF Hidden
    <3> QED
      BY <3>5, <3>6
  <2>3. CASE other.p # p
    <3>1. other.p \in DOMAIN partitions' /\ partitions'[other.p] = partitions[other.p]
      BY <1>16, <2>1, <2>3 DEF Present, Exists
    <3>2. partition_to_indexes'[other.p] = partition_to_indexes[other.p]
      BY <1>12, <2>1, <2>3
    <3> QED
      BY <2>1, <3>1, <3>2 DEF Present, Exists, Hidden
  <2> QED
    BY <2>2, <2>3
<1>21. OthersKeep(c)
  BY <1>20 DEF OthersKeep
<1>22. partition_to_indexes[p] \ partition_to_indexes'[p] = S
  BY <1>5, <1>12
<1>23. /\ ReadyCells' \subseteq ReadyCells
       /\ \A e \in ReadyCells' : e[1] \notin S
       /\ Owned \subseteq Owned' \cup S
  BY <1>17, <1>18
<1> QED
  BY <1>1, <1>2, <1>10, <1>19, <1>21, <1>22, <1>23 DEF Releases

(* Another call is as it was, but for the samples it loses.                *)
Loses(d, S) ==
  /\ calls'[d] \in CallType
  /\ calls'[d].op = calls[d].op /\ calls'[d].p = calls[d].p /\ calls'[d].S = calls[d].S
  /\ calls'[d].fs = calls[d].fs /\ calls'[d].attempt = calls[d].attempt
  /\ calls'[d].phase = calls[d].phase
  /\ calls'[d].open = calls[d].open /\ calls'[d].failed = calls[d].failed
  /\ calls'[d].gone = calls[d].gone \cup (calls[d].S \cap S)

LEMMA SameCall ==
  ASSUME NEW a \in CallType, NEW b \in CallType,
         a.op = b.op, a.phase = b.phase, a.p = b.p, a.S = b.S, a.fs = b.fs,
         a.open = b.open, a.failed = b.failed, a.attempt = b.attempt, a.gone = b.gone
  PROVE  a = b
  BY DEF CallType

LEMMA EndClearStep ==
  ASSUME PlaneInv, NEW c \in Calls, EndClear(c), Releases(c)
  PROVE  /\ calls[c].op \in {"clear", "clear_all"} /\ calls[c].phase = "units"
         /\ calls[c].open = {} /\ Alive(calls[c])
         /\ Over(c, calls'[c])
         /\ \A d \in Calls : d # c => Loses(d, calls[c].S)
         /\ calls' \in [Calls -> CallType]
         /\ UNCHANGED <<inbox, stored, active>>
         /\ stale' = stale \cup {e \in stored : e[1] \in calls[c].S}
         /\ leaked' = leaked \cup {i \in calls[c].S : UnitOf(i) \in calls[c].failed}
<1>1. PICK R : R = partition_to_indexes[calls[c].p] \ partition_to_indexes'[calls[c].p]
  OBVIOUS
<1>2. R = calls[c].S
  BY <1>1 DEF Releases
<1>3. /\ calls[c].op \in {"clear", "clear_all"} /\ calls[c].phase = "units"
      /\ calls[c].open = {} /\ Alive(calls[c])
      /\ UNCHANGED <<inbox, stored, active>>
      /\ stale' = stale \cup {e \in stored : e[1] \in R}
      /\ leaked' = leaked \cup {i \in R : UnitOf(i) \in calls[c].failed}
  BY <1>1 DEF EndClear, Outlive, Alive
<1>4. calls' = [d \in Calls |->
                  IF d = c THEN Ended(c, inbox)
                  ELSE [calls[d] EXCEPT !.gone = @ \cup (calls[d].S \cap R)]]
  BY <1>1 DEF EndClear
<1>5. Over(c, Ended(c, inbox))
  BY <1>3, EndedIsOver DEF PlaneInv, CallsInv
<1>6. calls'[c] = Ended(c, inbox)
  BY <1>4
<1>7. Over(c, calls'[c])
  BY <1>5, <1>6 DEF Over
<1>8. ASSUME NEW d \in Calls, d # c
      PROVE  Loses(d, R)
  <2>1. calls'[d] = [calls[d] EXCEPT !.gone = @ \cup (calls[d].S \cap R)]
    BY <1>4, <1>8
  <2>2. calls[d] \in CallType
    BY CallIsTyped DEF PlaneInv
  <2> QED
    BY <2>1, <2>2 DEF Loses, CallType
<1>9. calls' \in [Calls -> CallType]
  <2>1. \A d \in Calls : calls'[d] \in CallType
    BY <1>7, <1>8 DEF Over, Loses
  <2> QED
    BY <1>4, <2>1
<1>10. \A d \in Calls : d # c => Loses(d, calls[c].S)
  BY <1>2, <1>8
<1> QED
  BY <1>2, <1>3, <1>7, <1>9, <1>10

LEMMA EndClearKeepsInv ==
  ASSUME PlaneInv, deployment' = deployment, NEW c \in Calls, EndClear(c)
  PROVE  PlaneInv'
<1>1. PICK call : call = calls[c]
  OBVIOUS
<1>2. PICK S : S = call.S
  OBVIOUS
<1>3. Releases(c)
  BY EndClearReleases
<1>4. /\ call.op \in {"clear", "clear_all"} /\ call.phase = "units"
      /\ call.open = {} /\ Alive(call)
      /\ Over(c, calls'[c])
      /\ \A d \in Calls : d # c => Loses(d, S)
      /\ calls' \in [Calls -> CallType]
      /\ UNCHANGED <<inbox, stored, active>>
      /\ stale' = stale \cup {e \in stored : e[1] \in S}
      /\ leaked' = leaked \cup {i \in S : UnitOf(i) \in call.failed}
  BY <1>1, <1>2, <1>3, EndClearStep
<1>5. S \subseteq Indexes
  BY <1>1, <1>2, CallIsTyped DEF PlaneInv, CallType
<1>6. \A d \in Calls : d # c /\ Alive(calls[d]) => calls[d].S \cap S = {}
  BY <1>1, <1>2, <1>3 DEF Releases
<1>7. /\ Units' = Units /\ MaxAttempts' = MaxAttempts /\ CallType' = CallType /\ Idle' = Idle
      /\ \A i : UnitOf(i)' = UnitOf(i)
  BY DeploymentStays
<1>8. /\ ~Alive(calls'[c]) /\ WellFormed(calls'[c])
      /\ calls'[c].phase = "none" => calls'[c] = Idle
      /\ calls'[c].op = call.op \/ calls'[c].op = "idle"
      /\ calls'[c].phase \in {"none", "ended"} /\ calls'[c].open = {}
  <2>1. call.op # "idle" /\ (call.op \in {"clear", "clear_all"} => call.fs = Fields)
    BY <1>1, <1>4 DEF PlaneInv, CallsInv, CallsAgree, WellFormed
  <2> QED
    BY <1>1, <1>4, <2>1 DEF Over, WellFormed, Alive
<1>9. ASSUME NEW d \in Calls, d # c, ~(calls[d].phase = "ended")
      PROVE  calls'[d] = calls[d]
  <2>1. calls[d].S \cap S = {}
    <3>1. CASE Alive(calls[d])
      BY <1>6, <1>9, <3>1
    <3>2. CASE ~Alive(calls[d])
      <4>1. calls[d] = Idle
        BY <1>9, <3>2 DEF Alive, PlaneInv, CallsInv, CallsAgree
      <4> QED
        BY <4>1 DEF Idle
    <3> QED
      BY <3>1, <3>2
  <2>2. calls[d] \in CallType /\ Loses(d, S)
    BY <1>4, <1>9, CallIsTyped DEF PlaneInv
  <2>3. calls'[d] \in CallType /\ calls'[d].gone = calls[d].gone
    BY <2>1, <2>2 DEF Loses
  <2> QED
    BY <2>2, <2>3, SameCall DEF Loses
<1>10. CallsAgree'
  <2>1. ASSUME NEW d \in Calls, d # c
        PROVE  WellFormed(calls'[d]) /\ (calls'[d].phase = "none" => calls'[d] = Idle)
    <3>1. WellFormed(calls[d]) /\ (calls[d].phase = "none" => calls[d] = Idle)
      BY DEF PlaneInv, CallsInv, CallsAgree
    <3>2. CASE calls[d].phase = "ended"
      BY <1>4, <2>1, <3>1, <3>2 DEF Loses, WellFormed, Alive
    <3>3. CASE calls[d].phase # "ended"
      BY <1>9, <2>1, <3>1, <3>3
    <3> QED
      BY <3>2, <3>3
  <2>2. \A d \in Calls : WellFormed(calls'[d]) /\ (calls'[d].phase = "none" => calls'[d] = Idle)
    BY <1>8, <2>1
  <2> QED
    BY <1>7, <2>2 DEF CallsAgree, WellFormed, Alive
<1>11. ASSUME NEW d \in Calls, Alive(calls'[d])
       PROVE  d # c /\ Alive(calls[d]) /\ calls'[d] = calls[d]
  <2>1. d # c
    BY <1>8, <1>11
  <2>2. calls'[d].phase = calls[d].phase
    BY <1>4, <2>1 DEF Loses
  <2>3. Alive(calls[d]) /\ calls[d].phase # "ended"
    BY <1>11, <2>2 DEF Alive
  <2> QED
    BY <1>9, <2>1, <2>3
<1>12. ASSUME NEW d \in Calls, Alive(calls'[d]), NEW other, other = calls'[d]
       PROVE  Present(other)' /\ (Removing(other) => Hidden(other)')
  BY <1>3, <1>11, <1>12 DEF Releases, OthersKeep
<1>13. SamplesArePresent' /\ RemovedAreHidden'
  <2>1. ASSUME NEW d \in Calls, Alive(calls'[d])
        PROVE  Present(calls[d])' /\ (Removing(calls'[d]) => Hidden(calls[d])')
    <3>1. PICK other : other = calls'[d]
      OBVIOUS
    <3>2. Present(other)' /\ (Removing(other) => Hidden(other)')
      BY <1>12, <2>1, <3>1
    <3> QED
      BY <3>1, <3>2 DEF Present, Hidden, Exists
  <2> QED
    BY <2>1 DEF SamplesArePresent, RemovedAreHidden, Alive, Removing, Removes
<1>14. CallsExclude'
  <2>1. ASSUME NEW a \in Calls, NEW b \in Calls, a # b, Alive(calls'[a]), Alive(calls'[b])
        PROVE  Compatible(calls'[a], calls'[b])
    BY <1>11, <2>1 DEF PlaneInv, CallsInv, CallsExclude
  <2> QED
    BY <2>1 DEF CallsExclude, Alive, Compatible, Overlap, Removes, Removing
<1>15. CallsInv'
  BY <1>10, <1>13, <1>14 DEF CallsInv
<1>16. PlaneTypes'
  <2>1. Cells' = Cells /\ Indexes' = Indexes
    BY DEF Cells, Indexes
  <2>2. leaked' \subseteq Indexes
    BY <1>4, <1>5 DEF PlaneInv, PlaneTypes
  <2> QED
    BY <1>4, <1>7, <2>1, <2>2 DEF PlaneTypes, PlaneInv
(* What requests sent do.                                                  *)
<1>17. ASSUME NEW u \in Units, NEW k \in DOMAIN inbox[u]
       PROVE  /\ inbox'[u] = inbox[u]
              /\ calls'[inbox[u][k][1]].phase \in {"units", "notify", "ended"}
              /\ calls'[inbox[u][k][1]].attempt = Caller(u, k).attempt
              /\ \A i : Fills(calls'[inbox[u][k][1]], i) <=> Fills(Caller(u, k), i)
              /\ \A e : e[1] \notin S =>
                   (Spoils(calls'[inbox[u][k][1]], e) <=> Spoils(Caller(u, k), e))
  <2>1. PICK x : x = inbox[u][k][1]
    OBVIOUS
  <2>2. x \in Calls
    <3>1. inbox[u][k] \in Calls \X (1..MaxAttempts)
      BY ElementOfSeq DEF PlaneInv, PlaneTypes
    <3> QED
      BY <2>1, <3>1
  <2>3. Boxed(x) /\ calls[x].phase \in {"units", "notify", "ended"}
    BY <2>1 DEF Boxed, PlaneInv, UnitsInv, BoxesAgree, Caller
  <2>4. /\ calls'[x].op = calls[x].op /\ calls'[x].S = calls[x].S /\ calls'[x].fs = calls[x].fs
        /\ calls'[x].attempt = calls[x].attempt
        /\ calls'[x].phase \in {"units", "notify", "ended"}
        /\ \A i : i \notin S => (i \in calls'[x].gone <=> i \in calls[x].gone)
    <3>1. CASE x = c
      BY <1>4, <2>3, <3>1 DEF Over
    <3>2. CASE x # c
      BY <1>4, <2>2, <2>3, <3>2 DEF Loses
    <3> QED
      BY <3>1, <3>2
  <2>5. \A i : Fills(calls'[x], i) <=> Fills(calls[x], i)
    BY <2>4 DEF Fills
  <2>6. \A e : e[1] \notin S => (Spoils(calls'[x], e) <=> Spoils(calls[x], e))
    BY <2>4 DEF Spoils, Removes
  <2> QED
    BY <1>4, <2>1, <2>4, <2>5, <2>6 DEF Caller
<1>18. ASSUME NEW u \in Units, NEW e, e[1] \notin S, Safe(u, e)
       PROVE  Safe(u, e)'
  BY <1>4, <1>17, <1>18 DEF Safe, Caller
<1>19. ASSUME NEW u \in Units, NEW i, Clean(u, i)
       PROVE  Clean(u, i)'
  BY <1>4, <1>17, <1>19 DEF Clean, Caller
<1>20. BoxesAgree'
  <2>1. \A u \in Units : \A k \in DOMAIN inbox[u] : inbox[u][k][2] <= Caller(u, k).attempt[u]
    BY DEF PlaneInv, UnitsInv, BoxesAgree
  <2> QED
    BY <1>4, <1>7, <1>17, <2>1 DEF BoxesAgree, Caller
<1>21. ReadyIsSafe'
  <2>1. ASSUME NEW e \in ReadyCells', NEW u, u = UnitOf(e[1])
        PROVE  Safe(u, e)'
    <3>1. e \in ReadyCells /\ e[1] \notin S
      BY <1>1, <1>2, <1>3, <2>1 DEF Releases
    <3>2. Safe(u, e)
      BY <2>1, <3>1 DEF PlaneInv, UnitsInv, ReadyIsSafe
    <3>3. u \in Units
      <4>1. e \in Cells
        BY <3>2 DEF Safe, PlaneInv, PlaneTypes
      <4> QED
        BY <2>1, <4>1, PlaneNumbers DEF Cells, PlaneInv
    <3> QED
      BY <1>18, <3>1, <3>2, <3>3
  <2> QED
    BY <1>7, <2>1 DEF ReadyIsSafe
<1>22. ASSUME NEW d \in Calls, NEW i \in calls'[d].S, NEW u, u = UnitOf(i)
       PROVE  /\ \A f \in calls'[d].fs : CellIsKept(d, u, <<i, f>>)'
              /\ SpaceIsCleared(d, u, i)'
  <2>1. CASE ~Alive(calls'[d])
    <3>1. calls'[d].phase \in {"none", "ended"} /\ calls'[d].open = {}
      BY <1>15, <2>1 DEF CallsInv, CallsAgree, WellFormed, Alive
    <3> QED
      BY <3>1, RestingReliesOnNothing
  <2>2. CASE Alive(calls'[d])
    <3>1. d # c /\ Alive(calls[d]) /\ calls'[d] = calls[d]
      BY <1>11, <2>2
    <3>2. i \notin S
      BY <1>6, <1>22, <3>1
    <3>3. u \in Units
      BY <1>22, <3>1, PlaneNumbers, CallIsTyped DEF PlaneInv, CallType
    <3>4. /\ \A f \in calls[d].fs : CellIsKept(d, u, <<i, f>>)
          /\ SpaceIsCleared(d, u, i)
      BY <1>22, <3>1 DEF PlaneInv, UnitsInv, CallsAreSafe
    <3>5. ASSUME NEW f \in calls[d].fs
          PROVE  CellIsKept(d, u, <<i, f>>)'
      <4>1. PICK e : e = <<i, f>>
        OBVIOUS
      <4>2. e[1] \notin S /\ CellIsKept(d, u, e)
        BY <3>2, <3>4, <3>5, <4>1
      <4>3. Safe(u, e) => Safe(u, e)'
        BY <1>18, <3>3, <4>2
      <4>4. AfterSpoils(d, u, e) => AfterSpoils(d, u, e)'
        BY <1>4, <1>17, <3>1, <3>3, <4>2 DEF AfterSpoils, Asks, Caller
      <4>5. CellIsKept(d, u, e)'
        BY <3>1, <4>2, <4>3, <4>4 DEF CellIsKept
      <4> QED
        BY <4>1, <4>5
    <3>6. AfterFills(d, u, i) => AfterFills(d, u, i)'
      BY <1>4, <1>17, <3>1, <3>3 DEF AfterFills, Asks, Caller
    <3>7. SpaceIsCleared(d, u, i)'
      BY <1>19, <3>1, <3>3, <3>4, <3>6 DEF SpaceIsCleared
    <3> QED
      BY <3>1, <3>5, <3>7
  <2> QED
    BY <2>1, <2>2
<1>23. CallsAreSafe'
  BY <1>7, <1>22 DEF CallsAreSafe
<1>24. ASSUME NEW i \in Indexes, i \in Owned \cup leaked,
              ~Clean(UnitOf(i), i)
       PROVE  i \in Owned' \cup leaked'
  <2>1. Owned \subseteq Owned' \cup S
    BY <1>1, <1>2, <1>3 DEF Releases
  <2>2. ASSUME i \in S
        PROVE  i \in leaked'
    <3>1. SpaceIsCleared(c, UnitOf(i), i)
      BY <1>1, <1>2, <2>2 DEF PlaneInv, UnitsInv, CallsAreSafe
    <3>2. UnitOf(i) \in call.failed
      BY <1>1, <1>4, <1>24, <3>1 DEF SpaceIsCleared
    <3> QED
      BY <1>4, <2>2, <3>2
  <2> QED
    BY <1>4, <1>24, <2>1, <2>2
<1>25. SpaceAgrees'
  <2>1. ASSUME NEW i \in active'
        PROVE  i \in Owned' \cup leaked'
    <3>1. i \in active /\ i \in Indexes /\ i \in Owned \cup leaked
      BY <1>4, <2>1 DEF PlaneInv, PlaneTypes, UnitsInv, SpaceAgrees
    <3>2. ~Clean(UnitOf(i), i)
      BY <3>1 DEF Clean
    <3> QED
      BY <1>24, <3>1, <3>2
  <2>2. ASSUME NEW u \in Units, NEW k \in DOMAIN inbox'[u], NEW i \in Indexes,
               UnitOf(i) = u, Fills(calls'[inbox'[u][k][1]], i)
        PROVE  i \in Owned' \cup leaked'
    <3>1. k \in DOMAIN inbox[u] /\ inbox'[u] = inbox[u]
      BY <1>4, <2>2
    <3>2. Fills(Caller(u, k), i)
      BY <1>17, <2>2, <3>1
    <3>3. i \in Owned \cup leaked
      BY <2>2, <3>1, <3>2 DEF PlaneInv, UnitsInv, SpaceAgrees
    <3>4. ~Clean(UnitOf(i), i)
      BY <2>2, <3>1, <3>2 DEF Clean
    <3> QED
      BY <1>24, <2>2, <3>3, <3>4
  <2> QED
    BY <1>7, <2>1, <2>2 DEF SpaceAgrees, Caller, Indexes
<1>26. ControllerSafe' /\ ControllerTidy'
  BY <1>3 DEF Releases
<1> QED
  BY <1>15, <1>16, <1>20, <1>21, <1>23, <1>25, <1>26 DEF PlaneInv, UnitsInv

-----------------------------------------------------------------------------
(* The whole data plane.                                                   *)

LEMMA PlaneStarts == Init => PlaneInv
<1> SUFFICES ASSUME Init PROVE PlaneInv
  OBVIOUS
<1>1. ControllerSafe /\ ControllerTidy /\ DOMAIN partitions = {}
  BY StartIsSafe DEF Init, ControllerInit
<1>2. deployment \in [units : Nat \ {0}, size : Nat, attempts : Nat \ {0}]
  BY DataPlaneAssumption DEF Init
<1>3. NumUnits \in Nat /\ MaxAttempts \in Nat
  BY <1>2 DEF NumUnits, MaxAttempts
<1>4. Idle \in CallType
  BY <1>3, DataPlaneAssumption DEF Idle, CallType
<1>5. /\ calls = [c \in Calls |-> Idle] /\ inbox = [u \in Units |-> <<>>]
      /\ stored = {} /\ active = {} /\ stale = {} /\ leaked = {} /\ deployment \in Deployments
  BY DEF Init
<1>6. PlaneTypes
  <2>1. <<>> \in Seq(Calls \X (1..MaxAttempts))
    OBVIOUS
  <2> QED
    BY <1>4, <1>5, <2>1 DEF PlaneTypes
<1>7. /\ Idle.op = "idle" /\ Idle.phase = "none" /\ Idle.S = {} /\ Idle.open = {}
      /\ Idle.failed = {} /\ ~Alive(Idle)
  BY DEF Idle, Alive
<1>8. CallsInv
  BY <1>5, <1>7 DEF CallsInv, CallsAgree, WellFormed, SamplesArePresent, CallsExclude,
     RemovedAreHidden
<1>9. UnitsInv
  <2>1. \A u \in Units : DOMAIN inbox[u] = {}
    BY <1>5
  <2>2. ReadyCells = {}
    BY <1>1 DEF ReadyCells
  <2> QED
    BY <1>5, <1>7, <2>1, <2>2 DEF UnitsInv, BoxesAgree, ReadyIsSafe, CallsAreSafe, SpaceAgrees
<1> QED
  BY <1>1, <1>6, <1>8, <1>9 DEF PlaneInv

LEMMA PlaneStutters ==
  ASSUME PlaneInv, UNCHANGED vars
  PROVE  PlaneInv'
<1>1. /\ UNCHANGED controllerVars
      /\ UNCHANGED <<deployment, calls, inbox, stored, active, stale, leaked>>
  BY DEF vars, planeVars
<1>2. /\ Units' = Units /\ MaxAttempts' = MaxAttempts /\ CallType' = CallType /\ Idle' = Idle
      /\ \A i : UnitOf(i)' = UnitOf(i)
  BY <1>1, DeploymentStays
<1>3. ControllerSafe' /\ ControllerTidy'
  BY <1>1 DEF PlaneInv, ControllerSafe, ControllerTidy, controllerVars, imVars, IMTypeOK, IMInv,
     StatusesSound, OwnersDisjoint, PoolIsFree, IndexesConserved, AllocatedAreOwned, Pooled, Owned,
     OwnershipAgrees, Exists, Universe
<1>4. PlaneTypes'
  BY <1>1, <1>2 DEF PlaneInv, PlaneTypes, Cells, Indexes
<1>5. CallsInv'
  BY <1>1, <1>2 DEF PlaneInv, CallsInv, CallsAgree, WellFormed, Alive, SamplesArePresent, Present,
     Exists, CallsExclude, Compatible, Overlap, Removes, Removing, RemovedAreHidden, Hidden,
     controllerVars, imVars
<1>6. UnitsInv'
  <2>1. ReadyCells' = ReadyCells /\ Owned' = Owned
    BY <1>1 DEF ReadyCells, Owned, controllerVars, imVars
  <2>2. /\ \A u, e : Safe(u, e)' <=> Safe(u, e)
        /\ \A u, i : Clean(u, i)' <=> Clean(u, i)
        /\ \A c, u, e : AfterSpoils(c, u, e)' <=> AfterSpoils(c, u, e)
        /\ \A c, u, i : AfterFills(c, u, i)' <=> AfterFills(c, u, i)
    BY <1>1 DEF Safe, Clean, AfterSpoils, AfterFills, Asks, Caller
  <2>3. /\ \A c, u, e : CellIsKept(c, u, e)' <=> CellIsKept(c, u, e)
        /\ \A c, u, i : SpaceIsCleared(c, u, i)' <=> SpaceIsCleared(c, u, i)
    BY <1>1, <2>2 DEF CellIsKept, SpaceIsCleared
  <2>4. BoxesAgree' /\ SpaceAgrees'
    BY <1>1, <1>2, <2>1 DEF PlaneInv, UnitsInv, BoxesAgree, SpaceAgrees, Caller, Indexes
  <2>5. ReadyIsSafe' /\ CallsAreSafe'
    BY <1>1, <1>2, <2>1, <2>2, <2>3 DEF PlaneInv, UnitsInv, ReadyIsSafe, CallsAreSafe
  <2> QED
    BY <2>4, <2>5 DEF UnitsInv
<1> QED
  BY <1>3, <1>4, <1>5, <1>6 DEF PlaneInv

LEMMA PlaneStep ==
  ASSUME PlaneInv, ~ClearBusy, Next
  PROVE  PlaneInv'
<1> USE DEF Next
<1>1. ASSUME NEW c \in Calls, NEW p \in Partitions, PutNew(c, p) PROVE PlaneInv'
  BY <1>1, PutNewKeepsInv
<1>2. ASSUME NEW c \in Calls, NEW p \in Partitions, PutOver(c, p) PROVE PlaneInv'
  BY <1>2, PutOverKeepsInv
<1>3. ASSUME NEW c \in Calls, NEW p \in Partitions, Get(c, p) PROVE PlaneInv'
  BY <1>3, GetKeepsInv
<1>4. ASSUME NEW c \in Calls, NEW p \in Partitions, Clear(c, p) PROVE PlaneInv'
  BY <1>4, ClearKeepsInv
<1>5. ASSUME NEW c \in Calls, NEW p \in Partitions, ClearAll(c, p) PROVE PlaneInv'
  BY <1>5, ClearAllKeepsInv
<1>6. ASSUME NEW c \in Calls, NEW p \in Partitions, Drop(c, p) PROVE PlaneInv'
  BY <1>6, DropKeepsInv
<1>7. ASSUME NEW c \in Calls, SendPut(c) PROVE PlaneInv'
  BY <1>7, SendPutKeepsInv
<1>8. ASSUME NEW c \in Calls, SendNotify(c) PROVE PlaneInv'
  BY <1>8, SendNotifyKeepsInv
<1>9. ASSUME NEW c \in Calls, EndNotify(c) PROVE PlaneInv'
  BY <1>9, EndNotifyKeepsInv
<1>10. ASSUME NEW c \in Calls, MarkAll(c) PROVE PlaneInv'
  BY <1>10, MarkAllKeepsInv
<1>11. ASSUME NEW c \in Calls, EndClear(c) PROVE PlaneInv'
  BY <1>11, EndClearKeepsInv
<1>12. ASSUME NEW c \in Calls, EndCall(c) PROVE PlaneInv'
  BY <1>12, EndCallKeepsInv
<1>13. ASSUME NEW c \in Calls, NEW u \in Units, Timeout(c, u) PROVE PlaneInv'
  BY <1>13, TimeoutKeepsInv
<1>14. ASSUME NEW u \in Units, Serve(u) PROVE PlaneInv'
  BY <1>14, ServeKeepsInv
<1> QED
  BY <1>1, <1>2, <1>3, <1>4, <1>5, <1>6, <1>7, <1>8, <1>9, <1>10, <1>11, <1>12, <1>13, <1>14
  DEF Step

LEMMA PlaneIsSafe == ASSUME ~ClearBusy PROVE Spec => []PlaneInv
<1>1. Init => PlaneInv
  BY PlaneStarts
<1>2. PlaneInv /\ [Next]_vars => PlaneInv'
  BY PlaneStutters, PlaneStep
<1> QED
  BY <1>1, <1>2, PTL DEF Spec

(* For users that clear no sample another call works on, what the          *)
(* controller offers is always held by its unit, and is the value of the   *)
(* index's present owner, whatever is lost, late, or sent again.           *)
THEOREM OfferedIsHeld == ASSUME ~ClearBusy PROVE Spec => []ReadyIsCurrent
<1>1. PlaneInv => ReadyIsCurrent
  BY DEF PlaneInv, UnitsInv, ReadyIsSafe, Safe, ReadyIsCurrent
<1> QED
  BY <1>1, PlaneIsSafe, PTL

(* For the same users a get finds at every unit what it was promised, until*)
(* that unit has answered it.                                              *)
THEOREM GetsFindValues == ASSUME ~ClearBusy PROVE Spec => []ReadsFindValues
<1>1. ASSUME PlaneInv, NEW c \in Calls, calls[c].op = "get", NEW u \in calls[c].open,
             NEW e \in Group(calls[c].S, u) \X calls[c].fs
      PROVE  e \in stored \ stale
  <2>1. PICK i \in calls[c].S, f \in calls[c].fs : e = <<i, f>> /\ UnitOf(i) = u
    BY <1>1 DEF Group
  <2>2. CellIsKept(c, u, <<i, f>>)
    BY <1>1, <2>1 DEF PlaneInv, UnitsInv, CallsAreSafe
  <2> QED
    BY <1>1, <2>1, <2>2 DEF CellIsKept, Safe
<1>2. PlaneInv => ReadsFindValues
  BY <1>1 DEF ReadsFindValues
<1> QED
  BY <1>2, PlaneIsSafe, PTL

(* For the same users a unit's capacity is spent on samples that have an   *)
(* owner, or whose clear failed at that unit and was not made good since.  *)
THEOREM SpaceHasAnOwner == ASSUME ~ClearBusy PROVE Spec => []SpaceIsOwned
<1>1. PlaneInv => SpaceIsOwned
  BY DEF PlaneInv, UnitsInv, SpaceAgrees, SpaceIsOwned
<1> QED
  BY <1>1, PlaneIsSafe, PTL

(* For the same users nothing that units are being told to clear is on     *)
(* offer.                                                                  *)
THEOREM ClearedIsNotOffered == ASSUME ~ClearBusy PROVE Spec => []ClearingIsHidden
<1>1. ASSUME PlaneInv, NEW c \in Calls, calls[c].op \in {"clear", "clear_all"},
             calls[c].phase = "units", Exists(calls[c].p),
             NEW e \in partitions[calls[c].p].production_status
      PROVE  e[1] \notin calls[c].S
  <2>1. Hidden(calls[c]) /\ calls[c].fs = Fields
    BY <1>1 DEF PlaneInv, CallsInv, RemovedAreHidden, CallsAgree, WellFormed, Alive, Removing, Removes
  <2>2. e \in Nat \X Fields
    BY <1>1, TidyStatusOf DEF PlaneInv, PartitionStatus
  <2> QED
    BY <1>1, <2>1, <2>2 DEF Hidden
<1>2. PlaneInv => ClearingIsHidden
  BY <1>1 DEF ClearingIsHidden
<1> QED
  BY <1>2, PlaneIsSafe, PTL
=============================================================================
