------------------------------ MODULE Session ------------------------------
(***************************************************************************)
(* tq.init and tq.close (transfer_queue/interface.py): processes that come *)
(* up in any order find or create the one named controller actor, with the *)
(* named lock actors and storage units of its session, connect a client to *)
(* it, and leave or tear it down, while they crash and come back.          *)
(*                                                                         *)
(* Actors are named with the session that created them.  Ray kills actors  *)
(* in the order it is asked to, those of a crashed process together, and a *)
(* name is free once its actor is dead.                                    *)
(***************************************************************************)
EXTENDS Naturals, FiniteSets

CONSTANTS
  Procs,
  NumShards,        \* lock actors of a session, 0 with kv_global_lock off
  Retries,          \* TQ_STORAGE_HANDSHAKE_MAX_RETRIES
  MaxSessions,      \* bound: sessions begun
  MaxCrashes        \* bound

ASSUME SessionAssumption ==
  NumShards \in Nat /\ Retries \in Nat /\ MaxSessions \in Nat \ {0} /\ MaxCrashes \in Nat

VARIABLES
  begun,        \* sessions begun
  creator,      \* session -> the process that began it
  controller,   \* the session whose controller is alive, or 0
  config,       \* the session whose units the controller's config names, or 0
  locks,        \* shard -> the session of its living lock actor, or 0
  units,        \* the session of the living storage units, or 0
  proc,         \* process -> its module-level state
  crashes

world == <<begun, creator, controller, config, locks, units>>
sessionVars == <<world, proc, crashes>>

Shards   == 1..NumShards
NoClient == [session |-> 0, units |-> 0, known |-> FALSE, ready |-> FALSE]

(* _TQ_CONTROLLER, _TQ_CLIENT, _TQ_IS_OWNER, _owned and _TQ_STORAGE, and   *)
(* the handshake requests sent, on their way, and answered.                *)
Fresh == [pc |-> "idle", handle |-> 0, client |-> NoClient, owner |-> FALSE, owned |-> {},
          storage |-> 0, sent |-> 0, asked |-> 0, acked |-> 0]

SessionInit ==
  /\ begun = 0 /\ creator = << >> /\ controller = 0 /\ config = 0
  /\ locks = [s \in Shards |-> 0] /\ units = 0
  /\ proc = [p \in Procs |-> Fresh]
  /\ crashes = 0

At(p, pc)   == proc[p].pc = pc
Closing(p)  == At(p, "parting") \/ At(p, "closing")
Set(p, new) == proc' = [proc EXCEPT ![p] = new]
Go(p, pc)   == Set(p, [proc[p] EXCEPT !.pc = pc])

-----------------------------------------------------------------------------
(* _init_from_existing: a handle that is held is used, dead or not.        *)
Found(p) == IF proc[p].handle # 0 THEN proc[p].handle ELSE controller

BeginInit(p) ==
  /\ At(p, "idle")
  /\ Set(p, [proc[p] EXCEPT !.handle = Found(p), !.pc = IF Found(p) = 0 THEN "create" ELSE "poll"])
  /\ UNCHANGED <<world, crashes>>

(* A manager is built on the units that the configuration names.           *)
NewClient(p) ==
  [session |-> proc[p].handle, units |-> config, known |-> FALSE, ready |-> FALSE]

(* _send_handshake_requests                                                *)
Sent(s) == [s EXCEPT !.sent = @ + 1, !.asked = @ + 1]

(* The handshake's socket is closed: what it still had to send or to       *)
(* receive is gone.                                                        *)
Hung(s) == [s EXCEPT !.asked = 0, !.acked = 0]

(* A new client, and the first handshake of its storage manager.           *)
WithClient(p) ==
  IF proc[p].client # NoClient THEN [proc[p] EXCEPT !.pc = "idle"]
  ELSE Sent([Hung(proc[p]) EXCEPT !.pc = "connect", !.sent = 0, !.client = NewClient(p)])

(* A mutant: a controller that is dead is waited for.                      *)
PollForEver(p) ==
  /\ At(p, "poll") /\ controller = proc[p].handle /\ config # 0
  /\ Set(p, WithClient(p))
  /\ UNCHANGED <<world, crashes>>

(* get_config raises if the controller is dead, and is asked again until   *)
(* its creator has stored one.                                             *)
Poll(p) ==
  /\ At(p, "poll")
  /\ \/ controller # proc[p].handle /\ Go(p, "idle")
     \/ controller = proc[p].handle /\ config # 0 /\ Set(p, WithClient(p))
  /\ UNCHANGED <<world, crashes>>

(* The name is taken by one process only.  The others look for the actor   *)
(* again, and return without a client if it is gone by then.               *)
Create(p) ==
  /\ At(p, "create") /\ controller = 0 /\ begun < MaxSessions
  /\ begun' = begun + 1
  /\ creator' = [g \in 1..begun' |-> IF g = begun' THEN p ELSE creator[g]]
  /\ controller' = begun' /\ config' = 0
  /\ Set(p, [proc[p] EXCEPT !.pc = "locks", !.handle = begun', !.owner = TRUE])
  /\ UNCHANGED <<locks, units, crashes>>

LoseRace(p) ==
  /\ At(p, "create") /\ controller # 0
  /\ Go(p, "adopt")
  /\ UNCHANGED <<world, crashes>>

Adopt(p) ==
  /\ At(p, "adopt")
  /\ Set(p, [proc[p] EXCEPT !.handle = Found(p), !.pc = IF Found(p) = 0 THEN "idle" ELSE "poll"])
  /\ UNCHANGED <<world, crashes>>

(* _start_lock_managers, shard by shard (get_if_exists).                   *)
StartLock(p) ==
  /\ At(p, "locks")
  /\ LET s == Cardinality(proc[p].owned) + 1
         g == IF s \in Shards /\ locks[s] # 0 THEN locks[s] ELSE proc[p].handle
     IN  IF s \notin Shards
         THEN Go(p, "storage") /\ UNCHANGED locks
         ELSE /\ locks' = [locks EXCEPT ![s] = g]
              /\ Set(p, [proc[p] EXCEPT !.owned = @ \cup {<<s, g>>}])
  /\ UNCHANGED <<begun, creator, controller, config, units, crashes>>

(* A mutant: the configuration is stored before its units exist.           *)
StoreConfigFirst(p) ==
  /\ At(p, "storage") /\ units = 0
  /\ IF config = 0
     THEN config' = MaxSessions + 1 /\ UNCHANGED <<units, proc>>
     ELSE /\ units' = proc[p].handle
          /\ Set(p, [proc[p] EXCEPT !.pc = "store", !.storage = proc[p].handle])
          /\ UNCHANGED config
  /\ UNCHANGED <<begun, creator, controller, locks, crashes>>

(* The units have names too.                                               *)
CreateStorage(p) ==
  /\ At(p, "storage") /\ units = 0
  /\ units' = proc[p].handle
  /\ Set(p, [proc[p] EXCEPT !.pc = "store", !.storage = proc[p].handle])
  /\ UNCHANGED <<begun, creator, controller, config, locks, crashes>>

(* A name may be taken, a node or a resource be missing: init raises.      *)
StorageFails(p) ==
  /\ At(p, "storage")
  /\ Go(p, "idle")
  /\ UNCHANGED <<world, crashes>>

StoreConfig(p) ==
  /\ At(p, "store")
  /\ config' = proc[p].storage
  /\ Go(p, "client")
  /\ UNCHANGED <<begun, creator, controller, locks, units, crashes>>

MakeClient(p) ==
  /\ At(p, "client")
  /\ Set(p, WithClient(p))
  /\ UNCHANGED <<world, crashes>>

-----------------------------------------------------------------------------
(* The handshake of the storage manager.  Each request is acknowledged.    *)
ServeHandshake(p) ==
  /\ proc[p].asked > 0 /\ controller = proc[p].client.session /\ controller # 0
  /\ Set(p, [proc[p] EXCEPT !.asked = @ - 1, !.acked = @ + 1, !.client.known = TRUE])
  /\ UNCHANGED <<world, crashes>>

Retransmit(p) ==
  /\ At(p, "connect") /\ proc[p].sent <= Retries
  /\ Set(p, Sent(proc[p]))
  /\ UNCHANGED <<world, crashes>>

Connected(p) ==
  /\ At(p, "connect") /\ proc[p].acked > 0
  /\ Set(p, [Hung(proc[p]) EXCEPT !.pc = "idle", !.client.ready = TRUE])
  /\ UNCHANGED <<world, crashes>>

(* A mutant: the manager goes on without an answer.                        *)
GoOnUnanswered(p) ==
  /\ At(p, "connect") /\ proc[p].sent > Retries
  /\ Set(p, [Hung(proc[p]) EXCEPT !.pc = "idle", !.client.ready = TRUE])
  /\ UNCHANGED <<world, crashes>>

(* It raises out of init, and leaves a client that has no storage manager. *)
GiveUp(p) ==
  /\ At(p, "connect") /\ proc[p].sent > Retries
  /\ Set(p, [Hung(proc[p]) EXCEPT !.pc = "idle"])
  /\ UNCHANGED <<world, crashes>>

-----------------------------------------------------------------------------
(* tq.close, in its order: units, client, lock actors, controller.         *)
BeginClose(p) ==
  /\ At(p, "idle")
  /\ units' = IF proc[p].storage # 0 /\ units = proc[p].storage THEN 0 ELSE units
  /\ Set(p, [proc[p] EXCEPT !.pc = "parting", !.storage = 0])
  /\ UNCHANGED <<begun, creator, controller, config, locks, crashes>>

CloseClient(p) ==
  /\ At(p, "parting")
  /\ Set(p, [proc[p] EXCEPT !.pc = "closing", !.client = NoClient])
  /\ UNCHANGED <<world, crashes>>

(* Only the creator kills the controller.                                  *)
Killed(p) == IF proc[p].owner /\ controller = proc[p].handle THEN 0 ELSE controller

(* A mutant: the controller is killed before the lock actors.              *)
CloseLocksLast(p) ==
  /\ At(p, "closing")
  /\ IF proc[p].handle # 0
     THEN /\ controller' = Killed(p)
          /\ Set(p, [proc[p] EXCEPT !.handle = 0, !.owner = FALSE])
          /\ UNCHANGED locks
     ELSE IF proc[p].owned # {}
     THEN \E o \in proc[p].owned :
            /\ locks' = [locks EXCEPT ![o[1]] = IF @ = o[2] THEN 0 ELSE @]
            /\ Set(p, [proc[p] EXCEPT !.owned = @ \ {o}])
            /\ UNCHANGED controller
     ELSE Go(p, "idle") /\ UNCHANGED <<controller, locks>>
  /\ UNCHANGED <<begun, creator, config, units, crashes>>

(* _close_lock_managers, actor by actor, and then the controller.          *)
CloseActors(p) ==
  /\ At(p, "closing")
  /\ IF proc[p].owned # {}
     THEN \E o \in proc[p].owned :
            /\ locks' = [locks EXCEPT ![o[1]] = IF @ = o[2] THEN 0 ELSE @]
            /\ Set(p, [proc[p] EXCEPT !.owned = @ \ {o}])
            /\ UNCHANGED controller
     ELSE /\ controller' = Killed(p)
          /\ Set(p, [proc[p] EXCEPT !.pc = "idle", !.handle = 0, !.owner = FALSE])
          /\ UNCHANGED locks
  /\ UNCHANGED <<begun, creator, config, units, crashes>>

-----------------------------------------------------------------------------
(* A process dies, and the actors it created with it: none is detached.    *)
LocksOf(p) == {s \in Shards : locks[s] # 0 /\ creator[locks[s]] = p}
Began(p, g) == g # 0 /\ creator[g] = p

Crash(p) ==
  /\ crashes < MaxCrashes
  /\ crashes' = crashes + 1
  /\ controller' = IF Began(p, controller) THEN 0 ELSE controller
  /\ units' = IF Began(p, units) THEN 0 ELSE units
  /\ locks' = [s \in Shards |-> IF s \in LocksOf(p) THEN 0 ELSE locks[s]]
  /\ Set(p, Fresh)
  /\ UNCHANGED <<begun, creator, config>>

-----------------------------------------------------------------------------
InitStep(p) ==
  \/ Poll(p) \/ Create(p) \/ LoseRace(p) \/ Adopt(p)
  \/ StartLock(p) \/ CreateStorage(p) \/ StorageFails(p) \/ StoreConfig(p) \/ MakeClient(p)
  \/ Retransmit(p) \/ Connected(p) \/ GiveUp(p)

SessionNext ==
  \E p \in Procs :
    BeginInit(p) \/ InitStep(p) \/ ServeHandshake(p) \/ BeginClose(p) \/ CloseClient(p) \/ CloseActors(p) \/ Crash(p)

(* A process goes on with its init and its close.                          *)
SessionFairness == \A p \in Procs : WF_sessionVars(InitStep(p)) /\ WF_sessionVars(CloseClient(p) \/ CloseActors(p))

SessionSpec == SessionInit /\ [][SessionNext]_sessionVars /\ SessionFairness

-----------------------------------------------------------------------------
(* As long as the creator of the controller has not begun to close, the    *)
(* lock actors and units it brought up live, and nobody else is to kill    *)
(* them: whoever creates the next controller finds no actor of the last    *)
(* session, whose creator would still kill it.                             *)
SessionIsWhole ==
  \A p \in Procs : proc[p].owner /\ controller = proc[p].handle /\ ~Closing(p) =>
    /\ \A o \in proc[p].owned :
         locks[o[1]] = o[2] /\ creator[o[2]] = p /\ \A q \in Procs \ {p} : o \notin proc[q].owned
    /\ proc[p].storage # 0 => units = proc[p].storage

(* A client belongs to the session its process has a handle of, and knows  *)
(* the units of that session; once it has come up, whichever way, the      *)
(* controller has heard of it.                                             *)
ClientsFitTheirSession ==
  \A p \in Procs :
    LET c == proc[p].client
    IN  /\ c # NoClient => c.session = proc[p].handle /\ c.units = c.session
        /\ c.ready => c.known

(* Every init returns or raises, though others close and crash meanwhile.  *)
(* Only a creator that could not bring its units up, and keeps the         *)
(* controller without a configuration, holds the others up.                *)
Initing(p) ==
  /\ ~At(p, "idle") /\ ~Closing(p)
  /\ ~(At(p, "create") /\ begun = MaxSessions)

HalfUp == controller # 0 /\ config = 0 /\ proc[creator[controller]].pc \in {"idle", "poll"}

InitsEnd == \A p \in Procs : Initing(p) ~> (~Initing(p) \/ HalfUp)
=============================================================================
