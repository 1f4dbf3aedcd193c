----------------------------- MODULE SocketPool -----------------------------
(***************************************************************************)
(* ZMQSocketPool (transfer_queue/utils/zmq_utils.py) and the requests that *)
(* lease its sockets: the controller's, the storage units' and the         *)
(* notifications.  A reply does not name its request: whoever holds the    *)
(* socket takes the next one that arrives on it for its own.               *)
(*                                                                         *)
(* A pool stands for one kind of request to one address.                   *)
(***************************************************************************)
EXTENDS Naturals, FiniteSets, Sequences, SequencesExt

CONSTANTS
  Callers, Pools,
  OwnerOf,    \* caller -> the loop its requests run on (_lease_owner)
  Nobody,
  MaxSize,    \* TQ_SOCKET_POOL_SIZE
  Budget,     \* ZMQ_MAX_SOCKETS of the context
  Timed       \* pools whose requests time out, answered or not

VARIABLES
  socks,      \* open socket -> who uses it, and its requests and replies
  line,       \* <<pool, owner>> -> callers in the order they came for a permit
  call,       \* caller -> its request
  closed      \* event loops that are closed

NoCall == [pc |-> "none", pool |-> Nobody]
Owners == {OwnerOf[c] : c \in Callers}

PoolInit ==
  /\ socks = << >>
  /\ line = [q \in Pools \X Owners |-> << >>]
  /\ call = [c \in Callers |-> NoCall]

Running(c)  == OwnerOf[c] \notin closed
Calls(c)    == call[c].pc # "none"
LineOf(c)   == <<call[c].pool, OwnerOf[c]>>
Held(c)     == {s \in DOMAIN socks : socks[s].user = c}
Bucket(q)   == {s \in DOMAIN socks : socks[s].pool = q[1] /\ socks[s].owner = q[2]}
Idle(q)     == {s \in Bucket(q) : socks[s].user = Nobody}

(* _owner_finished: sockets that no one may use any more.                  *)
Finished(p) == UNION {Idle(<<p, o>>) : o \in Owners \cap closed}

(* A socket with another user, and other requests and replies on it.       *)
Used(s, user, wire, replies) ==
  [socks EXCEPT ![s] = [pool |-> socks[s].pool, owner |-> socks[s].owner, user |-> user,
                        wire |-> wire, replies |-> replies]]

-----------------------------------------------------------------------------
Call(c, p) ==
  /\ Running(c) /\ ~Calls(c)
  /\ call' = [call EXCEPT ![c] = [pc |-> "permit", pool |-> p]]
  /\ line' = [line EXCEPT ![<<p, OwnerOf[c]>>] = Append(@, c)]
  /\ UNCHANGED socks

(* A mutant: lease, which opens sockets past the cap.                      *)
UncappedPermit(c) == TRUE

(* The semaphore is fair: the first MaxSize that came hold its permits.    *)
HasPermit(c) == \E i \in 1..MaxSize : i <= Len(line[LineOf(c)]) /\ line[LineOf(c)][i] = c

Ended(c) ==
  /\ call' = [call EXCEPT ![c] = NoCall]
  /\ line' = [line EXCEPT ![LineOf(c)] = RemoveFirst(@, c)]

(* _take or _connect, and the request is sent.  The sockets of finished    *)
(* loops are closed first; a context out of sockets fails the call.        *)
Lease(c) ==
  /\ Running(c) /\ call[c].pc = "permit" /\ HasPermit(c)
  /\ LET p     == call[c].pool
         spare == Idle(LineOf(c))
         kept  == DOMAIN socks \ Finished(p)
         fresh == CHOOSE s \in 1..Budget + 1 : s \notin kept
         s     == IF spare = {} THEN fresh ELSE CHOOSE x \in spare : TRUE
         old   == IF spare = {} THEN << >> ELSE socks[s].replies
         wire  == IF spare = {} THEN << >> ELSE socks[s].wire
     IN  IF spare = {} /\ Cardinality(kept) >= Budget
         THEN /\ socks' = [x \in kept |-> socks[x]]
              /\ Ended(c)
         ELSE /\ socks' = [x \in kept \cup {s} |->
                            IF x # s THEN socks[x]
                            ELSE [pool |-> p, owner |-> OwnerOf[c], user |-> c,
                                  wire |-> Append(wire, c), replies |-> old]]
              /\ call' = [call EXCEPT ![c].pc = "sent"]
              /\ UNCHANGED line

(* The peer answers the requests of a socket in their order.               *)
Reply(s) ==
  /\ socks[s].wire # << >>
  /\ socks' = Used(s, socks[s].user, Tail(socks[s].wire), Append(socks[s].replies, Head(socks[s].wire)))
  /\ UNCHANGED <<line, call>>

(* For a mutant: the socket goes back to the pool, whatever is under way.  *)
KeepSocket(c) ==
  socks' = [s \in DOMAIN socks |->
             IF socks[s].user # c THEN socks[s]
             ELSE [socks[s] EXCEPT !.user = Nobody,
                                   !.wire = [i \in DOMAIN @ |-> Nobody],
                                   !.replies = [i \in DOMAIN @ |-> Nobody]]]

(* The request failed, and its reply may still come: the socket is closed. *)
Poison(c) == socks' = [s \in DOMAIN socks \ Held(c) |-> socks[s]]

(* A reply is read, and the socket is idle again (_release).               *)
Receive(c) ==
  /\ Running(c) /\ call[c].pc = "sent"
  /\ \E s \in Held(c) :
       /\ socks[s].replies # << >>
       /\ IF Cardinality(Idle(LineOf(c))) < MaxSize
          THEN socks' = Used(s, Nobody, socks[s].wire, Tail(socks[s].replies))
          ELSE Poison(c)
  /\ Ended(c)

(* A mutant: the socket is not closed, as nothing was raised in the lease. *)
CarelessTimeOut(c) ==
  /\ Running(c) /\ call[c].pc = "sent" /\ call[c].pool \in Timed
  /\ KeepSocket(c)
  /\ Ended(c)

(* RCVTIMEO raises out of the lease.  A notification that got no ACK does  *)
(* not raise: it closes its socket itself, and the lease returns normally. *)
TimeOut(c) ==
  /\ Running(c) /\ call[c].pc = "sent" /\ call[c].pool \in Timed
  /\ Poison(c)
  /\ Ended(c)

(* A task is cancelled while it waits for a permit or for its reply.       *)
CancelCall(c) ==
  /\ Running(c) /\ Calls(c)
  /\ Poison(c)
  /\ Ended(c)

(* The task of a closed loop is collected, out of its lease.               *)
CollectCall(c) ==
  /\ ~Running(c) /\ Calls(c)
  /\ Poison(c)
  /\ Ended(c)

-----------------------------------------------------------------------------
(* What a caller reads next on its socket is the reply to its own request, *)
(* whatever happened to the requests that used the socket before.          *)
RepliesAreOwn ==
  \A s \in DOMAIN socks :
    LET c == socks[s].user
    IN  c # Nobody => ToSet(socks[s].replies \o socks[s].wire) \subseteq {c}

(* However many callers there are, an event loop never has more than       *)
(* MaxSize sockets open to a peer, leased and idle ones together.          *)
SocketsStayBounded == \A q \in Pools \X Owners : Cardinality(Bucket(q)) <= MaxSize
=============================================================================
