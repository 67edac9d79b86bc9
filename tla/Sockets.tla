------------------------------ MODULE Sockets ------------------------------
(***************************************************************************)
(* A WebSocket connection from its upgrade to its end (serve/src/ws.rs):   *)
(* the gate that counts connections, the frame loop with its forwarder and *)
(* its writer, and the rooms (bridge/ws.rs) and the bus (bridge/bus.rs)    *)
(* its handlers use.                                                       *)
(*                                                                         *)
(* A frame is a token: what it says is left out, how many wait is not.     *)
(* There is one room and one topic; each operation on them is one step     *)
(* (their mutex).  The route pool is its counter of connection ids and     *)
(* that it answers every frame after its handler (RoutePool).  A pool that *)
(* has failed to preload gives out 0 instead of an id; here it gives a new *)
(* one, with which nothing happens either, as it answers PoolClosed.       *)
(***************************************************************************)
EXTENDS Naturals, FiniteSets

CONSTANTS
  Socket,
  Pool,      \* route pools: of other routes, or of a router that a reload replaced
  Limits,    \* the values of ws.max_connections tried; 0 is none
  OutCap,    \* places in respChan
  MaxInbox,  \* bound: frames in the unbounded channel to a forwarder
  NoSocket

ASSUME SocketAssumption ==
  /\ IsFiniteSet(Socket) /\ NoSocket \notin Socket
  /\ Limits \subseteq Nat /\ OutCap \in Nat /\ MaxInbox \in Nat

VARIABLES
  limit,    \* ws.max_connections
  open,     \* WS_LIVE
  socket,
  ids,      \* per pool, conn_seq
  members,  \* WsHub.rooms: connection id to the connection whose sender it holds
  topic     \* Bus.topics: the connections whose senders it holds

socketVars == <<limit, open, socket, ids, members, topic>>

Ids == 1 .. Cardinality(Socket)

Event == {"connection", "message", "close"}   \* the loop waits for its answer

SocketRecord ==
  [at : {"new", "seen", "refused", "entered", "failed", "attach", "loop", "detach", "drop",
         "abort", "join", "over"} \cup Event,
   seen : Nat,                          \* WS_LIVE as gate_enter has read it
   held : SUBSET {"failed", "loop"},    \* the closures that hold its GateGuard
   pool : Pool, id : {0} \cup Ids,
   client : {"reads", "stalls", "closed", "gone"},
   inbox : 0 .. MaxInbox, out : 0 .. OutCap,
   sender : BOOLEAN,                    \* the loop has its resp_tx
   forwarder : {"none", "on", "aborted", "over"},
   writer : {"none", "on", "closes", "over"},
   joined : BOOLEAN]                    \* its handlers have joined and not left

SocketTypeOK ==
  /\ limit \in Limits /\ open \in Nat
  /\ socket \in [Socket -> SocketRecord]
  /\ ids \in [Pool -> {0} \cup Ids]
  /\ members \in [Ids -> Socket \cup {NoSocket}]
  /\ topic \subseteq Socket

SocketInit ==
  /\ limit \in Limits /\ open = 0
  /\ socket \in [Socket -> {[at |-> "new", seen |-> 0, held |-> {}, pool |-> p, id |-> 0,
                           client |-> "reads", inbox |-> 0, out |-> 0, sender |-> FALSE,
                           forwarder |-> "none", writer |-> "none", joined |-> FALSE] : p \in Pool}]
  /\ ids = [p \in Pool |-> 0]
  /\ members = [i \in Ids |-> NoSocket]
  /\ topic = {}

Moves(c, from, s) ==
  /\ socket[c].at = from
  /\ socket' = [socket EXCEPT ![c] = s]

Room == UNCHANGED <<members, topic>>
Gate == UNCHANGED <<limit, open>>

-----------------------------------------------------------------------------
\* gate_enter: read the count, then count up unless it has changed.
ReadsCount(c) ==
  /\ Moves(c, "new", [socket[c] EXCEPT !.at = "seen", !.seen = open])
  /\ Gate /\ Room /\ UNCHANGED ids

IsRefused(c) ==
  /\ limit # 0 /\ socket[c].seen >= limit
  /\ Moves(c, "seen", [socket[c] EXCEPT !.at = "refused"])
  /\ Gate /\ Room /\ UNCHANGED ids

Counts_blind(c) ==
  /\ limit = 0 \/ socket[c].seen < limit
  /\ Moves(c, "seen", [socket[c] EXCEPT !.at = "entered", !.seen = 0, !.held = {"failed", "loop"}])
  /\ open' = socket[c].seen + 1
  /\ Room /\ UNCHANGED <<limit, ids>>

Counts(c) ==
  /\ limit = 0 \/ socket[c].seen < limit
  /\ IF open = socket[c].seen
     THEN /\ Moves(c, "seen", [socket[c] EXCEPT !.at = "entered", !.seen = 0, !.held = {"failed", "loop"}])
          /\ open' = open + 1
     ELSE Moves(c, "seen", [socket[c] EXCEPT !.at = "new", !.seen = 0]) /\ UNCHANGED open
  /\ Room /\ UNCHANGED <<limit, ids>>

\* The handshake fails, or the loop begins.
Upgrades(c) == \E to \in {"failed", "attach"} :
  /\ Moves(c, "entered", [socket[c] EXCEPT !.at = to])
  /\ Gate /\ Room /\ UNCHANGED ids

\* Each closure drops its clone of the guard when it has run or is not needed; the
\* last one counts down.
MayDrop(c, h) ==
  /\ h \in socket[c].held
  /\ IF h = "loop" THEN socket[c].at \in {"failed", "over"} ELSE socket[c].at # "entered"

Drops(c, h) ==
  /\ MayDrop(c, h)
  /\ socket' = [socket EXCEPT ![c].held = @ \ {h}]
  /\ open' = IF socket[c].held = {h} THEN open - 1 ELSE open
  /\ Room /\ UNCHANGED <<limit, ids>>

-----------------------------------------------------------------------------
\* frame_loop.  An id is unique in its pool alone.
Attaches(c) ==
  LET p == socket[c].pool IN
  /\ Moves(c, "attach", [socket[c] EXCEPT !.at = "connection", !.id = ids[p] + 1,
                                          !.sender = TRUE, !.forwarder = "on"])
  /\ ids' = [ids EXCEPT ![p] = @ + 1]
  /\ Gate /\ Room

\* try_send to respChan, by the loop and by the forwarder: a frame that finds no
\* place, or no writer any more, is dropped.
Offered(s) == IF s.out < OutCap /\ s.writer # "over" THEN [s EXCEPT !.out = @ + 1] ELSE s

WriterStarts(s) == IF s.writer = "none" THEN [s EXCEPT !.writer = "on"] ELSE s

\* The pool answers a frame: its result, the end of the connection that a handler asks
\* for, and failures.  A pool that is closed at the first frame gets no writer.
Answered(c) == \E s \in {socket[c], Offered(socket[c])} :
  /\ \/ \* ok, or an error that costs the frame alone
        Moves(c, "connection", [WriterStarts(s) EXCEPT !.at = "loop"])
     \/ \* timeout
        Moves(c, "connection", [WriterStarts(socket[c]) EXCEPT !.at = "detach"])
     \/ \* PoolClosed; the close frame is sent from here
        /\ socket[c].client # "stalls"
        /\ Moves(c, "connection", [socket[c] EXCEPT !.at = "detach"])
     \/ Moves(c, "message", [s EXCEPT !.at = "loop"])
     \/ \* ws.close()
        Moves(c, "message", [s EXCEPT !.at = "close"])
     \/ \* timeout, PoolClosed
        Moves(c, "message", [socket[c] EXCEPT !.at = "detach"])
     \/ Moves(c, "close", [s EXCEPT !.at = "detach"])
  /\ Gate /\ Room /\ UNCHANGED ids

\* A message, or the end of the client's, comes out of msgChan.
Hears(c) ==
  /\ \/ socket[c].client \in {"reads", "stalls"} /\ Moves(c, "loop", [socket[c] EXCEPT !.at = "message"])
     \/ socket[c].client \in {"closed", "gone"} /\ Moves(c, "loop", [socket[c] EXCEPT !.at = "close"])
  /\ Gate /\ Room /\ UNCHANGED ids

\* ConnHandle::detach takes the connection's id out of every room.
Detaches(c) ==
  /\ Moves(c, "detach",
       IF socket[c].writer = "none"
       THEN [socket[c] EXCEPT !.at = "over", !.sender = FALSE, !.joined = FALSE]
       ELSE [socket[c] EXCEPT !.at = "drop", !.joined = FALSE])
  /\ members' = [members EXCEPT ![socket[c].id] = NoSocket]
  /\ Gate /\ UNCHANGED <<ids, topic>>

Leaves_trusting(c) ==
  /\ Moves(c, "drop", [socket[c] EXCEPT !.at = "join", !.sender = FALSE])
  /\ Gate /\ Room /\ UNCHANGED ids

Leaves(c) ==
  /\ Moves(c, "drop", [socket[c] EXCEPT
       !.at = "join", !.sender = FALSE,
       !.forwarder = IF @ = "on" THEN "aborted" ELSE @])
  /\ Gate /\ Room /\ UNCHANGED ids

MayReturn(c) == socket[c].at = "join" /\ socket[c].writer = "over"

Returns(c) ==
  /\ MayReturn(c)
  /\ Moves(c, "join", [socket[c] EXCEPT !.at = "over"])
  /\ Gate /\ Room /\ UNCHANGED ids

-----------------------------------------------------------------------------
\* The forwarder and the writer of a connection.
Side(c, s) == socket' = [socket EXCEPT ![c] = s] /\ Gate /\ Room /\ UNCHANGED ids

Hearing == {c \in Socket : socket[c].forwarder \in {"on", "aborted"}}

Forwards(c) ==
  /\ c \in Hearing /\ socket[c].inbox > 0
  /\ Side(c, [Offered(socket[c]) EXCEPT !.inbox = @ - 1])

\* It is aborted, or nobody has a sender any more.
MayEndForwarding(c) ==
  \/ socket[c].forwarder = "aborted"
  \/ /\ socket[c].forwarder = "on" /\ socket[c].inbox = 0
     /\ socket[c].at \in {"drop", "join", "over"}
     /\ c \notin topic /\ \A i \in Ids : members[i] # c

ForwarderEnds(c) ==
  /\ MayEndForwarding(c)
  /\ Side(c, [socket[c] EXCEPT !.forwarder = "over", !.inbox = 0])

\* The frame in the writer's hands counts as one in the channel.
MaySend(c) == socket[c].writer = "on" /\ socket[c].out > 0 /\ socket[c].client # "stalls"

WriterSends(c) ==
  /\ MaySend(c)
  /\ Side(c, IF socket[c].client = "gone" THEN [socket[c] EXCEPT !.writer = "over", !.out = 0]
             ELSE [socket[c] EXCEPT !.out = @ - 1])

\* The channel is empty and has no sender left: a close frame ends the connection.
HasSentAll(c) ==
  /\ socket[c].writer = "on" /\ socket[c].out = 0
  /\ ~socket[c].sender /\ socket[c].forwarder = "over"

WriterEnds(c) ==
  /\ HasSentAll(c)
  /\ Side(c, [socket[c] EXCEPT !.writer = "closes"])

MayClose(c) == socket[c].writer = "closes" /\ socket[c].client # "stalls"

WriterCloses(c) ==
  /\ MayClose(c)
  /\ Side(c, [socket[c] EXCEPT !.writer = "over"])

-----------------------------------------------------------------------------
\* What handlers do with the rooms and the bus while the loop waits for them.
Handles(c) == socket[c].at \in Event

Joins(c) ==
  /\ Handles(c)
  /\ members' = [members EXCEPT ![socket[c].id] = c]
  /\ socket' = [socket EXCEPT ![c].joined = TRUE]
  /\ Gate /\ UNCHANGED <<ids, topic>>

Parts(c) ==
  /\ Handles(c)
  /\ members' = [members EXCEPT ![socket[c].id] = NoSocket]
  /\ socket' = [socket EXCEPT ![c].joined = FALSE]
  /\ Gate /\ UNCHANGED <<ids, topic>>

Subscribes(c) ==
  /\ Handles(c)
  /\ topic' = topic \cup {c}
  /\ Gate /\ UNCHANGED <<socket, ids, members>>

Fans(to) ==
  /\ \A d \in to : socket[d].inbox < MaxInbox
  /\ socket' = [d \in Socket |-> IF d \in to THEN [socket[d] EXCEPT !.inbox = @ + 1] ELSE socket[d]]
  /\ Gate /\ UNCHANGED ids

\* WsHub::broadcast, of a connection or of an HTTP handler (0): to all but the caller's
\* id; senders that fail are taken out.
Broadcasts(from) ==
  LET called == {i \in Ids : members[i] # NoSocket /\ i # from}
  IN /\ Fans({members[i] : i \in called} \cap Hearing)
     /\ members' = [i \in Ids |->
          IF i \in called /\ members[i] \notin Hearing THEN NoSocket ELSE members[i]]
     /\ UNCHANGED topic

\* Bus::publish.
Publishes ==
  /\ Fans(topic \cap Hearing)
  /\ topic' = topic \cap Hearing
  /\ UNCHANGED members

-----------------------------------------------------------------------------
SocketClient(c) == \E to \in {"reads", "stalls", "closed", "gone"} :
  /\ socket[c].at \notin {"new", "seen", "refused", "failed", "over"}
  /\ \/ socket[c].client \in {"reads", "stalls"}
     \/ socket[c].client = "closed" /\ to = "gone"
  /\ Side(c, [socket[c] EXCEPT !.client = to])

Uses(c) == Joins(c) \/ Parts(c) \/ Subscribes(c)
Others == \E from \in {0} \cup {socket[c].id : c \in {d \in Socket : Handles(d)}} : Broadcasts(from)

Loop(c) ==
  \/ ReadsCount(c) \/ IsRefused(c) \/ Counts(c) \/ Upgrades(c) \/ Attaches(c)
  \/ Answered(c) \/ Detaches(c) \/ Leaves(c) \/ Returns(c)
Dropping(c) == \E h \in {"failed", "loop"} : Drops(c, h)
Forwarding(c) == Forwards(c) \/ ForwarderEnds(c)
Writing(c) == WriterSends(c) \/ WriterEnds(c) \/ WriterCloses(c)

SocketNext ==
  \/ \E c \in Socket :
       \/ Loop(c) \/ Hears(c) \/ Dropping(c) \/ Forwarding(c) \/ Writing(c)
       \/ Uses(c) \/ SocketClient(c)
  \/ Others \/ Publishes

-----------------------------------------------------------------------------
\* WS_LIVE is the number of connections that hold a place, which the limit bounds.
SlotsAreExact ==
  /\ open = Cardinality({c \in Socket : socket[c].held # {}})
  /\ limit # 0 => open <= limit
=============================================================================
