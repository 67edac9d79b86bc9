-------------------------- MODULE MCFrameScheduler --------------------------
(***************************************************************************)
(* WebSocket connections on one instance, in parts that start from one     *)
(* choice: the scheduler of a route's frames with what it promises, and    *)
(* the connections around it (Sockets): one whose client does anything,    *)
(* two that share a room, and two that want the only place.                *)
(***************************************************************************)
EXTENDS FrameScheduler, Sockets

CONSTANT Second    \* a second connection

VARIABLE subject   \* "scheduler", "socket", "rooms" or "gate"

all == <<subject, vars, socketVars>>

AnyPool == CHOOSE p \in Pool : TRUE

MCInit ==
  /\ subject \in {"scheduler", "socket", "rooms", "gate"}
  /\ Init /\ SocketInit
  /\ \A c \in Socket : socket[c].pool # AnyPool => subject = "rooms" /\ c = Second
  /\ limit = IF subject = "gate" THEN 1 ELSE 0

Cast ==
  \/ subject = "socket" /\ UNCHANGED socket[Second]
  \/ /\ subject = "rooms" /\ UNCHANGED topic
     /\ \A c \in Socket : socket'[c].client = "reads" /\ socket'[c].at # "message"
  \/ /\ subject = "gate" /\ UNCHANGED <<members, topic>>
     /\ \A c \in Socket : socket'[c].client # "stalls"

Scheduling(A) == subject = "scheduler" /\ A /\ UNCHANGED <<subject, socketVars>>
Connected(A) == A /\ Cast /\ UNCHANGED <<subject, vars>>

MCSpec == MCInit /\ [][Scheduling(Next) \/ Connected(SocketNext)]_all

-----------------------------------------------------------------------------
Attached(c) == socket[c].at \in Event \cup {"loop", "detach"}
Shares(c) ==
  \E d \in Socket : socket[d].pool # socket[c].pool /\ socket[d].id = socket[c].id

\* WS_LIVE counts the connections that hold a place, each once, and keeps below
\* ws.max_connections, however upgrades interleave or fail ("GateGuard is dropped
\* exactly once", comment in js_route_guarded); a connection that has gone is in no
\* room ("taken out by itself when it breaks off", docs/devkit/scenarios.md), and one
\* that joined is in it, unless it shares its id with a connection of another pool.
SocketsAreTrue ==
  /\ SlotsAreExact
  /\ \A c \in Socket :
       /\ socket[c].at \in {"drop", "join", "over"} => \A i \in Ids : members[i] # c
       /\ Attached(c) /\ ~Shares(c) => (socket[c].joined <=> members[socket[c].id] = c)

\* What a connection that ends can do next, by the guards of its loop, its closures, its
\* forwarder and its writer.
GoesOn(c) ==
  \/ \E h \in {"failed", "loop"} : MayDrop(c, h)
  \/ socket[c].at \in {"detach", "drop"}
  \/ MayReturn(c) \/ MayEndForwarding(c)
  \/ MaySend(c) \/ HasSentAll(c) \/ MayClose(c)

\* A connection whose loop is over, or whose upgrade has failed, has a next step to its
\* end until it has given its place back, and that step waits for nobody else: the bus
\* that keeps a sender to it does not hold it up ("without the abort the writer never
\* runs dry", comment in frame_loop), only a client that stays and reads no more does,
\* as nothing bounds the writer.
EndIsNotHeldUp ==
  \A c \in Socket :
    socket[c].at \in {"failed", "detach", "drop", "join", "over"} =>
      \/ socket[c].held = {}
      \/ socket[c].client = "stalls"
      \/ GoesOn(c)

\* "The room's current members" (docs/devkit/api-manual.md): whoever joined is there.
MembersHear ==
  \A c \in Socket : Attached(c) /\ socket[c].joined => members[socket[c].id] = c
=============================================================================
