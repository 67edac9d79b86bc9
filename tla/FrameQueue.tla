----------------------------- MODULE FrameQueue -----------------------------
(***************************************************************************)
(* The state and the operations of `Scheduler` (src/bridge/frame_pool.rs): *)
(* the queue of frames of one WebSocket route, shared by the connections   *)
(* that submit frames and the worker threads that execute them.            *)
(*                                                                         *)
(* The module only defines operators; FrameScheduler and RoutePool build   *)
(* their actions from them.  Every operator is one critical section of the *)
(* `inner` mutex together with the notification that follows its unlock:   *)
(* a notification only moves a worker from sleeping to looking at the      *)
(* queue again, so what a delay between the two could add is only a later  *)
(* wake-up.                                                                *)
(*                                                                         *)
(* A frame carries the connection it belongs to and the sending half of a  *)
(* oneshot channel, `done`.  A task has at most one oneshot pending (it    *)
(* awaits in `fire`), so the channel is named by the calling task and its  *)
(* content is reply[call].  The event and the body are left out.           *)
(*                                                                         *)
(* An operator named after another with a suffix (Enqueue_front) is a      *)
(* mutated form of it: a bug the properties are shown to catch, used by no *)
(* specification.                                                          *)
(***************************************************************************)
EXTENDS Naturals, Sequences

CONSTANTS Conn,     \* connection ids, the keys of the scheduler's tables
          Caller,   \* tasks that call fire, one oneshot channel each
          Worker    \* worker threads

VARIABLES ready,     \* SchedInner.ready: frames any worker may take
          waiting,   \* SchedInner.waiting: per connection, the frames held back
          inFlight,  \* SchedInner.in_flight: connections with a frame out
          closed,    \* SchedInner.closed
          permit,    \* Notify: the single stored permit
          armed,     \* Notify: workers holding a Notified not polled yet
          parked,    \* Notify: workers sleeping on their Notified
          reply      \* per caller, the content of its oneshot channel

queueVars == <<ready, waiting, inFlight, closed>>
notifyVars == <<permit, armed, parked>>

Frame == [conn : Conn, call : Caller]

\* Result<WsOutcome, FrameError>; "closed" is PoolClosed, which is also what
\* fire makes of a dropped sender.
Result == {"ok", "timeout", "core", "dropped", "closed"}

QueueTypeOK ==
  /\ ready \in Seq(Frame)
  /\ waiting \in [Conn -> Seq(Frame)]
  /\ inFlight \in SUBSET Conn
  /\ closed \in BOOLEAN
  /\ permit \in BOOLEAN
  /\ armed \in SUBSET Worker
  /\ parked \in SUBSET Worker
  /\ reply \in [Caller -> {"idle", "wait"} \cup Result]

QueueInit ==
  /\ ready = <<>>
  /\ waiting = [c \in Conn |-> <<>>]
  /\ inFlight = {}
  /\ closed = FALSE
  /\ permit = FALSE
  /\ armed = {}
  /\ parked = {}
  /\ reply = [p \in Caller |-> "idle"]

CallsIn(s) == {s[i].call : i \in DOMAIN s}

\* `done.send(r)` for every caller in S.
Resolve(S, r) == reply' = [p \in Caller |-> IF p \in S THEN r ELSE reply[p]]

-----------------------------------------------------------------------------
(* tokio::sync::Notify, as the scheduler uses it. *)

\* notify_one: wake a sleeping worker, or store the permit.
NotifyOne ==
  /\ \/ /\ parked # {}
        /\ \E w \in parked : parked' = parked \ {w}
        /\ UNCHANGED permit
     \/ /\ parked = {}
        /\ permit' = TRUE
        /\ UNCHANGED parked
  /\ UNCHANGED armed

\* notify_waiters: every Notified that exists is notified, polled or not; no
\* permit is stored.
NotifyAll ==
  /\ armed' = {}
  /\ parked' = {}
  /\ UNCHANGED permit

\* `notified.await` of worker w: a Notified that notify_waiters reached or that
\* finds the permit is ready; any other puts the worker to sleep.
Asleep(w) == w \in parked

Awaits(w) ==
  /\ w \in armed
  /\ ~permit
  /\ armed' = armed \ {w}
  /\ parked' = parked \cup {w}
  /\ UNCHANGED permit

Awoken(w) ==
  /\ w \notin parked
  /\ IF w \in armed THEN permit /\ permit' = FALSE ELSE UNCHANGED permit
  /\ armed' = armed \ {w}
  /\ UNCHANGED parked

-----------------------------------------------------------------------------
(* The methods of Scheduler. *)

\* The admission of a frame to an open queue.
Enqueue_unguarded(f) ==
  /\ inFlight' = inFlight \cup {f.conn}
  /\ ready' = Append(ready, f)
  /\ UNCHANGED waiting

Enqueue_front(f) ==
  IF f.conn \in inFlight
  THEN /\ waiting' = [waiting EXCEPT ![f.conn] = <<f>> \o @]
       /\ UNCHANGED <<ready, inFlight>>
  ELSE Enqueue_unguarded(f)

Enqueue(f) ==
  IF f.conn \in inFlight
  THEN /\ waiting' = [waiting EXCEPT ![f.conn] = Append(@, f)]
       /\ UNCHANGED <<ready, inFlight>>
  ELSE /\ inFlight' = inFlight \cup {f.conn}
       /\ ready' = Append(ready, f)
       /\ UNCHANGED waiting

\* submit of a frame for connection c by task p.
Submit_silent(p, c) ==
  \/ /\ closed
     /\ Resolve({p}, "closed")
     /\ UNCHANGED <<queueVars, notifyVars>>
  \/ /\ ~closed
     /\ Enqueue([conn |-> c, call |-> p])
     /\ Resolve({p}, "wait")
     /\ UNCHANGED <<closed, notifyVars>>

Submit(p, c) ==
  \/ /\ closed
     /\ Resolve({p}, "closed")
     /\ UNCHANGED <<queueVars, notifyVars>>
  \/ /\ ~closed
     /\ Enqueue([conn |-> c, call |-> p])
     /\ UNCHANGED closed
     /\ Resolve({p}, "wait")
     /\ NotifyOne

\* One round of pull by worker w: the Notified is created first, then the lock
\* is taken; a ready frame goes out before `closed` is looked at.
PullFrame == /\ ready # <<>>
             /\ ready' = Tail(ready)
             /\ UNCHANGED <<waiting, inFlight, closed, notifyVars, reply>>

PullNone == /\ ready = <<>>
            /\ closed
            /\ UNCHANGED <<queueVars, notifyVars, reply>>

PullWaits(w) == /\ ready = <<>>
                /\ ~closed
                /\ armed' = armed \cup {w}
                /\ UNCHANGED <<queueVars, permit, parked, reply>>

\* What complete does with the oldest frame it finds held back: answer it if
\* the pool has closed meanwhile, else make it ready under a new mark.
ReleaseHead_unmarked(c) ==
  /\ inFlight' = inFlight \ {c}
  /\ ready' = Append(ready, Head(waiting[c]))
  /\ UNCHANGED reply

ReleaseHead(c) ==
  IF closed
  THEN /\ inFlight' = inFlight \ {c}
       /\ Resolve({Head(waiting[c]).call}, "closed")
       /\ UNCHANGED ready
  ELSE /\ inFlight' = inFlight \cup {c}
       /\ ready' = Append(ready, Head(waiting[c]))
       /\ UNCHANGED reply

\* complete: take the mark off and release the connection's next frame.
Complete(c) ==
  /\ \/ /\ waiting[c] = <<>>
        /\ inFlight' = inFlight \ {c}
        /\ UNCHANGED <<ready, waiting, reply>>
     \/ /\ waiting[c] # <<>>
        /\ waiting' = [waiting EXCEPT ![c] = Tail(@)]
        /\ ReleaseHead(c)
  /\ UNCHANGED closed
  /\ NotifyOne

\* drop_conn, and the first half of panic_conn.
DropConn(c) ==
  /\ waiting' = [waiting EXCEPT ![c] = <<>>]
  /\ Resolve(CallsIn(waiting[c]), "dropped")
  /\ UNCHANGED <<ready, inFlight, closed, notifyVars>>

\* The second half of panic_conn, under a lock of its own and without notify.
ClearInFlight(c) ==
  /\ inFlight' = inFlight \ {c}
  /\ UNCHANGED <<ready, waiting, closed, notifyVars, reply>>

\* close: in_flight is left as it is.
Close_ready_only ==
  /\ closed' = TRUE
  /\ ready' = <<>>
  /\ Resolve(CallsIn(ready), "closed")
  /\ NotifyAll
  /\ UNCHANGED <<waiting, inFlight>>

Close ==
  /\ closed' = TRUE
  /\ ready' = <<>>
  /\ waiting' = [c \in Conn |-> <<>>]
  /\ Resolve(CallsIn(ready) \cup UNION {CallsIn(waiting[c]) : c \in Conn}, "closed")
  /\ NotifyAll
  /\ UNCHANGED inFlight

\* The reopening done by attach, under the same mutex.
Reopen ==
  /\ closed
  /\ closed' = FALSE
  /\ UNCHANGED <<ready, waiting, inFlight, notifyVars, reply>>
=============================================================================
