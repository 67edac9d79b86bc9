--------------------------- MODULE FrameScheduler ---------------------------
(***************************************************************************)
(* Scheduler (src/bridge/frame_pool.rs) driven by every caller its methods *)
(* admit: any task may submit a frame for any connection (so that several  *)
(* frames of a connection are outstanding), workers pull, finish, answer,  *)
(* time out and panic, connections are dropped and the pool closes and     *)
(* reopens, in any order.  One thing is asked of the callers: not to       *)
(* submit for a connection between the two halves of panic_conn for it.    *)
(* RoutePool is the same scheduler under the callers the program has; that *)
(* they keep to this is part of its refinement.                            *)
(***************************************************************************)
EXTENDS FrameQueue

CONSTANTS NoFrame,  \* the hands of a worker that holds no frame
          Zero      \* the id 0, for which nobody calls panic_conn

ASSUME NoFrameAssumption == NoFrame \notin Frame

\* attach and respawn_if_needed take `workers_max.max(1)`.
ASSUME WorkerAssumption == Worker # {}

VARIABLES stage,   \* where each worker is
          hold     \* the frame in its hands

vars == <<queueVars, notifyVars, reply, stage, hold>>

(***************************************************************************)
(* off     no thread                exec   executing its frame              *)
(* pull    about to call pull       answer completed, `done` not yet sent   *)
(* await   in `notified.await`      panic  unwound, connection not cleared  *)
(*                                  purge  between the halves of panic_conn *)
(***************************************************************************)
Stage == {"off", "pull", "await", "exec", "answer", "panic", "purge"}

\* The stages in which the in_flight mark of the frame's connection is the
\* worker's to remove.
Owning == {"exec", "panic", "purge"}

TypeOK ==
  /\ QueueTypeOK
  /\ stage \in [Worker -> Stage]
  /\ hold \in [Worker -> Frame \cup {NoFrame}]

Init ==
  /\ QueueInit
  /\ stage = [w \in Worker |-> "off"]
  /\ hold = [w \in Worker |-> NoFrame]

Become(w, s) == stage' = [stage EXCEPT ![w] = s]
PutDown(w) == hold' = [hold EXCEPT ![w] = NoFrame]

-----------------------------------------------------------------------------
(* Callers. *)

\* panic_conn has dropped the frames of c and not yet removed its mark.
BetweenHalves(c) == \E w \in Worker : stage[w] = "purge" /\ hold[w].conn = c

Submits(p, c) ==
  /\ reply[p] = "idle"
  /\ Submit(p, c)
  /\ UNCHANGED <<stage, hold>>

Fire(p, c) == ~BetweenHalves(c) /\ Submits(p, c)

Receive(p) ==
  /\ reply[p] \in Result
  /\ reply' = [reply EXCEPT ![p] = "idle"]
  /\ UNCHANGED <<queueVars, notifyVars, stage, hold>>

-----------------------------------------------------------------------------
(* Workers. *)

Spawn(w) ==
  /\ stage[w] = "off"
  /\ Become(w, "pull")
  /\ UNCHANGED <<queueVars, notifyVars, reply, hold>>

Take(w) ==
  /\ stage[w] = "pull"
  /\ PullFrame
  /\ hold' = [hold EXCEPT ![w] = Head(ready)]
  /\ Become(w, "exec")

Leave(w) ==
  /\ stage[w] = "pull"
  /\ PullNone
  /\ Become(w, "off")
  /\ UNCHANGED hold

FindNothing(w) ==
  /\ stage[w] = "pull"
  /\ PullWaits(w)
  /\ Become(w, "await")
  /\ UNCHANGED hold

FallAsleep(w) ==
  /\ stage[w] = "await"
  /\ Awaits(w)
  /\ UNCHANGED <<queueVars, reply, stage, hold>>

WakeUp(w) ==
  /\ stage[w] = "await"
  /\ Awoken(w)
  /\ Become(w, "pull")
  /\ UNCHANGED <<queueVars, reply, hold>>

Finish(w) ==
  /\ stage[w] = "exec"
  /\ Complete(hold[w].conn)
  /\ Become(w, "answer")
  /\ UNCHANGED hold

\* `done.send`: the worker goes on after Ok and Core, and is thrown away with
\* its runtime after a timeout or an exceeded heap limit (answered as Core).
Answer(w, r, next) ==
  /\ stage[w] = "answer"
  /\ Resolve({hold[w].call}, r)
  /\ Become(w, next)
  /\ PutDown(w)
  /\ UNCHANGED <<queueVars, notifyVars>>

AnswerAny(w) ==
  \/ \E r \in {"ok", "core"} : Answer(w, r, "pull")
  \/ \E r \in {"timeout", "core"} : Answer(w, r, "off")

\* The unwinding drops the frame and with it `done`: fire sees PoolClosed.
Panic(w) ==
  /\ stage[w] = "exec"
  /\ hold[w].conn # Zero
  /\ Resolve({hold[w].call}, "closed")
  /\ Become(w, "panic")
  /\ UNCHANGED <<queueVars, notifyVars, hold>>

\* `if conn != 0`: a frame of the id 0 is taken for no frame at all, its mark and
\* the frames behind it stay.
PanicUncleared(w) ==
  /\ stage[w] = "exec"
  /\ hold[w].conn = Zero
  /\ Resolve({hold[w].call}, "closed")
  /\ Become(w, "off")
  /\ PutDown(w)
  /\ UNCHANGED <<queueVars, notifyVars>>

PanicDrop(w) ==
  /\ stage[w] = "panic"
  /\ DropConn(hold[w].conn)
  /\ Become(w, "purge")
  /\ UNCHANGED hold

PanicClear(w) ==
  /\ stage[w] = "purge"
  /\ ClearInFlight(hold[w].conn)
  /\ Become(w, "off")
  /\ PutDown(w)

-----------------------------------------------------------------------------
(* The pool. *)

Detach(c) == DropConn(c) /\ UNCHANGED <<stage, hold>>

Retire == ~closed /\ Close /\ UNCHANGED <<stage, hold>>

Revive == Reopen /\ UNCHANGED <<stage, hold>>

WorkerNext(w) ==
  \/ Spawn(w) \/ Take(w) \/ Leave(w) \/ FindNothing(w) \/ FallAsleep(w)
  \/ WakeUp(w) \/ Finish(w) \/ AnswerAny(w)
  \/ Panic(w) \/ PanicUncleared(w) \/ PanicDrop(w) \/ PanicClear(w)

Next ==
  \/ \E p \in Caller, c \in Conn : Fire(p, c)
  \/ \E p \in Caller : Receive(p)
  \/ \E w \in Worker : WorkerNext(w)
  \/ \E c \in Conn : Detach(c)
  \/ Retire
  \/ Revive

Spec == Init /\ [][Next]_vars

\* The same with callers of whom nothing is asked.
HeedlessNext == Next \/ \E p \in Caller, c \in Conn : Submits(p, c)
HeedlessSpec == Init /\ [][HeedlessNext]_vars

-----------------------------------------------------------------------------
(* Safety. *)

\* Per-connection serial execution ("per-conn in flight = 1"): two workers are
\* never executing frames of one connection, whatever detaches, closes,
\* reopens, panics and late completions happen around them.
PerConnSerial ==
  \A v, w \in Worker :
    stage[v] = "exec" /\ stage[w] = "exec" /\ hold[v].conn = hold[w].conn => v = w

\* A closed pool keeps no frame: every fire under way when it closes is
\* answered or in a worker's hands, and none is queued behind the close, where
\* no worker would come for it.
ClosedIsDrained ==
  closed => ready = <<>> /\ \A c \in Conn : waiting[c] = <<>>

\* No lost wake-up in the hand-made condition variable of pull: while a frame
\* is ready, the workers are never all asleep.  (To start the ones that are off
\* is up to the pool.)
ReadyIsNoticed == ready # <<>> => \E w \in Worker : ~Asleep(w)

\* The step loses no worker: none unwinds or is thrown away with its runtime, and
\* one that ends does so because pull returned None.
KeepsWorkers ==
  \A w \in Worker :
    /\ stage'[w] # "panic"
    /\ stage'[w] = "off" => stage[w] \in {"off", "pull"}

\* The same of the workers that there are: while a frame is ready and one of them
\* sleeps, another has a thread and is awake.  It holds until a worker is lost; the
\* one that took the only permit with it leaves the frame to its replacement.
ReadyIsSeen ==
  ready # <<>> /\ parked # {} => \E w \in Worker : stage[w] # "off" /\ ~Asleep(w)

\* No frame is held back without a mark: complete releases the frames of the
\* connection it takes the mark off, and panic_conn gives them up before it does
\* ("later frames of the same connection are scheduled, not hung for ever",
\* comment on panic_conn).  That the mark is always somebody's to take off is not
\* said: close, and a panic in a frame of the id 0, leave it with nobody.
HeldBackOnlyInFlight ==
  \A c \in Conn : waiting[c] # <<>> => c \in inFlight

-----------------------------------------------------------------------------
(* The order contract: the scheduler seen as the mailboxes of ConnMailbox. *)

Executing(c) == {w \in Worker : stage[w] = "exec" /\ hold[w].conn = c}

\* The call of c that is out, being executed or ready for whoever pulls: one
\* at most.
Out(c) ==
  {hold[w].call : w \in Executing(c)}
    \cup {ready[i].call : i \in {j \in DOMAIN ready : ready[j].conn = c}}

Front(c) == IF Out(c) = {} THEN <<>> ELSE <<CHOOSE p \in Out(c) : TRUE>>

CallsOf(frames) == [i \in DOMAIN frames |-> frames[i].call]

\* The calls of c, oldest first: the one that is out, the ones held back.
BoxOf(c) == Front(c) \o CallsOf(waiting[c])

Mailbox == INSTANCE ConnMailbox WITH
  box <- [c \in Conn |-> BoxOf(c)],
  busy <- {c \in Conn : Executing(c) # {}},
  leaving <- {hold[w].call : w \in {v \in Worker : stage[v] = "answer"}},
  open <- ~closed

\* The scheduler implements the mailboxes: frames of a connection are executed
\* one at a time and in the order fire was called, only queued frames are ever
\* given up, and an executed frame is answered with its own outcome.
KeepsMailboxes == Mailbox!Spec
=============================================================================
