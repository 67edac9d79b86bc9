------------------------------ MODULE RoutePool ------------------------------
(***************************************************************************)
(* The frame pool of one WebSocket route (RoutePool and ConnHandle of      *)
(* src/bridge/frame_pool.rs) and the connection tasks that drive it        *)
(* (frame_loop of src/serve/src/ws.rs).  Three kinds of process interleave:*)
(*   - one task per connection: attach, fire its events one after the      *)
(*     other, detach;                                                      *)
(*   - the worker threads: preload, then pull and execute frames, with     *)
(*     their exits (pool closed, runtime poisoned, panic, failed preload)  *)
(*     and the replacement of lost workers;                                *)
(*   - the retire thread, which closes a pool that stayed empty.           *)
(* They share the scheduler, the session table, the `live` counter and the *)
(* `failed` and `retiring` latches; every access to one of them is a step. *)
(*                                                                         *)
(* conn_seq hands out a fresh id per attach, so the id of a connection is  *)
(* the task itself; Zero is the id attach gives when `failed` is latched.  *)
(* Left out: the contents of sessions (a write-back is a step, its value   *)
(* is not), the `poisoned` statistics counter, and the bus and room tables.*)
(* An operator named after another with a suffix (Reap_uncounted) is a     *)
(* mutated form of it, used by no specification.                           *)
(***************************************************************************)
EXTENDS FrameQueue, FiniteSets

CONSTANTS Zero,        \* ConnHandle.conn = 0
          WorkersMax,  \* workers_max.max(1)
          Preload,     \* the outcomes of make and ws_connect
          Outcomes,    \* the outcomes of ws_event
          NoFrame

ASSUME ConnAssumption == Conn = Caller \cup {Zero} /\ Zero \notin Caller
ASSUME WorkersMaxAssumption == WorkersMax \in Nat \ {0}
ASSUME WorkerAssumption == Worker # {}
ASSUME PreloadAssumption == Preload \subseteq {"ok", "fail", "panic"}
ASSUME OutcomesAssumption ==
  Outcomes \subseteq {"ok", "core", "timeout", "oom", "panic"}
ASSUME NoFrameAssumption == NoFrame \notin Frame

VARIABLES lpc,       \* per connection task, where it is
          ev,        \* per connection task, the event it fires
          handle,    \* per connection task, ConnHandle.conn
          hires,     \* per connection task, workers attach has yet to spawn
          wpc,       \* per worker thread, where it is
          hold,      \* per worker thread, the frame it took
          out,       \* per worker thread, what ws_event returned
          sessions,  \* the ids in the session table
          live,      \* the live counter
          failed,    \* the preload-failure latch
          retiring,  \* the retire thread is under way
          rpc        \* where the retire thread is

loopVars == <<lpc, ev, handle, hires>>
workerVars == <<wpc, hold, out>>
poolVars == <<sessions, live, failed, retiring, rpc>>
vars == <<queueVars, notifyVars, reply, loopVars, workerVars, poolVars>>

LoopPc == {"connect", "open", "register", "hire", "fire", "await", "read",
           "detach", "drop", "last", "gone"}

Event == {"connection", "message", "close"}

(***************************************************************************)
(* off      no thread                   store    write the session back     *)
(* boot     make, ws_connect            answer   send `done`                *)
(* latched  failed set, live not yet    poison   leave with a dead runtime  *)
(* shut     live decremented, to close  panic    unwound in a frame         *)
(* pull     about to pull               purge    between panic_conn halves  *)
(* await    in notified.await           reap     unwound, live not yet      *)
(* leave    pull returned None          respawn  in respawn_if_needed       *)
(* load     read the session            hire     about to spawn_worker      *)
(* exec     in ws_event                                                     *)
(***************************************************************************)
WorkerPc == {"off", "boot", "latched", "shut", "pull", "await", "leave", "load",
             "exec", "store", "answer", "poison", "panic", "purge", "reap",
             "respawn", "hire"}

TypeOK ==
  /\ QueueTypeOK
  /\ lpc \in [Caller -> LoopPc]
  /\ ev \in [Caller -> Event]
  /\ handle \in [Caller -> Conn]
  /\ hires \in [Caller -> 0..WorkersMax]
  /\ wpc \in [Worker -> WorkerPc]
  /\ hold \in [Worker -> Frame \cup {NoFrame}]
  /\ out \in [Worker -> {"ok", "core", "timeout", "oom"}]
  /\ sessions \in SUBSET Caller
  /\ live \in Nat
  /\ failed \in BOOLEAN
  /\ retiring \in BOOLEAN
  /\ rpc \in {"off", "linger", "close", "clear"}

Init ==
  /\ QueueInit
  /\ lpc = [l \in Caller |-> "connect"]
  /\ ev = [l \in Caller |-> "connection"]
  /\ handle = [l \in Caller |-> Zero]
  /\ hires = [l \in Caller |-> 0]
  /\ wpc = [w \in Worker |-> "off"]
  /\ hold = [w \in Worker |-> NoFrame]
  /\ out = [w \in Worker |-> "ok"]
  /\ sessions = {}
  /\ live = 0
  /\ failed = FALSE
  /\ retiring = FALSE
  /\ rpc = "off"

Goto(l, p) == lpc' = [lpc EXCEPT ![l] = p]
Become(w, p) == wpc' = [wpc EXCEPT ![w] = p]
PutDown(w) == hold' = [hold EXCEPT ![w] = NoFrame]

schedulerVars == <<queueVars, notifyVars, reply>>

-----------------------------------------------------------------------------
(* attach. *)

\* The latch is read under its own lock, before anything else.
AttachCheck(l) ==
  /\ lpc[l] = "connect"
  /\ IF failed THEN Goto(l, "fire") ELSE Goto(l, "open")
  /\ UNCHANGED <<schedulerVars, ev, handle, hires, workerVars, poolVars>>

\* Under the scheduler's lock: a closed pool is reopened and staffed, an open
\* one is staffed when nobody is alive.
AttachOpen_unstaffed(l) ==
  /\ lpc[l] = "open"
  /\ \/ Reopen
     \/ ~closed /\ UNCHANGED schedulerVars
  /\ hires' = [hires EXCEPT ![l] = IF live = 0 THEN WorkersMax ELSE 0]
  /\ Goto(l, "register")
  /\ UNCHANGED <<ev, handle, workerVars, poolVars>>

AttachOpen(l) ==
  /\ lpc[l] = "open"
  /\ \/ Reopen
     \/ ~closed /\ UNCHANGED schedulerVars
  /\ hires' = [hires EXCEPT ![l] = IF closed \/ live = 0 THEN WorkersMax ELSE 0]
  /\ Goto(l, "register")
  /\ UNCHANGED <<ev, handle, workerVars, poolVars>>

AttachRegister(l) ==
  /\ lpc[l] = "register"
  /\ handle' = [handle EXCEPT ![l] = l]
  /\ sessions' = sessions \cup {l}
  /\ Goto(l, IF hires[l] > 0 THEN "hire" ELSE "fire")
  /\ UNCHANGED <<schedulerVars, ev, hires, workerVars, live, failed, retiring, rpc>>

\* spawn_worker: the counter goes up in the caller, the thread starts in boot.
SpawnWorker(w) ==
  /\ live' = live + 1
  /\ Become(w, "boot")
  /\ PutDown(w)
  /\ UNCHANGED out

AttachHire(l) ==
  /\ lpc[l] = "hire"
  /\ \E w \in Worker : wpc[w] = "off" /\ SpawnWorker(w)
  /\ hires' = [hires EXCEPT ![l] = @ - 1]
  /\ Goto(l, IF hires[l] > 1 THEN "hire" ELSE "fire")
  /\ UNCHANGED <<schedulerVars, ev, handle, sessions, failed, retiring, rpc>>

-----------------------------------------------------------------------------
(* frame_loop. *)

\* fire: submit, then await the answer.
FireEvent_no_await(l) ==
  /\ lpc[l] = "fire"
  /\ Submit(l, handle[l])
  /\ Goto(l, IF ev[l] = "close" THEN "detach" ELSE "await")
  /\ UNCHANGED <<ev, handle, hires, workerVars, poolVars>>

FireEvent(l) ==
  /\ lpc[l] = "fire"
  /\ Submit(l, handle[l])
  /\ Goto(l, "await")
  /\ UNCHANGED <<ev, handle, hires, workerVars, poolVars>>

FireNext(l, e) ==
  /\ ev' = [ev EXCEPT ![l] = e]
  /\ Goto(l, "fire")

\* What the task does with an answer: it leaves without a close event after
\* Timeout and PoolClosed, fires close once when the handler asked to close,
\* leaves after close whatever came of it, and reads on otherwise.
Answered(l) ==
  /\ lpc[l] = "await"
  /\ reply[l] \in Result
  /\ reply' = [reply EXCEPT ![l] = "idle"]
  /\ \/ /\ ev[l] = "close" \/ reply[l] \in {"timeout", "closed"}
        /\ Goto(l, "detach")
        /\ UNCHANGED ev
     \/ /\ ev[l] = "message"
        /\ reply[l] = "ok"
        /\ FireNext(l, "close")
     \/ /\ ev[l] # "close"
        /\ reply[l] \in {"ok", "core", "dropped"}
        /\ Goto(l, "read")
        /\ UNCHANGED ev
  /\ UNCHANGED <<queueVars, notifyVars, handle, hires, workerVars, poolVars>>

\* The client sends a message, or closes, or its socket breaks.
ReadMessage(l) ==
  /\ lpc[l] = "read"
  /\ FireNext(l, "message")
  /\ UNCHANGED <<schedulerVars, handle, hires, workerVars, poolVars>>

ReadEnd(l) ==
  /\ lpc[l] = "read"
  /\ FireNext(l, "close")
  /\ UNCHANGED <<schedulerVars, handle, hires, workerVars, poolVars>>

-----------------------------------------------------------------------------
(* detach, and the retire thread it starts. *)

DetachRemove(l) ==
  /\ lpc[l] = "detach"
  /\ sessions' = sessions \ {handle[l]}
  /\ Goto(l, "drop")
  /\ UNCHANGED <<schedulerVars, ev, handle, hires, workerVars, live, failed, retiring, rpc>>

DetachDrop(l) ==
  /\ lpc[l] = "drop"
  /\ DropConn(handle[l])
  /\ Goto(l, "last")
  /\ UNCHANGED <<ev, handle, hires, workerVars, poolVars>>

\* The session table is locked while `retiring` is swapped.
DetachLast(l) ==
  /\ lpc[l] = "last"
  /\ IF sessions = {} /\ ~retiring
     THEN retiring' = TRUE /\ rpc' = "linger"
     ELSE UNCHANGED <<retiring, rpc>>
  /\ Goto(l, "gone")
  /\ UNCHANGED <<schedulerVars, ev, handle, hires, workerVars, sessions, live, failed>>

RetireCheck ==
  /\ rpc = "linger"
  /\ rpc' = IF sessions = {} THEN "close" ELSE "clear"
  /\ UNCHANGED <<schedulerVars, loopVars, workerVars, sessions, live, failed, retiring>>

RetireClose ==
  /\ rpc = "close"
  /\ Close
  /\ rpc' = "clear"
  /\ UNCHANGED <<loopVars, workerVars, sessions, live, failed, retiring>>

RetireClear ==
  /\ rpc = "clear"
  /\ retiring' = FALSE
  /\ rpc' = "off"
  /\ UNCHANGED <<schedulerVars, loopVars, workerVars, sessions, live, failed>>

-----------------------------------------------------------------------------
(* worker_main. *)

BootOk(w) ==
  /\ wpc[w] = "boot"
  /\ "ok" \in Preload
  /\ Become(w, "pull")
  /\ UNCHANGED <<schedulerVars, loopVars, hold, out, poolVars>>

\* A failed preload: latch, then count, then close.
BootFail(w) ==
  /\ wpc[w] = "boot"
  /\ "fail" \in Preload
  /\ failed' = TRUE
  /\ Become(w, "latched")
  /\ UNCHANGED <<schedulerVars, loopVars, hold, out, sessions, live, retiring, rpc>>

LatchedExit(w) ==
  /\ wpc[w] = "latched"
  /\ live' = live - 1
  /\ Become(w, "shut")
  /\ UNCHANGED <<schedulerVars, loopVars, hold, out, sessions, failed, retiring, rpc>>

LatchedClose(w) ==
  /\ wpc[w] = "shut"
  /\ Close
  /\ Become(w, "off")
  /\ UNCHANGED <<loopVars, hold, out, poolVars>>

\* A panic outside a frame (building the runtime): there is nothing to purge.
BootPanic(w) ==
  /\ wpc[w] = "boot"
  /\ "panic" \in Preload
  /\ Become(w, "reap")
  /\ UNCHANGED <<schedulerVars, loopVars, hold, out, poolVars>>

Take(w) ==
  /\ wpc[w] = "pull"
  /\ PullFrame
  /\ hold' = [hold EXCEPT ![w] = Head(ready)]
  /\ Become(w, "load")
  /\ UNCHANGED <<loopVars, out, poolVars>>

FindClosed(w) ==
  /\ wpc[w] = "pull"
  /\ PullNone
  /\ Become(w, "leave")
  /\ UNCHANGED <<loopVars, hold, out, poolVars>>

FindNothing(w) ==
  /\ wpc[w] = "pull"
  /\ PullWaits(w)
  /\ Become(w, "await")
  /\ UNCHANGED <<loopVars, hold, out, poolVars>>

FallAsleep(w) ==
  /\ wpc[w] = "await"
  /\ Awaits(w)
  /\ UNCHANGED <<queueVars, reply, loopVars, workerVars, poolVars>>

WakeUp(w) ==
  /\ wpc[w] = "await"
  /\ Awoken(w)
  /\ Become(w, "pull")
  /\ UNCHANGED <<queueVars, reply, loopVars, hold, out, poolVars>>

LeaveClosed(w) ==
  /\ wpc[w] = "leave"
  /\ live' = live - 1
  /\ Become(w, "off")
  /\ UNCHANGED <<schedulerVars, loopVars, hold, out, sessions, failed, retiring, rpc>>

\* The session is read (a missing one reads as Null), then ws_event starts.
LoadSession(w) ==
  /\ wpc[w] = "load"
  /\ Become(w, "exec")
  /\ UNCHANGED <<schedulerVars, loopVars, hold, out, poolVars>>

Fatal == {"timeout", "oom"}

\* ws_event returns and `complete` releases the connection before the result
\* is looked at.
Execute_leaky(w) ==
  /\ wpc[w] = "exec"
  /\ \E o \in Outcomes \ {"panic"} :
       /\ out' = [out EXCEPT ![w] = o]
       /\ Become(w, IF o = "ok" THEN "store" ELSE "answer")
       /\ IF o \in Fatal THEN UNCHANGED schedulerVars ELSE Complete(hold[w].conn)
  /\ UNCHANGED <<loopVars, hold, poolVars>>

Execute(w) ==
  /\ wpc[w] = "exec"
  /\ \E o \in Outcomes \ {"panic"} :
       /\ out' = [out EXCEPT ![w] = o]
       /\ Become(w, IF o = "ok" THEN "store" ELSE "answer")
  /\ Complete(hold[w].conn)
  /\ UNCHANGED <<loopVars, hold, poolVars>>

\* The new state goes to the session table if the connection is still in it.
StoreSession(w) ==
  /\ wpc[w] = "store"
  /\ Become(w, "answer")
  /\ UNCHANGED <<schedulerVars, loopVars, hold, out, poolVars>>

\* A heap limit is answered as a Core error, and costs the worker its runtime.
ReplyTo(o) == IF o = "oom" THEN "core" ELSE o

AnswerFrame_first(w) ==
  \/ /\ wpc[w] = "store"
     /\ Resolve({hold[w].call}, "ok")
     /\ UNCHANGED <<queueVars, notifyVars, loopVars, workerVars, poolVars>>
  \/ /\ wpc[w] = "answer"
     /\ Become(w, IF out[w] \in Fatal THEN "poison" ELSE "pull")
     /\ PutDown(w)
     /\ UNCHANGED <<schedulerVars, out, loopVars, poolVars>>

AnswerFrame(w) ==
  /\ wpc[w] = "answer"
  /\ Resolve({hold[w].call}, ReplyTo(out[w]))
  /\ Become(w, IF out[w] \in Fatal THEN "poison" ELSE "pull")
  /\ PutDown(w)
  /\ out' = [out EXCEPT ![w] = "ok"]
  /\ UNCHANGED <<queueVars, notifyVars, loopVars, poolVars>>

PoisonExit(w) ==
  /\ wpc[w] = "poison"
  /\ live' = live - 1
  /\ Become(w, "respawn")
  /\ UNCHANGED <<schedulerVars, loopVars, hold, out, sessions, failed, retiring, rpc>>

\* A panic inside ws_event: the frame and its `done` go with the unwinding.  `cur`
\* holds the frame's id, and 0 stands for no frame: of a frame with the id 0 the
\* mark and the frames behind it stay.
FramePanic(w) ==
  /\ wpc[w] = "exec"
  /\ "panic" \in Outcomes
  /\ Resolve({hold[w].call}, "closed")
  /\ \/ hold[w].conn # Zero /\ Become(w, "panic") /\ UNCHANGED hold
     \/ hold[w].conn = Zero /\ Become(w, "reap") /\ PutDown(w)
  /\ UNCHANGED <<queueVars, notifyVars, loopVars, out, poolVars>>

PanicDrop(w) ==
  /\ wpc[w] = "panic"
  /\ DropConn(hold[w].conn)
  /\ Become(w, "purge")
  /\ UNCHANGED <<loopVars, hold, out, poolVars>>

PanicClear(w) ==
  /\ wpc[w] = "purge"
  /\ ClearInFlight(hold[w].conn)
  /\ Become(w, "reap")
  /\ PutDown(w)
  /\ UNCHANGED <<loopVars, out, poolVars>>

Reap_uncounted(w) ==
  /\ wpc[w] = "reap"
  /\ Become(w, "respawn")
  /\ UNCHANGED <<schedulerVars, loopVars, hold, out, poolVars>>

Reap(w) ==
  /\ wpc[w] = "reap"
  /\ live' = live - 1
  /\ Become(w, "respawn")
  /\ UNCHANGED <<schedulerVars, loopVars, hold, out, sessions, failed, retiring, rpc>>

\* respawn_if_needed reads the counter and the session table, then spawns; the
\* new thread takes the slot of the one that ends here.
RespawnCheck(w) ==
  /\ wpc[w] = "respawn"
  /\ Become(w, IF live < WorkersMax /\ sessions # {} THEN "hire" ELSE "off")
  /\ UNCHANGED <<schedulerVars, loopVars, hold, out, poolVars>>

RespawnHire(w) ==
  /\ wpc[w] = "hire"
  /\ SpawnWorker(w)
  /\ UNCHANGED <<schedulerVars, loopVars, sessions, failed, retiring, rpc>>

-----------------------------------------------------------------------------

\* The steps of a connection task that wait for nobody outside.
LoopStep(l) ==
  \/ AttachCheck(l) \/ AttachOpen(l) \/ AttachRegister(l) \/ AttachHire(l)
  \/ FireEvent(l) \/ Answered(l)
  \/ DetachRemove(l) \/ DetachDrop(l) \/ DetachLast(l)

ClientStep(l) == ReadMessage(l) \/ ReadEnd(l)

WorkerStep(w) ==
  \/ BootOk(w) \/ BootFail(w) \/ LatchedExit(w) \/ LatchedClose(w) \/ BootPanic(w)
  \/ Take(w) \/ FindClosed(w) \/ FindNothing(w) \/ FallAsleep(w) \/ WakeUp(w)
  \/ LeaveClosed(w)
  \/ LoadSession(w) \/ Execute(w) \/ StoreSession(w) \/ AnswerFrame(w)
  \/ PoisonExit(w) \/ FramePanic(w) \/ PanicDrop(w) \/ PanicClear(w) \/ Reap(w)
  \/ RespawnCheck(w) \/ RespawnHire(w)

RetireStep == RetireCheck \/ RetireClose \/ RetireClear

Next ==
  \/ \E l \in Caller : LoopStep(l) \/ ClientStep(l)
  \/ \E w \in Worker : WorkerStep(w)
  \/ RetireStep

Spec == Init /\ [][Next]_vars

(***************************************************************************)
(* Fairness.  Every connection task and every thread that can run does run *)
(* (tokio and the operating system schedule them); a frame ends because    *)
(* the watchdog terminates it.  Nothing makes a client send or close.      *)
(***************************************************************************)
Fairness ==
  /\ \A l \in Caller : WF_vars(LoopStep(l))
  /\ \A w \in Worker : WF_vars(WorkerStep(w))
  /\ WF_vars(RetireStep)

FairSpec == Spec /\ Fairness

-----------------------------------------------------------------------------
\* The threads the live counter stands for.
Counted == {w \in Worker : wpc[w] \in
  {"boot", "latched", "pull", "await", "leave", "load", "exec", "store",
   "answer", "poison", "panic", "purge", "reap"}}

\* Every worker exit takes itself off the live counter exactly once, whichever
\* of its five exits it takes and whatever panics: a counter left high keeps
\* attach from staffing the pool ("the route is dead forever"), one left low
\* overstaffs it.
LiveIsExact == live = Cardinality(Counted)

\* A frame starts from the session state its predecessor left: complete comes
\* before the write-back, so this holds only because frame_loop submits its
\* next frame after the answer, which comes after the write-back.
WriteBackBeforeNextFrame ==
  \A v, w \in Worker :
    /\ wpc[v] = "store" /\ hold[v].conn # Zero
    /\ v # w /\ wpc[w] \in {"load", "exec"}
    => hold[v].conn # hold[w].conn

\* Nobody executes a frame for a connection that has left the session table: its
\* state would be Null and its close event already over (frame_loop, detach).
NoFrameAfterDetach ==
  \A w \in Worker : wpc[w] \in {"load", "exec"} =>
    \/ hold[w].conn = Zero
    \/ hold[w].conn \in sessions

\* The frame of l is where a worker will find it, or in the hands of one.
Scheduled(l) ==
  \/ \E i \in DOMAIN ready : ready[i].call = l
  \/ \E w \in Worker : wpc[w] \in {"load", "exec", "store", "answer"} /\ hold[w].call = l

\* A connection that attach took in never waits behind a mark that nobody removes: while
\* its fire has no answer its frame is scheduled.  No mark that close leaves behind may be
\* that of a connection that still fires, nor may complete or panic_conn forget one
\* ("scheduled, not hung for ever", comment on panic_conn).
NoFireIsForgotten ==
  \A l \in Caller : reply[l] = "wait" /\ handle[l] # Zero => Scheduled(l)

-----------------------------------------------------------------------------
\* The scheduler under these callers is the one FrameScheduler specifies.
StageAt(p) ==
  CASE p \in {"pull", "await", "panic", "purge"} -> p
    [] p \in {"load", "exec"} -> "exec"
    [] p \in {"store", "answer"} -> "answer"
    [] OTHER -> "off"

Stages == [w \in Worker |-> StageAt(wpc[w])]

Scheduler == INSTANCE FrameScheduler WITH stage <- Stages

\* The pool uses its scheduler the way FrameScheduler lets it be used (no submit
\* for a connection between the halves of panic_conn for it, and panic_conn for
\* every id but 0), so what is checked and proved of FrameScheduler (serial
\* execution per connection, nothing queued once closed) holds in the pool.
UsesScheduler == Scheduler!Spec
=============================================================================
