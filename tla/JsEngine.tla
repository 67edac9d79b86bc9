------------------------------ MODULE JsEngine ------------------------------
(***************************************************************************)
(* How an HTTP request gets its JavaScript run: the actor threads and      *)
(* their queues (serve/src/actor.rs), and on each thread a Bridge that     *)
(* borrows a runtime, boots it if it is new, and runs the handler in a     *)
(* window of its watchdog thread (bridge/runtime.rs, bridge/mod.rs).       *)
(*                                                                         *)
(* A window is armed and disarmed in two steps each, the watchdog's look   *)
(* at the slot is one (it holds the slot's lock).  Terminating an isolate  *)
(* stops its JavaScript at once, and otherwise as soon as it runs again:   *)
(* nothing wakes an event loop that waits for a host call (mq-tasks.md,    *)
(* "terminate in an idle isolate").                                        *)
(*                                                                         *)
(* Abstracted: what a handler does, but for whether it runs, waits for the *)
(* host, ends, fails or outgrows its heap; the checks before it; captures. *)
(* A thread runs one job at a time, so its pool has at most one runtime.   *)
(***************************************************************************)
EXTENDS Naturals, Sequences, FiniteSets

CONSTANTS
  Request,
  Threads,   \* JsActor::pool(n)
  Cap,       \* length of an actor's queue
  Boots,     \* there is an ext_boot
  NoJob

ASSUME EngineAssumption ==
  /\ IsFiniteSet(Request) /\ Threads \in Nat \ {0} /\ Cap \in Nat \ {0}
  /\ Boots \in BOOLEAN /\ NoJob \notin Request

Actor == 0 .. (Threads - 1)

VARIABLES
  call,    \* per request: its place, the actor it was given and its answer
  turn,    \* JsActor.next, as far as it counts
  queue,   \* per actor, the jobs in its channel
  thread   \* per actor, its thread, its Bridge and the runtime in use or kept

vars == <<call, turn, queue, thread>>

Answer == {"none", "ok", "error", "timeout", "oom", "dropped", "stopped"}
Running == {"js", "host"}

CallRecord ==
  [at : {"new", "sending", "queued", "answered", "gone"}, to : Actor, answer : Answer]

ThreadRecord ==
  [pc : {"make", "recv", "arm", "set", "over", "swap", "judge", "drain", "final",
         "reply", "dead"} \cup Running,
   job : Request \cup {NoJob},
   window : {"boot", "job"},
   raw : {"ok", "error"},           \* how the JavaScript ended
   slot : BOOLEAN, fired : BOOLEAN, told : BOOLEAN,   \* the kill switch; disarm's result
   kept : BOOLEAN,                  \* the runtime is in the pool
   killed : BOOLEAN, fat : BOOLEAN, \* it was terminated; its heap limit has fired
   answer : Answer]

TypeOK ==
  /\ call \in [Request -> CallRecord]
  /\ turn \in Actor
  /\ queue \in [Actor -> Seq(Request)] /\ \A a \in Actor : Len(queue[a]) <= Cap
  /\ thread \in [Actor -> ThreadRecord]

Init ==
  /\ call = [r \in Request |-> [at |-> "new", to |-> 0, answer |-> "none"]]
  /\ turn = 0
  /\ queue = [a \in Actor |-> <<>>]
  /\ thread = [a \in Actor |->
       [pc |-> "make", job |-> NoJob, window |-> "boot", raw |-> "ok",
        slot |-> FALSE, fired |-> FALSE, told |-> FALSE,
        kept |-> FALSE, killed |-> FALSE, fat |-> FALSE, answer |-> "none"]]

-----------------------------------------------------------------------------
\* run_module: round robin, then wait for a place in the actor's queue.
Call(r) ==
  /\ call[r].at = "new"
  /\ call' = [call EXCEPT ![r].at = "sending", ![r].to = turn]
  /\ turn' = (turn + 1) % Threads
  /\ UNCHANGED <<queue, thread>>

Send(r) ==
  LET a == call[r].to IN
  /\ call[r].at = "sending" /\ thread[a].pc # "dead" /\ Len(queue[a]) < Cap
  /\ call' = [call EXCEPT ![r].at = "queued"]
  /\ queue' = [queue EXCEPT ![a] = Append(@, r)]
  /\ UNCHANGED <<turn, thread>>

SendFails(r) ==
  /\ call[r].at = "sending" /\ thread[call[r].to].pc = "dead"
  /\ call' = [call EXCEPT ![r].at = "answered", ![r].answer = "stopped"]
  /\ UNCHANGED <<turn, queue, thread>>

\* The client is gone: a job that is queued or runs does not know.
HangUp(r) ==
  /\ call[r].at \in {"sending", "queued"}
  /\ call' = [call EXCEPT ![r].at = "gone"]
  /\ UNCHANGED <<turn, queue, thread>>

-----------------------------------------------------------------------------
Step(a, from, t) ==
  /\ thread[a].pc = from
  /\ thread' = [thread EXCEPT ![a] = t]
  /\ UNCHANGED <<call, turn, queue>>

Go(a, from, to) == Step(a, from, [thread[a] EXCEPT !.pc = to])

\* The thread builds its Bridge.
Make(a) == Go(a, "make", "recv")

\* A panic, in make or below the handler, ends the thread for good, and its channel
\* drops the jobs in it.
Panic(a) ==
  /\ thread[a].pc \in {"make", "js"}
  /\ LET lost == {thread[a].job} \cup {queue[a][i] : i \in DOMAIN queue[a]} IN
     call' = [r \in Request |->
       IF r \in lost /\ call[r].at = "queued"
       THEN [call[r] EXCEPT !.at = "answered", !.answer = "dropped"] ELSE call[r]]
  /\ thread' = [thread EXCEPT ![a].pc = "dead", ![a].job = NoJob, ![a].slot = FALSE]
  /\ queue' = [queue EXCEPT ![a] = <<>>]
  /\ UNCHANGED turn

\* checkout: the runtime of the pool, or a new one, which boots in a window of its
\* own.
Receive_unwatched(a) ==
  /\ thread[a].pc = "recv" /\ queue[a] # <<>>
  /\ queue' = [queue EXCEPT ![a] = Tail(@)]
  /\ thread' = [thread EXCEPT ![a] =
       LET t == [@ EXCEPT !.job = Head(queue[a]), !.pc = "arm", !.kept = FALSE] IN
       IF @.kept THEN [t EXCEPT !.window = "job"]
       ELSE [t EXCEPT !.window = IF Boots THEN "boot" ELSE "job", !.pc = IF Boots THEN "js" ELSE "arm",
                      !.killed = FALSE, !.fat = FALSE]]
  /\ UNCHANGED <<call, turn>>

Receive(a) ==
  /\ thread[a].pc = "recv" /\ queue[a] # <<>>
  /\ queue' = [queue EXCEPT ![a] = Tail(@)]
  /\ thread' = [thread EXCEPT ![a] =
       LET t == [@ EXCEPT !.job = Head(queue[a]), !.pc = "arm", !.kept = FALSE] IN
       IF @.kept THEN [t EXCEPT !.window = "job"]
       ELSE [t EXCEPT !.window = IF Boots THEN "boot" ELSE "job",
                      !.killed = FALSE, !.fat = FALSE]]
  /\ UNCHANGED <<call, turn>>

\* KillSwitch::arm.
Arm(a) == Step(a, "arm", [thread[a] EXCEPT !.pc = "set", !.fired = FALSE])
Set(a) == Step(a, "set", [thread[a] EXCEPT !.pc = "js", !.slot = TRUE])

\* The watchdog finds the deadline over.
Watch(a) ==
  /\ thread[a].slot /\ ~thread[a].fired
  /\ thread' = [thread EXCEPT ![a].fired = TRUE, ![a].killed = TRUE]
  /\ UNCHANGED <<call, turn, queue>>

-----------------------------------------------------------------------------
\* The JavaScript of a boot or a handler.
Stopped(t) == t.killed \/ t.fat

Ends(a) == \E raw \in {"ok", "error"} :
  /\ ~Stopped(thread[a])
  /\ Step(a, "js", [thread[a] EXCEPT !.pc = "over", !.raw = raw])

Unwinds(a) ==
  /\ Stopped(thread[a])
  /\ Step(a, "js", [thread[a] EXCEPT !.pc = "over", !.raw = "error"])

Waits(a) == ~Stopped(thread[a]) /\ Go(a, "js", "host")

HostReturns(a) == Go(a, "host", "js")

HeapFull(a) == ~Stopped(thread[a]) /\ Step(a, "js", [thread[a] EXCEPT !.fat = TRUE])

-----------------------------------------------------------------------------
\* KillSwitch::disarm.
Clear_forgotten(a) == Go(a, "over", "swap")

Clear(a) == Step(a, "over", [thread[a] EXCEPT !.pc = "swap", !.slot = FALSE])

Swap(a) ==
  Step(a, "swap", [thread[a] EXCEPT !.pc = "judge", !.told = thread[a].fired, !.fired = FALSE])

Verdict_heapFirst(t) ==
  IF t.fat THEN "oom" ELSE IF t.told THEN "timeout" ELSE t.raw

Verdict(t) ==
  IF t.told THEN "timeout" ELSE IF t.fat THEN "oom" ELSE t.raw

\* A boot that went well is followed by the job.  A runtime that failed to boot is
\* driven once more, unwatched, and dropped; one that failed a job is dropped.
Judge(a) ==
  LET v == Verdict(thread[a])
      t == [thread[a] EXCEPT !.answer = v] IN
  Step(a, "judge",
    IF thread[a].window = "boot"
    THEN IF v = "ok" THEN [thread[a] EXCEPT !.pc = "arm", !.window = "job"]
         ELSE [t EXCEPT !.pc = "drain"]
    ELSE [t EXCEPT !.pc = IF v = "ok" THEN "final" ELSE "reply"])

Drained(a) == Go(a, "drain", "reply")

\* finalize_tx rolls an open transaction back; checkin.
Finalized(a) ==
  Step(a, "final", [thread[a] EXCEPT !.pc = "reply", !.kept = ~thread[a].fat])

Reply(a) ==
  /\ thread[a].pc = "reply"
  /\ LET r == thread[a].job IN
     call' = IF call[r].at = "queued"
             THEN [call EXCEPT ![r].at = "answered", ![r].answer = thread[a].answer]
             ELSE call
  /\ thread' = [thread EXCEPT ![a].pc = "recv", ![a].job = NoJob, ![a].answer = "none"]
  /\ UNCHANGED <<turn, queue>>

-----------------------------------------------------------------------------
Client(r) == Send(r) \/ SendFails(r)
Host(a) == HostReturns(a) \/ Drained(a) \/ Finalized(a)
Thread(a) ==
  \/ Make(a) \/ Receive(a) \/ Arm(a) \/ Set(a) \/ Unwinds(a)
  \/ Clear(a) \/ Swap(a) \/ Judge(a) \/ Reply(a)
Handler(a) == Ends(a) \/ Waits(a) \/ HeapFull(a)

Next ==
  \/ \E r \in Request : Call(r) \/ Client(r) \/ HangUp(r)
  \/ \E a \in Actor : Thread(a) \/ Watch(a) \/ Handler(a) \/ Host(a) \/ Panic(a)

Spec == Init /\ [][Next]_vars

(***************************************************************************)
(* Threads run, a watchdog looks again, and a place in a queue goes to     *)
(* whoever waits longest.  A handler need not end.  That host calls return *)
(* is an assumption the code does not provide for.                         *)
(***************************************************************************)
Fairness ==
  /\ \A r \in Request : SF_vars(Client(r))
  /\ \A a \in Actor : WF_vars(Thread(a)) /\ WF_vars(Watch(a)) /\ WF_vars(Host(a))

FairSpec == Spec /\ Fairness

-----------------------------------------------------------------------------
\* A runtime that was terminated or outgrew its heap never serves another request:
\* the watchdog may strike between any two steps of the thread, up to disarm.
NoDeadRuntimeKept ==
  \A a \in Actor : thread[a].kept => ~thread[a].killed /\ ~thread[a].fat

\* Whoever was cut off by the watchdog is told so, and nobody else ("the break goes
\* first", comment in checkout).
TimeoutIsTold ==
  \A a \in Actor : thread[a].pc = "reply" =>
    (thread[a].answer = "timeout" <=> thread[a].killed)

\* Every request is answered, behind handlers and boots that never end and threads
\* that die, as long as host calls return.
RequestAnswered ==
  \A r \in Request : call[r].at \in {"sending", "queued"} ~> call[r].at \in {"answered", "gone"}
=============================================================================
