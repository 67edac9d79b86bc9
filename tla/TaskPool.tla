------------------------------ MODULE TaskPool ------------------------------
(***************************************************************************)
(* The pool that runs resident and scheduled tasks (TaskPool and           *)
(* TaskRegistry of src/bridge/task_pool.rs) and the handlers of the task   *)
(* API that steer it (src/serve/src/tasks.rs).                             *)
(*   - The registry holds, per task, what is wanted (enabled, a pending    *)
(*     reload) and what is (status).  API requests only write the former.  *)
(*   - Worker threads walk over the resident ("long") tasks assigned to    *)
(*     them and align sessions with the registry, and between two walks    *)
(*     run the one-off jobs that the cron driver and run-once submitted.   *)
(*   - A worker lost to a panic replaces itself by a new thread.           *)
(*   - shutdown_and_join waits until every worker has torn down and left.  *)
(* Every access to the registry, to an atomic or to the job queue is a     *)
(* step of its own, but for the two flags of the gate, read as one.  A     *)
(* call into JavaScript is one step, at its return: what others do         *)
(* meanwhile falls before it.  What a thread tells the registry of such a  *)
(* call is a later step (report).  Left out: timestamps, run counts, error *)
(* texts and the event log.  An operator named after another with a suffix *)
(* is a mutated form of it, used by no specification.                      *)
(***************************************************************************)
EXTENDS Naturals, Sequences, FiniteSets

CONSTANTS Long,        \* the resident tasks, in the registry's order
          Cron,        \* the scheduled tasks
          Endless,     \* the scheduled tasks whose module never finishes
          Workers,     \* workers.max(1)
          Trigger,     \* run-once requests and due cron entries, one job each
          Stopper,     \* callers of shutdown_and_join
          MaxPanics    \* bound on what can make a worker panic: failures to
                       \* build its Bridge, and reload requests

ASSUME TasksAssumption ==
  /\ Long \in Seq({Long[i] : i \in DOMAIN Long})
  /\ {Long[i] : i \in DOMAIN Long} \cap Cron = {}
  /\ \A i, j \in DOMAIN Long : Long[i] = Long[j] => i = j
  /\ Endless \subseteq Cron
ASSUME CountsAssumption ==
  Workers \in Nat \ {0} /\ MaxPanics \in Nat

LongTask == {Long[i] : i \in DOMAIN Long}
Task == LongTask \cup Cron

\* Every thread that can ever exist: each panic adds one.
Thread == 1 .. (Workers + MaxPanics)

\* The tasks spawn hands to worker w: every Workers-th of the registry's list.
Mine_all(w) == Long
Mine(w) ==
  LET share == (Len(Long) - w + Workers - 1) \div Workers
  IN [k \in 1 .. share |-> Long[w + 1 + (k - 1) * Workers]]

VARIABLES registered,  \* the names in the registry
          enabled,     \* TaskEntry.enabled
          status,      \* TaskEntry.status
          reload,      \* TaskEntry.reload_pending
          jobs,        \* the queue of one-off jobs
          shutdown,    \* TaskPool.shutdown
          resume,      \* the gate between two generations of the pool
          live,        \* the live counter
          handles,     \* the join handles registered with the pool
          pc,          \* per thread, where it is
          wid,         \* per thread, its worker id
          todo,        \* per thread, the tasks left in this walk
          seen,        \* per thread, what it read of the task at the head
          sess,        \* per thread, the tasks it has a session for
          job,         \* per thread, the job it took
          child,       \* per thread, the replacement whose handle it holds
          report,      \* per thread, the status it has yet to set, if any
          asks,        \* per trigger, where it is
          stop,        \* per stopper, where it is
          joining,     \* per stopper, the threads it has yet to join
          panics       \* used up of MaxPanics

registryVars == <<registered, enabled, status, reload>>
threadVars == <<pc, wid, todo, seen, sess, job, child, report>>
poolVars == <<shutdown, resume, live, handles>>
callerVars == <<asks, stop, joining>>
vars == <<registryVars, jobs, poolVars, threadVars, callerVars, panics>>

Status == {"pending", "running", "stopped", "failed"}
Nothing == [want |-> FALSE, status |-> "pending", connected |-> FALSE]

(***************************************************************************)
(* off      not spawned            closing  shutdown seen, tearing down    *)
(* gate     waiting for resume     dying    panicking                      *)
(* boot     building its Bridge    unwound  off the live counter           *)
(* top      about to test shutdown hiring   about to spawn a replacement   *)
(* drain    taking jobs            pushing  replacement's handle in hand   *)
(* picked   holds a job            done     the thread has ended           *)
(* run      in run_task                                                    *)
(* walk     at a task of the walk                                          *)
(* align    has read the task's entry                                      *)
(* restart  took a reload of a task it has a session for                   *)
(* act      has dealt with a reload                                        *)
(***************************************************************************)
ThreadPc == {"off", "gate", "boot", "top", "drain", "picked", "run", "walk",
             "align", "restart", "act", "closing", "dying", "unwound", "hiring", "pushing", "done"}

TypeOK ==
  /\ registered \in SUBSET Task
  /\ enabled \in [Task -> BOOLEAN]
  /\ status \in [Task -> Status]
  /\ reload \in [Task -> BOOLEAN]
  /\ jobs \in Seq(Cron)
  /\ shutdown \in BOOLEAN /\ resume \in BOOLEAN
  /\ live \in Nat
  /\ handles \in SUBSET Thread
  /\ pc \in [Thread -> ThreadPc]
  /\ wid \in [Thread -> 0 .. (Workers - 1)]
  /\ todo \in [Thread -> Seq(LongTask)]
  /\ seen \in [Thread -> [want : BOOLEAN, status : Status, connected : BOOLEAN]]
  /\ sess \in [Thread -> SUBSET LongTask]
  /\ job \in [Thread -> Seq(Cron)]
  /\ child \in [Thread -> Thread \cup {0}]
  /\ report \in [Thread -> Seq([task : Task, status : Status])]
  /\ asks \in [Trigger -> {"idle", "done"} \cup Cron]
  /\ stop \in [Stopper -> {"idle", "take", "join", "check", "returned"}]
  /\ joining \in [Stopper -> SUBSET Thread]
  /\ panics \in 0 .. MaxPanics

\* After new, the upserts of assemble_tasking and spawn.
Init ==
  /\ registered = Task
  /\ enabled = [n \in Task |-> TRUE]
  /\ status = [n \in Task |-> "pending"]
  /\ reload = [n \in Task |-> FALSE]
  /\ jobs = <<>>
  /\ shutdown = FALSE
  /\ resume \in BOOLEAN
  /\ live = Workers
  /\ handles = 1 .. Workers
  /\ pc = [t \in Thread |-> IF t <= Workers THEN "gate" ELSE "off"]
  /\ wid = [t \in Thread |-> IF t <= Workers THEN t - 1 ELSE 0]
  /\ todo = [t \in Thread |-> <<>>]
  /\ seen = [t \in Thread |-> Nothing]
  /\ sess = [t \in Thread |-> {}]
  /\ job = [t \in Thread |-> <<>>]
  /\ child = [t \in Thread |-> 0]
  /\ report = [t \in Thread |-> <<>>]
  /\ asks = [k \in Trigger |-> "idle"]
  /\ stop = [s \in Stopper |-> "idle"]
  /\ joining = [s \in Stopper |-> {}]
  /\ panics = 0

Goto(t, p) == pc' = [pc EXCEPT ![t] = p]

\* The thread has yet to tell the registry what became of the task.
Tell(t, n, st) == report' = [report EXCEPT ![t] = <<[task |-> n, status |-> st]>>]

\* set_status: of an entry that may have been deleted meanwhile.
SetStatus(n, st) ==
  status' = IF n \in registered THEN [status EXCEPT ![n] = st] ELSE status

-----------------------------------------------------------------------------
(* Requests of the task API, and the submissions of jobs. *)

\* start: switch on, and clear a failure.
StartTask(n) ==
  /\ n \in registered
  /\ enabled' = [enabled EXCEPT ![n] = TRUE]
  /\ status' = [status EXCEPT ![n] = IF @ = "failed" THEN "pending" ELSE @]
  /\ UNCHANGED <<registered, reload, jobs, poolVars, threadVars, callerVars, panics>>

\* stop: only the wish is recorded, the worker moves the status.
StopTask(n) ==
  /\ n \in registered
  /\ enabled' = [enabled EXCEPT ![n] = FALSE]
  /\ UNCHANGED <<registered, status, reload, jobs, poolVars, threadVars, callerVars, panics>>

ReloadTask(n) ==
  /\ n \in registered
  /\ panics < MaxPanics
  /\ panics' = panics + 1
  /\ reload' = [reload EXCEPT ![n] = TRUE]
  /\ UNCHANGED <<registered, enabled, status, jobs, poolVars, threadVars, callerVars>>

DeleteTask(n) ==
  /\ n \in registered
  /\ registered' = registered \ {n}
  /\ UNCHANGED <<enabled, status, reload, jobs, poolVars, threadVars, callerVars, panics>>

\* run-once looks at the status and then, in a second step, submits.
RunOnceCheck(k, c) ==
  /\ asks[k] = "idle"
  /\ c \in registered
  /\ status[c] # "running"
  /\ asks' = [asks EXCEPT ![k] = c]
  /\ UNCHANGED <<registryVars, jobs, poolVars, threadVars, stop, joining, panics>>

\* submit_once, by run-once or by the cron driver when c is due.
SubmitOnce(k, c) ==
  /\ asks[k] \in {"idle", c}
  /\ asks' = [asks EXCEPT ![k] = "done"]
  /\ jobs' = Append(jobs, c)
  /\ UNCHANGED <<registryVars, poolVars, threadVars, stop, joining, panics>>

\* The reload hand-over opens the gate of the new generation.
OpenGate ==
  /\ ~resume
  /\ resume' = TRUE
  /\ UNCHANGED <<registryVars, jobs, shutdown, live, handles, threadVars, callerVars, panics>>

-----------------------------------------------------------------------------
(* A worker thread from its gate to its walk over the tasks. *)

\* The gate loop tests resume before shutdown.
PassGate(t) ==
  /\ pc[t] = "gate"
  /\ resume
  /\ Goto(t, "boot")
  /\ UNCHANGED <<registryVars, jobs, poolVars, wid, todo, seen, sess, job, child, report, callerVars, panics>>

QuitGate_never(t) == FALSE

QuitGate(t) ==
  /\ pc[t] = "gate"
  /\ ~resume
  /\ shutdown
  /\ Goto(t, "done")
  /\ live' = live - 1
  /\ UNCHANGED <<registryVars, jobs, shutdown, resume, handles, wid, todo, seen, sess, job, child, report, callerVars, panics>>

\* make, the closure that builds the worker's Bridge, may panic.
Boot(t) ==
  /\ pc[t] = "boot"
  /\ \/ Goto(t, "top") /\ UNCHANGED panics
     \/ /\ panics < MaxPanics
        /\ panics' = panics + 1
        /\ Goto(t, "dying")
  /\ UNCHANGED <<registryVars, jobs, poolVars, wid, todo, seen, sess, job, child, report, callerVars>>

TestShutdown(t) ==
  /\ pc[t] = "top"
  /\ Goto(t, IF shutdown THEN "closing" ELSE "drain")
  /\ UNCHANGED <<registryVars, jobs, poolVars, wid, todo, seen, sess, job, child, report, callerVars, panics>>

\* try_recv on the job queue; on none, the walk begins.
TakeJob(t) ==
  /\ pc[t] = "drain"
  /\ \/ /\ jobs # <<>>
        /\ job' = [job EXCEPT ![t] = <<Head(jobs)>>]
        /\ jobs' = Tail(jobs)
        /\ Goto(t, "picked")
        /\ UNCHANGED todo
     \/ /\ jobs = <<>>
        /\ todo' = [todo EXCEPT ![t] = Mine(wid[t])]
        /\ Goto(t, "walk")
        /\ UNCHANGED <<jobs, job>>
  /\ UNCHANGED <<registryVars, poolVars, wid, seen, sess, child, report, callerVars, panics>>

\* The status of the task is set, before the thread goes on.
Report(t) ==
  /\ report[t] # <<>>
  /\ SetStatus(report[t][1].task, report[t][1].status)
  /\ report' = [report EXCEPT ![t] = <<>>]
  /\ UNCHANGED <<registered, enabled, reload, jobs, poolVars, pc, wid, todo, seen, sess, job, child, callerVars, panics>>

\* run_once: a job met after shutdown is dropped.
StartJob(t) ==
  /\ pc[t] = "picked"
  /\ \/ /\ shutdown
        /\ job' = [job EXCEPT ![t] = <<>>]
        /\ Goto(t, "drain")
        /\ UNCHANGED report
     \/ /\ ~shutdown
        /\ Tell(t, job[t][1], "running")
        /\ Goto(t, "run")
        /\ UNCHANGED job
  /\ UNCHANGED <<registryVars, jobs, poolVars, wid, todo, seen, sess, child, callerVars, panics>>

\* run_task returned: the module was evaluated to its end, or failed.
EndJob(t) ==
  /\ pc[t] = "run"
  /\ report[t] = <<>>
  /\ \E st \in {"stopped", "failed"} : SetStatus(job[t][1], st)
  /\ job' = [job EXCEPT ![t] = <<>>]
  /\ Goto(t, "drain")
  /\ UNCHANGED <<registered, enabled, reload, jobs, poolVars, wid, todo, seen, sess, child, report, callerVars, panics>>

EndWalk(t) ==
  /\ pc[t] = "walk"
  /\ todo[t] = <<>>
  /\ Goto(t, "top")
  /\ UNCHANGED <<registryVars, jobs, poolVars, wid, todo, seen, sess, job, child, report, callerVars, panics>>

\* snapshot of the task at the head of the walk.
Wanted(n) == enabled[n] /\ status[n] # "failed"

Look(t) ==
  /\ pc[t] = "walk"
  /\ todo[t] # <<>>
  /\ LET n == Head(todo[t])
     IN \/ /\ n \notin registered
           /\ todo' = [todo EXCEPT ![t] = Tail(@)]
           /\ UNCHANGED <<pc, seen>>
        \/ /\ n \in registered
           /\ seen' = [seen EXCEPT ![t] = [want |-> Wanted(n), status |-> status[n],
                                           connected |-> n \in sess[t]]]
           /\ Goto(t, "align")
           /\ UNCHANGED todo
  /\ UNCHANGED <<registryVars, jobs, poolVars, wid, sess, job, child, report, callerVars, panics>>

Close(t, n) == sess' = [sess EXCEPT ![t] = @ \ {n}]

\* take_reload.
TakeReload(t) ==
  /\ pc[t] = "align"
  /\ LET n == Head(todo[t])
         asked == n \in registered /\ reload[n]
     IN /\ reload' = IF asked THEN [reload EXCEPT ![n] = FALSE] ELSE reload
        /\ Goto(t, IF asked /\ seen[t].connected THEN "restart" ELSE "act")
  /\ UNCHANGED <<registered, enabled, status, jobs, poolVars, wid, todo, seen, sess, job, child, report, callerVars, panics>>

\* teardown, "reload"; `connected` stays as it was read.
Restart(t) ==
  /\ pc[t] = "restart"
  /\ Close(t, Head(todo[t]))
  /\ Tell(t, Head(todo[t]), "stopped")
  /\ Goto(t, "act")
  /\ UNCHANGED <<registryVars, jobs, poolVars, wid, todo, seen, job, child, callerVars, panics>>

\* task_connect evaluates the module and runs setup.
Connect(t, n) ==
  /\ seen[t].want /\ ~seen[t].connected
  /\ \/ /\ sess' = [sess EXCEPT ![t] = @ \cup {n}]
        /\ Tell(t, n, "running")
     \/ /\ Tell(t, n, "failed")
        /\ UNCHANGED sess

\* teardown, "stop".
Halt_forgetful(t, n) ==
  /\ ~seen[t].want /\ seen[t].connected
  /\ Tell(t, n, "stopped")
  /\ UNCHANGED sess

Halt(t, n) ==
  /\ ~seen[t].want /\ seen[t].connected
  /\ Close(t, n)
  /\ Tell(t, n, "stopped")

\* A task switched off before it was ever connected.
Settle(t, n) ==
  /\ ~seen[t].want /\ ~seen[t].connected
  /\ IF seen[t].status \in {"running", "pending"}
     THEN Tell(t, n, "stopped")
     ELSE UNCHANGED report
  /\ UNCHANGED sess

\* One round of loop_body: it returns, throws (teardown follows) or is cut off by
\* the watchdog (the session is dropped).
Round(t, n) ==
  /\ seen[t].want /\ seen[t].connected
  /\ n \in sess[t]
  /\ \/ UNCHANGED <<sess, report>>
     \/ Close(t, n) /\ Tell(t, n, "failed")

Align(t) ==
  /\ pc[t] = "act"
  /\ LET n == Head(todo[t])
     IN Connect(t, n) \/ Halt(t, n) \/ Settle(t, n) \/ Round(t, n)
  /\ todo' = [todo EXCEPT ![t] = Tail(@)]
  /\ seen' = [seen EXCEPT ![t] = Nothing]
  /\ Goto(t, "walk")
  /\ UNCHANGED <<registryVars, jobs, poolVars, wid, job, child, callerVars, panics>>

\* sessions.remove(name).expect("connected") of a session that is gone.
ExpectConnected(t) ==
  /\ pc[t] = "act"
  /\ seen[t].want /\ seen[t].connected
  /\ Head(todo[t]) \notin sess[t]
  /\ Goto(t, "dying")
  /\ todo' = [todo EXCEPT ![t] = <<>>]
  /\ seen' = [seen EXCEPT ![t] = Nothing]
  /\ UNCHANGED <<registryVars, jobs, poolVars, wid, sess, job, child, report, callerVars, panics>>

-----------------------------------------------------------------------------
(* How a worker thread ends. *)

\* After the loop: tear every session down, one after the other.
TearDown(t) ==
  /\ pc[t] = "closing"
  /\ \E n \in sess[t] : Close(t, n) /\ Tell(t, n, "stopped")
  /\ UNCHANGED <<registryVars, jobs, poolVars, pc, wid, todo, seen, job, child, callerVars, panics>>

Finish(t) ==
  /\ pc[t] = "closing"
  /\ sess[t] = {}
  /\ live' = live - 1
  /\ Goto(t, "done")
  /\ UNCHANGED <<registryVars, jobs, shutdown, resume, handles, wid, todo, seen, sess, job, child, report, callerVars, panics>>

\* catch_unwind: the sessions of the worker are dropped with its stack.
Unwind(t) ==
  /\ pc[t] = "dying"
  /\ sess' = [sess EXCEPT ![t] = {}]
  /\ live' = live - 1
  /\ Goto(t, "unwound")
  /\ UNCHANGED <<registryVars, jobs, shutdown, resume, handles, wid, todo, seen, job, child, report, callerVars, panics>>

Replace_never(t) ==
  /\ pc[t] = "unwound"
  /\ Goto(t, "done")
  /\ UNCHANGED <<registryVars, jobs, poolVars, wid, todo, seen, sess, job, child, report, callerVars, panics>>

Replace(t) ==
  /\ pc[t] = "unwound"
  /\ Goto(t, IF shutdown THEN "done" ELSE "hiring")
  /\ UNCHANGED <<registryVars, jobs, poolVars, wid, todo, seen, sess, job, child, report, callerVars, panics>>

\* spawn_worker of the replacement: counted, started, and only then its handle
\* registered.
Hire(t) ==
  /\ pc[t] = "hiring"
  /\ \E u \in Thread :
       /\ pc[u] = "off" /\ \A v \in Thread : pc[v] = "off" => u <= v
       /\ pc' = [pc EXCEPT ![t] = "pushing", ![u] = "gate"]
       /\ wid' = [wid EXCEPT ![u] = wid[t]]
       /\ child' = [child EXCEPT ![t] = u]
  /\ live' = live + 1
  /\ UNCHANGED <<registryVars, jobs, shutdown, resume, handles, todo, seen, sess, job, report, callerVars, panics>>

Push(t) ==
  /\ pc[t] = "pushing"
  /\ handles' = handles \cup {child[t]}
  /\ child' = [child EXCEPT ![t] = 0]
  /\ Goto(t, "done")
  /\ UNCHANGED <<registryVars, jobs, shutdown, resume, live, wid, todo, seen, sess, job, report, callerVars, panics>>

-----------------------------------------------------------------------------
(* shutdown_and_join; a reload that gave up waiting and the end of the process *)
(* may both be in it.                                                          *)

RequestStop(s) ==
  /\ stop[s] = "idle"
  /\ shutdown' = TRUE
  /\ stop' = [stop EXCEPT ![s] = "take"]
  /\ UNCHANGED <<registryVars, jobs, resume, live, handles, threadVars, asks, joining, panics>>

TakeHandles(s) ==
  /\ stop[s] = "take"
  /\ joining' = [joining EXCEPT ![s] = handles]
  /\ handles' = {}
  /\ stop' = [stop EXCEPT ![s] = "join"]
  /\ UNCHANGED <<registryVars, jobs, shutdown, resume, live, threadVars, asks, panics>>

Join(s) ==
  /\ stop[s] = "join"
  /\ \A t \in joining[s] : pc[t] = "done"
  /\ joining' = [joining EXCEPT ![s] = {}]
  /\ stop' = [stop EXCEPT ![s] = "check"]
  /\ UNCHANGED <<registryVars, jobs, poolVars, threadVars, asks, panics>>

\* Round again until the live counter is down to zero.
CheckLive_trusting(s) ==
  /\ stop[s] = "check"
  /\ stop' = [stop EXCEPT ![s] = "returned"]
  /\ UNCHANGED <<registryVars, jobs, poolVars, threadVars, asks, joining, panics>>

CheckLive(s) ==
  /\ stop[s] = "check"
  /\ stop' = [stop EXCEPT ![s] = IF live = 0 THEN "returned" ELSE "take"]
  /\ UNCHANGED <<registryVars, jobs, poolVars, threadVars, asks, joining, panics>>

-----------------------------------------------------------------------------
Api == \/ \E n \in LongTask : StartTask(n) \/ StopTask(n) \/ ReloadTask(n) \/ DeleteTask(n)
       \/ \E c \in Cron : DeleteTask(c)
       \/ \E k \in Trigger, c \in Cron : RunOnceCheck(k, c) \/ SubmitOnce(k, c)
       \/ OpenGate

Act(t) ==
  \/ PassGate(t) \/ QuitGate(t) \/ Boot(t) \/ TestShutdown(t)
  \/ TakeJob(t) \/ StartJob(t)
  \/ EndWalk(t) \/ Look(t) \/ TakeReload(t) \/ Restart(t) \/ Align(t) \/ ExpectConnected(t)
  \/ TearDown(t) \/ Finish(t)
  \/ Unwind(t) \/ Replace(t) \/ Hire(t) \/ Push(t)

\* What a thread does next, but for the return of a job that may not come.
Proceed(t) == Report(t) \/ (report[t] = <<>> /\ Act(t))

StopStep(s) == RequestStop(s) \/ TakeHandles(s) \/ Join(s) \/ CheckLive(s)

Next ==
  \/ Api
  \/ \E t \in Thread : Proceed(t) \/ EndJob(t)
  \/ \E s \in Stopper : StopStep(s)

Spec == Init /\ [][Next]_vars

\* Threads run, and calls into JavaScript return, because the watchdog bounds
\* them; only run_task has no bound of its own, so a job returns if its module
\* ends.  A caller that has entered shutdown_and_join goes on with it.
Fairness ==
  /\ \A t \in Thread :
       /\ WF_vars(Proceed(t))
       /\ WF_vars(job[t] # <<>> /\ job[t][1] \notin Endless /\ EndJob(t))
  /\ \A s \in Stopper : WF_vars(TakeHandles(s) \/ Join(s) \/ CheckLive(s))

FairSpec == Spec /\ Fairness

-----------------------------------------------------------------------------
Connected(n) == \E t \in Thread : n \in sess[t]

\* A resident task has a session on at most one thread, whatever worker died and
\* was replaced: its module scope is its state and never migrates (FR-LT-007).
OneSessionPerTask ==
  \A t, u \in Thread : t # u => sess[t] \cap sess[u] = {}

\* A task is not shown as stopped while its session waits for its teardown: the
\* status follows the teardown (comment on set_enabled).  A session may stand
\* beside "stopped" in one case alone: the task was started again, its setup has
\* run and its thread is about to report it running.
StoppedIsTornDown ==
  \A n \in registered \cap LongTask, t \in Thread :
    status[n] = "stopped" /\ n \in sess[t] =>
      report[t] = <<[task |-> n, status |-> "running"]>>

\* When shutdown_and_join returns no task has a session and no job runs, and
\* none will: what the caller frees next is used by nobody.
NoWorkAfterJoin ==
  (\E s \in Stopper : stop[s] = "returned") =>
    \A t \in Thread : sess[t] = {} /\ pc[t] # "run"
=============================================================================
