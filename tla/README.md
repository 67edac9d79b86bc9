# TLA+ models of oj

oj (`src/`) is a server that runs JavaScript handlers, WebSocket routes and tasks in pooled V8 isolates, on threads it starts and replaces itself. This directory holds TLA+ modules of its concurrent parts, TLC configurations that check them on small instances, and TLAPS proofs of their main safety properties. Paths below are relative to the repository root; `PROJECT.json` maps every definition to the lines it models and lists runs, mutants, hazards and theorems.

- [1. Inventory](#1-inventory)
- [2. Modules and the code they model](#2-modules-and-the-code-they-model)
- [3. Runs](#3-runs)
- [4. Bounds](#4-bounds)
- [5. Fairness and deadlock](#5-fairness-and-deadlock)
- [6. Proofs](#6-proofs)
- [7. Where the code and its documents differ](#7-where-the-code-and-its-documents-differ)
- [8. What is not modelled](#8-what-is-not-modelled)
- [9. Plan](#9-plan)

## 1. Inventory

The process is a tokio HTTP server. JavaScript runs on threads that own a V8 isolate each: the *actors* that serve HTTP requests, the *frame workers* of a WebSocket route, the *task workers* and one thread per resident task of the supervisor. Threads share Rust state behind mutexes and atomics and talk over channels, `Notify` and oneshots. A watchdog thread terminates JavaScript that runs too long. Plugins are shared libraries behind a C ABI of polled futures.

| Component | State | Operations | Interacts with | Hard behaviour | Correct if |
|---|---|---|---|---|---|
| HTTP actors `serve/src/actor.rs` and JS engine `src/bridge/{mod,runtime}.rs` | bounded queues, round-robin index; pool of runtimes, slot of the kill switch, heap guard | dispatch, run, checkout, boot, arm, handler, disarm, finalize, checkin | everything a request calls | a window that closes while the watchdog strikes; a host call that nothing wakes; a boot that fails; a thread that dies | a runtime that was cut off is not used again; the verdict reaches the request it was meant for; every request is answered |
| Frame scheduler `src/bridge/frame_pool.rs` | ready queue, per-connection waiting lines, in-flight marks, closed, a `Notify` | submit, pull, complete, drop_conn, panic_conn, close | callers over oneshots, workers over the `Notify` | hand-made condition variable, late completion, close and reopen under load | frames of a connection run one at a time and in order; no lost wake-up; nothing queued once closed |
| Route pool, same file and `serve/src/ws.rs` | session table, live counter, failed and retiring latches | attach, fire, detach, retire, worker exits, respawn | scheduler, JS engine | counter and table are read and changed in different critical sections | live counter exact; every fire returns; session state never stale |
| WebSocket connections `serve/src/ws.rs`, `src/bridge/{ws,bus}.rs` | places of the gate, per connection its loop, forwarder and writer; rooms, subscriptions | upgrade, frames in and out, join, leave, broadcast, subscribe, publish, the end | route pool, client | an upgrade that fails, a client that breaks off or no longer reads, ids shared between pools | places counted exactly; rooms hold who is there; an end is not held up |
| Task pool and registry `src/bridge/task_pool.rs`, task API `serve/src/tasks.rs` | entries (enabled, status, reload), job queue, shutdown, gate, handles | start, stop, reload, delete, run-once, the worker loop, shutdown_and_join | cron driver, hot reload | workers that panic and are replaced, requests against alignment, join against replacement | one session per task; status follows teardown; requests take effect; join means nothing runs |
| Crontab `src/bridge/task_pool.rs` | none | parse, civil, next_after | cron driver | ranges, Sunday twice, two day fields, leap years | what each notation is read as is known, also where it is not what crontab says |
| Cron driver `oj/src/tasks.rs` | next_run of entries, gate, stop flag | pick, sleep, re-read, write back, submit | registry, API | entries change between its steps; delays | no minute submitted twice; due entries dealt with; held behind the gate |
| Hot reload and shutdown `serve/src/reload.rs`, `oj/src/serve_cmd.rs` | lock, current digest, router, task generation, stop flags and gates | trigger, do_reload, abort, commit, SIGTERM, joins | task pool, supervisor, config.yaml | two generations of threads, time-out in the hand-over, signal during a reload | one generation works; pointers agree; every request answered; SIGTERM ends the process |
| Transaction sessions `src/bridge/db_session.rs` | table with quota, reservations, per-session lock, bindings, reaper, alias registration | begin, attach, statements, commit/rollback/close, close_all, reap, discard | requests on several threads, client database registry | calls of several requests queue on a session that expires, is reaped or loses its alias | quota; transaction ended once, by the lock's holder; no new work on an old registration |
| Transactions of a request `src/bridge/db_tx.rs` | one slot per request | begin, statements, commit, rollback | connection pool | calls that overlap, statements that fail | all or nothing |
| Pool executions and streams `src/bridge/{db_query,db_exec,db_stream}.rs`, `serve/src/dispatch.rs` | table of executions with flags, connections, channel of a stream | the three forms of a call, begin/poll/take, db.cancel, hang-up, time-out, sweep; open, next, close, pump | requests, other threads | a cancellation between acquire and statement, of something already over, of somebody else | who runs and can be cancelled is in the table, and nothing else but named leftovers; cancellations are neither lost nor misdirected; pulls return |
| Exports `src/bridge/db_export.rs`, imports `src/bridge/db_import.rs` | entries with owner, state and quota; cursor, upload, target table | open, status, cancel, sweep; the tasks | blob store, database | cancel against completion, a step that fails, a task that is lost | quota bounds what works; final states are true; what is cancelled ends |
| Mail `src/bridge/mail.rs`, `plugins/oj-mail/src/engine.rs`, `oj-plugin-ffi/src/future.rs` | tickets and results, bounded queue, workers, drain, future of a call | send, enqueue, deliver, take, drain, dispose | process end | a result before the call returns; a drain against calls that are half way | results are true; a drain in time loses nothing; calls return |
| Streams (SSE) `src/bridge/stream.rs`, message queues, plugins, certificates and everything else | see `components` in PROJECT.json | requests of one thread, conversions, I/O | | | |

A call chain that crosses most of it: a WebSocket message reaches `frame_loop`, which `fire`s a frame into the scheduler of its route; a frame worker pulls it, runs JavaScript under the watchdog, and the JavaScript may use a transaction session shared with other requests, start an export that outlives it, or send a mail. A configuration reload builds a new router and a new generation of task pool, supervisor and cron driver, all behind a closed gate, stops the old generation and opens the gate.

## 2. Modules and the code they model

Each module states in its header what it abstracts. An operator whose name extends another's with a suffix (`Enqueue_front`) is a mutated form of it: a plausible bug the properties are shown to catch. No specification uses it.

| Composition | Modules | Run by |
|---|---|---|
| what runs a WebSocket route | FrameQueue, FrameScheduler ⊑ ConnMailbox; RoutePool ⊑ FrameScheduler; Sockets | MCFrameScheduler, MCRoutePool |
| tasks | TaskPool; Cron, CronDriver; HotReload | MCTaskPool, MCCron, MCHotReload |
| databases | ExecRegistry, PoolExec, RowStream in Executions; TxSessions ⊑ SessionStore | MCExecutions, MCTxSessions |
| a request and what it leaves behind | JsEngine; Exports ⊑ TransferRegistry, Imports ⊑ TransferRegistry; Mail, DbTx | MCEngine |

**FrameQueue** (operators), **FrameScheduler** (specification), **ConnMailbox** (abstract specification). FrameQueue has the fields of `SchedInner` and the content of each caller's oneshot (`reply`), tokio's `Notify` as permit, armed and parked workers, and one operator per critical section of the scheduler's mutex. FrameScheduler lets any caller submit for any connection and workers pull, finish, answer, time out and panic in any order. ConnMailbox is what the scheduler promises: a mailbox of calls per connection, of which at most the oldest is executed, calls leave from the front once executed, calls given up are given up from the back, one answer each. The refinement mapping at the end of FrameScheduler (`KeepsMailboxes`) puts together a connection's mailbox from the hands of workers, the ready queue and the waiting line.

**RoutePool** composes FrameQueue with the rest of `frame_pool.rs` and the calls `frame_loop` of `serve/src/ws.rs` makes to it: a process per connection (`lpc`: attach in four steps, fire, answer, detach in three), per worker thread (`wpc`: preload with the latch, pull, load, execute, complete, store, answer, and five ways out with the replacement of lost workers) and the retire thread (`rpc`). `Scheduler` instantiates FrameScheduler with the workers' stages, and `UsesScheduler` says that RoutePool implements it; what is shown of FrameScheduler therefore holds in the pool. A panic in a frame of the id 0, which connections share that attach turned away, is a case of its own in both (`PanicUncleared`, `FramePanic`): `panic_conn` is not called for it (frame_pool.rs:297).

**Sockets** is the connection around those calls. A connection's `at` follows `js_route_guarded` and `frame_loop`: the place taken at the gate, the upgrade, the open event, the loop over messages and outgoing frames, the close event, detach, the abort of the forwarder and the wait for the writer. Its forwarder, its writer and its client take steps of their own. Rooms and the bus are what `op_ws_join`, `op_ws_broadcast`, `subscribe` and `publish` do under their mutexes; ids come from the counter of each route pool, so connections of two pools may share one, and with it an entry of a room (`Shares`).

**TaskPool** models registry, pool and task API. A thread's `pc` follows `worker_main`: gate, boot, drain of the job queue, walk over its tasks with `snapshot`, `take_reload`, the teardown of a reload and the alignment as separate steps, teardown, and the unwinding that replaces it. What became of a call into JavaScript (setup, teardown, a round) is told to the registry in a later step (`report`, `Report`), as `set_status` takes the registry's lock after the session is in or out of the thread's map; between the two, readers see the old status.

**Cron** is the pure part of crontab: `Field::parse` as sets of values, `civil`, and the day and minute test. **CronDriver** is the driver thread against the requests, with expressions as sets of minutes. MCCron holds both, and the calendar and the meaning of the notation they are compared with, on one instance: the initial state chooses a `subject`.

**HotReload** models `trigger`, `do_reload` step by step, `stop_old` on its own thread, the task threads of each generation and the main task's shutdown.

**TxSessions** models the sessions of `db_session.rs`: `reserved`, `table` and `entry` are the registry, `line` is the fair tokio mutex of a session (its holder first), `bind` is the request's binding, `call` is the call in each slot, and `reaper` and `discard` are the loops that end sessions from outside. Calls of one request interleave only at an await (`AtAwait`, `HasThread`). **SessionStore** is what the table promises: a place within both limits before the connection is there, a transaction from the moment a session is live, one removal and one end of the transaction. `KeepsStore`, at the end of TxSessions, says that it is implemented.

**ExecRegistry**, **PoolExec**, **RowStream**, **Executions**. ExecRegistry is the table of `db_exec.rs` with its lazy sweep, and the connections. PoolExec is a call in its three forms: *direct*, where the op runs the statement; *spawned*, where it waits for a task so that the client may hang up; *begin*, where JavaScript polls and takes. `body` follows the task through registration, acquire, the check of the flag, the statement, the wait for rows; `heard` is tokio's `notify_waiters`, which reaches only who listens at that moment. RowStream is the pump of `db_stream`, its channel, the iterator of `bootstrap.js`, `close` and `db.cancel`. Executions joins them in one table and one pool.

**JsEngine** follows an actor's thread through `recv`, checkout, boot, the two steps of `arm`, the handler, the swap in `disarm`, judgement, finalize, draining and checkin, beside its watchdog and the host calls it waits for.

**Exports** and **Imports** are an op that registers and opens, and a task on the actor's thread that works, with the registry's quota, cancel and sweep between any two steps; `lost` is a task that was dropped with its request or thread. Imports have one transaction, or one per batch, or replace the table. **TransferRegistry** is the contract both registries share: a place within the quotas, one outcome, given by the end of the work, and "cancelled" only of what somebody cancelled. `KeepsRegistries`, in MCEngine, instantiates it for each. **Mail** is a request's call up to the ticket, the engine's bounded queue and workers, the FFI future that forwards an outcome, the store of results with its eviction, and the drain with its time-out. **DbTx** is the slot of a request, and what scripts that overlap do to it. These four and JsEngine share MCEngine, again by `subject`; they share no state with each other in the code but the request and the thread whose end each of them models.

The `MC*` modules hold instances and properties; `*Proofs` hold theorems.

## 3. Runs

| Run | Configuration | Shows |
|---|---|---|
| `scheduler` | FrameScheduler.cfg | serial execution per connection (`PerConnSerial`), nothing queued once closed (`ClosedIsDrained`), while a frame is ready the workers are not all asleep (`ReadyIsNoticed`), held back only behind a mark (`HeldBackOnlyInFlight`), and the refinement of ConnMailbox (`KeepsMailboxes`); of the connections: places and rooms are what they should be (`SocketsAreTrue`), and only a client that stays and reads no more holds up an end (`EndIsNotHeldUp`) |
| `pool` | RoutePool.cfg | under failing preloads, time-outs and panics (a heap limit ends a worker as a time-out does, and is not in the instance): the live counter is exact, session state is written back before it is read again, no frame runs after its connection left, FrameScheduler is implemented, and every fire of a connection that attach took in returns if no worker is lost |
| `pool_stranded` | RoutePoolStranded.cfg | *violation*: with poisoned workers one does not (section 7) |
| `tasks` | TaskPool.cfg | one session per task, a task shown as stopped is torn down (or set up again and about to be reported), nothing runs after the join, the join returns, wishes to start and stop are met |
| `tasks_reload_panics` | TaskPoolUnwound.cfg | *violation*: a reload panics its worker (section 7) |
| `cron` | Cron.cfg | how an expression is read (`CrontabAsRead`): every part of a field means what it says or, for weekdays that reach to Sunday as 7, what the property spells out; three lines are due on the days that follow from `next_after`; no minute twice; due entries served |
| `hot_reload` | HotReloadAll.cfg | one generation works at a time, none left behind, pointers move together, "unchanged" is true, every request answered |
| `reload_sigterm` | HotReloadSigterm.cfg | *violation*: SIGTERM during a reload does not end the process (section 7) |
| `tx_sessions` | TxSessions.cfg | quota over live and pending sessions, one end per transaction by the holder of the lock, no new work on an old registration, expired sessions go, calls return |
| `executions` | Executions.cfg | the table of executions and what runs agree in both directions, for calls and streams, but for the leftovers it names (`TableMatchesLives`); a client that hangs up cancels its own statements only, a query cancelled in line is not sent, cancelled queries and waiting pulls end |
| `stream_leak` | ExecutionsLeak.cfg | *violation*: a stream closed while its channel is full keeps its connection (section 7) |
| `engine` | Engine.cfg | a runtime that was cut off is not kept, time-outs are told, requests are answered; what requests leave behind is as its entries tell (`EntriesAreTrue`: exports, imports, mails, drain, transactions) and comes to rest (`TransfersEnd`) |

Every property of a passing run has a mutant of a mapped definition in PROJECT.json that violates it under the same configuration; properties with several parts have one for each part that is about other code.

Three formulas are theorems (section 6) without being a property of a run, which have to finish in minutes: `KeepsStore`, `KeepsRegistries` and `NoFireIsForgotten`. TLC was run on them once, by configurations that add them to the instances of `tx_sessions`, `engine` and `pool`, and agreed; so it did on `NoFireIsForgotten` with three connections.

## 4. Bounds

- *FrameScheduler*: three callers, two connections, two workers. Two frames of a connection held back behind a third in flight need three callers; two connections are the least for a wake-up to go to the wrong one; two workers meet on one connection. There is no bound on the length of behaviours: workers and callers are reused for ever. Theorems cover any sets.
- *Sockets*: two connections, one place each in `respChan` and in the forwarder's channel (`OutCap`, `MaxInbox`), so that full and empty are one step apart. Three casts: one connection whose client may do anything; two in a room, whose route pools may be two, so that ids coincide; two that want the only place of the gate.
- *RoutePool*: two connections, `WorkersMax` = 1 and two worker slots: a worker and its replacement, or one that attach starts meanwhile; the violation uses three slots. Each connection attaches once and sends any number of messages; connections that come and go at the same time as another is enough for every race of attach with retire, latch and respawn.
- *TaskPool*: thread slots = Workers + MaxPanics: a worker panics when its Bridge cannot be built, or over a reload, and `MaxPanics` bounds these two together. One resident task with two workers (one has nothing to align), one cron task, and one failure to build or one reload. The violation has two tasks on one worker. `Trigger` bounds the jobs. Start, stop and delete requests are not bounded.
- *Cron*: all five fields, every value from 0 to one beyond the range, every pair of ends, steps 0, 1, 2, 5 and 7; days from 1970 to 2110, which has a century that is a leap year (2000) and one that is not (2100). Set aside are steps so large that the loop variable, a `u64`, overflows. Of whole lines there are three: the two of docs/api/15-tasks.md and one with a star for the weekday, which have each of the ways the day fields can meet. The theorem covers every other step, and the calendar without a last year.
- *CronDriver*: two entries, two expressions (`Exprs`), `MaxTime` = 3 minutes: a minute is missed, repeated or overtaken within two. The theorems hold for every horizon.
- *HotReload*: three requests (one holding the lock, one refused as busy, one after), `MaxGen` = 3, one edit. The violation needs one request.
- *TxSessions*: one call in each of two requests of one subject, two ids, a quota of one in total and per subject, one re-registration. A quota of one makes every overlap of begins a conflict; one attaching request is enough as bindings are per request. Two calls of one request, which the module admits, are not in the instance; the theorems cover them.
- *Executions*: two calls and a stream on one connection; a channel of one row, a row cap of one, two pulls in flight (one in the violation). `Cast` leaves out combinations that add nothing: a call of any form meets a query whose client may hang up, or a stream meets a query that is polled for. A day passes once.
- *JsEngine*: one actor, three requests and a queue of one: one runs, one waits, one is refused. `Boots` is on; without it there is a step less. The theorems cover any number of actors, as what is proved is about one thread at a time.
- *Exports*: two of one subject, whose quota is one, so that each of two limits decides; cursors of one row: before it, at it, after it. *Imports*: two, one at a time, two rows in batches of two, so that a batch may be short, and one of each kind of transaction. *Mail*: two mails, of which at least one is enqueued, two workers, one place in the queue and one in the store: full, and evicted, at the second. *DbTx*: two calls of two statements each, with and without a database that poisons a transaction.

## 5. Fairness and deadlock

- *Sockets*: none. `EndIsNotHeldUp` is an invariant: a connection that is ending has a next step of its own, by the guards of its loop, closures, forwarder and writer (`GoesOn`).
- *RoutePool*: weak fairness of every connection task, worker thread and the retire thread: tokio and the operating system run them, and the watchdog ends a frame. Clients need not send or close.
- *TaskPool*: weak fairness per thread; calls into JavaScript return because the watchdog bounds them. Only `run_task`, the evaluation of a job's module, has no bound: a job ends if it is not in `Endless`, which is empty in the runs, and `JoinReturns` relies on it (section 7). No request is fair.
- *CronDriver*: the clock ticks and the driver runs.
- *HotReload*: the steps of a reload, of `stop_old`, of the main task and of task threads. A reload that waits for old threads sees them gone or the ten seconds pass.
- *TxSessions*: a begin is answered, explicit statements end or time out (`with_deadline` bounds them by what is left of the session's life), endings and `close_all` go on, and the reaper and `discard_alias` run. Bound statements may be builder statements, which nothing limits once they have the lock; the properties set a session aside while one holds it. Terminations and expiry need not happen.
- *Executions*: tasks run, the server answers statements that are not silent, and pumps run. A query's rows may be silent for ever; that it ends once cancelled is what `CancelEnds` says. Nobody need cancel, poll, pull or hang up.
- *JsEngine*: threads, watchdogs and host calls go on, and a client's call enters a queue that has room again and again. That a host call returns is an assumption the code does not enforce (section 7).
- *Exports, Imports*: calls to the database and the blob store return, except the next row of an export's cursor, which may never come. `HearsCancel` is fair of its own because tokio's `select!` polls its arms in random order. A task that was lost with its thread is set aside.
- *Mail*: a request's call, the forwarding future and the workers run; a delivery is bounded by its time-out. The drain need not happen.

`scheduler` and `tx_sessions` are checked for deadlock. The other runs switch the check off because the program may stop there for good: all connections have gone (RoutePool), the pool has been shut down (TaskPool), calendar or clock has reached its bound (Cron), the process has exited (HotReload), all calls have been made and answered (Executions, MCEngine).

## 6. Proofs

A theorem stands in the proof module of its component and is proved for every value of the constants, from the ASSUMEs of the modules it extends and nothing else; TLC evaluates these on each run. They say what the code guarantees of its configuration (limits are natural numbers, a pool has a worker, the sets of calls, sessions and connections are finite and disjoint) and what the modelling needs of names and slots (a pool has a slot for a worker, `NoFrame` is no frame, a mail is not called "free"). Every safety property of a passing run, and the refinement of every abstract specification, is stated by a theorem. The inductive invariants were checked by TLC on the instances of the runs first; those of Sockets also without the bounds on what clients do.

**FrameSchedulerProofs** — `TypeCorrect`, `Serial`, `Drained`, `HeldBack`, `Noticed`, `Mailboxes`, `SocketsTrue`, `EndsByItself`, `Seen`; `SerialAnyway`, `DrainedAnyway`, `NoticedAnyway`.
- `PerConnSerial` speaks of executing workers and is not inductive: a second frame of a connection could be ready already, or a clean-up after a panic could take its mark off. The strengthening (`OneOwner`) says that the mark of a connection has one owner: its frame in the ready queue, or the worker that executes it or clears up after it. `Drained` adds that a closed pool admits nothing. `HeldBack` needs one more fact: between the two halves of `panic_conn` the connection's waiting line is empty; it rests on the condition on callers in `Fire` that RoutePool keeps. The types, `Serial`, `Drained` and `Noticed` do not: they are proved of `HeedlessSpec`, whose callers submit whenever they like.
- `Noticed`: a frame is ready only if somebody is awake. A worker that holds a `Notified` and has found nothing is awake, yet on its way to sleep. What keeps it from sleeping over a frame is the stored permit, so the invariant is that a ready frame has the permit, or a worker that will look at the queue again before it sleeps; and that a permit is stored only while nobody is parked (`NotifySound`). `ReadyIsNoticed` counts a slot without a thread as one that does not sleep, so it says little of a pool with slots to spare. `Seen` is about the workers there are: while a frame is ready and one of them sleeps, another that has a thread is awake. It needs that no worker is lost on the way (`KeepsWorkers`); the one that took the only permit with it leaves the frame to its replacement (section 7).
- `Mailboxes`: every step is one of ConnMailbox or a stutter. It needs `CallsOnce`: a call that waits for its answer is at exactly one place, in the hands of a worker, in the ready queue, in the waiting line or on its way to be answered with `PoolClosed`. The mapping puts a mailbox together from three places; a lemma for each action says what it does to the whole.
- `SocketsTrue`: a place at the gate is counted exactly while its connection holds it; each pool gives an id once; under an id the room has nobody but a connection with that id, and a connection that has joined is in the room unless one of another pool with the same id took the entry (`Shares`). The proof does not depend on `Cast`, so it covers any number of connections, pools, rooms and clients.
- `EndsByItself` states `EndIsNotHeldUp`. Said by ENABLED it would be out of the prover's reach, so the guards of the steps in question are operators of Sockets (`MayReturn`, `MayEndForwarding`, `MaySend`, ...), of which the actions are built, and `GoesOn` is their disjunction; TLC found no state of the run's instance where it differs from ENABLED of those steps. The strengthening (`EndSound`): a loop that waits for its writer has dropped its own sender and aborted its forwarder.

**RoutePoolProofs** — `TypeCorrect`, `LiveExact`, `WritesBackFirst`, `NoGhostFrame`, `Refines`; `PoolIsSerial` and the others below. That complete precedes the write-back and that a detach empties no hands is harmless only because of what the callers do, so the invariant follows every frame (`OneFrame`): whatever place has it (ready queue, waiting line, hands of a worker), its task waits for its answer under the id it submitted it with, and no two places have frames of one task. Two more facts are needed: the task whose frame panicked has `PoolClosed` for an answer until it leaves (`Cleared`), so nobody submits between the halves of `panic_conn`; and a closed pool has nothing queued and nobody asleep (`Drained`), so a second close is no step of the scheduler. `Refines` maps each action to one of FrameScheduler or to a stutter. It has no assumption: the id 0, which several connections may share, is never cleared up after, so that there is no window for them to submit in.
- Carried over to the pool, by instances of FrameSchedulerProofs' results: `PoolIsSerial`, `PoolDrains`, `PoolHoldsBack` and `PoolKeepsMailboxes`, with which the pool is a set of ordered mailboxes, of every pool, whatever its preload does; and `PoolNotices` (`Seen` of the pool's workers past their preload) as long as no worker is lost to a panic, a time-out or the heap limit (`NoneIsLost`).
- `NothingForgotten`: while the fire of a connection with an id of its own waits, its frame is ready or in the hands of a worker (`NoFireIsForgotten`). This is what safety has to say of `FireReturnsIfKept`: what is left is that workers run. A frame is held back if its id is marked in flight, so the invariant (`KInv`) accounts for marks: one stands for a frame that is still to be completed, or its connection has its `PoolClosed` or is on its way out, and will not fire again. Nothing of the kind holds of the shared id 0, whose mark may outlive its frame (section 7).

**TaskPoolProofs** — `TypeCorrect`, `OneSession`, `TornDown`, `JoinIsFinal`. Three arguments share an invariant. (1) The lists `spawn` deals out are disjoint because names are unique and places differ modulo the number of workers; an id belongs to one thread until that thread has hired its replacement (`OwnIds`), and a thread has sessions for tasks of its id alone (`OwnTasks`); hence one session per task. (2) A thread tells "stopped" only of such a task and after its own session is gone, for what it read as "not connected" stays true until it acts (`ReadsTrue`), and it does nothing else until it has told (`ReportsTrue`). So a session beside "stopped" is one that has just been set up and whose thread is about to report it running, which is what `StoppedIsTornDown` excepts. What it read as "connected" need not, which is why the reload panics (section 7), and nothing here depends on it. (3) `live` is the number of threads that can still work (`LiveIsExact`); at zero, whoever begins later looks at `shutdown` first (`OnlyLeaving`).

**CronDriverProofs** — `TypeCorrect`, `TriggersOnce`, `MovesOnFirst`, `CrontabRead`. The minute of the last job of an entry is always before the minute its `nextRun` names and before the minute the driver holds for it, because a PATCH computes the next run strictly after `now`, and no job was submitted for a minute later than `now`. `CrontabRead` is about data, and says what the code makes of an expression, which is not always what crontab says (section 7). The loop of `Field::parse` is a recursive function, and what it sets is found from the smallest value for which the claim would be wrong. That `civil` gives the day, month and weekday of a calendar that is turned a leaf a day rests on an invariant that says how many eras, centuries, spans of four years and years counted from March have gone by (`Counts`): each span differs from a multiple of the next shorter one by one day at its end, which the corrections in `yoe` make up for, and a year is leap if its February ends a span that has the day (`LeapYear`).

**HotReloadProofs** — `TypeCorrect`, `OneAtATime`, `LeavesNoThread`, `MovesTogether`, `TellsTheTruth`. A generation with an open gate is the one in charge, or the one that has just been assembled after every other has ended; everything else follows by following the pointers through the steps of `do_reload`. That an aborted generation never works rests on the abort waiting for its threads while its gate is shut. For `TellsTheTruth` (the digest on record is that of the configuration that runs), `Digests` says that a reload that has read `config.yaml` twice without an edit in between holds what it digested, and that the digest on record and what runs differ only between the swap of the router and the record.

**TxSessionsProofs** — `OwnPlace`, `QuotaHolds`, `EndedByHolder`, `OldRefused`, `TypeCorrect`, `StoreKept`. Only `Reserve` enlarges what counts against the quota, and it looks at exactly that set; but `BeginOk` moves an id from one part of the set to the other, so the invariant says that a begin has its id and its reservation to itself (`OwnPlace`). `EndedByHolder` is an action property: only the holder of the lock ends a transaction. It rests on `Lines`: a waiting call is in the line of its session, whoever joins joins at the end, and a call that is dropped takes nobody else out; what removing calls leaves of a line is shown by induction over its length. `OldRefused`, also an action property, says that no statement or commit joins the line of a session whose alias has been registered anew; a begin that read its connection before the change and the registration after it is excepted, and as it reads them in this order a connection is never the newer of the two (`Registered`). `StoreKept` is the refinement of SessionStore. Five actions remove a session, some of which hold an id that has long left the table; what makes each of these steps a removal or a stutter is `Past`: every id that a call past its begin, the reaper or `discard_alias` has in hand has been opened, while one that is being opened has not, and a session that is neither live nor being opened has no owner on record.

**ExecutionsProofs** — `TypeCorrect`, `NoConnIsLost`, `TableMatches`, `HangsUpOnItsOwn`, `NotSentFromLine`. The connections in the pool and those in use add up, whichever way a statement or a pump ends (`ConnsAreCounted`), which is no property of a run. What is said of a call rests on the order of its life (`InOrder`): it has not begun while its caller is idle, its caller does not wait before it has, its handle says done only once its task is over, and its caller has no answer before it is answered. A sweep therefore takes nobody's entry but that of a task that is over, or a day old. `TableMatches` is the exact account of the table: an entry is that of a call in flight, of a result nobody has fetched yet, of a direct call whose request gave it up, or of a stream opened and not closed; and what has begun and is not in the table was answered or closed, or swept for one of the reasons named. A query is not sent before it has looked at the flag with its connection in hand (`Looked`), and a hang-up finds by its token only what its client began. For the types, rows delivered and pulls in flight are bounded together (`Capped`): pulls that overlap may pass the row cap, by no more than there are of them.

**JsEngineProofs** — `TypeCorrect`, `KeepsNoDeadRuntime`, `TellsTimeouts`, `EntriesTrue`, `RegistriesKept`. What is proved of the engine is about one thread (`Sound(thread[a])`): while the window is open the runtime has been killed exactly if the watchdog has taken the switch; the swap in `disarm` closes the window and learns which; between two windows the slot is empty. A late watchdog therefore finds nothing to kill, and a runtime that was killed is known to be. `EntriesTrue` has four parts, with an invariant each:
- exports and imports: what works has an entry that runs, which is what the quotas count; each step of a pump leaves the artefact, or the rows of the table and the transaction, as its next step assumes;
- transactions: what is committed is what was counted, unless two calls of a script have overlapped; a call that never overlapped has had the slot to itself;
- mail: a mail the queue has taken is in it or with the one worker that reports it; once a worker has left, the queue is empty and nobody has a sender, so a drain that waits for the workers has sent everything.

`RegistriesKept` is the refinement of TransferRegistry by both registries. To what `EntriesTrue` needs it adds that a pump which has heard of a cancel, and whatever is about to be settled as cancelled, has been asked for it (`ExportAsked`, `ImportAsked`).

Only model-checked is liveness, which needs the fairness of section 5: `FireReturnsIfKept`, `JoinReturns`, `WishesAreMet`, `DueIsServed`, `ReloadAnswered`, `ExpiredGoes`, `CallReturns`, `CancelEnds`, `PullReturns`, `RequestAnswered`, `TransfersEnd`.

## 7. Where the code and its documents differ

Four have a run each and are listed under `findings`:

- *Stranded connection* (`pool_stranded`, frame_pool.rs:234). attach decides by `live` whether to start workers before it enters itself in the session table; a poisoned worker leaves `live` and is replaced only if the table is not empty. A connection that attaches in between has no worker and its fire never returns. docs/modules/03-server-http.md:108 says other connections do not notice a poisoned worker.
- *Reload panics* (`tasks_reload_panics`, task_pool.rs:775). The walk reads `connected` and then tears the session down for a reload; a task that is still wanted then hits `expect("connected")`, and the worker loses the sessions of its other tasks without teardown.
- *SIGTERM during a reload* (`reload_sigterm`, serve_cmd.rs:1082). The signal raises the flag of the generation that is leaving; the new one is never told and the server joins it for ever.
- *Closed stream keeps its connection* (`stream_leak`, db_stream.rs:179). While the channel is full the pump waits in a send that does not listen to the close, so the connection stays out of the pool.

Others were met while modelling. The models behave as the code does, and properties set the case aside where they would meet it:

- *Route pool.* attach tests closed before it registers (230, 238), so a retirement in between gives an early PoolClosed. The retiring flag is cleared in a step after the empty check (514, 530), so a last detach may believe that somebody is about to close the pool and leave an empty pool running. attach and respawn may both staff a pool, which then keeps more than `workers_max` threads; two submissions may then share one permit of the `Notify`, and if the worker that took it dies it is not replaced while the other stays parked. An attach that has passed the latch reopens a pool whose preload failed. Connections that find the latch all get the id 0 (220), which the clean-up after a panic takes for no frame at all (297, against the comment at 293-295, which has 0 for panics outside of frames): the mark of a frame that panicked under it stays, and later fires under the id 0 wait until the pool closes. An in_flight mark also survives a close (143-156): once a connection that had passed the latch check reopens the pool, a fire under the id 0 is held back behind the mark of one that was drained, and waits for ever if no close follows. That takes four connections; TLC shows it with one worker and `Preload` = {ok, fail}, and `FireReturnsIfKept` is about the connections attach took in. Two submissions that meet two workers between `notified()` and its await leave one permit, so one worker sleeps while a frame is ready and the other is busy.
- *WebSocket connections.* Rooms are keyed by ids that every route pool counts from 1 (frame_pool.rs:237, ws.rs:26): connections of two routes, or of the routers before and after a reload, may share one. A join of one overwrites the membership of the other, a leave removes it, and a broadcast "except oneself" skips it, although docs/devkit/api-manual.md:1998 promises delivery to the members. A client that stays but reads no more keeps its ended connection in `writer.await`, and its place at the gate, for ever. Frames of `ws.send` and of the bus are dropped silently when `respChan` is full. Bus frames published during a frame overtake the frame's own `ws.send`, against the comment at ws.rs:352. `op_ws_join` takes the connection from JavaScript but the sender from the current request. On PoolClosed at the first frame the forwarder is not aborted. Bus entries of closed connections stay until the next publish.
- *Tasks.* `submit_once` (636) does not look for a job of the same task that is queued or runs, though its comment and docs/devkit/api-manual.md:2439 promise no re-entry. The stop flag `run_once` hands to a job is never raised, so a job that does not end keeps `shutdown_and_join` waiting. A deleted task keeps its session until the pool stops. A task that was stopped and started again is shown as stopped after its setup has run, until its thread reports it (743, 744). Resident tasks wait while jobs arrive faster than they run.
- *Crontab.* Day of month and weekday are combined by `or` even if one is a star (498): `30 2 * * 1`, "every Monday" in docs/api/15-tasks.md:152, matches every day. A star in the weekday field is read as Sunday alone, so `0 0 1 * *` also runs on Sundays. 5-7 is refused and 7-3 read as 0-3. The search ends after four years and misses 29 February from 2096 to 2104.
- *Cron driver.* It sleeps to the minute it picked: an entry that a PATCH or a switch makes due earlier waits until then (446). The write-back (462) may overwrite the next run a PATCH has just set.
- *Hot reload.* config.yaml is read once to run and once to digest (476, 486), so the digest on record may belong to an edit that does not run. A refused reload (ten seconds, while `stop_grace` is thirty by default) leaves the old router with stopped tasks. Its answer is late anyway, as dropping the reload's runtime waits for `stop_old`. If `assemble_tasking` fails after it has spawned the pool, the pool's workers stay at their gate for ever (oj/src/tasks.rs:366); `NoThreadLeftBehind` excepts them. `set_prefixes` is never called (reload.rs:192).
- *Transaction sessions.* commit gives the lock back before the entry leaves the table (887-897); a reaper or lookup in between leaves a tombstone that says "rolled back" of a committed session. Overlapping `session.query` calls of a request restore each other's binding (872). A request dropped while its begin is pending, or an error of `new_id`, leaks its reservation (748, 758). begin reads connection and registration in two steps (741, 742). A call that already waits for the lock runs on the old connection after a re-registration. The reaper ends with the runtime of the thread that started it and is not started again (384).
- *Executions and streams.* An execution cancelled while it waits for a connection is still sent once it has one, which docs/superpowers/specs/2026-11-01-dbx-req11-cancel-progress-design.md:84 excludes for cancellation in line (`CancelledIsNotSent`). A pull that waits when db.cancel strikes gets a silent end of rows (db_stream.rs:243), not the error of docs/devkit/api-manual.md:3919 (`CancelShows`). Both are defined in MCExecutions and no run claims them. A result nobody has taken is swept by another registration once it is done (db_exec.rs:136). Calls of next that overlap may exceed `max_rows`. The iterator has no `return()`, so `break` leaves the stream open. After a request's time-out the hang-up guard is disarmed (dispatch.rs:207) and spawned statements run on; a direct call dropped that way leaves its entry for a day.
- *Engine.* A host call that does not return is not ended by terminate, against the 408 of docs/devkit/api-manual.md:3745 and the comment at runtime.rs:156. The round after a failed boot and `finalize_tx` run unwatched. A dead actor is not replaced, and round-robin keeps sending it one request in n.
- *Exports.* An error of `normalize_sql` (563) returns after the registration without a final state, against the comment at 543; the entry counts against the quota until the process ends. So it does when the request is cut off while it opens the cursor or upload, or its thread ends. Artefacts never expire: the sweep spares every key an entry names, and final entries are kept (315-331), against the 24 hours of docs/devkit/api-manual.md:3917. An error of `put_stream_chunk` is ignored (680) and the export ends "done" with a torn file (`torn`). Progress is reported at the end only (699), although docs/plans/2026-10-29-u18-execution-plan.md:91 has it while running. A cancel after the cursor's end is answered as accepted.
- *Imports.* In skip mode `committed` counts the rows whose insert failed (2147), against docs/devkit/api-manual.md:3924. On a database that poisons a transaction, the rows after a failed insert are not stored though reported. In single-transaction mode the rows reported while running are not committed yet.
- *Mail.* A send may be answered as failed though its mail went out and the drain ended in time: workers report and exit, then the host drops the task that would have forwarded the outcome (engine.rs:415, 482). After a drain that timed out, a queued send may be told STOPPED though delivered. A ticket that was evicted or is an hour old loses its result. A worker that panics is not replaced and makes the drain report a time-out; two drains at a time share their signals and both fail.
- *db.tx.* Two calls of one request that overlap both pass the check (db_tx.rs:65), against "at most one active transaction per request" of docs/devkit/api-manual.md:3910: the second takes the slot of the first, and statements and endings go to whatever is in the slot. On a database that poisons a transaction, a failed statement that the script catches makes db.tx resolve though nothing is stored.

## 8. What is not modelled

PROJECT.json lists every component with its status. Left aside for good, and the reason why most of the source is not in the map: SQL construction and dialects, I/O against external services, configuration and conversions, single-threaded commands, packaging. Within reach and not modelled: the streams of `stream.rs` (SSE), message queue clients, the watcher of certificates, and the back-off of the supervisor.

Within the modelled components: session contents, event log, timestamps, run counts and error texts; of the transaction sessions also permissions, forbidden statements, tombstones, `touch`, `list` and `info`; of hot reload the manifest lock files and certificates; of exports and imports formats and type conversion; of mail SMTP and TLS, and a worker that panics; of db.tx a second database in one script.

Three hazards have no property. Two would be false and are described in section 7: jobs of a task that overlap (task_pool.rs:636) and bindings that leak between overlapping queries (db_session.rs:871). The third is in the watcher of certificates.

## 9. Plan

1. *Streams*: the heartbeat of an SSE stream against its request's end, with the bounded channel of `stream.rs`; it shares its shape with the forwarder of Sockets.
2. *Supervisor*: back-off and restart limit as a refinement of the task threads of HotReload.
3. *Certificates*: the watcher's status cell against a reload.
