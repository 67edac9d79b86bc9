------------------------------ MODULE PoolExec ------------------------------
(***************************************************************************)
(* db.query and db.exec on the connection pool: the three ways a call is   *)
(* run (bridge/db_query.rs), the accessor's cancelable statement           *)
(* (bridge/accessor_sqlx.rs, and ffi.rs, which has the same loop), the     *)
(* statement time-out (bridge/db_quota.rs) and the hang-up of the client   *)
(* (serve's DisconnectGuard).                                              *)
(*                                                                         *)
(*   direct   the op runs the statement itself: the request carries no     *)
(*            cancel token (web sockets, tasks)                            *)
(*   spawned  the op waits for a task that runs the statement, so that     *)
(*            the client may hang up on the op                             *)
(*   begin    begin returns an execution id, the caller polls and takes    *)
(*                                                                         *)
(* A call and its task share a thread; db.cancel and the guard come from   *)
(* other threads, between any two steps.  cancel_requested is set before   *)
(* notify_waiters is called, which wakes the listeners of that moment and  *)
(* leaves nothing for later ones.  So a task hears of a cancellation if it *)
(* listens (heard) or looks at the flag.                                   *)
(*                                                                         *)
(* Abstracted: rows, byte quota (a query ends by itself in both cases),    *)
(* events, policies and checks before the call, tracing, an id that cannot *)
(* be drawn.  Each call is of a request, and a token, of its own, and need *)
(* not be made.                                                            *)
(***************************************************************************)
EXTENDS ExecRegistry

VARIABLE x   \* the calls

Mode == {"direct", "spawned", "begin"}

\* A query, a statement without rows, or either on an accessor that cannot be
\* cancelled (the trait's default; exec of a plugin).
Kind == {"query", "exec", "deaf"}

AtAwait == {"line", "fetch", "exec", "deaf"}
Holding == {"head", "gap", "fetch", "exec"}
Body == {"off", "new", "over"} \cup AtAwait \cup Holding
Outcome == {"none", "ok", "error", "cancelled", "timeout"}

CallRecord ==
  [mode : Mode, kind : Kind, limited : BOOLEAN,      \* limited: has a time-out
   body : Body,
   flag : {"no", "early", "late"},                   \* set: before a connection, later
   heard : BOOLEAN,
   late : BOOLEAN,                                   \* the time-out has struck
   sent : BOOLEAN,                                   \* the server has the statement
   outcome : Outcome,
   caller : {"idle", "wait", "poll", "answered", "gone"},
   answer : Outcome \cup {"not found"},
   link : {"none", "up", "down", "swept"}]           \* to the client: the token

CallTypeOK == x \in [Call -> CallRecord]

\* A spawned call is one of a request with a token, a direct call of one without.
CallInit ==
  x \in [Call ->
    {c \in [mode : Mode, kind : Kind, limited : BOOLEAN,
            body : {"off"}, flag : {"no"}, heard : {FALSE}, late : {FALSE},
            sent : {FALSE}, outcome : {"none"},
            caller : {"idle", "gone"}, answer : {"none"}, link : {"none", "up"}] :
      /\ c.mode = "spawned" => c.link = "up"
      /\ c.mode = "direct" => c.link = "none"}]

-----------------------------------------------------------------------------
\* fire_cancel: the flag, then notify_waiters.  Nobody reads either once the task
\* is over.
Fired(c) ==
  IF c.body = "over" THEN c
  ELSE [c EXCEPT !.flag = IF @ # "no" THEN @ ELSE IF c.body \in {"new", "line"} THEN "early" ELSE "late",
                 !.heard = c.body \in {"fetch", "exec"}]

\* settle_pool: outcome, done, wake.  Only begin turns a cancellation by its own
\* time-out into one.
Settled(c, o) ==
  [c EXCEPT !.body = "over", !.heard = FALSE, !.late = FALSE,
            !.outcome = IF o = "cancelled" /\ c.late /\ c.mode = "begin" THEN "timeout" ELSE o]

Answered(c, a) == [c EXCEPT !.caller = "answered", !.answer = a, !.outcome = "none"]

\* A direct call's op has the result at once; it marks and removes its entry.
Settle(e, o) ==
  IF x[e].mode = "direct"
  THEN /\ x' = [x EXCEPT ![e] = Answered(Settled(@, o), o)]
       /\ done' = done \cup {e} /\ Remove(e) /\ UNCHANGED aged
  ELSE /\ x' = [x EXCEPT ![e] = Settled(@, o)]
       /\ done' = done \cup {e} /\ UNCHANGED <<table, aged>>

-----------------------------------------------------------------------------
\* op_db_query, op_db_exec, op_db_query_begin, op_db_exec_begin.
Begin(e) ==
  /\ x[e].caller = "idle"
  /\ Insert(e)
  /\ x' = [x EXCEPT ![e].body = "new",
                    ![e].caller = IF x[e].mode = "begin" THEN "poll" ELSE "wait"]
  /\ UNCHANGED <<aged, done, idle>>

\* The first poll: a call that is cancelled already does not run.
Enter(e) ==
  /\ x[e].body = "new"
  /\ IF x[e].kind = "deaf"
     THEN x' = [x EXCEPT ![e].body = "deaf", ![e].sent = TRUE] /\ UNCHANGED registry
     ELSE IF x[e].flag # "no" THEN Settle(e, "cancelled")
     ELSE x' = [x EXCEPT ![e].body = "line"] /\ UNCHANGED registry
  /\ UNCHANGED idle

\* pool.acquire: a query looks at the flag before it fetches, a statement
\* without rows is sent.
Acquire(e) ==
  /\ x[e].body = "line"
  /\ Take
  /\ x' = [x EXCEPT ![e] =
       IF @.kind = "query" THEN [@ EXCEPT !.body = "head"]
       ELSE [@ EXCEPT !.body = "exec", !.heard = FALSE, !.sent = TRUE]]
  /\ UNCHANGED registry

AcquireFails(e) ==
  /\ x[e].body = "line"
  /\ Settle(e, "error")
  /\ UNCHANGED idle

\* The head of query_cancelable's loop looks again: the listener may have been
\* dropped with the wake-up.
Head_blind(e) ==
  /\ x[e].body = "head"
  /\ x' = [x EXCEPT ![e].body = "gap"]
  /\ UNCHANGED <<registry, idle>>

Head(e) ==
  /\ x[e].body = "head"
  /\ IF x[e].flag # "no" THEN Settle(e, "cancelled") /\ Give
     ELSE x' = [x EXCEPT ![e].body = "gap"] /\ UNCHANGED <<registry, idle>>

\* select!: the listener is new.
Listen(e) ==
  /\ x[e].body = "gap"
  /\ x' = [x EXCEPT ![e].body = "fetch", ![e].heard = FALSE, ![e].sent = TRUE]
  /\ UNCHANGED <<registry, idle>>

\* A row wins the select, and the listener is dropped.
Row(e) ==
  /\ x[e].body = "fetch"
  /\ x' = [x EXCEPT ![e].body = "head"]
  /\ UNCHANGED <<registry, idle>>

\* The end of the rows, or as many as the byte quota admits.
LastRow(e) ==
  /\ x[e].body = "fetch"
  /\ Settle(e, "ok") /\ Give

\* The execute arm wins; success looks at the flag once more.
Executed(e) ==
  /\ x[e].body = "exec"
  /\ Settle(e, IF x[e].flag # "no" THEN "cancelled" ELSE "ok") /\ Give

DeafEnds(e) ==
  /\ x[e].body = "deaf"
  /\ Settle(e, "ok")
  /\ UNCHANGED idle

StatementFails(e) ==
  /\ x[e].body \in {"fetch", "exec", "deaf"}
  /\ Settle(e, "error")
  /\ IF x[e].body = "deaf" THEN UNCHANGED idle ELSE Give

\* The notified arm wins: the connection is closed, and so ends the statement.
Woken(e) ==
  /\ x[e].body \in {"fetch", "exec"} /\ x[e].heard
  /\ Settle(e, "cancelled") /\ Give

-----------------------------------------------------------------------------
\* statement_timeout_ms is over.  A direct call drops what it runs; a spawned
\* one cancels its task, answers and forgets it; begin's task cancels itself.
DirectTimeOut(e) ==
  /\ x[e].mode = "direct" /\ x[e].body \in AtAwait
  /\ Settle(e, "timeout")
  /\ IF x[e].body \in Holding THEN Give ELSE UNCHANGED idle

SpawnedTimeOut_quiet(e) ==
  /\ x[e].mode = "spawned" /\ x[e].caller = "wait" /\ e \notin done
  /\ x' = [x EXCEPT ![e] = Answered(@, "timeout")]
  /\ Remove(e)
  /\ UNCHANGED <<aged, done, idle>>

SpawnedTimeOut(e) ==
  /\ x[e].mode = "spawned" /\ x[e].caller = "wait" /\ e \notin done
  /\ x' = [x EXCEPT ![e] = Answered(Fired(@), "timeout")]
  /\ Remove(e)
  /\ UNCHANGED <<aged, done, idle>>

BeginTimeOut(e) ==
  /\ x[e].mode = "begin" /\ x[e].body \in AtAwait /\ ~x[e].late
  /\ x' = [x EXCEPT ![e] = [Fired(@) EXCEPT !.late = TRUE]]
  /\ UNCHANGED <<registry, idle>>

TimeOut(e) ==
  /\ x[e].limited
  /\ DirectTimeOut(e) \/ SpawnedTimeOut(e) \/ BeginTimeOut(e)

-----------------------------------------------------------------------------
\* The spawned call's op is woken (op and task share a thread, so the op listens
\* before the task can settle).
Await(e) ==
  /\ x[e].caller = "wait" /\ x[e].mode = "spawned" /\ e \in done
  /\ x' = [x EXCEPT ![e] = Answered(@, @.outcome)]
  /\ Remove(e)
  /\ UNCHANGED <<aged, done, idle>>

\* callWithCallbacks: op_db_call_poll every 100 ms until done, then take.  A sweep
\* between the two tells no more than one before both.
NotFound(e) ==
  /\ x[e].caller = "poll" /\ e \notin table
  /\ x' = [x EXCEPT ![e] = Answered(@, "not found")]
  /\ UNCHANGED <<registry, idle>>

TakeResult(e) ==
  /\ x[e].caller = "poll" /\ e \in table /\ e \in done
  /\ x' = [x EXCEPT ![e] = Answered(@, @.outcome)]
  /\ Remove(e)
  /\ UNCHANGED <<aged, done, idle>>

\* The request's own time-out or a crash of its JavaScript takes its ops along:
\* a direct call's statement goes, its entry stays; a task goes on.
Abandon(e) ==
  /\ x[e].caller \in {"wait", "poll"}
  /\ IF x[e].mode = "direct"
     THEN /\ x' = [x EXCEPT ![e].caller = "gone", ![e].body = "over"]
          /\ IF x[e].body \in Holding THEN Give ELSE UNCHANGED idle
     ELSE x' = [x EXCEPT ![e].caller = "gone"] /\ UNCHANGED idle
  /\ UNCHANGED registry

-----------------------------------------------------------------------------
\* db.cancel: ids are known to callers of begin only.
Cancel(e) ==
  /\ x[e].mode = "begin" /\ e \in table
  /\ x' = [x EXCEPT ![e] = Fired(@)]
  /\ UNCHANGED <<registry, idle>>

\* The client disconnects: axum drops the handler's future, and its guard spawns
\* cancel_by_token.  The JavaScript goes on, and may yet begin the call.
HangUp(e) ==
  /\ x[e].link = "up" /\ x[e].caller \notin {"answered", "gone"}
  /\ x' = [x EXCEPT ![e].link = "down"]
  /\ UNCHANGED <<registry, idle>>

SweepToken_all(e) ==
  /\ x[e].link = "down"
  /\ x' = [f \in Call |->
       LET c == IF f \in table \ done /\ x[f].link # "none" THEN Fired(x[f]) ELSE x[f]
       IN IF f = e THEN [c EXCEPT !.link = "swept"] ELSE c]
  /\ UNCHANGED <<registry, idle>>

SweepToken(e) ==
  /\ x[e].link = "down"
  /\ x' = [x EXCEPT ![e] =
       [(IF e \in table \ done THEN Fired(@) ELSE @) EXCEPT !.link = "swept"]]
  /\ UNCHANGED <<registry, idle>>

-----------------------------------------------------------------------------
Statement(e) ==
  \/ Row(e) \/ LastRow(e) \/ Executed(e) \/ DeafEnds(e) \/ StatementFails(e)
Task(e) ==
  \/ Enter(e) \/ Acquire(e) \/ AcquireFails(e) \/ Head(e) \/ Listen(e) \/ Woken(e)
Caller(e) == Await(e) \/ NotFound(e) \/ TakeResult(e)
World(e) == Begin(e) \/ TimeOut(e) \/ Abandon(e) \/ Cancel(e) \/ HangUp(e) \/ SweepToken(e)

CallNext == \E e \in Call : Statement(e) \/ Task(e) \/ Caller(e) \/ World(e)

\* Threads run.  The server may leave a statement without an answer for ever.
TasksRun == \A e \in Call :
  /\ WF_<<x, registry, idle>>(Task(e))
  /\ WF_<<x, registry, idle>>(Caller(e))
ServerAnswers == \A e \in Call : WF_<<x, registry, idle>>(Statement(e))
=============================================================================
