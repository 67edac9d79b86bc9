----------------------------- MODULE RowStream ------------------------------
(***************************************************************************)
(* db.stream (bridge/db_stream.rs and the iterator in bootstrap.js): a     *)
(* pump task pulls rows from the backend into a bounded channel, the       *)
(* caller's JavaScript takes them out one by one.                          *)
(*                                                                         *)
(* The pump selects between the abort and the backend, abort first; while  *)
(* it waits for room in the channel it listens to neither.  notify_one     *)
(* leaves a permit if nobody listens, notify_waiters (row cap) does not.   *)
(* Pump and caller share a thread, db.cancel comes from another.           *)
(*                                                                         *)
(* Abstracted: rows, and the end of a row's byte account (truncation ends  *)
(* the rows as the backend does, a refusal is an error row); stream budget *)
(* of client databases, which the pump holds and gives back as it does its *)
(* connection; info and progress; the checks that precede the opening.     *)
(***************************************************************************)
EXTENDS ExecRegistry

CONSTANTS
  Room,      \* DB_STREAM_CHANNEL_CAP
  RowCap,    \* max_rows of the database policy; 0: none
  Pulls      \* bound: next calls of a stream in flight

ASSUME StreamAssumption ==
  Room \in Nat \ {0} /\ RowCap \in Nat /\ Pulls \in Nat \ {0}

VARIABLE y   \* the streams

StreamRecord ==
  [pump : {"off", "line", "select", "send", "error", "over"},
   whole : BOOLEAN,                \* the backend has no more rows
   rows : 0..Room, fault : BOOLEAN,    \* in the channel; an error row after them
   permit : BOOLEAN, woken : BOOLEAN,  \* abort: notify_one, notify_waiters
   cancelled : BOOLEAN,
   delivered : 0 .. (RowCap + Pulls),
   pulls : 0..Pulls,               \* next calls that wait for a row, in line
   user : {"idle", "reads", "closing", "closed", "left"},
   told : {"nothing", "end", "error", "cancelled"}]   \* the last word of next

StreamTypeOK == y \in [Stream -> StreamRecord]

StreamInit ==
  y \in [Stream -> {[pump |-> "off", whole |-> FALSE, rows |-> 0, fault |-> FALSE,
                      permit |-> FALSE, woken |-> FALSE, cancelled |-> FALSE,
                      delivered |-> 0, pulls |-> 0, user |-> u, told |-> "nothing"] :
                       u \in {"idle", "left"}}]

Connected == {"select", "send", "error"}

-----------------------------------------------------------------------------
\* op_db_stream_open: the connection is acquired by the pump's first pull.
Open(s) ==
  /\ y[s].user = "idle"
  /\ Insert(s)
  /\ y' = [y EXCEPT ![s].pump = "line", ![s].user = "reads"]
  /\ UNCHANGED <<aged, done, idle>>

Told(s) == y[s].permit \/ y[s].woken

\* The abort wins the pump's select.  The pump drops tx and the rows' source.
Stop(s) ==
  /\ y[s].pump \in {"line", "select"} /\ Told(s)
  /\ y' = [y EXCEPT ![s].pump = "over", ![s].permit = FALSE, ![s].woken = FALSE]
  /\ IF y[s].pump = "line" THEN UNCHANGED idle ELSE Give
  /\ UNCHANGED registry

Connect(s) ==
  /\ y[s].pump = "line" /\ ~Told(s)
  /\ Take
  /\ y' = [y EXCEPT ![s].pump = "select"]
  /\ UNCHANGED registry

\* The backend yields a row, an error (no connection, byte quota), or its end.
RowComes(s) ==
  /\ y[s].pump = "select" /\ ~Told(s)
  /\ y' = [y EXCEPT ![s].pump = "send"]
  /\ UNCHANGED <<registry, idle>>

ErrorComes(s) ==
  /\ y[s].pump = "select" /\ ~Told(s)
  /\ y' = [y EXCEPT ![s].pump = "error"]
  /\ UNCHANGED <<registry, idle>>

RowsEnd(s) ==
  /\ y[s].pump = "select" /\ ~Told(s)
  /\ y' = [y EXCEPT ![s].pump = "over", ![s].whole = TRUE]
  /\ Give
  /\ UNCHANGED registry

\* tx.send waits for room; the receiver lives as long as the pump does.
Send(s) ==
  /\ y[s].pump = "send" /\ y[s].rows < Room
  /\ y' = [y EXCEPT ![s].rows = @ + 1, ![s].pump = "select"]
  /\ UNCHANGED <<registry, idle>>

SendError(s) ==
  /\ y[s].pump = "error" /\ y[s].rows < Room
  /\ y' = [y EXCEPT ![s].fault = TRUE, ![s].pump = "over"]
  /\ Give
  /\ UNCHANGED registry

\* statement_timeout_ms: drops the pump's loop if that has no step to take, but not
\* its source.
StreamTimeOut(s) ==
  /\ \/ y[s].pump = "select" /\ ~Told(s)
     \/ y[s].pump = "send" /\ y[s].rows = Room
  /\ y' = [y EXCEPT ![s].pump = "error"]
  /\ UNCHANGED <<registry, idle>>

\* No connection in time, the pool's or the statement's.
ConnectFails(s) ==
  /\ y[s].pump = "line"
  /\ y' = [y EXCEPT ![s].pump = "over", ![s].fault = TRUE]
  /\ UNCHANGED <<registry, idle>>

-----------------------------------------------------------------------------
\* abort.notify_one, which nobody can hear any more once the pump has ended.
Stopped(t) == [t EXCEPT !.permit = t.pump # "over"]

\* A last word from next sends the iterator to close.
Last(t, word) == [t EXCEPT !.told = word, !.user = IF @ = "reads" THEN "closing" ELSE @]

\* op_db_stream_next up to the lock of the receiver.
Pull(s) ==
  /\ y[s].user = "reads" /\ y[s].pulls < Pulls
  /\ y' = [y EXCEPT ![s] =
       IF s \in done THEN Last(y[s], "end")
       ELSE IF y[s].cancelled THEN Last(y[s], "cancelled")
       ELSE [y[s] EXCEPT !.pulls = @ + 1]]
  /\ UNCHANGED <<registry, idle>>

\* The first in line has the receiver, and gets a row ...
Deliver(s) ==
  LET n == IF RowCap = 0 THEN 0 ELSE y[s].delivered + 1
      full == RowCap > 0 /\ n >= RowCap
  IN /\ y[s].pulls > 0 /\ y[s].rows > 0
     /\ y' = [y EXCEPT ![s].rows = @ - 1, ![s].pulls = @ - 1, ![s].delivered = n,
                       ![s].woken = @ \/ (full /\ y[s].pump \in {"line", "select"})]
     /\ done' = IF full THEN done \cup {s} ELSE done
     /\ UNCHANGED <<table, aged, idle>>

\* ... or the error row, or the end of a channel the pump has dropped.
DeliverLast(s) ==
  /\ y[s].pulls > 0 /\ y[s].rows = 0 /\ y[s].pump = "over"
  /\ y' = [y EXCEPT ![s] =
       [Last(y[s], IF y[s].fault THEN "error" ELSE "end")
          EXCEPT !.pulls = @ - 1, !.fault = FALSE]]
  /\ UNCHANGED <<registry, idle>>

\* op_db_stream_close.
Close(s) ==
  /\ y[s].user = "closing"
  /\ y' = [y EXCEPT ![s] = [Stopped(@) EXCEPT !.user = "closed"]]
  /\ Remove(s)
  /\ UNCHANGED <<aged, done, idle>>

\* A consumer that breaks off: the iterator has no return method.
Leave(s) ==
  /\ y[s].user = "reads"
  /\ y' = [y EXCEPT ![s].user = "left"]
  /\ UNCHANGED <<registry, idle>>

\* op_db_stream_abort.
Abort(s) ==
  /\ y[s].user \in {"reads", "closing"}
  /\ y' = [y EXCEPT ![s] = Stopped(@)]
  /\ UNCHANGED <<registry, idle>>

\* db.cancel.
StreamCancel_marked(s) ==
  /\ s \in table
  /\ y' = [y EXCEPT ![s].cancelled = TRUE]
  /\ UNCHANGED <<registry, idle>>

StreamCancel(s) ==
  /\ s \in table
  /\ y' = [y EXCEPT ![s] = [Stopped(@) EXCEPT !.cancelled = TRUE]]
  /\ UNCHANGED <<registry, idle>>

-----------------------------------------------------------------------------
Backend(s) == RowComes(s) \/ ErrorComes(s) \/ RowsEnd(s)
Pump(s) == Stop(s) \/ Connect(s) \/ ConnectFails(s) \/ Send(s) \/ SendError(s)
Reader(s) == Deliver(s) \/ DeliverLast(s) \/ Close(s)
User(s) == Open(s) \/ Pull(s) \/ Leave(s) \/ Abort(s) \/ StreamCancel(s) \/ StreamTimeOut(s)

StreamNext == \E s \in Stream : Backend(s) \/ Pump(s) \/ Reader(s) \/ User(s)

\* Threads run, and the pool gives a connection or gives up.  The backend may
\* be silent, the caller may stop pulling.
PumpsRun == \A s \in Stream :
  /\ WF_<<y, registry, idle>>(Pump(s))
  /\ WF_<<y, registry, idle>>(Reader(s))
=============================================================================
