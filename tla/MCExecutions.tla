---------------------------- MODULE MCExecutions ----------------------------
(***************************************************************************)
(* The properties of Executions and the instances TLC checks them on.      *)
(***************************************************************************)
EXTENDS Executions

CONSTANTS c1, c2, s1

Plain(e) == x[e].kind = "query" /\ ~x[e].limited

\* A call, and a query that a client may hang up on; or a stream, and a query that
\* is polled for.
Cast ==
  /\ x[c1].caller = "idle"
  /\ x[c1].mode = "begin" => x[c1].kind # "deaf" /\ x[c1].link = "none"
  /\ Plain(c2)
  /\ \/ x[c2].caller = "idle" /\ x[c2].mode = "spawned" /\ y[s1].user = "left"
     \/ /\ x[c2].caller = "gone" /\ x[c2].mode = "direct" /\ y[s1].user = "idle"
        /\ Plain(c1) /\ x[c1].mode = "begin"

MCInit == Init /\ Cast

MCSpec == MCInit /\ [][Next]_vars /\ TasksRun /\ ServerAnswers /\ PumpsRun

-----------------------------------------------------------------------------
\* Whoever was answered leaves no statement behind, and a cancelled query ends
\* though its rows may never do: neither the flag nor a wake-up that is lost to
\* a row keeps a connection for ever.
CancelEnds ==
  \A e \in Call :
    \/ x[e].flag # "no" /\ x[e].kind = "query"
    \/ x[e].caller = "answered" /\ x[e].answer # "not found"
    ~> x[e].body = "over"

\* A pull that waits returns once its stream is stopped, however silent the
\* backend is (op_db_stream_close, abort, db.cancel).
PullReturns ==
  \A s \in Stream : \A n \in 1..Pulls :
    y[s].pulls = n /\ (y[s].cancelled \/ y[s].user = "closed") ~> y[s].pulls # n

-----------------------------------------------------------------------------
\* "acquire, then look at cancel_requested: cancelled before it runs means it does
\* not run" (docs/superpowers/specs/2026-11-01-dbx-req11-cancel-progress-design.md).
CancelledIsNotSent ==
  \A e \in Call : x[e].kind # "deaf" /\ x[e].flag = "early" => ~x[e].sent

\* "Cancelling has to show: a silent done would make the consumer believe that it
\* has all the data" (comment on DbStreamShared.cancelled).
CancelShows ==
  [][\A s \in Stream :
       y'[s].told = "end" /\ y[s].told = "nothing" =>
         ~y[s].cancelled \/ y[s].whole \/ s \in done]_vars

\* "No leak": after close the pump gives its connection back.
ClosedIsDropped == \A s \in Stream : y[s].user = "closed" ~> y[s].pump = "over"
=============================================================================
