----------------------------- MODULE Executions -----------------------------
(***************************************************************************)
(* Calls and streams together: they meet in the table of executions, where *)
(* every registration sweeps the others' finished entries, and in the      *)
(* connection pool.                                                        *)
(***************************************************************************)
EXTENDS PoolExec, RowStream

vars == <<x, y, registry, idle>>

TypeOK == RegistryTypeOK /\ CallTypeOK /\ StreamTypeOK

Init == RegistryInit /\ CallInit /\ StreamInit

Next ==
  \/ CallNext /\ UNCHANGED y
  \/ StreamNext /\ UNCHANGED x
  \/ DayPasses /\ UNCHANGED <<x, y>>

Spec == Init /\ [][Next]_vars

-----------------------------------------------------------------------------
\* What can be in the table: a call once it has begun (one whose caller is gone
\* before that never does), a stream once it has been opened.
InFlight(e) == x[e].body \notin {"off", "over"}
Begun(e) == x[e].caller # "idle" /\ (x[e].caller = "gone" => x[e].body # "off")
Opened(s) == y[s].user # "idle" /\ y[s].pump # "off"

\* Left behind by the request's own end: a direct call's statement is dropped, and
\* nobody marks or removes its entry.
Abandoned(e) == x[e].mode = "direct" /\ x[e].caller = "gone" /\ x[e].body = "over"

\* What the table says of a call and of a stream, in both directions (insert, remove,
\* and the sweep that every registration makes of the others' entries).
\* An entry is that of a call that has begun and was not answered: its statement
\* is in flight, or has settled and its result was not fetched, or the call
\* was abandoned.  Whoever has no entry was answered, or swept, as settled or a day
\* old; and as long as its statement is in flight it was answered by nothing but the
\* time-out, and swept for nothing but its age.
CallEntry(e) ==
  /\ e \in table =>
       /\ Begun(e) /\ x[e].caller # "answered"
       /\ InFlight(e) \/ e \in done \/ Abandoned(e)
  /\ e \notin table =>
       /\ Begun(e) => x[e].caller = "answered" \/ e \in done \/ e \in aged
       /\ InFlight(e) => x[e].answer = "timeout" \/ e \in aged

\* An entry is that of a stream that was opened and not closed, whether or not its
\* consumer is still there; such a stream has none only if it reached its row cap
\* or is a day old.
StreamEntry(s) ==
  /\ s \in table => Opened(s) /\ y[s].user # "closed"
  /\ s \notin table /\ Opened(s) /\ y[s].user # "closed" => s \in done \/ s \in aged

\* A hang-up and db.cancel find every execution that can be cancelled, but for those
\* named, and nothing is left over but what is named.
TableMatchesLives ==
  /\ \A e \in Call : CallEntry(e)
  /\ \A s \in Stream : StreamEntry(s)

\* A client that hangs up takes its own statements along and nobody else's
\* (cancel_by_token).
OnlyOwnHangUp ==
  \A e \in Call : x[e].mode = "spawned" /\ x[e].flag # "no" =>
    x[e].link = "swept" \/ x[e].answer = "timeout"

\* A query that is cancelled while it waits for a connection is never sent.
CancelledInLine ==
  \A e \in Call : x[e].kind = "query" /\ x[e].flag = "early" => ~x[e].sent

\* Every connection of the pool is idle or somebody's: whatever ends a statement or
\* a pump gives back the one connection it had, and none that it had not.
Holders ==
  {e \in Call : x[e].body \in Holding} \cup {s \in Stream : y[s].pump \in Connected}
ConnsAreCounted == idle + Cardinality(Holders) = Conns
=============================================================================
