----------------------------- MODULE MCRoutePool -----------------------------
(***************************************************************************)
(* The properties of RoutePool and the instances TLC checks them on.       *)
(***************************************************************************)
EXTENDS RoutePool

-----------------------------------------------------------------------------
\* Every fire of a connection that attach took in returns, whatever the order in which
\* callers come and go, the pool is closed, reopened and staffed, and preloads fail, as
\* long as no worker is lost.  (The connections that attach turned away share the id 0,
\* whose in_flight mark Scheduler::close, or a panic, leaves in place: a frame of theirs
\* submitted to the pool that another connection reopened is held back behind that mark.)
FireReturnsIfKept ==
  [](\A w \in Worker : wpc[w] \notin {"poison", "panic", "reap"}) =>
    \A l \in Caller : reply[l] = "wait" /\ handle[l] # Zero ~> reply[l] # "wait"

\* Every fire returns: no connection waits for ever on a pool that nobody
\* serves.  ("The poisoned worker is replaced, the other connections do not
\* notice", docs/modules/03-server-http.md.)
FireReturns == \A l \in Caller : reply[l] = "wait" ~> reply[l] # "wait"
=============================================================================
