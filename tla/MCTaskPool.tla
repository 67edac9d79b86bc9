----------------------------- MODULE MCTaskPool -----------------------------
(***************************************************************************)
(* The properties of TaskPool and the instances TLC checks them on.        *)
(***************************************************************************)
EXTENDS TaskPool

CONSTANTS a, b

OneTask == <<a>>
TwoTasks == <<a, b>>

\* A worker that unwinds has no session to lose: teardown is promised on every
\* path that JavaScript can be run on (FR-LT-005).
NoSessionUnwound == \A t \in Thread : pc[t] = "dying" => sess[t] = {}

-----------------------------------------------------------------------------
\* shutdown_and_join returns.
JoinReturns ==
  \A s \in Stopper : stop[s] = "take" ~> stop[s] = "returned"

\* A wish to run a task is met, with its session or a failure that says why, on
\* a replacement if its worker dies, and a wish to stop it is met by the end of
\* the session; unless the wish is changed, the task deleted or the pool closed.
WishesAreMet ==
  \A n \in LongTask :
    /\ resume /\ n \in registered /\ enabled[n] ~>
         \/ Connected(n) \/ status[n] = "failed"
         \/ ~enabled[n] \/ n \notin registered \/ shutdown
    /\ n \in registered /\ ~enabled[n] ~>
         ~Connected(n) \/ enabled[n] \/ n \notin registered
=============================================================================
