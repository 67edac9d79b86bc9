-------------------------- MODULE TransferRegistry --------------------------
(***************************************************************************)
(* What the registries of db.export and db.import promise to requests that *)
(* start a transfer, ask for it or cancel it: a transfer takes a place of  *)
(* all and one of its owner's before it works, gives both back by the one  *)
(* outcome it ends with, and is told to be cancelled only if somebody has  *)
(* asked for that.  What is moved, in what steps, and where the work waits *)
(* is not visible here; that work may vanish with the thread it runs on,   *)
(* and keeps its places then, is.                                          *)
(***************************************************************************)
EXTENDS Naturals, FiniteSets

CONSTANTS Transfer, Owner,
          Total,   \* transfers at a time
          Share    \* of them, of one owner

VARIABLES state,    \* per transfer, what its entry says
          by,       \* per transfer, its owner
          asked,    \* transfers that somebody has cancelled
          working   \* transfers that are being worked on

vars == <<state, by, asked, working>>

Outcome == {"done", "failed", "cancelled"}

Running == {j \in Transfer : state[j] = "running"}

Init ==
  /\ state = [j \in Transfer |-> "none"]
  /\ by \in [Transfer -> Owner]
  /\ asked = {} /\ working = {}

Register(j) ==
  /\ state[j] = "none"
  /\ Cardinality(Running) < Total
  /\ Cardinality({i \in Running : by[i] = by[j]}) < Share
  /\ state' = [state EXCEPT ![j] = "running"]
  /\ working' = working \cup {j}
  /\ UNCHANGED <<by, asked>>

Cancel(j) ==
  /\ j \in Running
  /\ asked' = asked \cup {j}
  /\ UNCHANGED <<state, by, working>>

\* The end of the work, and nothing else, gives a transfer its outcome.
Settle(j, end) ==
  /\ j \in working /\ state[j] = "running"
  /\ end = "cancelled" => j \in asked
  /\ state' = [state EXCEPT ![j] = end]
  /\ working' = working \ {j}
  /\ UNCHANGED <<by, asked>>

Vanish(j) ==
  /\ j \in working
  /\ working' = working \ {j}
  /\ UNCHANGED <<state, by, asked>>

\* Entries that are over may be forgotten.
Forget(S) ==
  /\ \A j \in S : state[j] \in Outcome
  /\ state' = [j \in Transfer |-> IF j \in S THEN "swept" ELSE state[j]]
  /\ UNCHANGED <<by, asked, working>>

Next ==
  \/ \E j \in Transfer : Register(j) \/ Cancel(j) \/ Vanish(j)
  \/ \E j \in Transfer, end \in Outcome : Settle(j, end)
  \/ \E S \in SUBSET Transfer : Forget(S)

Spec == Init /\ [][Next]_vars
=============================================================================
