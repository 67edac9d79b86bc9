----------------------------- MODULE SessionStore -----------------------------
(***************************************************************************)
(* What the store behind db.session promises of the sessions in it: one    *)
(* has a place of all and one of its owner's before its connection is      *)
(* there, has its transaction from the moment it is live, and is not found *)
(* again once it has left; its transaction is ended once, before or after  *)
(* that.  Who may use a session, the order of those who wait for it and    *)
(* why it leaves (a commit, its time, a new registration of its database)  *)
(* are not visible here.                                                   *)
(***************************************************************************)
EXTENDS Naturals, FiniteSets

CONSTANTS Id, Owner, Nobody,
          Total,   \* sessions at a time
          Share    \* of them, of one owner

VARIABLES opening,  \* sessions that have their place and no connection yet
          live,     \* sessions that can be found
          by,       \* whose they are
          tx        \* what has become of the transaction of each

vars == <<opening, live, by, tx>>

Places == opening \cup live

Init ==
  /\ opening = {} /\ live = {}
  /\ by = [s \in Id |-> Nobody]
  /\ tx = [s \in Id |-> "none"]

Reserve(s, w) ==
  /\ s \notin Places /\ tx[s] = "none"
  /\ Cardinality(Places) < Total
  /\ Cardinality({t \in Places : by[t] = w}) < Share
  /\ opening' = opening \cup {s}
  /\ by' = [by EXCEPT ![s] = w]
  /\ UNCHANGED <<live, tx>>

Open(s) ==
  /\ s \in opening /\ tx[s] = "none"
  /\ opening' = opening \ {s} /\ live' = live \cup {s}
  /\ tx' = [tx EXCEPT ![s] = "open"]
  /\ UNCHANGED by

GiveUp(s) ==
  /\ s \in opening
  /\ opening' = opening \ {s}
  /\ by' = [by EXCEPT ![s] = Nobody]
  /\ UNCHANGED <<live, tx>>

Remove(s) ==
  /\ s \in live
  /\ live' = live \ {s}
  /\ by' = [by EXCEPT ![s] = Nobody]
  /\ UNCHANGED <<opening, tx>>

\* A request that is torn down may end several at once.
End(S) ==
  /\ \A s \in S : tx[s] = "open"
  /\ tx' = [s \in Id |-> IF s \in S THEN "over" ELSE tx[s]]
  /\ UNCHANGED <<opening, live, by>>

Next ==
  \/ \E s \in Id : Open(s) \/ GiveUp(s) \/ Remove(s)
  \/ \E s \in Id, w \in Owner : Reserve(s, w)
  \/ \E S \in SUBSET Id : End(S)

Spec == Init /\ [][Next]_vars
=============================================================================
