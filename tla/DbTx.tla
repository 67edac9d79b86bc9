-------------------------------- MODULE DbTx --------------------------------
(***************************************************************************)
(* db.tx (bridge/bootstrap.js over the ops of bridge/db_tx.rs): the calls  *)
(* of one request, each with a callback that runs statements.  What runs   *)
(* where is decided by one slot of the request, tx: a statement goes to    *)
(* the transaction that is in the slot when it starts, and to the pool if  *)
(* there is none; commit and rollback end what they find in the slot.      *)
(*                                                                         *)
(* One database; every statement writes.  A transaction that does not      *)
(* report a commit is taken as rolled back.  Left out: statements of the   *)
(* request outside of a callback, attached sessions.                       *)
(***************************************************************************)
EXTENDS Naturals, FiniteSets

CONSTANTS
  Tx,             \* the calls of db.tx, named as the transactions they begin
  Pool,           \* where a statement runs without a transaction
  MaxStatements   \* bound: the statements of a callback

ASSUME TxAssumption == Pool \notin Tx /\ MaxStatements \in Nat

VARIABLES
  dbTx,      \* per call of db.tx, where its script is
  slot,      \* ReqState.tx, the transaction in it or Pool
  session,   \* per transaction, what has become of it
  written,   \* per transaction and for the pool, the statements of each call it has
  poisons,   \* a failed statement makes its transaction useless (PostgreSQL)
  overlapped \* the calls that had passed the check for a nested one when another did

txVars == <<dbTx, slot, session, written, poisons, overlapped>>

Script ==
  [pc : {"idle", "begins", "runs", "awaits", "commits", "committing", "catches", "rolls", "over"},
   on : Tx \cup {Pool},              \* what its statement or its end works on
   ran : 0 .. MaxStatements,         \* statements that it was told have run
   issued : 0 .. MaxStatements,
   told : {"none", "resolved", "rejected"}]

TxTypeOK ==
  /\ dbTx \in [Tx -> Script]
  /\ slot \in Tx \cup {Pool}
  /\ session \in [Tx -> {"none", "open", "poisoned", "committed", "gone"}]
  /\ poisons \in BOOLEAN
  /\ written \in [Tx \cup {Pool} -> [Tx -> 0 .. MaxStatements]]
  /\ overlapped \subseteq Tx

TxInit ==
  /\ dbTx = [t \in Tx |->
       [pc |-> "idle", on |-> Pool, ran |-> 0, issued |-> 0, told |-> "none"]]
  /\ slot = Pool
  /\ session = [t \in Tx |-> "none"]
  /\ written = [u \in Tx \cup {Pool} |-> [t \in Tx |-> 0]]
  /\ poisons \in BOOLEAN /\ overlapped = {}

Active == {t \in Tx : dbTx[t].pc \notin {"idle", "over"}}
Goes(t, pc) == dbTx' = [dbTx EXCEPT ![t].pc = pc]
Rejected(t) == [dbTx EXCEPT ![t].pc = "over", ![t].told = "rejected"]

-----------------------------------------------------------------------------
Begins_caught(t) ==
  /\ dbTx[t].pc = "idle"
  /\ Goes(t, IF slot # Pool THEN "catches" ELSE "begins")
  /\ overlapped' = IF slot = Pool /\ Active # {} THEN overlapped \cup Active \cup {t} ELSE overlapped
  /\ UNCHANGED <<slot, session, written, poisons>>

\* The op that begins is awaited before the try: a refusal ends nothing.
Begins(t) ==
  /\ dbTx[t].pc = "idle"
  /\ IF slot # Pool
       THEN dbTx' = Rejected(t) /\ UNCHANGED overlapped
       ELSE /\ Goes(t, "begins")
            /\ overlapped' = IF Active # {} THEN overlapped \cup Active \cup {t} ELSE overlapped
  /\ UNCHANGED <<slot, session, written, poisons>>

\* The last handle of a transaction that goes takes it back.
Held(t, u) == dbTx[t].pc \in {"awaits", "committing", "rolls"} /\ dbTx[t].on = u
Unheld(u) == session[u] \in {"open", "poisoned"} /\ \A t \in Tx : ~Held(t, u)

Opens(t) ==
  /\ dbTx[t].pc = "begins"
  /\ \/ /\ slot' = t /\ Goes(t, "runs")
        /\ session' = [u \in Tx |->
             IF u = t THEN "open" ELSE IF u = slot /\ Unheld(u) THEN "gone" ELSE session[u]]
     \/ dbTx' = Rejected(t) /\ UNCHANGED <<slot, session>>
  /\ UNCHANGED <<written, poisons, overlapped>>

Issues(t) ==
  /\ dbTx[t].pc = "runs" /\ dbTx[t].issued < MaxStatements
  /\ dbTx' = [dbTx EXCEPT ![t].pc = "awaits", ![t].on = slot, ![t].issued = @ + 1]
  /\ UNCHANGED <<slot, session, written, poisons, overlapped>>

\* A transaction that was put out of the slot goes when its last statement is over.
Outlived(t, u) == u # slot /\ session[u] \in {"open", "poisoned"} /\ \A v \in Tx \ {t} : ~Held(v, u)

\* A statement that fails is caught by the callback, or ends it.
Runs(t) ==
  /\ dbTx[t].pc = "awaits"
  /\ LET u == dbTx[t].on IN
       \/ /\ u \in {Pool} \cup {v \in Tx : session[v] = "open"}
          /\ written' = [written EXCEPT ![u][t] = @ + 1]
          /\ dbTx' = [dbTx EXCEPT ![t].pc = "runs", ![t].ran = @ + 1]
          /\ session' = [v \in Tx |-> IF Outlived(t, v) THEN "gone" ELSE session[v]]
       \/ /\ \E pc \in {"runs", "catches"} : Goes(t, pc)
          /\ session' = [v \in Tx |->
               IF Outlived(t, v) THEN "gone"
               ELSE IF v = u /\ session[v] = "open" /\ poisons THEN "poisoned" ELSE session[v]]
          /\ UNCHANGED written
  /\ UNCHANGED <<slot, poisons, overlapped>>

CallbackEnds(t) ==
  /\ dbTx[t].pc = "runs"
  /\ \E pc \in {"commits", "catches"} : Goes(t, pc)
  /\ UNCHANGED <<slot, session, written, poisons, overlapped>>

\* commit and rollback take what is in the slot.
TakesSlot(t) ==
  /\ dbTx[t].pc \in {"commits", "catches"}
  /\ IF slot # Pool
       THEN /\ slot' = Pool
            /\ dbTx' = [dbTx EXCEPT ![t].on = slot,
                 ![t].pc = IF @ = "commits" THEN "committing" ELSE "rolls"]
       ELSE /\ UNCHANGED slot
            /\ IF dbTx[t].pc = "commits" THEN Goes(t, "catches") ELSE dbTx' = Rejected(t)
  /\ UNCHANGED <<session, written, poisons, overlapped>>

\* The database takes the commit of a poisoned transaction, and rolls it back.
Commits(t) ==
  /\ dbTx[t].pc = "committing"
  /\ LET u == dbTx[t].on
         alive == session[u] \in {"open", "poisoned"}
     IN  \/ /\ alive
            /\ session' = [session EXCEPT ![u] = IF @ = "open" THEN "committed" ELSE "gone"]
            /\ dbTx' = [dbTx EXCEPT ![t].pc = "over", ![t].told = "resolved"]
         \/ /\ Goes(t, "catches")
            /\ session' = IF alive THEN [session EXCEPT ![u] = "gone"] ELSE session
  /\ UNCHANGED <<slot, written, poisons, overlapped>>

RollsBack(t) ==
  /\ dbTx[t].pc = "rolls"
  /\ dbTx' = Rejected(t)
  /\ session' = [session EXCEPT ![dbTx[t].on] = IF @ = "committed" THEN @ ELSE "gone"]
  /\ UNCHANGED <<slot, written, poisons, overlapped>>

\* The request is cut off, or ends: finalize_tx takes what is in the slot, and the
\* transactions that scripts hold go with them.
RequestEnds ==
  /\ Active # {} \/ slot # Pool
  /\ dbTx' = [t \in Tx |-> [dbTx[t] EXCEPT !.pc = "over"]]
  /\ slot' = Pool
  /\ session' = [u \in Tx |-> IF session[u] \in {"open", "poisoned"} THEN "gone" ELSE session[u]]
  /\ UNCHANGED <<written, poisons, overlapped>>

TxNext ==
  \/ RequestEnds
  \/ \E t \in Tx :
       \/ Begins(t) \/ Opens(t) \/ Issues(t) \/ Runs(t) \/ CallbackEnds(t)
       \/ TakesSlot(t) \/ Commits(t) \/ RollsBack(t)
=============================================================================
