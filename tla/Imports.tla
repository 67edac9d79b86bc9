------------------------------ MODULE Imports ------------------------------
(***************************************************************************)
(* db.import (bridge/db_import.rs): a request opens the source, registers  *)
(* the import and leaves it to a task of its actor's thread, run_import,   *)
(* which takes batches of rows from the source and inserts them: all in    *)
(* one transaction on sqlite and when it replaces the table, and else in   *)
(* one transaction per batch.  Between batches it looks whether it has     *)
(* been cancelled.                                                         *)
(*                                                                         *)
(* Rows are counted.  A transaction that does not report a commit is taken *)
(* as rolled back.  Left out: checks of the request, rendering, parsing,   *)
(* samples, the audit.                                                     *)
(***************************************************************************)
EXTENDS Naturals, FiniteSets

CONSTANTS
  Import, Tenant,
  MaxImports,   \* db_import.global_concurrency
  MaxShare,     \* db_import.per_subject_concurrency
  Rows,         \* bound: rows of a source
  Batch         \* rows of a batch

ASSUME ImportAssumption ==
  /\ IsFiniteSet(Import) /\ IsFiniteSet(Tenant)
  /\ MaxImports \in Nat /\ MaxShare \in Nat /\ Rows \in Nat /\ Batch \in Nat \ {0}

VARIABLES
  import,   \* per import, its entry in the registry
  task,     \* per import, run_import
  table,    \* per import, what is committed of it, and of what was there before
  old       \* the finished imports that are older than the time to live

importVars == <<import, task, table, old>>

Over == {"done", "failed", "cancelled"}
ImportEntry ==
  [state : {"none", "running", "swept"} \cup Over, by : Tenant, asked : BOOLEAN, rows : 0 .. Rows]

Task ==
  [pc : {"idle", "begin", "delete", "look", "collect", "insert", "commit", "close", "settle",
         "over", "lost"},
   way : {"batches", "one", "replace"},   \* one transaction or many
   skip : BOOLEAN,                        \* onError
   left : 0 .. Rows, batch : 0 .. Rows,   \* in the source; in hand
   good : 0 .. Rows,                      \* inserted in the transaction that is open
   committed : 0 .. Rows,                 \* as run_import counts
   last : BOOLEAN,                        \* the source is at its end
   lenient : BOOLEAN,                     \* an insert has failed and was skipped
   fin : Over]

ImportTypeOK ==
  /\ import \in [Import -> ImportEntry]
  /\ task \in [Import -> Task]
  /\ table \in [Import -> [stored : 0 .. Rows, cleared : BOOLEAN]]
  /\ old \subseteq Import

ImportInit ==
  /\ import \in [Import ->
       {[state |-> "none", by |-> t, asked |-> FALSE, rows |-> 0] : t \in Tenant}]
  /\ task \in [Import ->
       {[pc |-> "idle", way |-> way, skip |-> skip, left |-> Rows, batch |-> 0, good |-> 0,
         committed |-> 0, last |-> FALSE, lenient |-> FALSE, fin |-> "done"] :
           way \in {"batches", "one", "replace"}, skip \in BOOLEAN}]
  /\ table = [j \in Import |-> [stored |-> 0, cleared |-> FALSE]]
  /\ old = {}

-----------------------------------------------------------------------------
\* register, with the count of what runs, and the task: nothing is awaited between.
ImportsFull(t) ==
  LET running == {j \in Import : import[j].state = "running"} IN
  \/ Cardinality(running) >= MaxImports
  \/ Cardinality({j \in running : import[j].by = t}) >= MaxShare

OneTx(j) == task[j].way # "batches"

StartImport(j) ==
  /\ task[j].pc = "idle"
  /\ IF ImportsFull(import[j].by)
     THEN task' = [task EXCEPT ![j].pc = "over"] /\ UNCHANGED import
     ELSE /\ task' = [task EXCEPT ![j].pc = IF OneTx(j) THEN "begin" ELSE "look"]
          /\ import' = [import EXCEPT ![j].state = "running"]
  /\ UNCHANGED <<table, old>>

\* cancel, by any request of the subject: a flag that stays.
CancelImport(j) ==
  /\ import[j].state = "running" /\ ~import[j].asked
  /\ import' = [import EXCEPT ![j].asked = TRUE]
  /\ UNCHANGED <<task, table, old>>

\* The thread ends with its tasks; an open transaction goes with its connection.
LosesImport(j) ==
  /\ task[j].pc \notin {"idle", "over", "lost"}
  /\ task' = [task EXCEPT ![j].pc = "lost"]
  /\ UNCHANGED <<import, table, old>>

-----------------------------------------------------------------------------
Works(j, from, t) == task[j].pc = from /\ task' = [task EXCEPT ![j] = t]
Stops(j, from, fin) == Works(j, from, [task[j] EXCEPT !.pc = "close", !.fin = fin])

BeginsImport(j) ==
  /\ \/ Stops(j, "begin", "failed")
     \/ Works(j, "begin",
              [task[j] EXCEPT !.pc = IF task[j].way = "replace" THEN "delete" ELSE "look"])
  /\ UNCHANGED <<import, table, old>>

DeletesRows(j) ==
  /\ Stops(j, "delete", "failed") \/ Works(j, "delete", [task[j] EXCEPT !.pc = "look"])
  /\ UNCHANGED <<import, table, old>>

\* The head of the loop: cancelled, or more read than max_bytes, or the next batch.
LooksForCancel(j) ==
  /\ IF import[j].asked
     THEN Stops(j, "look", "cancelled")
     ELSE \/ Stops(j, "look", "failed")
          \/ Works(j, "look", [task[j] EXCEPT !.pc = "collect", !.batch = 0, !.last = FALSE])
  /\ UNCHANGED <<import, table, old>>

\* collect_batch, a line at a time; a bad line is fatal, or left out up to maxErrors.
CollectsRow(j) ==
  LET t == task[j] IN
  /\ t.batch < Batch
  /\ \/ t.left > 0 /\ Works(j, "collect", [t EXCEPT !.left = @ - 1, !.batch = @ + 1])
     \/ t.left > 0 /\ t.skip /\ Works(j, "collect", [t EXCEPT !.left = @ - 1])
     \/ Stops(j, "collect", "failed")
  /\ UNCHANGED <<import, table, old>>

\* The batch is full, or the source is at its end; an empty batch ends the import.
HasBatch(j) ==
  LET t == task[j] IN
  /\ t.batch = Batch \/ t.left = 0
  /\ IF t.batch = 0
     THEN Stops(j, "collect", "done")
     ELSE Works(j, "collect", [t EXCEPT !.pc = "insert", !.last = t.batch < Batch])
  /\ UNCHANGED <<import, table, old>>

\* After a batch: committed counts all of it, progress is made known.
Counted(t) ==
  [t EXCEPT !.pc = IF t.last THEN "close" ELSE "look", !.fin = "done",
            !.committed = @ + t.batch]
Progress(j) == import' = [import EXCEPT ![j].rows = task[j].committed + task[j].batch]

\* exec_rows: all rows at once, or one by one, and those that fail are left out.
InsertsBatch(j) ==
  LET t == task[j] IN
  \/ /\ Stops(j, "insert", "failed")
     /\ UNCHANGED <<import, table, old>>
  \/ \E n \in 0 .. t.batch :
       LET u == [t EXCEPT !.good = @ + n, !.lenient = @ \/ n < t.batch] IN
       /\ n < t.batch => t.skip
       /\ IF OneTx(j)
          THEN Works(j, "insert", Counted(u)) /\ Progress(j)
          ELSE Works(j, "insert", [u EXCEPT !.pc = "commit"]) /\ UNCHANGED import
       /\ UNCHANGED <<table, old>>

\* The batch's own transaction.
CommitsBatch(j) ==
  LET t == task[j] IN
  \/ /\ Stops(j, "commit", "failed")
     /\ UNCHANGED <<import, table, old>>
  \/ /\ Works(j, "commit", [Counted(t) EXCEPT !.good = 0])
     /\ table' = [table EXCEPT ![j].stored = @ + t.good]
     /\ Progress(j)
     /\ UNCHANGED old

\* The one transaction is committed if all went well, and else rolled back.
ClosesImport(j) ==
  LET t == task[j] IN
  /\ \/ /\ OneTx(j) /\ t.fin = "done"
        /\ Works(j, "close", [t EXCEPT !.pc = "settle", !.good = 0])
        /\ table' = [table EXCEPT ![j] = [stored |-> t.good, cleared |-> t.way = "replace"]]
     \/ /\ OneTx(j)
        /\ Works(j, "close", [t EXCEPT !.pc = "settle", !.good = 0, !.committed = 0,
                                       !.fin = IF @ = "done" THEN "failed" ELSE @])
        /\ UNCHANGED table
     \/ /\ ~OneTx(j)
        /\ Works(j, "close", [t EXCEPT !.pc = "settle", !.good = 0])
        /\ UNCHANGED table
  /\ UNCHANGED <<import, old>>

\* finish: the first one wins.
SettlesImport(j) ==
  LET t == task[j] IN
  /\ Works(j, "settle", [t EXCEPT !.pc = "over"])
  /\ import' = [import EXCEPT ![j] = IF @.state = "running"
                                     THEN [@ EXCEPT !.state = t.fin, !.rows = t.committed]
                                     ELSE @]
  /\ UNCHANGED <<table, old>>

-----------------------------------------------------------------------------
ImportAges(j) ==
  /\ import[j].state \in Over /\ j \notin old
  /\ old' = old \cup {j}
  /\ UNCHANGED <<import, task, table>>

\* sweep: what is over and old leaves the registry.
SweepImports ==
  /\ \E j \in old : import[j].state \in Over
  /\ import' = [j \in Import |->
       IF j \in old /\ import[j].state \in Over
       THEN [import[j] EXCEPT !.state = "swept"] ELSE import[j]]
  /\ UNCHANGED <<task, table, old>>

-----------------------------------------------------------------------------
\* Calls to the database and reads of the source return.
ImportReturns(j) ==
  BeginsImport(j) \/ DeletesRows(j) \/ LooksForCancel(j) \/ CollectsRow(j) \/ HasBatch(j)
    \/ InsertsBatch(j) \/ CommitsBatch(j) \/ ClosesImport(j) \/ SettlesImport(j)

ImportNext ==
  \/ \E j \in Import :
       StartImport(j) \/ CancelImport(j) \/ LosesImport(j) \/ ImportReturns(j) \/ ImportAges(j)
  \/ SweepImports
=============================================================================
