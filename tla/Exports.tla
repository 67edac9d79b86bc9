------------------------------ MODULE Exports ------------------------------
(***************************************************************************)
(* db.export (bridge/db_export.rs): a request registers an export, opens   *)
(* the cursor and an upload and leaves the rest to a task of its actor's   *)
(* thread, which reads the cursor, writes the artefact and settles the     *)
(* entry.  Requests of the same subject ask for its status or cancel it.   *)
(*                                                                         *)
(* A task and the future of an op live on an actor's thread: a request     *)
(* that is cut off drops its op, a thread that ends drops its tasks, and   *)
(* nobody settles their entries ("lost").  Rows are counted; encoding,     *)
(* progress and the audit are left out.                                    *)
(***************************************************************************)
EXTENDS Naturals, FiniteSets

CONSTANTS
  Export, Subject,
  MaxExports,   \* db_export.global_concurrency
  MaxOwn,       \* db_export.per_subject_concurrency
  Length        \* bound: rows of a cursor

ASSUME ExportAssumption ==
  /\ IsFiniteSet(Export) /\ IsFiniteSet(Subject)
  /\ MaxExports \in Nat /\ MaxOwn \in Nat /\ Length \in Nat

VARIABLES
  export,   \* per export, its entry in the registry
  pump,     \* per export, its op and then its task
  blob,     \* per export, what is stored under its key
  ledger,   \* the artefacts that are to expire
  aged      \* those that are older than the time to live

exportVars == <<export, pump, blob, ledger, aged>>

Terminal == {"done", "failed", "cancelled"}
ExportEntry == [state : {"none", "running"} \cup Terminal, by : Subject, asked : BOOLEAN]

\* The select loop ends with one of these.
End == {"natural", "maxRows", "maxBytes", "error", "cancelled"}
Pump ==
  [pc : {"idle", "query", "open", "name", "read", "close", "settle", "over", "lost"},
   permit : BOOLEAN,   \* in cancel, a tokio Notify
   uploads : BOOLEAN,  \* put_stream_open gave an upload; else one put at the end
   rows : 0 .. Length, end : End, fin : Terminal]

ExportTypeOK ==
  /\ export \in [Export -> ExportEntry]
  /\ pump \in [Export -> Pump]
  /\ blob \in [Export -> {"none", "parts", "whole", "torn"}]
  /\ ledger \subseteq Export /\ aged \subseteq ledger

ExportInit ==
  /\ export \in [Export -> {[state |-> "none", by |-> s, asked |-> FALSE] : s \in Subject}]
  /\ pump = [j \in Export |->
       [pc |-> "idle", permit |-> FALSE, uploads |-> FALSE, rows |-> 0,
        end |-> "natural", fin |-> "done"]]
  /\ blob = [j \in Export |-> "none"]
  /\ ledger = {} /\ aged = {}

-----------------------------------------------------------------------------
\* register: what runs is counted under the lock of the table.
RunningOf(s) == {j \in Export : export[j].state = "running" /\ export[j].by = s}
ExportsFull(s) ==
  \/ Cardinality({j \in Export : export[j].state = "running"}) >= MaxExports
  \/ Cardinality(RunningOf(s)) >= MaxOwn

StartExport(j) ==
  /\ pump[j].pc = "idle"
  /\ IF ExportsFull(export[j].by)
     THEN pump' = [pump EXCEPT ![j].pc = "over"] /\ UNCHANGED export
     ELSE /\ pump' = [pump EXCEPT ![j].pc = "query"]
          /\ export' = [export EXCEPT ![j].state = "running"]
  /\ UNCHANGED <<blob, ledger, aged>>

\* finish: the first one wins.  Keys of artefacts go to the ledger.
Finish(j, fin) ==
  IF export[j].state = "running"
  THEN /\ export' = [export EXCEPT ![j].state = fin]
       /\ ledger' = IF fin = "done" THEN ledger \cup {j} ELSE ledger
  ELSE UNCHANGED <<export, ledger>>

\* cancel, by any request of the subject.  It reports success again and again, but
\* notifies once.
CancelExport_settled(j) ==
  /\ export[j].state = "running" /\ ~export[j].asked
  /\ export' = [export EXCEPT ![j].asked = TRUE, ![j].state = "cancelled"]
  /\ pump' = [pump EXCEPT ![j].permit = TRUE]
  /\ UNCHANGED <<blob, ledger, aged>>
CancelExport_waiters(j) ==
  /\ export[j].state = "running" /\ ~export[j].asked
  /\ export' = [export EXCEPT ![j].asked = TRUE]
  /\ pump' = [pump EXCEPT ![j].permit = pump[j].pc = "read"]
  /\ UNCHANGED <<blob, ledger, aged>>

CancelExport(j) ==
  /\ export[j].state = "running" /\ ~export[j].asked
  /\ export' = [export EXCEPT ![j].asked = TRUE]
  /\ pump' = [pump EXCEPT ![j].permit = TRUE]
  /\ UNCHANGED <<blob, ledger, aged>>

-----------------------------------------------------------------------------
\* The op: stream_query and put_stream_open are awaited with the entry running.
CursorFails(j) ==
  /\ pump[j].pc = "query"
  /\ pump' = [pump EXCEPT ![j].pc = "over"]
  /\ Finish(j, "failed")
  /\ UNCHANGED <<blob, aged>>

\* normalize_sql refuses the statement after it was registered, and nobody settles it.
RefusesStatement(j) ==
  /\ pump[j].pc = "query"
  /\ pump' = [pump EXCEPT ![j].pc = "lost"]
  /\ UNCHANGED <<export, blob, ledger, aged>>

CursorOpens(j) ==
  /\ pump[j].pc = "query"
  /\ pump' = [pump EXCEPT ![j].pc = "open"]
  /\ UNCHANGED <<export, blob, ledger, aged>>

UploadOpens(j) ==
  /\ pump[j].pc = "open"
  /\ pump' = [pump EXCEPT ![j].pc = "name", ![j].uploads = TRUE]
  /\ blob' = [blob EXCEPT ![j] = "parts"]
  /\ UNCHANGED <<export, ledger, aged>>

\* A store without streams, or one that fails, gets one put at the end.
FallsBack(j) ==
  /\ pump[j].pc = "open"
  /\ pump' = [pump EXCEPT ![j].pc = "read"]
  /\ UNCHANGED <<export, blob, ledger, aged>>

\* put_stream_filename; then the task is spawned and the op returns.
SpawnsPump(j) ==
  /\ pump[j].pc = "name"
  /\ pump' = [pump EXCEPT ![j].pc = "read"]
  /\ UNCHANGED <<export, blob, ledger, aged>>

\* The request is cut off while its op waits, or the thread ends with its tasks.
LosesExport(j) ==
  /\ pump[j].pc \in {"query", "open", "name", "read", "close", "settle"}
  /\ pump' = [pump EXCEPT ![j].pc = "lost"]
  /\ UNCHANGED <<export, blob, ledger, aged>>

-----------------------------------------------------------------------------
\* The task: select between cancel.notified() and stream.next().
ReadsRow(j) ==
  /\ pump[j].pc = "read" /\ pump[j].rows < Length
  /\ pump' = [pump EXCEPT ![j].rows = @ + 1]
  /\ UNCHANGED <<export, blob, ledger, aged>>

StopsReading(j) ==
  /\ pump[j].pc = "read"
  /\ \E end \in {"natural", "maxRows", "maxBytes", "error"} :
       /\ end = "natural" => pump[j].rows = Length
       /\ end = "maxRows" => pump[j].rows < Length
       /\ end = "maxBytes" => pump[j].rows > 0
       /\ pump' = [pump EXCEPT ![j].pc = "close", ![j].end = end]
  /\ UNCHANGED <<export, blob, ledger, aged>>

HearsCancel(j) ==
  /\ pump[j].pc = "read" /\ pump[j].permit
  /\ pump' = [pump EXCEPT ![j].pc = "close", ![j].permit = FALSE, ![j].end = "cancelled"]
  /\ UNCHANGED <<export, blob, ledger, aged>>

Settle(j, fin) == pump' = [pump EXCEPT ![j].pc = "settle", ![j].fin = fin]

\* One chunk with all rows, whose error is ignored, and the upload's end; or one put,
\* which a buffer over fallback_buffer_cap is refused.
Writes(j) ==
  /\ pump[j].pc = "close" /\ pump[j].end \in {"natural", "maxRows"}
  /\ \/ Settle(j, "done") /\ blob' = [blob EXCEPT ![j] = "whole"]
     \/ pump[j].uploads /\ Settle(j, "done") /\ blob' = [blob EXCEPT ![j] = "torn"]
     \/ Settle(j, "failed") /\ \E left \in {"none", "parts", "whole"} :  \* up to the store
          blob' = [blob EXCEPT ![j] = left]
  /\ UNCHANGED <<export, ledger, aged>>

\* Abort removes the parts; its error is ignored.
Aborts(j) ==
  /\ pump[j].pc = "close" /\ pump[j].end \notin {"natural", "maxRows"}
  /\ Settle(j, IF pump[j].end = "cancelled" THEN "cancelled" ELSE "failed")
  /\ blob' \in {blob, [blob EXCEPT ![j] = "none"]}
  /\ UNCHANGED <<export, ledger, aged>>

SettlesExport(j) ==
  /\ pump[j].pc = "settle"
  /\ pump' = [pump EXCEPT ![j].pc = "over"]
  /\ Finish(j, pump[j].fin)
  /\ UNCHANGED <<blob, aged>>

-----------------------------------------------------------------------------
ArtefactAges(j) ==
  /\ j \in ledger \ aged
  /\ aged' = aged \cup {j}
  /\ UNCHANGED <<export, pump, blob, ledger>>

\* sweep spares the keys that an entry points to, and entries are never removed.
SpareKeys == {j \in Export : export[j].state = "done"}

SweepArtefacts ==
  LET expired == (ledger \cap aged) \ SpareKeys IN
  /\ ledger' = ledger \ expired /\ aged' = aged \ expired
  /\ blob' = [j \in Export |-> IF j \in expired THEN "none" ELSE blob[j]]
  /\ UNCHANGED <<export, pump>>

-----------------------------------------------------------------------------
\* Calls to the database and to the store return.
ExportReturns(j) ==
  \/ RefusesStatement(j) \/ CursorFails(j) \/ CursorOpens(j)
  \/ UploadOpens(j) \/ FallsBack(j) \/ SpawnsPump(j)
  \/ Writes(j) \/ Aborts(j) \/ SettlesExport(j)

ExportNext ==
  \/ \E j \in Export :
       \/ StartExport(j) \/ CancelExport(j) \/ ExportReturns(j) \/ LosesExport(j)
       \/ ReadsRow(j) \/ StopsReading(j) \/ HearsCancel(j) \/ ArtefactAges(j)
  \/ SweepArtefacts
=============================================================================
