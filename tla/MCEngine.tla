------------------------------ MODULE MCEngine ------------------------------
(***************************************************************************)
(* A request's JavaScript and the work it leaves behind, in five parts     *)
(* that start from one choice: the actors that run it (JsEngine), and the  *)
(* exports, the imports and the mails that it has started, and its         *)
(* transactions.  What one part does to another, cutting off a request or  *)
(* ending a thread, is in each.                                            *)
(***************************************************************************)
EXTENDS JsEngine, Exports, Imports, Mail, DbTx

CONSTANT Other     \* an import of the plain kind, for the quota

VARIABLE subject   \* "engine", "exports", "imports", "mails" or "tx"

all == <<subject, vars, exportVars, importVars, mailVars, txVars>>

MCInit ==
  /\ subject \in {"engine", "exports", "imports", "mails", "tx"}
  /\ Init /\ ExportInit /\ ImportInit /\ MailInit /\ TxInit
  /\ subject # "exports" =>
       \A j \in Export : export[j].by = CHOOSE s \in Subject : TRUE
  /\ \A j \in Import \ {Other} : subject # "imports" => task[j].way = "one" /\ task[j].skip
  /\ task[Other].way = "batches" /\ ~task[Other].skip
  /\ subject # "mails" => \A m \in Mail : mail[m].mode = "send"
  /\ subject # "tx" => ~poisons
  /\ subject = "mails" => \E m \in Mail : mail[m].mode = "enqueue"

Engine(A) ==
  subject = "engine" /\ A /\ UNCHANGED <<subject, exportVars, importVars, mailVars, txVars>>
Exporting(A) ==
  subject = "exports" /\ A /\ UNCHANGED <<subject, vars, importVars, mailVars, txVars>>
Importing(A) ==
  subject = "imports" /\ A /\ UNCHANGED <<subject, vars, exportVars, mailVars, txVars>>
Mailing(A) ==
  subject = "mails" /\ A /\ UNCHANGED <<subject, vars, exportVars, importVars, txVars>>
InTx(A) ==
  subject = "tx" /\ A /\ UNCHANGED <<subject, vars, exportVars, importVars, mailVars>>

MCNext ==
  \/ Engine(Next) \/ Exporting(ExportNext) \/ Importing(ImportNext)
  \/ Mailing(MailNext) \/ InTx(TxNext)

\* The silent cursor of an export may never give a row or end; select hears a cancel
\* all the same, as it polls its arms in random order.
MCSpec ==
  /\ MCInit /\ [][MCNext]_all
  /\ \A r \in Request : SF_all(Engine(Client(r)))
  /\ \A a \in Actor :
       WF_all(Engine(Thread(a))) /\ WF_all(Engine(Watch(a))) /\ WF_all(Engine(Host(a)))
  /\ \A j \in Export :
       WF_all(Exporting(ExportReturns(j))) /\ WF_all(Exporting(HearsCancel(j)))
  /\ \A j \in Import : WF_all(Importing(ImportReturns(j)))
  /\ \A m \in Mail : WF_all(Mailing(Calls(m))) /\ WF_all(Mailing(Forwards(m)))
  /\ \A w \in Worker : WF_all(Mailing(Serves(w)))

-----------------------------------------------------------------------------
WorkingExports == {j \in Export : pump[j].pc \notin {"idle", "over", "lost"}}
WorkingImports == {j \in Import : task[j].pc \notin {"idle", "over", "lost"}}

\* The quotas bound what really works, cancelled or not ("registering takes a place,
\* the final state gives it back", comment in op_db_export), and final states are
\* true: an export that is done has its artefact and a cancelled one has none; an
\* import has stored the rows it reports, and all or nothing if it has one
\* transaction.  Left aside: what inserts that failed and were skipped add to rows,
\* and an artefact of which the last chunk was lost.
TransfersAreTrue ==
  /\ Cardinality(WorkingExports) <= MaxExports /\ Cardinality(WorkingImports) <= MaxImports
  /\ \A s \in Subject : Cardinality({j \in WorkingExports : export[j].by = s}) <= MaxOwn
  /\ \A t \in Tenant : Cardinality({j \in WorkingImports : import[j].by = t}) <= MaxShare
  /\ \A j \in Export :
       /\ export[j].state = "done" => blob[j] \in {"whole", "torn"}
       /\ export[j].state = "cancelled" => blob[j] \in {"none", "parts"}
  /\ \A j \in Import :
       /\ import[j].state \in Over /\ ~task[j].lenient => import[j].rows = table[j].stored
       /\ OneTx(j) /\ import[j].state \in {"failed", "cancelled"} =>
            table[j] = [stored |-> 0, cleared |-> FALSE]

\* What calls and tickets tell of a mail is true: it has gone out if they say so, and
\* has not if the queue was full or the mail invalid; a ticket tells what the worker
\* found once the queue had taken the mail, and is filled when worker and call are
\* through with it ("the completion may come before submit returns", handle_send).
MailsAreTrue ==
  \A m \in Mail :
    /\ "ok" \in {mail[m].verdict, mail[m].result} => mail[m].sent
    /\ mail[m].mode = "send" /\ mail[m].answer = "ok" => mail[m].sent
    /\ {mail[m].answer, mail[m].result} \cap {"full", "invalid"} # {} => ~mail[m].sent
    /\ mail[m].job # "none" => mail[m].result \in {"none", mail[m].verdict}
    /\ mail[m].pc = "over" /\ mail[m].job \in {"none", "done"} /\ HasTicket(m) =>
         mail[m].result # "none"

\* A drain that has heard every worker has lost no mail that the queue had taken, and
\* none of them holds a transport or can still report ("the order is the contract",
\* comment in with_rt): the transports go within the runtime.
DrainIsGraceful ==
  Disposed /\ drain.heard = Cardinality(Worker) =>
    /\ \A w \in Worker : worker[w] = "gone"
    /\ \A m \in Mail : mail[m].job \in {"none", "done"}

\* db.tx is all or nothing ("commit on resolve, rollback on throw", comment above
\* tx in bootstrap.js): a call that resolves has committed the statements it was
\* told have run, one that rejects has committed none, and nothing of either is
\* anywhere else, whatever fails and though another call is refused meanwhile ("at
\* most one per request; nested is an error", docs/devkit/api-manual.md).  Left
\* aside: calls that overlap, and a failure caught where it poisons.
TxIsAtomic ==
  \A t \in Tx \ overlapped :
    /\ dbTx[t].told = "resolved" =>
         \/ session[t] = "committed" /\ written[t][t] = dbTx[t].ran
         \/ poisons /\ dbTx[t].ran < dbTx[t].issued
    /\ dbTx[t].told = "rejected" => session[t] # "committed"
    /\ \A u \in ({Pool} \cup Tx) \ {t} : written[u][t] = 0

\* What requests leave behind is what its entries tell: exports and imports by their
\* registries, mails by calls, tickets and the drain, transactions by their calls.
EntriesAreTrue == TransfersAreTrue /\ MailsAreTrue /\ DrainIsGraceful /\ TxIsAtomic

\* What the registries promise to those who start, watch and cancel transfers.
ExportRegistry == INSTANCE TransferRegistry WITH
  Transfer <- Export, Owner <- Subject, Total <- MaxExports, Share <- MaxOwn,
  state <- [j \in Export |-> export[j].state],
  by <- [j \in Export |-> export[j].by],
  asked <- {j \in Export : export[j].asked},
  working <- WorkingExports

ImportRegistry == INSTANCE TransferRegistry WITH
  Transfer <- Import, Owner <- Tenant, Total <- MaxImports, Share <- MaxShare,
  state <- [j \in Import |-> import[j].state],
  by <- [j \in Import |-> import[j].by],
  asked <- {j \in Import : import[j].asked},
  working <- WorkingImports

\* Exports and imports implement it: a place is taken before the work and given back
\* by its end, the first outcome is the only one, and nothing is called cancelled that
\* nobody has cancelled, wherever the cancel meets the work ("the first one wins",
\* finish of both registries).
KeepsRegistries == ExportRegistry!Spec /\ ImportRegistry!Spec

AtRest ==
  /\ \A j \in Export : export[j].asked => export[j].state # "running" \/ pump[j].pc = "lost"
  /\ \A j \in Import : import[j].state # "running" \/ task[j].pc = "lost"
  /\ \A m \in Mail : mail[m].pc \in {"idle", "over"} /\ mail[m].job \in {"none", "done", "dropped"}

\* What requests leave behind comes to an end.  An export that is cancelled ends, at
\* whatever step the cancel meets it and however silent its cursor, and an import ends
\* with its source, as long as calls to the database return and the thread lives.  A
\* call that sends a mail returns, and a mail that the queue has taken is worked off,
\* or dropped by a drain out of time.  Each is started once and ends for good, so
\* that they are all at rest in the end says that each of them ends.
TransfersEnd == <>[]AtRest
=============================================================================
