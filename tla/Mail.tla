-------------------------------- MODULE Mail --------------------------------
(***************************************************************************)
(* Mails: a request's call (bridge/mail.rs, handle_send), the engine of    *)
(* the plugin oj-mail with its bounded queue and its workers, the store    *)
(* where the host keeps what became of mails put in the queue, and the     *)
(* drain at the end of the process.  send waits for the delivery through a *)
(* future of the plugin (FfiFuture); enqueue is told that the mail is in   *)
(* the queue and its result comes later, through the host's deliver.       *)
(*                                                                         *)
(* The call, the workers and the drain are on threads of their own.  Left  *)
(* out: what is checked before a ticket is made, the owners of tickets,    *)
(* the bus, a worker that panics.                                          *)
(***************************************************************************)
EXTENDS Naturals, Sequences, FiniteSets

CONSTANTS
  Mail, Worker,
  QueueCap,    \* smtp.queue_capacity
  StoreCap     \* DEFAULT_RESULT_CAP, 1024 in the code

ASSUME MailAssumption ==
  /\ IsFiniteSet(Worker) /\ Worker # {}
  /\ QueueCap \in Nat \ {0} /\ StoreCap \in Nat \ {0}
  /\ Mail \cap {"free", "leaves", "released", "gone", "dead"} = {}   \* states of a worker

VARIABLES
  mail,        \* per mail, its call, its job and its entry in the store
  mailQueue,   \* the jobs that wait for a worker
  worker,      \* per worker, the mail it is at or its state
  tickets,     \* the mails that have an entry in the store, oldest first
  drain        \* the drain, and how many exits it has heard of

mailVars == <<mail, mailQueue, worker, tickets, drain>>

Verdicts == {"ok", "failed", "invalid"}   \* codes 0, 1 and 5
Result == {"none", "full"} \cup Verdicts \* 4: the queue was full

\* pc: submits has no sender of the queue yet, sender and known have a clone of it.
MailCall ==
  [mode : {"send", "enqueue"},
   pc : {"idle", "submits", "sender", "known", "accepted", "waits", "refused", "over"},
   answer : Result,
   job : {"none", "queued", "working", "reporting", "done", "dropped"},
   verdict : {"none"} \cup Verdicts,
   sent : BOOLEAN,                       \* the mail has gone out
   future : {"none", "pending", "ready", "closed", "freed"},
   result : Result]                      \* in the store

MailTypeOK ==
  /\ mail \in [Mail -> MailCall]
  /\ mailQueue \in Seq(Mail) /\ tickets \in Seq(Mail)
  /\ worker \in [Worker -> Mail \cup {"free", "leaves", "released", "gone", "dead"}]
  /\ drain \in [pc : {"up", "collects", "down"}, heard : 0 .. Cardinality(Worker)]

MailInit ==
  /\ mail \in [Mail ->
       {[mode |-> d, pc |-> "idle", answer |-> "none", job |-> "none", verdict |-> "none",
         sent |-> FALSE, future |-> "none", result |-> "none"] : d \in {"send", "enqueue"}}]
  /\ mailQueue = <<>> /\ tickets = <<>>
  /\ worker = [w \in Worker |-> "free"]
  /\ drain = [pc |-> "up", heard |-> 0]

Disposed == drain.pc = "down"
HoldsSender(m) == mail[m].pc \in {"sender", "known", "accepted"}
HasTicket(m) == \E i \in DOMAIN tickets : tickets[i] = m

-----------------------------------------------------------------------------
(* The store.  A result fills the ticket of its mail, once. *)
Tickets(m) ==
  LET longer == Append(tickets, m)
  IN  IF Len(longer) > StoreCap THEN Tail(longer) ELSE longer

Filled(m, r) == IF HasTicket(m) /\ mail[m].result = "none" THEN r ELSE mail[m].result

TicketAges == tickets # <<>> /\ tickets' = Tail(tickets) /\ UNCHANGED <<mail, mailQueue, worker, drain>>

-----------------------------------------------------------------------------
(* The call.  An enqueue that is refused fills its ticket itself. *)
Reserves(m) ==
  /\ mail[m].pc = "idle"
  /\ mail' = [mail EXCEPT ![m].pc = "submits"]
  /\ tickets' = IF mail[m].mode = "enqueue" THEN Tickets(m) ELSE tickets
  /\ UNCHANGED <<mailQueue, worker, drain>>

Answered(m, a) ==
  [mail[m] EXCEPT !.answer = a,
     !.pc = IF mail[m].mode = "enqueue" /\ a # "ok" THEN "refused" ELSE "over"]

TakesSender(m) ==
  /\ mail[m].pc = "submits"
  /\ mail' = [mail EXCEPT ![m] =
       IF drain.pc = "up" THEN [@ EXCEPT !.pc = "sender"] ELSE Answered(m, "failed")]
  /\ UNCHANGED <<mailQueue, worker, tickets, drain>>

LooksUpProfile(m) ==
  /\ mail[m].pc = "sender"
  /\ mail' = [mail EXCEPT ![m] =
       IF Disposed THEN Answered(m, "failed") ELSE [@ EXCEPT !.pc = "known"]]
  /\ UNCHANGED <<mailQueue, worker, tickets, drain>>

HoldsReceiver(w) == worker[w] \in Mail \cup {"free", "leaves"}

Accepted_alike(m) == [mail[m] EXCEPT !.pc = "accepted", !.job = "queued"]

Accepted(m) ==
  IF mail[m].mode = "enqueue" THEN [Answered(m, "ok") EXCEPT !.job = "queued"]
  ELSE [mail[m] EXCEPT !.pc = "accepted", !.job = "queued"]

\* try_send: a full queue refuses and never makes the caller wait.
Offers(m) ==
  /\ mail[m].pc = "known"
  /\ \/ /\ \A w \in Worker : ~HoldsReceiver(w)
        /\ mail' = [mail EXCEPT ![m] = Answered(m, "failed")]
        /\ UNCHANGED mailQueue
     \/ /\ \E w \in Worker : HoldsReceiver(w)
        /\ IF Len(mailQueue) = QueueCap
             THEN mail' = [mail EXCEPT ![m] = Answered(m, "full")] /\ UNCHANGED mailQueue
             ELSE /\ mail' = [mail EXCEPT ![m] = Accepted(m)]
                  /\ mailQueue' = Append(mailQueue, m)
  /\ UNCHANGED <<worker, tickets, drain>>

SpawnsFuture(m) ==
  /\ mail[m].pc = "accepted"
  /\ mail' = [mail EXCEPT ![m] =
       IF Disposed THEN Answered(m, "failed")
       ELSE [@ EXCEPT !.pc = "waits", !.future = "pending"]]
  /\ UNCHANGED <<mailQueue, worker, tickets, drain>>

Polls_ready(m) ==
  /\ mail[m].pc = "waits" /\ mail[m].future = "ready"
  /\ mail' = [mail EXCEPT ![m] =
       [Answered(m, IF @.job = "done" THEN @.verdict ELSE "failed") EXCEPT !.future = "freed"]]
  /\ UNCHANGED <<mailQueue, worker, tickets, drain>>

\* A future that was closed has no result to take: the call failed.
Polls(m) ==
  /\ mail[m].pc = "waits" /\ mail[m].future \in {"ready", "closed"}
  /\ mail' = [mail EXCEPT ![m] =
       [Answered(m, IF @.future = "ready" /\ @.job = "done" THEN @.verdict ELSE "failed")
          EXCEPT !.future = "freed"]]
  /\ UNCHANGED <<mailQueue, worker, tickets, drain>>

\* The request ends before the future is ready: it is freed and its result not taken.
CutsOff(m) ==
  /\ mail[m].pc = "waits"
  /\ mail' = [mail EXCEPT ![m].pc = "over", ![m].future = "freed"]
  /\ UNCHANGED <<mailQueue, worker, tickets, drain>>

FillsRefusal(m) ==
  /\ mail[m].pc = "refused"
  /\ mail' = [mail EXCEPT ![m].pc = "over", ![m].result = Filled(m, mail[m].answer)]
  /\ UNCHANGED <<mailQueue, worker, tickets, drain>>

\* The plugin's side of a future is a task of the engine's runtime.
Forwards(m) ==
  /\ mail[m].future = "pending"
  /\ \/ mail[m].job \in {"done", "dropped"} /\ mail' = [mail EXCEPT ![m].future = "ready"]
     \/ Disposed /\ mail' = [mail EXCEPT ![m].future = "closed"]
  /\ UNCHANGED <<mailQueue, worker, tickets, drain>>

-----------------------------------------------------------------------------
(* Workers. *)
Takes(w) ==
  /\ worker[w] = "free" /\ mailQueue # <<>>
  /\ worker' = [worker EXCEPT ![w] = Head(mailQueue)]
  /\ mail' = [mail EXCEPT ![Head(mailQueue)].job = "working"]
  /\ mailQueue' = Tail(mailQueue)
  /\ UNCHANGED <<tickets, drain>>

\* A delivery that fails or runs out of time may have gone out all the same.
Delivers(w) ==
  /\ worker[w] \in Mail /\ mail[worker[w]].job = "working"
  /\ \E v \in Verdicts, s \in BOOLEAN :
       /\ (v = "ok" => s) /\ (v = "invalid" => ~s)
       /\ mail' = [mail EXCEPT ![worker[w]].job = "reporting",
                               ![worker[w]].verdict = v, ![worker[w]].sent = s]
  /\ UNCHANGED <<mailQueue, worker, tickets, drain>>

Reports(w) ==
  /\ worker[w] \in Mail /\ mail[worker[w]].job = "reporting"
  /\ LET m == worker[w] IN
       mail' = [mail EXCEPT ![m].job = "done",
         ![m].result = IF mail[m].mode = "enqueue" THEN Filled(m, mail[m].verdict) ELSE @]
  /\ worker' = [worker EXCEPT ![w] = "free"]
  /\ UNCHANGED <<mailQueue, tickets, drain>>

\* recv gives None once every sender is gone, the clones of calls included.
Leaves(w) ==
  /\ worker[w] = "free" /\ mailQueue = <<>>
  /\ drain.pc # "up" /\ \A m \in Mail : ~HoldsSender(m)
  /\ worker' = [worker EXCEPT ![w] = "leaves"]
  /\ UNCHANGED <<mail, mailQueue, tickets, drain>>

\* Transports, sink and receiver go first, then the exit is signalled.
Releases(w) ==
  /\ worker[w] = "leaves"
  /\ worker' = [worker EXCEPT ![w] = "released"]
  /\ UNCHANGED <<mail, mailQueue, tickets, drain>>

Signals(w) ==
  /\ worker[w] = "released"
  /\ worker' = [worker EXCEPT ![w] = "gone"]
  /\ UNCHANGED <<mail, mailQueue, tickets, drain>>

Dropped(m) == [mail[m] EXCEPT !.job = "dropped"]

\* The runtime that shuts down drops a worker where it waits, and with the last of
\* them the jobs in the queue.
Dies(w) ==
  /\ Disposed
  /\ \/ worker[w] = "free"
     \/ worker[w] \in Mail /\ mail[worker[w]].job = "working"
  /\ worker' = [worker EXCEPT ![w] = "dead"]
  /\ LET last == \A v \in Worker \ {w} : ~HoldsReceiver(v)
         lost == {m \in Mail : worker[w] = m \/ (last /\ mail[m].job = "queued")}
     IN  /\ \E s \in BOOLEAN :
              mail' = [m \in Mail |->
                IF m \in lost
                  THEN [Dropped(m) EXCEPT !.sent = s /\ worker[w] = m] ELSE mail[m]]
         /\ mailQueue' = IF last THEN <<>> ELSE mailQueue
  /\ UNCHANGED <<tickets, drain>>

-----------------------------------------------------------------------------
(* The drain, once, when the process ends. *)
DrainStarts ==
  /\ drain.pc = "up" /\ drain' = [drain EXCEPT !.pc = "collects"]
  /\ UNCHANGED <<mail, mailQueue, worker, tickets>>

HearsExit_early ==
  /\ drain.pc = "collects"
  /\ drain.heard < Cardinality({w \in Worker : worker[w] \in {"leaves", "released", "gone"}})
  /\ drain' = [drain EXCEPT !.heard = @ + 1]
  /\ UNCHANGED <<mail, mailQueue, worker, tickets>>

HearsExit ==
  /\ drain.pc = "collects"
  /\ drain.heard < Cardinality({w \in Worker : worker[w] = "gone"})
  /\ drain' = [drain EXCEPT !.heard = @ + 1]
  /\ UNCHANGED <<mail, mailQueue, worker, tickets>>

\* All exits are in, or the time is up.
Disposes ==
  /\ drain.pc = "collects" /\ drain' = [drain EXCEPT !.pc = "down"]
  /\ UNCHANGED <<mail, mailQueue, worker, tickets>>

Calls(m) ==
  \/ TakesSender(m) \/ LooksUpProfile(m) \/ Offers(m) \/ SpawnsFuture(m) \/ Polls(m)
  \/ FillsRefusal(m)
Serves(w) ==
  \/ Takes(w) \/ Delivers(w) \/ Reports(w) \/ Leaves(w) \/ Releases(w) \/ Signals(w) \/ Dies(w)

MailNext ==
  \/ \E m \in Mail : Reserves(m) \/ Calls(m) \/ CutsOff(m) \/ Forwards(m)
  \/ \E w \in Worker : Serves(w)
  \/ TicketAges \/ DrainStarts \/ HearsExit \/ Disposes
=============================================================================
