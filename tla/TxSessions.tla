----------------------------- MODULE TxSessions -----------------------------
(***************************************************************************)
(* Transactions that outlive a request (db.session.*, bridge/db_session):  *)
(* the process-wide table of sessions with its quota, the calls of several *)
(* requests that share a session and queue on its lock, the reaper that    *)
(* rolls expired sessions back, and the registry of client databases that  *)
(* replaces a connection under them.                                       *)
(*                                                                         *)
(* Each request is the event loop of one thread; its calls interleave at   *)
(* every await.  Two calls of one request overlap when its JavaScript does *)
(* not await the first.  The calls of different requests, the reaper and   *)
(* re-registration run on threads of their own.                            *)
(*                                                                         *)
(* Abstracted: one alias and its connections, numbered by registration; an *)
(* id is a number, a caller either owns a session or gets "not found" and  *)
(* changes nothing; db.tx (excluded both ways by begin and attach),        *)
(* permissions, read-only sessions and forbidden statements, which refuse  *)
(* a call before it touches a session; what a caller is told of a session  *)
(* that is gone (tombstones); audit and counters.  commit, rollback and    *)
(* close differ in what they tell the database only: each takes the        *)
(* transaction out of its connection, whatever comes of it.  A transaction *)
(* no call can reach any more is rolled back by its connection; nobody can *)
(* tell, so no action is needed for it.                                    *)
(* Time is abstracted to its effect: a live session expires at any moment  *)
(* (idle timeout or maximum lifetime, whichever is over first); touch and  *)
(* every use, which put the idle timeout off, have nothing else to show.   *)
(***************************************************************************)
EXTENDS Integers, Sequences, FiniteSets, SequencesExt

CONSTANTS
  Request,      \* event loops that make calls
  Op,           \* slots for calls in flight
  ReqOf,        \* the request each slot belongs to
  OwnerOf,      \* the subject (tenant, user) of each request
  Session,      \* ids (bounds the begins)
  Attacher,     \* the requests that attach (bounds the bindings)
  MaxSessions, MaxPerOwner,   \* config
  MaxEpoch,     \* bounds re-registrations
  Reaper, None

Owner == {OwnerOf[r] : r \in Request}

ASSUME CallersAssumption ==
  /\ ReqOf \in [Op -> Request] /\ Attacher \subseteq Request
  /\ Session \subseteq Nat /\ IsFiniteSet(Session)
  /\ None \notin Session \cup Owner /\ Reaper \notin Op
ASSUME ConfigAssumption ==
  /\ MaxSessions \in Nat \ {0} /\ MaxPerOwner \in 1..MaxSessions
  /\ MaxEpoch \in Nat

VARIABLES
  reserved,   \* ids whose begin waits for its connection (pending, pending_total)
  table,      \* ids of the live sessions
  entry,      \* what an entry records: owner, registration, connection
  expired,    \* sessions whose time is over
  txn,        \* what has become of the transaction
  line,       \* the session's lock: its holder first, then the calls that wait
  bind,       \* ReqState.session: the session a request's statements go to
  call,       \* the call in each slot
  reaper,
  epoch,      \* the registration of the alias, and its connection
  discard     \* ids discard_alias has yet to kill

tabled == <<reserved, table, expired, entry>>
vars == <<tabled, txn, line, bind, call, reaper, epoch, discard>>

-----------------------------------------------------------------------------
Statement == {"explicit", "bound"}
Ending == {"end", "close_all"}   \* end: commit, rollback or close

Idle == [pc |-> "idle", kind |-> "none", s |-> None, prev |-> None, conn |-> 0, todo |-> {}]

Epoch == 0..MaxEpoch
Entry == [owner : Owner \cup {None}, epoch : Epoch, conn : Epoch]
Call == [pc : {"idle", "look", "open", "wait", "kill", "next"},
         kind : {"none", "begin"} \cup Statement \cup Ending,
         s : Session \cup {None}, prev : Session \cup {None},
         conn : Epoch, todo : SUBSET Session]

TypeOK ==
  /\ reserved \subseteq Session /\ table \subseteq Session /\ reserved \cap table = {}
  /\ entry \in [Session -> Entry]
  /\ txn \in [Session -> {"none", "open", "over"}]
  /\ line \in [Session -> Seq(Op \cup {Reaper})]
  /\ bind \in [Request -> Session \cup {None}]
  /\ call \in [Op -> Call]
  /\ reaper \in [pc : {"off", "tick", "reap", "roll", "kill", "lost"},
                 s : Session \cup {None}, todo : SUBSET Session]
  /\ epoch \in Epoch /\ discard \subseteq Session /\ expired \subseteq Session

Blank == [owner |-> None, epoch |-> 0, conn |-> 0]

Init ==
  /\ reserved = {} /\ table = {}
  /\ entry = [s \in Session |-> Blank]
  /\ txn = [s \in Session |-> "none"]
  /\ line = [s \in Session |-> <<>>]
  /\ bind = [r \in Request |-> None]
  /\ call = [o \in Op |-> Idle]
  /\ reaper = [pc |-> "off", s |-> None, todo |-> {}]
  /\ epoch = 0 /\ discard = {} /\ expired = {}

-----------------------------------------------------------------------------
\* The queue q without the members of S.
Without(q, S) ==
  LET kept[n \in 0..Len(q)] ==
        IF n = 0 THEN <<>>
        ELSE IF q[n] \in S THEN kept[n - 1] ELSE Append(kept[n - 1], q[n])
  IN  kept[Len(q)]

\* A call that is not at an await keeps its thread.
AtAwait(c) == c.pc \in {"idle", "open", "wait"}
HasThread(o) == \A p \in Op \ {o} : ReqOf[p] = ReqOf[o] => AtAwait(call[p])
At(o, pc) == call[o].pc = pc /\ HasThread(o)

Me(o) == OwnerOf[ReqOf[o]]
Returns(o) == call' = [call EXCEPT ![o] = Idle]

\* Variant: the registration is not compared.
Usable_anyRegistration(o, s) == s \in table /\ entry[s].owner = Me(o) /\ s \notin expired

\* lookup_entry finds the session of the caller; what it then says of it.
Finds(o, s) == s \in table /\ entry[s].owner = Me(o)
Usable(o, s) == Finds(o, s) /\ s \notin expired /\ entry[s].epoch = epoch

\* kill: out of the table.  Calls that hold the entry go on with its transaction;
\* the rest of it is read through the table only.
Kill(s) ==
  /\ table' = table \ {s} /\ expired' = expired \ {s}
  /\ entry' = [entry EXCEPT ![s] = Blank]
  /\ UNCHANGED reserved

\* lookup_entry refuses an expired session, or one of an old registration, and
\* kills it where it stands, without its lock.
RefuseAndKill(o, s) ==
  /\ At(o, "idle") /\ Finds(o, s)
  /\ s \in expired \/ entry[s].epoch # epoch
  /\ Kill(s)
  /\ UNCHANGED <<txn, line, bind, call, reaper, epoch, discard>>

-----------------------------------------------------------------------------
(* begin *)

\* Ids are drawn in order.
Fresh(s) == txn[s] = "none" /\ s \notin reserved /\ \A p \in Op : call[p].s # s

\* The connection is looked up first, its registration number after.
BeginLookup(o, s) ==
  /\ At(o, "idle") /\ bind[ReqOf[o]] = None
  /\ Fresh(s) /\ \A t \in Session : t < s => ~Fresh(t)
  /\ call' = [call EXCEPT ![o] = [Idle EXCEPT !.pc = "look", !.kind = "begin", !.s = s, !.conn = epoch]]
  /\ UNCHANGED <<tabled, txn, line, bind, reaper, epoch, discard>>

\* Variant: what is being opened is not counted.
Full_unreserved(owner) ==
  \/ Cardinality(table) >= MaxSessions
  \/ Cardinality({s \in table : entry[s].owner = owner}) >= MaxPerOwner

\* reserve counts what is live and what is being opened.
Full(owner) ==
  \/ Cardinality(table \cup reserved) >= MaxSessions
  \/ Cardinality({s \in table \cup reserved : entry[s].owner = owner}) >= MaxPerOwner

Reserve(o) ==
  LET s == call[o].s IN
  /\ At(o, "look")
  /\ IF Full(Me(o))
     THEN Returns(o) /\ UNCHANGED <<reserved, entry>>
     ELSE /\ reserved' = reserved \cup {s}
          /\ entry' = [entry EXCEPT ![s] = [owner |-> Me(o), epoch |-> epoch, conn |-> call[o].conn]]
          /\ call' = [call EXCEPT ![o].pc = "open"]
  /\ UNCHANGED <<expired, table, txn, line, bind, reaper, epoch, discard>>

\* The connection is there: the reservation becomes the entry.  The first begin
\* starts the reaper, on the runtime of its own thread.
BeginOk(o) ==
  LET s == call[o].s IN
  /\ At(o, "open")
  /\ reserved' = reserved \ {s} /\ table' = table \cup {s}
  /\ txn' = [txn EXCEPT ![s] = "open"]
  /\ reaper' = [reaper EXCEPT !.pc = IF @ = "off" THEN "tick" ELSE @]
  /\ Returns(o)
  /\ UNCHANGED <<expired, entry, line, bind, epoch, discard>>

BeginFails(o) ==
  /\ At(o, "open")
  /\ reserved' = reserved \ {call[o].s} /\ entry' = [entry EXCEPT ![call[o].s] = Blank]
  /\ Returns(o)
  /\ UNCHANGED <<expired, table, txn, line, bind, reaper, epoch, discard>>

-----------------------------------------------------------------------------
(* attach, detach: no await *)

Attach(o, s) ==
  LET r == ReqOf[o] IN
  /\ At(o, "idle") /\ r \in Attacher /\ Usable(o, s) /\ bind[r] \in {None, s}
  /\ bind' = [bind EXCEPT ![r] = s]
  /\ UNCHANGED <<tabled, txn, line, call, reaper, epoch, discard>>

Detach(o) ==
  LET r == ReqOf[o] IN
  /\ At(o, "idle")
  /\ bind' = [bind EXCEPT ![r] = None]
  /\ UNCHANGED <<tabled, txn, line, call, reaper, epoch, discard>>

-----------------------------------------------------------------------------
(* statements *)

\* The call queues on the session's lock; prev is the binding to put back.
Queue(o, kind, s, prev) ==
  /\ call' = [call EXCEPT ![o] = [Idle EXCEPT !.pc = "wait", !.kind = kind, !.s = s, !.prev = prev]]
  /\ line' = [line EXCEPT ![s] = Append(@, o)]

\* session.query and session.exec bind the request for the length of the
\* statement (run_attached); db.query, db.exec and the query builder go where
\* the request is bound.
StartStatement(o, kind, s) ==
  LET r == ReqOf[o] IN
  /\ At(o, "idle") /\ Usable(o, s)
  /\ IF kind = "explicit" THEN bind' = [bind EXCEPT ![r] = s]
                          ELSE bind[r] = s /\ UNCHANGED bind
  /\ Queue(o, kind, s, bind[r])
  /\ UNCHANGED <<tabled, txn, reaper, epoch, discard>>

Unbind(o) ==
  IF call[o].kind = "explicit" THEN bind' = [bind EXCEPT ![ReqOf[o]] = call[o].prev]
                               ELSE UNCHANGED bind

\* Variant: the lock is not given back.
Leave_locked(o) == line' = [line EXCEPT ![call[o].s] = @]

Holds(o) == call[o].pc = "wait" /\ Head(line[call[o].s]) = o
Leave(o) == line' = [line EXCEPT ![call[o].s] = Without(@, {o})]

\* The database answers, or the transaction is over and the call is told so.
StatementEnds(o) ==
  /\ At(o, "wait") /\ call[o].kind \in Statement /\ Holds(o)
  /\ Leave(o) /\ Unbind(o) /\ Returns(o)
  /\ UNCHANGED <<tabled, txn, reaper, epoch, discard>>

\* The time limit of the statement, or what is left of the session's life, is
\* over: kill_attached kills the session the request is bound to now.  A builder
\* statement is bounded only while it waits for the lock.
StatementTimesOut(o) ==
  LET t == bind[ReqOf[o]] IN
  /\ At(o, "wait") /\ call[o].kind \in Statement
  /\ IF t \in table THEN Kill(t) ELSE UNCHANGED tabled
  /\ Leave(o) /\ Unbind(o) /\ Returns(o)
  /\ UNCHANGED <<txn, reaper, epoch, discard>>

-----------------------------------------------------------------------------
(* commit, rollback, close, close_all *)

StartEnding(o, s) ==
  /\ At(o, "idle") /\ Usable(o, s)
  /\ Queue(o, "end", s, None)
  /\ UNCHANGED <<tabled, txn, bind, reaper, epoch, discard>>

\* The holder takes the transaction out of the entry, if it still is there, and
\* the lock goes to the next in line before the entry leaves the table.
EndTransaction(o) ==
  LET s == call[o].s IN
  /\ At(o, "wait") /\ call[o].kind \in Ending /\ Holds(o)
  /\ txn' = [txn EXCEPT ![s] = "over"]
  /\ Leave(o)
  /\ call' = [call EXCEPT ![o].pc = "kill"]
  /\ UNCHANGED <<tabled, bind, reaper, epoch, discard>>

AfterEnding(o) ==
  /\ At(o, "kill") /\ Kill(call[o].s)
  /\ IF call[o].kind = "close_all" THEN call' = [call EXCEPT ![o].pc = "next", ![o].s = None] ELSE Returns(o)
  /\ UNCHANGED <<txn, line, bind, reaper, epoch, discard>>

CloseAll(o) ==
  LET own == {s \in table : entry[s].owner = Me(o)} IN
  /\ At(o, "idle") /\ own # {}
  /\ call' = [call EXCEPT ![o] = [Idle EXCEPT !.pc = "next", !.kind = "close_all", !.todo = own]]
  /\ UNCHANGED <<tabled, txn, line, bind, reaper, epoch, discard>>

\* One of its sessions after the other; one that is in use is left to time out.
CloseNext(o) ==
  /\ At(o, "next")
  /\ IF call[o].todo = {} THEN Returns(o) /\ UNCHANGED line
     ELSE \E s \in call[o].todo :
       IF line[s] = <<>>
       THEN /\ call' = [call EXCEPT ![o].pc = "wait", ![o].s = s, ![o].todo = @ \ {s}]
            /\ line' = [line EXCEPT ![s] = <<o>>]
       ELSE call' = [call EXCEPT ![o].todo = @ \ {s}] /\ UNCHANGED line
  /\ UNCHANGED <<tabled, txn, bind, reaper, epoch, discard>>

-----------------------------------------------------------------------------
(* the request ends, or its runtime is dropped with its calls *)

RequestEnds(r) ==
  /\ \A o \in Op : ReqOf[o] = r => call[o] = Idle
  /\ bind[r] # None
  /\ bind' = [bind EXCEPT ![r] = None]
  /\ UNCHANGED <<tabled, txn, line, call, reaper, epoch, discard>>

\* A handler that throws, times out or runs out of memory takes its pending
\* calls with it, wherever they wait: a reservation stays, a lock is released,
\* an ending that had begun is cut off, and nobody kills the session.
Terminate(r) ==
  LET gone == {o \in Op : ReqOf[o] = r /\ call[o].pc # "idle"}
      cut == {call[o].s : o \in {p \in gone : Holds(p) /\ call[p].kind \in Ending}} IN
  /\ gone # {} /\ \A o \in gone : AtAwait(call[o])
  /\ txn' = [s \in Session |-> IF s \in cut THEN "over" ELSE txn[s]]
  /\ line' = [s \in Session |-> Without(line[s], gone)]
  /\ call' = [o \in Op |-> IF o \in gone THEN Idle ELSE call[o]]
  /\ bind' = [bind EXCEPT ![r] = None]
  /\ UNCHANGED <<tabled, reaper, epoch, discard>>

-----------------------------------------------------------------------------
(* the reaper *)

ReapTick ==
  LET due == table \cap expired IN
  /\ reaper.pc = "tick" /\ due # {}
  /\ reaper' = [reaper EXCEPT !.pc = "reap", !.todo = due]
  /\ UNCHANGED <<tabled, txn, line, bind, call, epoch, discard>>

\* Variant: the reaper does not ask whether the session is in use.
ReapNext_busy ==
  /\ reaper.pc = "reap"
  /\ IF reaper.todo = {} THEN reaper' = [reaper EXCEPT !.pc = "tick"] /\ UNCHANGED line
     ELSE \E s \in reaper.todo :
       /\ reaper' = [pc |-> "roll", s |-> s, todo |-> reaper.todo \ {s}]
       /\ line' = [line EXCEPT ![s] = Append(@, Reaper)]
  /\ UNCHANGED <<tabled, txn, bind, call, epoch, discard>>

\* A session somebody uses is left for its own time limit.
ReapNext ==
  /\ reaper.pc = "reap"
  /\ IF reaper.todo = {} THEN reaper' = [reaper EXCEPT !.pc = "tick"] /\ UNCHANGED line
     ELSE \E s \in reaper.todo :
       IF line[s] = <<>>
       THEN /\ reaper' = [pc |-> "roll", s |-> s, todo |-> reaper.todo \ {s}]
            /\ line' = [line EXCEPT ![s] = <<Reaper>>]
       ELSE reaper' = [reaper EXCEPT !.todo = @ \ {s}] /\ UNCHANGED line
  /\ UNCHANGED <<tabled, txn, bind, call, epoch, discard>>

ReapRollback ==
  LET s == reaper.s IN
  /\ reaper.pc = "roll"
  /\ txn' = [txn EXCEPT ![s] = "over"]
  /\ line' = [line EXCEPT ![s] = Without(@, {Reaper})]
  /\ reaper' = [reaper EXCEPT !.pc = "kill"]
  /\ UNCHANGED <<tabled, bind, call, epoch, discard>>

\* Variant: the transaction is rolled back, the entry forgotten in the table.
ReapKill_kept ==
  /\ reaper.pc = "kill"
  /\ reaper' = [reaper EXCEPT !.pc = "reap", !.s = None]
  /\ UNCHANGED <<tabled, txn, line, bind, call, epoch, discard>>

ReapKill ==
  /\ reaper.pc = "kill" /\ Kill(reaper.s)
  /\ reaper' = [reaper EXCEPT !.pc = "reap", !.s = None]
  /\ UNCHANGED <<txn, line, bind, call, epoch, discard>>

\* The thread that started the reaper ends (a frame worker retires, a task
\* thread stops): its runtime drops the reaper at an await; no begin starts
\* another.
ReaperLost ==
  LET s == reaper.s IN
  /\ reaper.pc \in {"tick", "roll"}
  /\ IF reaper.pc = "roll"
     THEN /\ txn' = [txn EXCEPT ![s] = "over"]
          /\ line' = [line EXCEPT ![s] = Without(@, {Reaper})]
     ELSE UNCHANGED <<txn, line>>
  /\ reaper' = [pc |-> "lost", s |-> None, todo |-> {}]
  /\ UNCHANGED <<tabled, bind, call, epoch, discard>>

-----------------------------------------------------------------------------
(* the alias is registered anew (or deleted): new connection, then discard_alias *)

ReRegister ==
  /\ discard = {} /\ epoch < MaxEpoch
  /\ epoch' = epoch + 1 /\ discard' = table
  /\ UNCHANGED <<tabled, txn, line, bind, call, reaper>>

DiscardNext ==
  \E s \in discard :
    /\ Kill(s) /\ discard' = discard \ {s}
    /\ UNCHANGED <<txn, line, bind, call, reaper, epoch>>

Expire(s) ==
  /\ s \in table \ expired
  /\ expired' = expired \cup {s}
  /\ UNCHANGED <<reserved, table, entry, txn, line, bind, call, reaper, epoch, discard>>

-----------------------------------------------------------------------------
Begin(o) == (\E s \in Session : BeginLookup(o, s)) \/ Reserve(o) \/ BeginOk(o) \/ BeginFails(o)

Use(o) ==
  \/ Detach(o)
  \/ \E s \in Session :
       \/ RefuseAndKill(o, s) \/ Attach(o, s)
       \/ \E k \in Statement : StartStatement(o, k, s)

End(o) ==
  \/ \E s \in Session : StartEnding(o, s)
  \/ CloseAll(o)

\* A call that is under way goes on.
Proceed(o) ==
  StatementEnds(o) \/ StatementTimesOut(o) \/ EndTransaction(o) \/ AfterEnding(o) \/ CloseNext(o)

Reap == ReapTick \/ ReapNext \/ ReapRollback \/ ReapKill

Next ==
  \/ \E o \in Op : Begin(o) \/ Use(o) \/ End(o) \/ Proceed(o)
  \/ \E r \in Request : RequestEnds(r) \/ Terminate(r)
  \/ Reap \/ ReaperLost \/ ReRegister \/ DiscardNext
  \/ \E s \in Session : Expire(s)

Spec == Init /\ [][Next]_vars

\* Threads go on, databases answer a begin, and the statements of session.query
\* and session.exec are bounded by what is left of the session's life.  What a
\* bound request sends may be a builder statement, which nothing bounds once it
\* has the lock; neither Terminate nor Expire has to happen.
Answered(o) ==
  \/ Reserve(o) \/ BeginOk(o) \/ BeginFails(o)
  \/ call[o].kind = "explicit" /\ (StatementEnds(o) \/ StatementTimesOut(o))
  \/ EndTransaction(o) \/ AfterEnding(o) \/ CloseNext(o)

Fairness ==
  /\ \A o \in Op : WF_vars(Answered(o))
  /\ WF_vars(Reap) /\ WF_vars(DiscardNext)

FairSpec == Spec /\ Fairness
-----------------------------------------------------------------------------
(* What the sessions promise *)

\* The limits of the configuration hold for the sessions that live and the ones
\* being opened together, over all and for each subject, however many begins
\* wait for their connections at once.
WithinQuota ==
  /\ Cardinality(table \cup reserved) <= MaxSessions
  /\ \A w \in Owner : Cardinality({s \in table \cup reserved : entry[s].owner = w}) <= MaxPerOwner

\* A transaction is ended once, and by the one that holds the session's lock: a
\* call that ends it or the reaper, never under a statement that runs on it.
OnlyHolderEnds ==
  [][\A s \in Session : txn[s] = "open" /\ txn'[s] # "open" =>
       /\ txn'[s] = "over" /\ line[s] # <<>>
       /\ Head(line[s]) # Reaper => call[Head(line[s])].kind \in Ending]_vars

Joins(o, s) == o \notin ToSet(line[s]) /\ o \in ToSet(line'[s])

\* No statement and no commit joins the line of a session whose alias has been
\* registered anew, though the session may still be in the table: a begin that
\* was under way puts it there after discard_alias.  (A begin that read its
\* connection before and the registration after the change is the exception.)
OldIsRefused ==
  [][\A o \in Op, s \in Session :
       Joins(o, s) /\ call'[o].kind # "close_all" =>
         entry[s].conn = epoch \/ entry[s].conn < entry[s].epoch]_vars

\* A statement of a bound request holds the lock: nothing limits its time.
Unbounded(s) == line[s] # <<>> /\ \E o \in Op : Head(line[s]) = o /\ call[o].kind = "bound"

\* An expired session leaves the table, whoever uses it at the moment: the reaper
\* ends it, unless it is lost, or finds close_all at it (a caller that is dropped
\* there each time the reaper tries the lock keeps the session).
ExpiredGoes ==
  \A s \in Session :
    s \in table \cap expired ~>
      \/ s \notin table \/ reaper.pc = "lost" \/ Unbounded(s)
      \/ \E o \in Op : call[o].kind = "close_all" /\ call[o].s = s

\* Every call returns: a commit gets the lock, a begin its connection, close_all
\* waits for nobody.
CallReturns ==
  \A o \in Op :
    call[o] # Idle ~> call[o] = Idle \/ \E s \in Session : call[o].s = s /\ Unbounded(s)

-----------------------------------------------------------------------------
\* The table and the reservations, seen as the store of SessionStore.
Owners == [s \in Session |-> entry[s].owner]

Store == INSTANCE SessionStore WITH
  Id <- Session, Nobody <- None, Total <- MaxSessions, Share <- MaxPerOwner,
  opening <- reserved, live <- table, by <- Owners, tx <- txn

\* The calls, the reaper and re-registration implement it: whichever of them removes a
\* session, a second time or while another still runs on it, touches no place but its
\* own, no session comes back under its id, and its transaction is ended once.
KeepsStore == Store!Spec
=============================================================================
