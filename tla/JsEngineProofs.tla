--------------------------- MODULE JsEngineProofs ---------------------------
(***************************************************************************)
(* Proofs that no runtime outlives its break and that time-outs reach the  *)
(* request they are meant for, and that exports, imports, mails and        *)
(* transactions are what their entries tell, for any number of each.       *)
(*                                                                         *)
(* The argument about the engine is about one thread.  Its runtime is      *)
(* killed exactly if the switch has fired in the window that is open, up   *)
(* to the swap in disarm, which makes the flag the thread's own; between   *)
(* windows the slot is empty, so the watchdog cannot strike, and a runtime *)
(* gets to a window, to checkin or into the pool only after a verdict of   *)
(* ok.                                                                     *)
(*                                                                         *)
(* Each of the other parts has an invariant of its own.  Exports and       *)
(* imports keep their quotas, as what works has an entry that is running;  *)
(* each step of a pump leaves the artefact, or the rows of the table, as   *)
(* what it does next assumes; and both tables implement the contract of    *)
(* TransferRegistry.  A transaction counts what its call counts            *)
(* unless two calls have overlapped, as a call alone has the slot to       *)
(* itself.  A mail that the queue has taken is in it or with the one       *)
(* worker that reports it, and once a worker has left, the queue is empty  *)
(* and nobody can send.                                                    *)
(***************************************************************************)
EXTENDS MCEngine, FiniteSetTheorems, TLAPS

Sound(t) ==
  /\ t.slot => t.pc \in {"js", "host", "over"}
  /\ t.pc \in {"js", "host", "over", "swap"} => (t.killed <=> t.fired)
  /\ t.pc = "judge" => (t.killed <=> t.told)
  /\ t.pc \in {"arm", "set", "final"} => ~t.killed /\ ~t.fat
  /\ t.pc = "set" => ~t.fired
  /\ t.pc = "final" => t.answer # "timeout"
  /\ t.pc \in {"drain", "reply"} => (t.answer = "timeout" <=> t.killed)
  /\ t.kept => t.pc \in {"recv", "reply"} /\ ~t.killed /\ ~t.fat

IInv == TypeOK /\ \A a \in Actor : Sound(thread[a])

-----------------------------------------------------------------------------
LEMMA Initially == Init => IInv
<1> SUFFICES ASSUME Init PROVE IInv
  OBVIOUS
<1>1. 0 \in Actor
  BY EngineAssumption DEF Actor
<1>2. TypeOK
  <2>1. call \in [Request -> CallRecord]
    BY <1>1 DEF Init, CallRecord, Answer
  <2>2. turn \in Actor
    BY <1>1 DEF Init
  <2>3. queue \in [Actor -> Seq(Request)] /\ \A a \in Actor : Len(queue[a]) <= Cap
    BY EngineAssumption DEF Init
  <2>4. thread \in [Actor -> ThreadRecord]
    BY DEF Init, ThreadRecord, Running, Answer
  <2> QED
    BY <2>1, <2>2, <2>3, <2>4 DEF TypeOK
<1>3. ASSUME NEW a \in Actor PROVE Sound(thread[a])
  BY DEF Init, Sound
<1> QED
  BY <1>2, <1>3 DEF IInv

\* A step of one thread needs to be looked at on that thread alone.
LEMMA OneThread ==
  ASSUME IInv, NEW a \in Actor, NEW t, t \in ThreadRecord, Sound(t),
         thread' = [thread EXCEPT ![a] = t],
         call' \in [Request -> CallRecord],
         turn' \in Actor,
         queue' \in [Actor -> Seq(Request)],
         \A b \in Actor : Len(queue'[b]) <= Cap
  PROVE  IInv'
<1>1. thread' \in [Actor -> ThreadRecord]
  BY DEF IInv, TypeOK
<1>2. TypeOK'
  BY <1>1 DEF TypeOK
<1>3. ASSUME NEW b \in Actor PROVE Sound(thread'[b])
  <2>1. CASE b = a
    BY <2>1 DEF IInv, TypeOK
  <2>2. CASE b # a
    BY <2>2 DEF IInv, TypeOK
  <2> QED
    BY <2>1, <2>2
<1>4. (\A b \in Actor : Sound(thread[b]))'
  BY <1>3
<1> QED
  BY <1>2, <1>4 DEF IInv

LEMMA OwnStep ==
  ASSUME IInv, NEW a \in Actor, NEW from, NEW t, Step(a, from, t),
         thread[a] \in ThreadRecord /\ Sound(thread[a]) /\ thread[a].pc = from
           => t \in ThreadRecord /\ Sound(t)
  PROVE  IInv'
<1>1. thread[a] \in ThreadRecord /\ Sound(thread[a]) /\ thread[a].pc = from
  BY DEF IInv, TypeOK, Step
<1>2. thread' = [thread EXCEPT ![a] = t] /\ UNCHANGED <<call, turn, queue>>
  BY DEF Step
<1> QED
  BY <1>1, <1>2, OneThread DEF IInv, TypeOK

-----------------------------------------------------------------------------
\* Boots and handlers, and the windows around them.
LEMMA RunKeeps ==
  ASSUME IInv, NEW a \in Actor,
         Make(a) \/ Arm(a) \/ Set(a) \/ Handler(a) \/ Unwinds(a) \/ HostReturns(a)
  PROVE  IInv'
<1>1. CASE Make(a)
  BY <1>1, OwnStep DEF Make, Go, ThreadRecord, Sound
<1>2. CASE Arm(a)
  BY <1>2, OwnStep DEF Arm, ThreadRecord, Sound
<1>3. CASE Set(a)
  BY <1>3, OwnStep DEF Set, ThreadRecord, Running, Sound
<1>4. CASE Ends(a)
  <2>1. PICK raw \in {"ok", "error"} :
          Step(a, "js", [thread[a] EXCEPT !.pc = "over", !.raw = raw])
    BY <1>4 DEF Ends
  <2> QED
    BY <2>1, OwnStep DEF ThreadRecord, Sound
<1>5. CASE Waits(a)
  BY <1>5, OwnStep DEF Waits, Go, ThreadRecord, Running, Sound
<1>6. CASE HeapFull(a)
  BY <1>6, OwnStep DEF HeapFull, ThreadRecord, Sound
<1>7. CASE Unwinds(a)
  BY <1>7, OwnStep DEF Unwinds, ThreadRecord, Sound
<1>8. CASE HostReturns(a)
  BY <1>8, OwnStep DEF HostReturns, Go, ThreadRecord, Running, Sound
<1> QED
  BY <1>1, <1>2, <1>3, <1>4, <1>5, <1>6, <1>7, <1>8 DEF Handler

\* From disarm to the answer.
LEMMA VerdictKeeps ==
  ASSUME IInv, NEW a \in Actor, Clear(a) \/ Swap(a) \/ Judge(a) \/ Drained(a) \/ Finalized(a)
  PROVE  IInv'
<1>1. CASE Clear(a)
  BY <1>1, OwnStep DEF Clear, ThreadRecord, Sound
<1>2. CASE Swap(a)
  BY <1>2, OwnStep DEF Swap, ThreadRecord, Sound
<1>3. CASE Judge(a)
  <2> DEFINE v == Verdict(thread[a])
             t == [thread[a] EXCEPT !.answer = v]
             u == IF thread[a].window = "boot"
                  THEN IF v = "ok" THEN [thread[a] EXCEPT !.pc = "arm", !.window = "job"]
                       ELSE [t EXCEPT !.pc = "drain"]
                  ELSE [t EXCEPT !.pc = IF v = "ok" THEN "final" ELSE "reply"]
  <2>1. Step(a, "judge", u)
    BY <1>3 DEF Judge
  <2>2. ASSUME thread[a] \in ThreadRecord, Sound(thread[a]), thread[a].pc = "judge"
        PROVE  u \in ThreadRecord /\ Sound(u)
    <3>1. /\ v \in {"ok", "error", "timeout", "oom"}
          /\ v = "timeout" <=> thread[a].killed
          /\ v = "ok" => ~thread[a].killed /\ ~thread[a].fat
      BY <2>2 DEF Verdict, ThreadRecord, Sound
    <3>2. ~thread[a].slot /\ ~thread[a].kept
      BY <2>2 DEF Sound
    <3> HIDE DEF v
    <3>3. CASE thread[a].window = "boot" /\ v = "ok"
      BY <2>2, <3>1, <3>2, <3>3 DEF ThreadRecord, Sound
    <3>4. CASE thread[a].window = "boot" /\ v # "ok"
      BY <2>2, <3>1, <3>2, <3>4 DEF ThreadRecord, Answer, Sound
    <3>5. CASE thread[a].window # "boot" /\ v = "ok"
      BY <2>2, <3>1, <3>2, <3>5 DEF ThreadRecord, Answer, Sound
    <3>6. CASE thread[a].window # "boot" /\ v # "ok"
      BY <2>2, <3>1, <3>2, <3>6 DEF ThreadRecord, Answer, Sound
    <3> QED
      BY <3>3, <3>4, <3>5, <3>6
  <2> HIDE DEF u
  <2> QED
    BY <2>1, <2>2, OwnStep
<1>4. CASE Drained(a)
  BY <1>4, OwnStep DEF Drained, Go, ThreadRecord, Sound
<1>5. CASE Finalized(a)
  BY <1>5, OwnStep DEF Finalized, ThreadRecord, Sound
<1> QED
  BY <1>1, <1>2, <1>3, <1>4, <1>5

\* The watchdog strikes only while the slot is taken.
LEMMA WatchKeeps == ASSUME IInv, NEW a \in Actor, Watch(a) PROVE IInv'
<1> DEFINE t == [thread[a] EXCEPT !.fired = TRUE, !.killed = TRUE]
<1>1. thread[a] \in ThreadRecord /\ Sound(thread[a]) /\ thread[a].slot
  BY DEF IInv, TypeOK, Watch
<1>2. t \in ThreadRecord /\ Sound(t)
  BY <1>1 DEF ThreadRecord, Sound
<1>3. thread' = [thread EXCEPT ![a] = t]
  BY DEF Watch, IInv, TypeOK
<1> QED
  BY <1>2, <1>3, OneThread DEF Watch, IInv, TypeOK

LEMMA ReceiveKeeps == ASSUME IInv, NEW a \in Actor, Receive(a) PROVE IInv'
<1> DEFINE s == [thread[a] EXCEPT !.job = Head(queue[a]), !.pc = "arm", !.kept = FALSE]
           t == IF thread[a].kept THEN [s EXCEPT !.window = "job"]
                ELSE [s EXCEPT !.window = IF Boots THEN "boot" ELSE "job",
                               !.killed = FALSE, !.fat = FALSE]
<1>1. /\ thread[a] \in ThreadRecord /\ Sound(thread[a]) /\ thread[a].pc = "recv"
      /\ queue[a] \in Seq(Request) /\ queue[a] # <<>> /\ Len(queue[a]) <= Cap
  BY DEF IInv, TypeOK, Receive
<1>2. Head(queue[a]) \in Request /\ Tail(queue[a]) \in Seq(Request) /\ Len(Tail(queue[a])) <= Cap
  BY <1>1, EngineAssumption
<1>3. t \in ThreadRecord /\ Sound(t)
  <2>1. CASE thread[a].kept
    BY <1>1, <1>2, <2>1 DEF ThreadRecord, Sound
  <2>2. CASE ~thread[a].kept
    BY <1>1, <1>2, <2>2 DEF ThreadRecord, Sound
  <2> QED
    BY <2>1, <2>2
<1>4. thread' = [thread EXCEPT ![a] = t]
  BY DEF Receive, IInv, TypeOK
<1>5. queue' \in [Actor -> Seq(Request)] /\ \A b \in Actor : Len(queue'[b]) <= Cap
  BY <1>2 DEF Receive, IInv, TypeOK
<1> HIDE DEF t
<1> QED
  BY <1>3, <1>4, <1>5, OneThread DEF Receive, IInv, TypeOK

\* Answering a request leaves a call of the right type.
LEMMA AnsweredCall ==
  ASSUME NEW c \in CallRecord, NEW x \in Answer
  PROVE  [c EXCEPT !.at = "answered", !.answer = x] \in CallRecord
BY DEF CallRecord

LEMMA ReplyKeeps == ASSUME IInv, NEW a \in Actor, Reply(a) PROVE IInv'
<1> DEFINE t == [thread[a] EXCEPT !.pc = "recv", !.job = NoJob, !.answer = "none"]
           r == thread[a].job
<1>1. thread[a] \in ThreadRecord /\ Sound(thread[a]) /\ thread[a].pc = "reply"
  BY DEF IInv, TypeOK, Reply
<1>2. t \in ThreadRecord /\ Sound(t)
  BY <1>1 DEF ThreadRecord, Answer, Sound
<1>3. thread' = [thread EXCEPT ![a] = t] /\ UNCHANGED <<turn, queue>>
  BY DEF Reply, IInv, TypeOK
<1>4. thread[a].answer \in Answer
  BY <1>1 DEF ThreadRecord
<1>5. call' \in [Request -> CallRecord]
  <2>1. call \in [Request -> CallRecord]
    BY DEF IInv, TypeOK
  <2>2. CASE r \in Request /\ call[r].at = "queued"
    <3>1. call' = [call EXCEPT ![r] =
                     [call[r] EXCEPT !.at = "answered", !.answer = thread[a].answer]]
      BY <2>1, <2>2 DEF Reply
    <3> QED
      BY <1>4, <2>1, <2>2, <3>1, AnsweredCall
  <2>3. CASE r \in Request /\ call[r].at # "queued"
    BY <2>1, <2>3 DEF Reply
  <2>4. CASE r \notin Request
    BY <2>1, <2>4 DEF Reply
  <2> QED
    BY <2>2, <2>3, <2>4
<1> QED
  BY <1>2, <1>3, <1>5, OneThread DEF IInv, TypeOK

\* A panic finds no window but that of the handler, and closes it.
LEMMA PanicKeeps == ASSUME IInv, NEW a \in Actor, Panic(a) PROVE IInv'
<1> DEFINE t == [thread[a] EXCEPT !.pc = "dead", !.job = NoJob, !.slot = FALSE]
<1>1. thread[a] \in ThreadRecord /\ Sound(thread[a]) /\ thread[a].pc \in {"make", "js"}
  BY DEF IInv, TypeOK, Panic
<1>2. t \in ThreadRecord /\ Sound(t)
  BY <1>1 DEF ThreadRecord, Sound
<1>3. thread' = [thread EXCEPT ![a] = t] /\ UNCHANGED turn
  BY DEF Panic, IInv, TypeOK
<1>4. call' \in [Request -> CallRecord]
  <2>1. "dropped" \in Answer /\ call \in [Request -> CallRecord]
    BY DEF IInv, TypeOK, Answer
  <2>2. \A r \in Request :
          [call[r] EXCEPT !.at = "answered", !.answer = "dropped"] \in CallRecord
    BY <2>1, AnsweredCall
  <2> QED
    BY <2>1, <2>2 DEF Panic
<1>5. queue' \in [Actor -> Seq(Request)] /\ \A b \in Actor : Len(queue'[b]) <= Cap
  <2>1. <<>> \in Seq(Request) /\ Len(<<>>) <= Cap
    BY EngineAssumption
  <2>2. queue' = [queue EXCEPT ![a] = <<>>]
    BY DEF Panic
  <2> QED
    BY <2>1, <2>2 DEF IInv, TypeOK
<1> QED
  BY <1>2, <1>3, <1>4, <1>5, OneThread DEF IInv, TypeOK

\* Callers touch no thread.
LEMMA ClientKeeps ==
  ASSUME IInv, NEW r \in Request, Call(r) \/ Client(r) \/ HangUp(r)
  PROVE  IInv'
<1>1. thread' = thread
  BY DEF Call, Client, Send, SendFails, HangUp
<1>2. call' \in [Request -> CallRecord]
  <2>1. call \in [Request -> CallRecord] /\ turn \in Actor
    BY DEF IInv, TypeOK
  <2>2. CASE Call(r)
    BY <2>1, <2>2 DEF Call, CallRecord
  <2>3. CASE Send(r)
    BY <2>1, <2>3 DEF Send, CallRecord
  <2>4. CASE SendFails(r)
    BY <2>1, <2>4 DEF SendFails, CallRecord, Answer
  <2>5. CASE HangUp(r)
    BY <2>1, <2>5 DEF HangUp, CallRecord
  <2> QED
    BY <2>2, <2>3, <2>4, <2>5 DEF Client
<1>3. turn' \in Actor
  BY EngineAssumption DEF Call, Client, Send, SendFails, HangUp, IInv, TypeOK, Actor
<1>4. queue' \in [Actor -> Seq(Request)] /\ \A b \in Actor : Len(queue'[b]) <= Cap
  <2>1. CASE Send(r)
    <3> DEFINE a == call[r].to
    <3>1. a \in Actor /\ Len(queue[a]) < Cap /\ queue' = [queue EXCEPT ![a] = Append(@, r)]
      BY <2>1 DEF Send, IInv, TypeOK, CallRecord
    <3> HIDE DEF a
    <3>2. Append(queue[a], r) \in Seq(Request) /\ Len(Append(queue[a], r)) <= Cap
      BY <3>1, EngineAssumption DEF IInv, TypeOK
    <3> QED
      BY <3>1, <3>2 DEF IInv, TypeOK
  <2>2. CASE ~Send(r)
    BY <2>2 DEF Call, Client, SendFails, HangUp, IInv, TypeOK
  <2> QED
    BY <2>1, <2>2
<1> QED
  BY <1>1, <1>2, <1>3, <1>4 DEF IInv, TypeOK

-----------------------------------------------------------------------------
THEOREM Inductive == Spec => []IInv
<1>1. IInv /\ [Next]_vars => IInv'
  <2> SUFFICES ASSUME IInv, [Next]_vars PROVE IInv'
    OBVIOUS
  <2>1. CASE UNCHANGED vars
    BY <2>1 DEF vars, IInv, TypeOK
  <2>2. CASE Next
    BY <2>2, RunKeeps, VerdictKeeps, WatchKeeps, ReceiveKeeps, ReplyKeeps, PanicKeeps,
       ClientKeeps DEF Next, Thread, Host
  <2> QED
    BY <2>1, <2>2
<1> QED
  BY <1>1, Initially, PTL DEF Spec

\* Every variable keeps its type: queues stay within their bound and threads within
\* their program (actor.rs, runtime.rs).
THEOREM TypeCorrect == Spec => []TypeOK
<1>1. IInv => TypeOK
  BY DEF IInv
<1> QED
  BY <1>1, Inductive, PTL

\* A runtime that was terminated or has outgrown its heap is not kept for another
\* request, for any number of threads (RuntimePool::checkin, KillSwitch).
THEOREM KeepsNoDeadRuntime == Spec => []NoDeadRuntimeKept
<1>1. IInv => NoDeadRuntimeKept
  BY DEF IInv, Sound, NoDeadRuntimeKept
<1> QED
  BY <1>1, Inductive, PTL

\* A request is answered with a time-out exactly if the watchdog has broken off its
\* runtime (checkout, run_side_driver).
THEOREM TellsTimeouts == Spec => []TimeoutIsTold
<1>1. IInv => TimeoutIsTold
  BY DEF IInv, Sound, TimeoutIsTold
<1> QED
  BY <1>1, Inductive, PTL

-----------------------------------------------------------------------------
(* Exports.  An entry is running until its pump has settled it, so that    *)
(* what works is among what register counts; and the pump settles an entry *)
(* only by what its close has left in the store, which nothing touches     *)
(* afterwards but the sweeper, who spares what an entry points to.         *)

RunningExports == {j \in Export : export[j].state = "running"}

ExportQuotas ==
  /\ Cardinality(RunningExports) <= MaxExports
  /\ \A s \in Subject : Cardinality(RunningOf(s)) <= MaxOwn

ExportSound(j) ==
  /\ pump[j].pc \notin {"idle", "over", "lost"} => export[j].state = "running"
  /\ pump[j].pc = "idle" => export[j].state = "none"
  /\ pump[j].pc \in {"query", "open", "name", "read", "close"} => blob[j] \in {"none", "parts"}
  /\ pump[j].pc = "settle" /\ pump[j].fin = "done" => blob[j] \in {"whole", "torn"}
  /\ pump[j].pc = "settle" /\ pump[j].fin = "cancelled" => blob[j] \in {"none", "parts"}
  /\ pump[j].pc = "idle" => blob[j] = "none"
  /\ export[j].state = "done" => blob[j] \in {"whole", "torn"}
  /\ export[j].state = "cancelled" => blob[j] \in {"none", "parts"}
  /\ j \in ledger => export[j].state = "done"

ExportInv == ExportTypeOK /\ ExportQuotas /\ \A j \in Export : ExportSound(j)

LEMMA OneMore ==
  ASSUME NEW S, NEW x, IsFiniteSet(S)
  PROVE  Cardinality(S \cup {x}) <= Cardinality(S) + 1
<1>1. Cardinality(S) \in Nat
  BY FS_CardinalityType
<1>2. Cardinality(S \cup {x}) = IF x \in S THEN Cardinality(S) ELSE Cardinality(S) + 1
  BY FS_AddElement
<1> QED
  BY <1>1, <1>2

LEMMA ExportInitially == ExportInit => ExportInv
<1> SUFFICES ASSUME ExportInit PROVE ExportInv
  OBVIOUS
<1>1. ExportTypeOK
  <2>1. export \in [Export -> ExportEntry]
    <3>1. ASSUME NEW s \in Subject
          PROVE  [state |-> "none", by |-> s, asked |-> FALSE] \in ExportEntry
      BY DEF ExportEntry
    <3>2. QED
      BY <3>1 DEF ExportInit
  <2>2. 0 \in 0 .. Length
    BY ExportAssumption
  <2>3. pump \in [Export -> Pump]
    BY <2>2 DEF ExportInit, Pump, End, Terminal
  <2>4. QED
    BY <2>1, <2>3 DEF ExportInit, ExportTypeOK
<1>2. \A j \in Export : export[j].state = "none"
  BY DEF ExportInit
<1>3. ExportQuotas
  <2>1. RunningExports = {} /\ \A s \in Subject : RunningOf(s) = {}
    BY <1>2 DEF RunningExports, RunningOf
  <2>2. Cardinality({}) = 0
    BY FS_EmptySet
  <2>3. QED
    BY <2>1, <2>2, ExportAssumption DEF ExportQuotas
<1>4. ASSUME NEW j \in Export PROVE ExportSound(j)
  BY <1>2 DEF ExportInit, ExportSound
<1> QED
  BY <1>1, <1>3, <1>4 DEF ExportInv

\* A step that begins nothing keeps within the quotas.
LEMMA QuotasKept ==
  ASSUME ExportInv,
         \A j \in Export : /\ export'[j].by = export[j].by
                           /\ export'[j].state = "running" => export[j].state = "running"
  PROVE  ExportQuotas'
<1>1. IsFiniteSet(RunningExports) /\ \A s \in Subject : IsFiniteSet(RunningOf(s))
  BY ExportAssumption, FS_Subset DEF RunningExports, RunningOf
<1>2. RunningExports' \in SUBSET RunningExports
  BY DEF RunningExports
<1>3. \A s \in Subject : RunningOf(s)' \in SUBSET RunningOf(s)
  BY DEF RunningOf
<1>4. Cardinality(RunningExports') <= MaxExports
  <2>1. IsFiniteSet(RunningExports') /\ Cardinality(RunningExports') <= Cardinality(RunningExports)
    BY <1>1, <1>2, FS_Subset
  <2>2. Cardinality(RunningExports') \in Nat /\ Cardinality(RunningExports) \in Nat
    BY <1>1, <2>1, FS_CardinalityType
  <2>3. QED
    BY <2>1, <2>2, ExportAssumption DEF ExportInv, ExportQuotas
<1>5. ASSUME NEW s \in Subject
      PROVE  Cardinality(RunningOf(s)') <= MaxOwn
  <2>1. IsFiniteSet(RunningOf(s)') /\ Cardinality(RunningOf(s)') <= Cardinality(RunningOf(s))
    BY <1>1, <1>3, FS_Subset
  <2>2. Cardinality(RunningOf(s)') \in Nat /\ Cardinality(RunningOf(s)) \in Nat
    BY <1>1, <2>1, FS_CardinalityType
  <2>3. QED
    BY <2>1, <2>2, ExportAssumption DEF ExportInv, ExportQuotas
<1> QED
  BY <1>4, <1>5 DEF ExportQuotas

\* A step of one export needs to be looked at on that export alone.
LEMMA OneExport ==
  ASSUME ExportInv, NEW j \in Export, ExportTypeOK',
         \A k \in Export \ {j} : /\ export'[k] = export[k] /\ pump'[k] = pump[k]
                                 /\ blob'[k] = blob[k] /\ (k \in ledger' => k \in ledger),
         export'[j].by = export[j].by,
         export'[j].state = "running" => export[j].state = "running",
         ExportSound(j)'
  PROVE  ExportInv'
<1>1. \A k \in Export : ExportSound(k)'
  BY DEF ExportInv, ExportSound
<1>2. ExportQuotas'
  BY QuotasKept
<1> QED
  BY <1>1, <1>2 DEF ExportInv

LEMMA StartKeeps == ASSUME ExportInv, NEW j \in Export, StartExport(j) PROVE ExportInv'
<1>1. ExportTypeOK'
  <2>1. export' \in [Export -> ExportEntry]
    BY DEF ExportInv, ExportTypeOK, ExportEntry, StartExport
  <2>2. pump' \in [Export -> Pump]
    BY DEF ExportInv, ExportTypeOK, Pump, StartExport
  <2>3. QED
    BY <2>1, <2>2 DEF ExportInv, ExportTypeOK, StartExport
<1>2. CASE ExportsFull(export[j].by)
  <2>1. pump' = [pump EXCEPT ![j].pc = "over"] /\ UNCHANGED <<export, blob, ledger>>
    BY <1>2 DEF StartExport
  <2>2. ExportSound(j)'
    BY <2>1 DEF StartExport, ExportInv, ExportTypeOK, Pump, ExportSound
  <2>3. QED
    BY <1>1, <2>1, <2>2, OneExport DEF ExportInv, ExportTypeOK
<1>3. CASE ~ExportsFull(export[j].by)
  <2>1. /\ pump[j].pc = "idle" /\ pump' = [pump EXCEPT ![j].pc = "query"]
        /\ export' = [export EXCEPT ![j].state = "running"] /\ UNCHANGED <<blob, ledger>>
    BY <1>3 DEF StartExport
  <2>2. export[j].state = "none" /\ blob[j] = "none" /\ j \notin ledger
    BY <2>1 DEF ExportInv, ExportSound
  <2>3. ASSUME NEW k \in Export PROVE ExportSound(k)'
    <3>1. CASE k = j
      BY <2>1, <2>2, <3>1 DEF ExportInv, ExportTypeOK, ExportEntry, Pump, ExportSound
    <3>2. CASE k # j
      BY <2>1, <3>2 DEF ExportInv, ExportTypeOK, ExportSound
    <3>3. QED
      BY <3>1, <3>2
  <2>4. PICK s \in Subject : s = export[j].by
    BY DEF ExportInv, ExportTypeOK, ExportEntry
  <2>5. /\ RunningExports' = RunningExports \cup {j}
        /\ RunningOf(s)' = RunningOf(s) \cup {j}
        /\ \A u \in Subject \ {s} : RunningOf(u)' = RunningOf(u)
    BY <2>1, <2>4 DEF ExportInv, ExportTypeOK, ExportEntry, RunningExports, RunningOf
  <2>6. Cardinality(RunningExports) < MaxExports /\ Cardinality(RunningOf(s)) < MaxOwn
    <3>1. IsFiniteSet(RunningExports) /\ IsFiniteSet(RunningOf(s))
      BY ExportAssumption, FS_Subset DEF RunningExports, RunningOf
    <3>2. Cardinality(RunningExports) \in Nat /\ Cardinality(RunningOf(s)) \in Nat
      BY <3>1, FS_CardinalityType
    <3>3. ~(Cardinality(RunningExports) >= MaxExports) /\ ~(Cardinality(RunningOf(s)) >= MaxOwn)
      BY <1>3, <2>4 DEF ExportsFull, RunningExports
    <3>4. QED
      BY <3>2, <3>3, ExportAssumption
  <2>7. Cardinality(RunningExports') <= MaxExports /\ Cardinality(RunningOf(s)') <= MaxOwn
    <3>1. IsFiniteSet(RunningExports) /\ IsFiniteSet(RunningOf(s))
      BY ExportAssumption, FS_Subset DEF RunningExports, RunningOf
    <3>2. Cardinality(RunningExports) \in Nat /\ Cardinality(RunningOf(s)) \in Nat
      BY <3>1, FS_CardinalityType
    <3>3. Cardinality(RunningExports') <= Cardinality(RunningExports) + 1
      BY <2>5, <3>1, <3>2, OneMore
    <3>4. Cardinality(RunningOf(s)') <= Cardinality(RunningOf(s)) + 1
      BY <2>5, <3>1, <3>2, OneMore
    <3>5. Cardinality(RunningExports') \in Nat /\ Cardinality(RunningOf(s)') \in Nat
      BY <2>5, <3>1, FS_AddElement, FS_CardinalityType
    <3>6. QED
      BY <2>6, <3>2, <3>3, <3>4, <3>5, ExportAssumption
  <2>8. ExportQuotas'
    BY <2>5, <2>7 DEF ExportQuotas, ExportInv
  <2>9. QED
    BY <1>1, <2>3, <2>8 DEF ExportInv
<1> QED
  BY <1>2, <1>3

\* The pump's steps with the entry left alone.
LEMMA PumpKeeps ==
  ASSUME ExportInv, NEW j \in Export,
         \/ RefusesStatement(j) \/ CursorOpens(j) \/ UploadOpens(j) \/ FallsBack(j)
         \/ SpawnsPump(j) \/ LosesExport(j) \/ ReadsRow(j) \/ HearsCancel(j)
  PROVE  ExportInv'
<1> USE ExportAssumption DEF RefusesStatement, CursorOpens, UploadOpens, FallsBack, SpawnsPump,
                             LosesExport, ReadsRow, HearsCancel
<1>1. ExportTypeOK'
  <2>1. pump' \in [Export -> Pump]
    <3>1. CASE ReadsRow(j)
      <4>1. pump[j].rows + 1 \in 0 .. Length
        BY <3>1 DEF ExportInv, ExportTypeOK, Pump
      <4>2. QED
        BY <3>1, <4>1 DEF ExportInv, ExportTypeOK, Pump
    <3>2. CASE HearsCancel(j) \/ UploadOpens(j)
      BY <3>2 DEF ExportInv, ExportTypeOK, Pump, End
    <3>3. CASE ~ReadsRow(j) /\ ~HearsCancel(j) /\ ~UploadOpens(j)
      BY <3>3 DEF ExportInv, ExportTypeOK, Pump
    <3>4. QED
      BY <3>1, <3>2, <3>3
  <2>2. /\ blob' = blob \/ blob' = [blob EXCEPT ![j] = "parts"]
        /\ UNCHANGED <<export, ledger, aged>>
    OBVIOUS
  <2>3. QED
    BY <2>1, <2>2 DEF ExportInv, ExportTypeOK
<1>2. UNCHANGED <<export, ledger>>
  OBVIOUS
<1>3. \A k \in Export \ {j} : pump'[k] = pump[k] /\ blob'[k] = blob[k]
  BY DEF ExportInv, ExportTypeOK
<1>4. ExportSound(j)'
  BY DEF ExportInv, ExportTypeOK, Pump, ExportSound
<1> QED
  BY <1>1, <1>2, <1>3, <1>4, OneExport

LEMMA CloseKeeps ==
  ASSUME ExportInv, NEW j \in Export, StopsReading(j) \/ Writes(j) \/ Aborts(j)
  PROVE  ExportInv'
<1> USE DEF StopsReading, Writes, Aborts, Settle
<1>1. ExportTypeOK'
  <2>1. pump' \in [Export -> Pump]
    <3>1. CASE StopsReading(j)
      BY <3>1 DEF ExportInv, ExportTypeOK, Pump, End
    <3>2. CASE Writes(j) \/ Aborts(j)
      BY <3>2 DEF ExportInv, ExportTypeOK, Pump, Terminal
    <3>3. QED
      BY <3>1, <3>2
  <2>2. blob' \in [Export -> {"none", "parts", "whole", "torn"}]
    BY DEF ExportInv, ExportTypeOK
  <2>3. QED
    BY <2>1, <2>2 DEF ExportInv, ExportTypeOK
<1>2. UNCHANGED <<export, ledger>>
  OBVIOUS
<1>3. \A k \in Export \ {j} : pump'[k] = pump[k] /\ blob'[k] = blob[k]
  BY DEF ExportInv, ExportTypeOK
<1>4. ExportSound(j)'
  BY DEF ExportInv, ExportTypeOK, Pump, ExportSound
<1> QED
  BY <1>1, <1>2, <1>3, <1>4, OneExport

LEMMA SettleKeeps ==
  ASSUME ExportInv, NEW j \in Export, CursorFails(j) \/ SettlesExport(j)
  PROVE  ExportInv'
<1> USE DEF CursorFails, SettlesExport, Finish
<1>1. ExportTypeOK'
  <2>1. pump[j].fin \in Terminal
    BY DEF ExportInv, ExportTypeOK, Pump
  <2>2. export' \in [Export -> ExportEntry]
    BY <2>1 DEF ExportInv, ExportTypeOK, ExportEntry, Terminal
  <2>3. pump' \in [Export -> Pump]
    BY DEF ExportInv, ExportTypeOK, Pump
  <2>4. ledger' \subseteq Export /\ ledger \subseteq ledger' /\ UNCHANGED <<blob, aged>>
    BY DEF ExportInv, ExportTypeOK
  <2>5. QED
    BY <2>2, <2>3, <2>4 DEF ExportInv, ExportTypeOK
<1>2. /\ UNCHANGED blob
      /\ \A k \in Export \ {j} :
           pump'[k] = pump[k] /\ export'[k] = export[k] /\ (k \in ledger' => k \in ledger)
  BY DEF ExportInv, ExportTypeOK
<1>3. /\ export'[j].by = export[j].by
      /\ export'[j].state = "running" => export[j].state = "running"
  BY DEF ExportInv, ExportTypeOK, ExportEntry, Pump, Terminal
<1>4. ExportSound(j)'
  BY DEF ExportInv, ExportTypeOK, ExportEntry, Pump, Terminal, ExportSound
<1> QED
  BY <1>1, <1>2, <1>3, <1>4, OneExport

LEMMA CancelKeeps == ASSUME ExportInv, NEW j \in Export, CancelExport(j) PROVE ExportInv'
<1> USE DEF CancelExport
<1>1. ExportTypeOK'
  <2>1. export' \in [Export -> ExportEntry]
    BY DEF ExportInv, ExportTypeOK, ExportEntry
  <2>2. pump' \in [Export -> Pump]
    <3> DEFINE d == [pump[j] EXCEPT !.permit = TRUE]
    <3>1. pump \in [Export -> Pump]
      BY DEF ExportInv, ExportTypeOK
    <3>2. d \in Pump
      BY <3>1 DEF Pump
    <3>3. pump' = [pump EXCEPT ![j] = d]
      BY <3>1
    <3>4. QED
      BY <3>1, <3>2, <3>3
  <2>3. QED
    BY <2>1, <2>2 DEF ExportInv, ExportTypeOK
<1>2. /\ UNCHANGED <<blob, ledger>>
      /\ \A k \in Export \ {j} : pump'[k] = pump[k] /\ export'[k] = export[k]
  BY DEF ExportInv, ExportTypeOK
<1>3. export'[j].by = export[j].by /\ export'[j].state = export[j].state
  BY DEF ExportInv, ExportTypeOK, ExportEntry
<1>4. ExportSound(j)'
  BY <1>2, <1>3 DEF ExportInv, ExportTypeOK, Pump, ExportSound
<1> QED
  BY <1>1, <1>2, <1>3, <1>4, OneExport

LEMMA SweepKeeps ==
  ASSUME ExportInv, SweepArtefacts \/ \E j \in Export : ArtefactAges(j)
  PROVE  ExportInv'
<1>1. ExportTypeOK'
  BY DEF ExportInv, ExportTypeOK, SweepArtefacts, ArtefactAges
<1>2. UNCHANGED <<export, pump>> /\ ledger' \in SUBSET ledger
  BY DEF SweepArtefacts, ArtefactAges
<1>3. \A j \in Export : blob'[j] = blob[j] \/ (j \in ledger /\ export[j].state # "done")
  BY DEF ExportInv, ExportTypeOK, SweepArtefacts, ArtefactAges, SpareKeys
<1>4. \A j \in Export : blob'[j] = blob[j]
  BY <1>3 DEF ExportInv, ExportSound
<1>5. \A j \in Export : ExportSound(j)'
  BY <1>2, <1>4 DEF ExportInv, ExportSound
<1>6. ExportQuotas'
  BY <1>2, QuotasKept
<1> QED
  BY <1>1, <1>5, <1>6 DEF ExportInv

LEMMA ExportKeeps == ExportInv /\ [ExportNext]_exportVars => ExportInv'
<1> SUFFICES ASSUME ExportInv, [ExportNext]_exportVars PROVE ExportInv'
  OBVIOUS
<1>1. CASE UNCHANGED exportVars
  BY <1>1 DEF exportVars, ExportInv, ExportTypeOK, ExportQuotas, ExportSound, RunningExports,
              RunningOf
<1>2. CASE ExportNext
  BY <1>2, StartKeeps, PumpKeeps, CloseKeeps, SettleKeeps, CancelKeeps, SweepKeeps
     DEF ExportNext, ExportReturns
<1> QED
  BY <1>1, <1>2

\* What works is running, for it is settled after the work.
LEMMA ExportsTrue ==
  ASSUME ExportInv
  PROVE  /\ Cardinality(WorkingExports) <= MaxExports
         /\ \A s \in Subject : Cardinality({j \in WorkingExports : export[j].by = s}) <= MaxOwn
         /\ \A j \in Export :
              /\ export[j].state = "done" => blob[j] \in {"whole", "torn"}
              /\ export[j].state = "cancelled" => blob[j] \in {"none", "parts"}
<1>1. /\ WorkingExports \in SUBSET RunningExports
      /\ \A s \in Subject : {j \in WorkingExports : export[j].by = s} \in SUBSET RunningOf(s)
  BY DEF ExportInv, ExportSound, WorkingExports, RunningExports, RunningOf
<1>2. IsFiniteSet(RunningExports) /\ \A s \in Subject : IsFiniteSet(RunningOf(s))
  BY ExportAssumption, FS_Subset DEF RunningExports, RunningOf
<1>3. Cardinality(WorkingExports) <= MaxExports
  <2>1. /\ IsFiniteSet(WorkingExports)
        /\ Cardinality(WorkingExports) <= Cardinality(RunningExports)
    BY <1>1, <1>2, FS_Subset
  <2>2. Cardinality(WorkingExports) \in Nat /\ Cardinality(RunningExports) \in Nat
    BY <1>2, <2>1, FS_CardinalityType
  <2>3. QED
    BY <2>1, <2>2, ExportAssumption DEF ExportInv, ExportQuotas
<1>4. ASSUME NEW s \in Subject
      PROVE  Cardinality({j \in WorkingExports : export[j].by = s}) <= MaxOwn
  <2> DEFINE own == {j \in WorkingExports : export[j].by = s}
  <2>1. own \in SUBSET RunningOf(s)
    BY <1>1
  <2> HIDE DEF own
  <2>2. IsFiniteSet(own) /\ Cardinality(own) <= Cardinality(RunningOf(s))
    BY <1>2, <2>1, FS_Subset
  <2>3. Cardinality(own) \in Nat /\ Cardinality(RunningOf(s)) \in Nat
    BY <1>2, <2>2, FS_CardinalityType
  <2>4. Cardinality(own) <= MaxOwn
    BY <2>2, <2>3, ExportAssumption DEF ExportInv, ExportQuotas
  <2>5. QED
    BY <2>4 DEF own
<1> QED
  BY <1>3, <1>4 DEF ExportInv, ExportSound

-----------------------------------------------------------------------------
(* Imports.  While an import works, what its transactions have committed   *)
(* and what run_import has counted are the same rows, unless an insert     *)
(* that failed was skipped; the entry gets them once, by settle, and       *)
(* nothing works on the table afterwards.                                  *)

RunningImports == {j \in Import : import[j].state = "running"}
RunningShare(s) == {j \in Import : import[j].state = "running" /\ import[j].by = s}

ImportQuotas ==
  /\ Cardinality(RunningImports) <= MaxImports
  /\ \A s \in Tenant : Cardinality(RunningShare(s)) <= MaxShare

TableRecord == [stored : 0 .. Rows, cleared : BOOLEAN]
Untouched == [stored |-> 0, cleared |-> FALSE]

\* Of a task t, its entry e and the table b.
ImportTells(t, e, b) ==
  /\ t.pc \notin {"idle", "over", "lost"} => e.state = "running"
  /\ t.pc = "idle" => e.state = "none"
  /\ e.state \in Over => t.pc = "over"
  /\ e.state \in Over /\ ~t.lenient => e.rows = b.stored
  /\ t.way # "batches" /\ e.state \in {"failed", "cancelled"} => b = Untouched

OneTxTells(t, b) ==
  t.way # "batches" =>
    /\ t.pc # "commit"
    /\ t.pc \notin {"settle", "over", "lost"} => b = Untouched
    /\ t.pc \notin {"settle", "over", "lost"} /\ ~t.lenient => t.good = t.committed
    /\ t.pc = "settle" /\ ~t.lenient => b.stored = t.committed
    /\ t.pc = "settle" /\ t.fin # "done" => b = Untouched

BatchesTell(t, b) ==
  t.way = "batches" =>
    /\ t.pc \notin {"begin", "delete"}
    /\ t.pc \notin {"over", "lost"} /\ ~t.lenient => b.stored = t.committed
    /\ t.pc \in {"idle", "look", "collect", "insert"} => t.good = 0
    /\ t.pc = "commit" /\ ~t.lenient => t.good = t.batch

\* No row is counted twice as it leaves the source, is in hand and is committed.
ImportCounts(t, b) ==
  /\ t.left + t.committed <= Rows
  /\ t.pc \in {"collect", "insert", "commit"} => t.left + t.batch + t.committed <= Rows
  /\ t.way # "batches" => t.good <= t.committed
  /\ t.pc = "commit" => t.good <= t.batch
  /\ t.way = "batches" => b.stored <= t.committed

ImportSound(t, e, b) ==
  ImportTells(t, e, b) /\ OneTxTells(t, b) /\ BatchesTell(t, b) /\ ImportCounts(t, b)

ImportInv ==
  /\ ImportTypeOK /\ ImportQuotas
  /\ \A j \in Import : ImportSound(task[j], import[j], table[j])

LEMMA ImportInitially == ImportInit => ImportInv
<1> SUFFICES ASSUME ImportInit PROVE ImportInv
  OBVIOUS
<1>1. 0 \in 0 .. Rows /\ Rows \in 0 .. Rows
  BY ImportAssumption
<1>2. \A s \in Tenant : [state |-> "none", by |-> s, asked |-> FALSE, rows |-> 0] \in ImportEntry
  BY <1>1 DEF ImportEntry
<1>3. ASSUME NEW way \in {"batches", "one", "replace"}, NEW skip \in BOOLEAN
      PROVE  [pc |-> "idle", way |-> way, skip |-> skip, left |-> Rows, batch |-> 0, good |-> 0,
              committed |-> 0, last |-> FALSE, lenient |-> FALSE, fin |-> "done"] \in Task
  BY <1>1 DEF Task, Over
<1>4. ImportTypeOK
  BY <1>1, <1>2, <1>3 DEF ImportInit, ImportTypeOK
<1>5. \A j \in Import : import[j].state = "none"
  BY DEF ImportInit
<1>6. ImportQuotas
  <2>1. RunningImports = {} /\ \A s \in Tenant : RunningShare(s) = {}
    BY <1>5 DEF RunningImports, RunningShare
  <2>2. Cardinality({}) = 0
    BY FS_EmptySet
  <2>3. QED
    BY <2>1, <2>2, ImportAssumption DEF ImportQuotas
<1>7. ASSUME NEW j \in Import PROVE ImportSound(task[j], import[j], table[j])
  <2>1. /\ task[j].pc = "idle" /\ task[j].left = Rows /\ task[j].good = 0
        /\ task[j].committed = 0 /\ table[j] = Untouched
    BY DEF ImportInit, Untouched
  <2>2. QED
    BY <1>5, <2>1, ImportAssumption
       DEF ImportSound, ImportTells, OneTxTells, BatchesTell, ImportCounts, Untouched, Over
<1> QED
  BY <1>4, <1>6, <1>7 DEF ImportInv

LEMMA ImportQuotasKept ==
  ASSUME ImportInv,
         \A j \in Import : /\ import'[j].by = import[j].by
                           /\ import'[j].state = "running" => import[j].state = "running"
  PROVE  ImportQuotas'
<1>1. IsFiniteSet(RunningImports) /\ \A s \in Tenant : IsFiniteSet(RunningShare(s))
  BY ImportAssumption, FS_Subset DEF RunningImports, RunningShare
<1>2. RunningImports' \in SUBSET RunningImports
  BY DEF RunningImports
<1>3. \A s \in Tenant : RunningShare(s)' \in SUBSET RunningShare(s)
  BY DEF RunningShare
<1>4. Cardinality(RunningImports') <= MaxImports
  <2>1. IsFiniteSet(RunningImports') /\ Cardinality(RunningImports') <= Cardinality(RunningImports)
    BY <1>1, <1>2, FS_Subset
  <2>2. Cardinality(RunningImports') \in Nat /\ Cardinality(RunningImports) \in Nat
    BY <1>1, <2>1, FS_CardinalityType
  <2>3. QED
    BY <2>1, <2>2, ImportAssumption DEF ImportInv, ImportQuotas
<1>5. ASSUME NEW s \in Tenant
      PROVE  Cardinality(RunningShare(s)') <= MaxShare
  <2>1. IsFiniteSet(RunningShare(s)') /\ Cardinality(RunningShare(s)') <= Cardinality(RunningShare(s))
    BY <1>1, <1>3, FS_Subset
  <2>2. Cardinality(RunningShare(s)') \in Nat /\ Cardinality(RunningShare(s)) \in Nat
    BY <1>1, <2>1, FS_CardinalityType
  <2>3. QED
    BY <2>1, <2>2, ImportAssumption DEF ImportInv, ImportQuotas
<1> QED
  BY <1>4, <1>5 DEF ImportQuotas

\* A step of one import, which starts nothing.
LEMMA OneImport ==
  ASSUME ImportInv, NEW j \in Import,
         NEW t \in Task, NEW e \in ImportEntry, NEW b \in TableRecord,
         task' = [task EXCEPT ![j] = t], import' = [import EXCEPT ![j] = e],
         table' = [table EXCEPT ![j] = b], old' \subseteq Import,
         e.by = import[j].by, e.state = "running" => import[j].state = "running",
         ImportSound(t, e, b)
  PROVE  ImportInv'
<1>1. ImportTypeOK'
  BY DEF ImportInv, ImportTypeOK, TableRecord
<1>2. /\ task'[j] = t /\ import'[j] = e /\ table'[j] = b
      /\ \A k \in Import \ {j} :
           task'[k] = task[k] /\ import'[k] = import[k] /\ table'[k] = table[k]
  BY DEF ImportInv, ImportTypeOK
<1>3. ASSUME NEW k \in Import PROVE ImportSound(task'[k], import'[k], table'[k])
  BY <1>2 DEF ImportInv
<1>4. ImportQuotas'
  <2>1. \A k \in Import : /\ import'[k].by = import[k].by
                          /\ import'[k].state = "running" => import[k].state = "running"
    BY <1>2
  <2>2. QED
    BY <2>1, ImportQuotasKept
<1> QED
  BY <1>1, <1>3, <1>4 DEF ImportInv

\* A step of the task that tells the entry nothing and leaves the table alone.
LEMMA OneTask ==
  ASSUME ImportInv, NEW j \in Import, NEW t \in Task,
         task' = [task EXCEPT ![j] = t], UNCHANGED <<import, table, old>>,
         ImportSound(t, import[j], table[j])
  PROVE  ImportInv'
<1>1. /\ import[j] \in ImportEntry /\ table[j] \in TableRecord /\ old \subseteq Import
      /\ import' = [import EXCEPT ![j] = import[j]] /\ table' = [table EXCEPT ![j] = table[j]]
  BY DEF ImportInv, ImportTypeOK, TableRecord
<1>2. PICK e \in ImportEntry, b \in TableRecord : e = import[j] /\ b = table[j]
  BY <1>1
<1> QED
  BY <1>1, <1>2, OneImport

LEMMA ImportFacts ==
  ASSUME ImportInv, NEW j \in Import
  PROVE  /\ task[j] \in Task /\ import[j] \in ImportEntry /\ table[j] \in TableRecord
         /\ ImportSound(task[j], import[j], table[j])
  BY DEF ImportInv, ImportTypeOK, TableRecord

LEMMA StartImportKeeps == ASSUME ImportInv, NEW j \in Import, StartImport(j) PROVE ImportInv'
<1>1. PICK t \in Task, e \in ImportEntry, b \in TableRecord :
        t = task[j] /\ e = import[j] /\ b = table[j] /\ ImportSound(t, e, b)
  BY ImportFacts
<1>2. t.pc = "idle" /\ e.state = "none"
  BY <1>1 DEF StartImport, ImportSound, ImportTells
<1>3. CASE ImportsFull(e.by)
  <2>1. PICK u \in Task : u = [t EXCEPT !.pc = "over"]
    BY DEF Task
  <2>2. task' = [task EXCEPT ![j] = u] /\ UNCHANGED <<import, table, old>>
    BY <1>1, <1>3, <2>1 DEF StartImport, ImportInv, ImportTypeOK
  <2>3. ImportSound(u, e, b)
    BY <1>1, <1>2, <2>1
       DEF ImportSound, ImportTells, OneTxTells, BatchesTell, ImportCounts, Task, ImportEntry, Over
  <2>4. QED
    BY <1>1, <2>2, <2>3, OneTask
<1>4. CASE ~ImportsFull(e.by)
  <2>1. PICK u \in Task : u = [t EXCEPT !.pc = IF t.way # "batches" THEN "begin" ELSE "look"]
    BY DEF Task
  <2>2. PICK f \in ImportEntry : f = [e EXCEPT !.state = "running"]
    BY DEF ImportEntry
  <2>3. /\ task' = [task EXCEPT ![j] = u] /\ import' = [import EXCEPT ![j] = f]
        /\ UNCHANGED <<table, old>>
    BY <1>1, <1>4, <2>1, <2>2 DEF StartImport, OneTx, ImportInv, ImportTypeOK
  <2>4. ImportSound(u, f, b)
    BY <1>1, <1>2, <2>1, <2>2
       DEF ImportSound, ImportTells, OneTxTells, BatchesTell, ImportCounts, Task, ImportEntry, Over
  <2>5. ImportTypeOK'
    BY <2>3 DEF ImportInv, ImportTypeOK
  <2>6. ASSUME NEW k \in Import PROVE ImportSound(task'[k], import'[k], table'[k])
    <3>1. CASE k = j
      BY <1>1, <2>3, <2>4, <3>1 DEF ImportInv, ImportTypeOK
    <3>2. CASE k # j
      BY <2>3, <3>2 DEF ImportInv, ImportTypeOK
    <3>3. QED
      BY <3>1, <3>2
  <2>7. PICK s \in Tenant : s = e.by
    BY DEF ImportEntry
  <2>8. /\ RunningImports' = RunningImports \cup {j}
        /\ RunningShare(s)' = RunningShare(s) \cup {j}
        /\ \A u2 \in Tenant \ {s} : RunningShare(u2)' = RunningShare(u2)
    <3>1. /\ import'[j].state = "running" /\ import'[j].by = s /\ import[j].by = s
          /\ \A k \in Import \ {j} : import'[k] = import[k]
      BY <1>1, <2>2, <2>3, <2>7 DEF ImportInv, ImportTypeOK, ImportEntry
    <3>2. QED
      BY <3>1 DEF RunningImports, RunningShare
  <2>9. IsFiniteSet(RunningImports) /\ IsFiniteSet(RunningShare(s))
    BY ImportAssumption, FS_Subset DEF RunningImports, RunningShare
  <2>10. Cardinality(RunningImports) \in Nat /\ Cardinality(RunningShare(s)) \in Nat
    BY <2>9, FS_CardinalityType
  <2>11. Cardinality(RunningImports) < MaxImports /\ Cardinality(RunningShare(s)) < MaxShare
    <3>1. {i \in RunningImports : import[i].by = s} = RunningShare(s)
      BY DEF RunningImports, RunningShare
    <3>2. ~(Cardinality(RunningImports) >= MaxImports) /\ ~(Cardinality(RunningShare(s)) >= MaxShare)
      BY <1>4, <2>7, <3>1 DEF ImportsFull, RunningImports
    <3>3. QED
      BY <2>10, <3>2, ImportAssumption
  <2>12. Cardinality(RunningImports') <= MaxImports /\ Cardinality(RunningShare(s)') <= MaxShare
    <3>1. Cardinality(RunningImports') <= Cardinality(RunningImports) + 1
      BY <2>8, <2>9, OneMore
    <3>2. Cardinality(RunningShare(s)') <= Cardinality(RunningShare(s)) + 1
      BY <2>8, <2>9, OneMore
    <3>3. Cardinality(RunningImports') \in Nat /\ Cardinality(RunningShare(s)') \in Nat
      BY <2>8, <2>9, FS_AddElement, FS_CardinalityType
    <3>4. QED
      BY <2>10, <2>11, <3>1, <3>2, <3>3, ImportAssumption
  <2>13. ImportQuotas'
    BY <2>8, <2>12 DEF ImportQuotas, ImportInv
  <2>14. QED
    BY <2>5, <2>6, <2>13 DEF ImportInv
<1> QED
  BY <1>3, <1>4

LEMMA CancelImportKeeps == ASSUME ImportInv, NEW j \in Import, CancelImport(j) PROVE ImportInv'
<1>1. PICK t \in Task, e \in ImportEntry, b \in TableRecord :
        t = task[j] /\ e = import[j] /\ b = table[j] /\ ImportSound(t, e, b)
  BY ImportFacts
<1>2. PICK f \in ImportEntry : f = [e EXCEPT !.asked = TRUE]
  BY DEF ImportEntry
<1>3. /\ task' = [task EXCEPT ![j] = t] /\ import' = [import EXCEPT ![j] = f]
      /\ table' = [table EXCEPT ![j] = b] /\ old' \subseteq Import
  BY <1>1, <1>2 DEF CancelImport, ImportInv, ImportTypeOK
<1>4. f.state = e.state /\ f.by = e.by /\ f.rows = e.rows
  BY <1>2 DEF ImportEntry
<1>5. ImportSound(t, f, b)
  BY <1>1, <1>4 DEF ImportSound, ImportTells
<1> QED
  BY <1>1, <1>3, <1>4, <1>5, OneImport

\* Steps of the task before anything is inserted, and those that end it.
LEMMA ReadsKeep ==
  ASSUME ImportInv, NEW j \in Import,
         \/ LosesImport(j) \/ BeginsImport(j) \/ DeletesRows(j) \/ LooksForCancel(j)
         \/ CollectsRow(j) \/ HasBatch(j)
  PROVE  ImportInv'
<1>1. PICK t \in Task, e \in ImportEntry, b \in TableRecord :
        t = task[j] /\ e = import[j] /\ b = table[j] /\ ImportSound(t, e, b)
  BY ImportFacts
<1> DEFINE
  Moves(u) == /\ u \in Task /\ task' = [task EXCEPT ![j] = u] /\ UNCHANGED <<import, table, old>>
              /\ ImportSound(u, e, b)
<1>2. ASSUME NEW u, Moves(u) PROVE ImportInv'
  BY <1>1, <1>2, OneTask
<1> USE DEF Works, Stops
<1>3. CASE LosesImport(j)
  <2>1. [t EXCEPT !.pc = "lost"] \in Task /\ t.pc \notin {"idle", "over"}
    BY <1>1, <1>3 DEF Task, LosesImport
  <2>2. task' = [task EXCEPT ![j] = [t EXCEPT !.pc = "lost"]] /\ UNCHANGED <<import, table, old>>
    BY <1>1, <1>3 DEF LosesImport, ImportInv, ImportTypeOK
  <2>3. ImportSound([t EXCEPT !.pc = "lost"], e, b)
    BY <1>1, <2>1
       DEF ImportSound, ImportTells, OneTxTells, BatchesTell, ImportCounts, Task, ImportEntry, Over
  <2>4. QED
    BY <1>2, <2>1, <2>2, <2>3
<1>4. CASE \E from \in {"begin", "delete", "look", "collect"}, fin \in {"failed", "cancelled"} :
             Stops(j, from, fin) /\ UNCHANGED <<import, table, old>>
  <2>1. PICK fin \in {"failed", "cancelled"} :
          /\ t.pc \in {"begin", "delete", "look", "collect"}
          /\ task' = [task EXCEPT ![j] = [t EXCEPT !.pc = "close", !.fin = fin]]
          /\ UNCHANGED <<import, table, old>>
    BY <1>1, <1>4
  <2>2. [t EXCEPT !.pc = "close", !.fin = fin] \in Task
    BY DEF Task, Over
  <2>3. ImportSound([t EXCEPT !.pc = "close", !.fin = fin], e, b)
    BY <1>1, <2>1
       DEF ImportSound, ImportTells, OneTxTells, BatchesTell, ImportCounts, Task, ImportEntry, Over
  <2>4. QED
    BY <1>2, <2>1, <2>2, <2>3
<1>5. CASE BeginsImport(j) /\ ~Stops(j, "begin", "failed")
  <2>1. /\ t.pc = "begin" /\ UNCHANGED <<import, table, old>>
        /\ task' = [task EXCEPT ![j] = [t EXCEPT !.pc = IF t.way = "replace" THEN "delete" ELSE "look"]]
    BY <1>1, <1>5 DEF BeginsImport
  <2>2. PICK pc \in {"delete", "look"} : pc = (IF t.way = "replace" THEN "delete" ELSE "look")
    OBVIOUS
  <2>3. [t EXCEPT !.pc = pc] \in Task
    BY DEF Task
  <2>4. ImportSound([t EXCEPT !.pc = pc], e, b)
    BY <1>1, <2>1
       DEF ImportSound, ImportTells, OneTxTells, BatchesTell, ImportCounts, Task, ImportEntry, Over
  <2>5. QED
    BY <1>2, <2>1, <2>2, <2>3, <2>4
<1>6. CASE DeletesRows(j) /\ ~Stops(j, "delete", "failed")
  <2>1. /\ t.pc = "delete" /\ UNCHANGED <<import, table, old>>
        /\ task' = [task EXCEPT ![j] = [t EXCEPT !.pc = "look"]]
    BY <1>1, <1>6 DEF DeletesRows
  <2>2. [t EXCEPT !.pc = "look"] \in Task
    BY DEF Task
  <2>3. ImportSound([t EXCEPT !.pc = "look"], e, b)
    BY <1>1, <2>1
       DEF ImportSound, ImportTells, OneTxTells, BatchesTell, ImportCounts, Task, ImportEntry, Over
  <2>4. QED
    BY <1>2, <2>1, <2>2, <2>3
<1>7. CASE LooksForCancel(j) /\ ~Stops(j, "look", "failed") /\ ~Stops(j, "look", "cancelled")
  <2> DEFINE u == [t EXCEPT !.pc = "collect", !.batch = 0, !.last = FALSE]
  <2>1. /\ t.pc = "look" /\ UNCHANGED <<import, table, old>> /\ task' = [task EXCEPT ![j] = u]
    BY <1>1, <1>7 DEF LooksForCancel
  <2>2. u \in Task
    <3>1. 0 \in 0 .. Rows
      BY ImportAssumption
    <3>2. QED
      BY <3>1 DEF Task
  <2>3. ImportSound(u, e, b)
    BY <1>1, <2>1
       DEF ImportSound, ImportTells, OneTxTells, BatchesTell, ImportCounts, Task, ImportEntry, Over
  <2>4. QED
    BY <1>2, <2>1, <2>2, <2>3
<1>8. CASE CollectsRow(j) /\ ~Stops(j, "collect", "failed")
  <2>1. /\ t.pc = "collect" /\ t.left > 0 /\ UNCHANGED <<import, table, old>>
        /\ \E n \in {0, 1} :
             task' = [task EXCEPT ![j] = [t EXCEPT !.left = t.left - 1, !.batch = t.batch + n]]
    <3>1. /\ t.pc = "collect" /\ t.left > 0 /\ UNCHANGED <<import, table, old>>
          /\ \/ task' = [task EXCEPT ![j] = [t EXCEPT !.left = t.left - 1, !.batch = t.batch + 1]]
             \/ task' = [task EXCEPT ![j] = [t EXCEPT !.left = t.left - 1]]
      <4>1. UNCHANGED <<import, table, old>>
        BY <1>8 DEF CollectsRow
      <4>2. \/ /\ t.left > 0
               /\ Works(j, "collect", [t EXCEPT !.left = t.left - 1, !.batch = t.batch + 1])
            \/ t.left > 0 /\ Works(j, "collect", [t EXCEPT !.left = t.left - 1])
        <5> HIDE DEF Works, Stops
        <5> QED
          BY <1>1, <1>8 DEF CollectsRow
      <4>3. QED
        BY <1>1, <4>1, <4>2
    <3>2. [t EXCEPT !.left = t.left - 1] = [t EXCEPT !.left = t.left - 1, !.batch = t.batch + 0]
      <4>1. t.batch \in Nat
        BY ImportAssumption DEF Task
      <4>2. t.batch + 0 = t.batch
        BY <4>1
      <4>3. QED
        BY <4>2 DEF Task
    <3>3. QED
      BY <3>1, <3>2
  <2>2. PICK n \in {0, 1} :
          task' = [task EXCEPT ![j] = [t EXCEPT !.left = t.left - 1, !.batch = t.batch + n]]
    BY <2>1
  <2> DEFINE u == [t EXCEPT !.left = t.left - 1, !.batch = t.batch + n]
  <2>3. t.left - 1 \in 0 .. Rows /\ t.batch + n \in 0 .. Rows
    BY <1>1, <2>1, ImportAssumption DEF Task, ImportSound, ImportCounts
  <2>4. u \in Task
    BY <2>3 DEF Task
  <2>5. ImportSound(u, e, b)
    BY <1>1, <2>1, <2>3, ImportAssumption
       DEF ImportSound, ImportTells, OneTxTells, BatchesTell, ImportCounts, Task, ImportEntry, Over
  <2>6. QED
    BY <1>2, <2>1, <2>2, <2>4, <2>5
<1>9. CASE HasBatch(j)
  <2>1. t.pc = "collect" /\ UNCHANGED <<import, table, old>>
    BY <1>1, <1>9 DEF HasBatch
  <2>2. CASE t.batch = 0
    <3> DEFINE u == [t EXCEPT !.pc = "close", !.fin = "done"]
    <3>1. task' = [task EXCEPT ![j] = u]
      BY <1>1, <1>9, <2>2 DEF HasBatch
    <3>2. u \in Task
      BY DEF Task, Over
    <3>3. ImportSound(u, e, b)
      BY <1>1, <2>1
         DEF ImportSound, ImportTells, OneTxTells, BatchesTell, ImportCounts, Task, ImportEntry, Over
    <3>4. QED
      BY <1>2, <2>1, <3>1, <3>2, <3>3
  <2>3. CASE t.batch # 0
    <3>1. PICK last \in BOOLEAN : last = (t.batch < Batch)
      <4>1. (t.batch < Batch) \in BOOLEAN
        OBVIOUS
      <4>2. QED
        BY <4>1
    <3> DEFINE u == [t EXCEPT !.pc = "insert", !.last = last]
    <3>2. task' = [task EXCEPT ![j] = u]
      BY <1>1, <1>9, <2>3, <3>1 DEF HasBatch
    <3>3. u \in Task
      BY DEF Task
    <3>4. ImportSound(u, e, b)
      BY <1>1, <2>1
         DEF ImportSound, ImportTells, OneTxTells, BatchesTell, ImportCounts, Task, ImportEntry, Over
    <3>5. QED
      BY <1>2, <2>1, <3>2, <3>3, <3>4
  <2>4. QED
    BY <2>2, <2>3
<1>10. BeginsImport(j) \/ DeletesRows(j) \/ LooksForCancel(j) \/ CollectsRow(j) =>
         UNCHANGED <<import, table, old>>
  BY DEF BeginsImport, DeletesRows, LooksForCancel, CollectsRow
<1> QED
  BY <1>3, <1>4, <1>5, <1>6, <1>7, <1>8, <1>9, <1>10

\* A batch that fails, or is inserted, or is committed if its transaction is its own.
LEMMA InsertKeeps == ASSUME ImportInv, NEW j \in Import, InsertsBatch(j) PROVE ImportInv'
<1>1. PICK t \in Task, e \in ImportEntry, b \in TableRecord :
        t = task[j] /\ e = import[j] /\ b = table[j] /\ ImportSound(t, e, b)
  BY ImportFacts
<1>2. t.pc = "insert" /\ old \subseteq Import
  BY <1>1 DEF InsertsBatch, Works, Stops, ImportInv, ImportTypeOK
<1>3. CASE Stops(j, "insert", "failed") /\ UNCHANGED <<import, table, old>>
  <2> DEFINE u == [t EXCEPT !.pc = "close", !.fin = "failed"]
  <2>1. u \in Task
    BY DEF Task, Over
  <2>2. ImportSound(u, e, b)
    BY <1>1, <1>2
       DEF ImportSound, ImportTells, OneTxTells, BatchesTell, ImportCounts, Task, ImportEntry, Over
  <2>3. task' = [task EXCEPT ![j] = u]
    BY <1>1, <1>3 DEF Stops, Works
  <2>4. QED
    BY <1>1, <1>3, <2>1, <2>2, <2>3, OneTask
<1>4. CASE ~(Stops(j, "insert", "failed") /\ UNCHANGED <<import, table, old>>)
  <2>1. PICK n \in 0 .. t.batch :
          LET u == [t EXCEPT !.good = t.good + n, !.lenient = t.lenient \/ n < t.batch] IN
          /\ IF t.way # "batches"
             THEN Works(j, "insert", Counted(u)) /\ Progress(j)
             ELSE Works(j, "insert", [u EXCEPT !.pc = "commit"]) /\ UNCHANGED import
          /\ UNCHANGED <<table, old>>
    BY <1>1, <1>4 DEF InsertsBatch, OneTx
  <2>2. PICK lenient \in BOOLEAN : lenient = (t.lenient \/ n < t.batch)
    <3>1. (t.lenient \/ n < t.batch) \in BOOLEAN
      OBVIOUS
    <3>2. QED
      BY <3>1
  <2>3. /\ t.batch \in Nat /\ t.good \in Nat /\ t.committed \in Nat /\ n \in Nat /\ n <= t.batch
        /\ t.good <= Rows /\ t.committed + t.batch <= Rows /\ Rows \in Nat /\ t.left \in Nat
    BY <1>1, <1>2, ImportAssumption DEF Task, ImportSound, ImportCounts
  <2>4. t.committed + t.batch \in 0 .. Rows
    BY <2>3
  <2>5. ~lenient => ~t.lenient /\ n = t.batch
    <3>1. ~lenient => ~t.lenient /\ ~(n < t.batch)
      BY <2>2, Zenon
    <3>2. ~(n < t.batch) => n = t.batch
      BY <2>3
    <3>3. QED
      BY <3>1, <3>2
  <2>6. CASE t.way # "batches"
    <3>1. PICK pc \in {"close", "look"} : pc = (IF t.last THEN "close" ELSE "look")
      OBVIOUS
    <3> DEFINE v == [t EXCEPT !.good = t.good + n, !.lenient = lenient, !.pc = pc,
                              !.fin = "done", !.committed = t.committed + t.batch]
               f == [e EXCEPT !.rows = t.committed + t.batch]
    <3>2. Counted([t EXCEPT !.good = t.good + n, !.lenient = t.lenient \/ n < t.batch]) = v
      BY <2>2, <3>1 DEF Counted, Task
    <3>3. t.good + n \in 0 .. Rows
      <4>1. t.good <= t.committed
        BY <1>1, <2>6 DEF ImportSound, ImportCounts
      <4>2. QED
        BY <2>3, <4>1
    <3>4. v \in Task /\ f \in ImportEntry
      BY <2>4, <3>3 DEF Task, ImportEntry, Over
    <3>5. /\ task' = [task EXCEPT ![j] = v] /\ import' = [import EXCEPT ![j] = f]
          /\ table' = [table EXCEPT ![j] = b] /\ old' \subseteq Import
      <4>1. task' = [task EXCEPT ![j] = v]
        BY <1>1, <2>1, <2>6, <3>2 DEF Works
      <4>2. import' = [import EXCEPT ![j] = f]
        BY <1>1, <2>1, <2>6 DEF Progress
      <4>3. QED
        BY <1>1, <1>2, <2>1, <4>1, <4>2 DEF ImportInv, ImportTypeOK
    <3>6. /\ v.pc \in {"close", "look"} /\ v.way = t.way /\ v.lenient = lenient /\ v.fin = "done"
          /\ v.good = t.good + n /\ v.committed = t.committed + t.batch /\ v.left = t.left
          /\ f.state = e.state /\ f.by = e.by /\ f.state = "running"
      BY <1>1, <1>2 DEF Task, ImportEntry, ImportSound, ImportTells
    <3> HIDE DEF v, f
    <3>7. ImportTells(v, f, b) /\ BatchesTell(v, b)
      BY <2>6, <3>6 DEF ImportTells, BatchesTell, Over
    <3>8. OneTxTells(v, b)
      <4>1. b = Untouched /\ (~t.lenient => t.good = t.committed)
        BY <1>1, <1>2, <2>6 DEF ImportSound, OneTxTells
      <4>2. ~lenient => ~t.lenient /\ n = t.batch
        BY <2>5
      <4>3. QED
        BY <3>6, <4>1, <4>2 DEF OneTxTells
    <3>9. ImportCounts(v, b)
      BY <1>1, <1>2, <2>3, <2>6, <3>6 DEF ImportSound, ImportCounts
    <3>10. QED
      BY <1>1, <3>4, <3>5, <3>6, <3>7, <3>8, <3>9, OneImport DEF ImportSound
  <2>7. CASE t.way = "batches"
    <3> DEFINE v == [t EXCEPT !.good = t.good + n, !.lenient = lenient, !.pc = "commit"]
    <3>1. [[t EXCEPT !.good = t.good + n, !.lenient = t.lenient \/ n < t.batch] EXCEPT !.pc = "commit"]
            = v
      BY <2>2 DEF Task
    <3>2. t.good = 0
      BY <1>1, <1>2, <2>7 DEF ImportSound, BatchesTell
    <3>3. t.good + n \in 0 .. Rows /\ t.good + n = n
      BY <2>3, <3>2
    <3>4. v \in Task
      BY <3>3 DEF Task
    <3>5. task' = [task EXCEPT ![j] = v] /\ UNCHANGED <<import, table, old>>
      BY <1>1, <2>1, <2>7, <3>1 DEF Works
    <3>6. /\ v.pc = "commit" /\ v.way = t.way /\ v.lenient = lenient /\ v.good = n
          /\ v.committed = t.committed /\ v.batch = t.batch /\ v.left = t.left
      BY <3>3 DEF Task
    <3> HIDE DEF v
    <3>7. ImportTells(v, e, b) /\ OneTxTells(v, b)
      BY <1>1, <1>2, <2>7, <3>6 DEF ImportSound, ImportTells, OneTxTells, Over
    <3>8. BatchesTell(v, b)
      <4>1. ~lenient => ~t.lenient /\ n = t.batch
        BY <2>5
      <4>2. QED
        BY <1>1, <1>2, <2>7, <3>6, <4>1 DEF ImportSound, BatchesTell
    <3>9. ImportCounts(v, b)
      BY <1>1, <1>2, <2>3, <2>7, <3>6 DEF ImportSound, ImportCounts
    <3>10. QED
      BY <1>1, <3>4, <3>5, <3>7, <3>8, <3>9, OneTask DEF ImportSound
  <2>8. QED
    BY <2>6, <2>7
<1> QED
  BY <1>3, <1>4

LEMMA CommitKeeps == ASSUME ImportInv, NEW j \in Import, CommitsBatch(j) PROVE ImportInv'
<1>1. PICK t \in Task, e \in ImportEntry, b \in TableRecord :
        t = task[j] /\ e = import[j] /\ b = table[j] /\ ImportSound(t, e, b)
  BY ImportFacts
<1>2. t.pc = "commit" /\ old \subseteq Import
  BY <1>1 DEF CommitsBatch, Works, Stops, ImportInv, ImportTypeOK
<1>3. t.way = "batches"
  BY <1>1, <1>2 DEF ImportSound, OneTxTells
<1>4. CASE Stops(j, "commit", "failed") /\ UNCHANGED <<import, table, old>>
  <2> DEFINE u == [t EXCEPT !.pc = "close", !.fin = "failed"]
  <2>1. u \in Task
    BY DEF Task, Over
  <2>2. ImportSound(u, e, b)
    BY <1>1, <1>2, <1>3
       DEF ImportSound, ImportTells, OneTxTells, BatchesTell, ImportCounts, Task, ImportEntry, Over
  <2>3. task' = [task EXCEPT ![j] = u]
    BY <1>1, <1>4 DEF Stops, Works
  <2>4. QED
    BY <1>1, <1>4, <2>1, <2>2, <2>3, OneTask
<1>5. CASE ~(Stops(j, "commit", "failed") /\ UNCHANGED <<import, table, old>>)
  <2>1. PICK pc \in {"close", "look"} : pc = (IF t.last THEN "close" ELSE "look")
    OBVIOUS
  <2> DEFINE v == [t EXCEPT !.pc = pc, !.fin = "done", !.committed = t.committed + t.batch,
                            !.good = 0]
             f == [e EXCEPT !.rows = t.committed + t.batch]
             c == [b EXCEPT !.stored = b.stored + t.good]
  <2>2. [Counted(t) EXCEPT !.good = 0] = v
    BY <2>1 DEF Counted, Task
  <2>3. /\ t.batch \in Nat /\ t.good \in Nat /\ t.committed \in Nat /\ t.left \in Nat
        /\ t.left + t.batch + t.committed <= Rows /\ Rows \in Nat /\ t.good <= t.batch
        /\ b.stored \in Nat /\ b.stored <= t.committed
    BY <1>1, <1>2, <1>3, ImportAssumption DEF Task, TableRecord, ImportSound, ImportCounts
  <2>4. t.committed + t.batch \in 0 .. Rows /\ 0 \in 0 .. Rows /\ b.stored + t.good \in 0 .. Rows
    BY <2>3
  <2>5. v \in Task /\ f \in ImportEntry /\ c \in TableRecord
    BY <2>4 DEF Task, ImportEntry, TableRecord, Over
  <2>6. /\ task' = [task EXCEPT ![j] = v] /\ import' = [import EXCEPT ![j] = f]
        /\ table' = [table EXCEPT ![j] = c] /\ old' \subseteq Import
    <3>1. Works(j, "commit", [Counted(t) EXCEPT !.good = 0]) /\ Progress(j) /\ UNCHANGED old
      BY <1>1, <1>5 DEF CommitsBatch
    <3>2. table' = [table EXCEPT ![j] = c]
      BY <1>1, <1>5 DEF CommitsBatch
    <3>3. task' = [task EXCEPT ![j] = v]
      BY <2>2, <3>1 DEF Works
    <3>4. import' = [import EXCEPT ![j] = f]
      BY <1>1, <3>1 DEF Progress
    <3>5. QED
      BY <1>2, <3>1, <3>2, <3>3, <3>4
  <2>7. /\ v.pc \in {"close", "look"} /\ v.way = "batches" /\ v.lenient = t.lenient /\ v.good = 0
        /\ v.committed = t.committed + t.batch /\ v.left = t.left
        /\ f.state = e.state /\ f.by = e.by /\ f.state = "running" /\ c.stored = b.stored + t.good
    BY <1>1, <1>2, <1>3 DEF Task, ImportEntry, TableRecord, ImportSound, ImportTells
  <2> HIDE DEF v, f, c
  <2>8. ImportTells(v, f, c) /\ OneTxTells(v, c)
    BY <2>7 DEF ImportTells, OneTxTells, Over
  <2>9. BatchesTell(v, c)
    <3>1. ~t.lenient => b.stored = t.committed /\ t.good = t.batch
      BY <1>1, <1>2, <1>3 DEF ImportSound, BatchesTell
    <3>2. QED
      BY <2>3, <2>7, <3>1 DEF BatchesTell
  <2>10. ImportCounts(v, c)
    BY <2>3, <2>7 DEF ImportCounts
  <2>11. QED
    BY <1>1, <2>5, <2>6, <2>7, <2>8, <2>9, <2>10, OneImport DEF ImportSound
<1> QED
  BY <1>4, <1>5

LEMMA CloseImportKeeps == ASSUME ImportInv, NEW j \in Import, ClosesImport(j) PROVE ImportInv'
<1>1. PICK t \in Task, e \in ImportEntry, b \in TableRecord :
        t = task[j] /\ e = import[j] /\ b = table[j] /\ ImportSound(t, e, b)
  BY ImportFacts
<1>2. /\ t.pc = "close" /\ old \subseteq Import /\ 0 \in 0 .. Rows /\ e.state = "running"
      /\ UNCHANGED <<import, old>>
  <2>1. t.pc = "close" /\ UNCHANGED <<import, old>>
    BY <1>1 DEF ClosesImport, Works
  <2>2. QED
    BY <1>1, <2>1, ImportAssumption DEF ImportInv, ImportTypeOK, ImportSound, ImportTells
<1>3. import' = [import EXCEPT ![j] = e] /\ e.by = import[j].by
  BY <1>1, <1>2 DEF ImportInv, ImportTypeOK
<1>4. /\ t.left \in Nat /\ t.good \in 0 .. Rows /\ t.committed \in Nat /\ Rows \in Nat
      /\ t.left + t.committed <= Rows
  BY <1>1, ImportAssumption DEF Task, ImportSound, ImportCounts
<1>5. CASE /\ t.way # "batches" /\ t.fin = "done"
           /\ Works(j, "close", [t EXCEPT !.pc = "settle", !.good = 0])
           /\ table' = [table EXCEPT ![j] = [stored |-> t.good, cleared |-> t.way = "replace"]]
  <2> DEFINE v == [t EXCEPT !.pc = "settle", !.good = 0]
  <2>1. PICK cleared \in BOOLEAN : cleared = (t.way = "replace")
    <3>1. (t.way = "replace") \in BOOLEAN
      OBVIOUS
    <3>2. QED
      BY <3>1
  <2> DEFINE c == [stored |-> t.good, cleared |-> cleared]
  <2>2. v \in Task /\ c \in TableRecord
    BY <1>2, <1>4 DEF Task, TableRecord
  <2>3. task' = [task EXCEPT ![j] = v] /\ table' = [table EXCEPT ![j] = c]
    BY <1>5, <2>1 DEF Works
  <2>4. /\ v.pc = "settle" /\ v.way = t.way /\ v.lenient = t.lenient /\ v.good = 0 /\ v.fin = "done"
        /\ v.committed = t.committed /\ v.left = t.left /\ c.stored = t.good
    BY <1>5 DEF Task
  <2> HIDE DEF v, c
  <2>5. ~t.lenient => t.good = t.committed
    BY <1>1, <1>2, <1>5 DEF ImportSound, OneTxTells
  <2>6. ImportSound(v, e, c)
    BY <1>2, <1>4, <1>5, <2>4, <2>5
       DEF ImportSound, ImportTells, OneTxTells, BatchesTell, ImportCounts, Over
  <2>7. QED
    BY <1>1, <1>2, <1>3, <2>2, <2>3, <2>6, OneImport
<1>6. CASE /\ t.way # "batches" /\ UNCHANGED table
           /\ Works(j, "close", [t EXCEPT !.pc = "settle", !.good = 0, !.committed = 0,
                                          !.fin = IF t.fin = "done" THEN "failed" ELSE t.fin])
  <2>1. PICK fin \in {"failed", "cancelled"} : fin = (IF t.fin = "done" THEN "failed" ELSE t.fin)
    BY DEF Task, Over
  <2> DEFINE v == [t EXCEPT !.pc = "settle", !.good = 0, !.committed = 0, !.fin = fin]
  <2>2. v \in Task
    BY <1>2 DEF Task, Over
  <2>3. task' = [task EXCEPT ![j] = v]
    BY <1>6, <2>1 DEF Works
  <2>4. /\ v.pc = "settle" /\ v.way = t.way /\ v.good = 0 /\ v.committed = 0 /\ v.left = t.left
        /\ v.left <= Rows
    BY <1>4 DEF Task
  <2> HIDE DEF v
  <2>5. b = Untouched /\ b.stored = 0
    BY <1>1, <1>2, <1>6 DEF ImportSound, OneTxTells, Untouched
  <2>6. ImportSound(v, e, b)
    BY <1>2, <1>4, <1>6, <2>4, <2>5
       DEF ImportSound, ImportTells, OneTxTells, BatchesTell, ImportCounts, Over
  <2>7. QED
    BY <1>1, <1>2, <1>6, <2>2, <2>3, <2>6, OneTask
<1>7. CASE /\ t.way = "batches" /\ UNCHANGED table
           /\ Works(j, "close", [t EXCEPT !.pc = "settle", !.good = 0])
  <2> DEFINE v == [t EXCEPT !.pc = "settle", !.good = 0]
  <2>1. v \in Task
    BY <1>2 DEF Task
  <2>2. task' = [task EXCEPT ![j] = v]
    BY <1>7 DEF Works
  <2>3. /\ v.pc = "settle" /\ v.way = "batches" /\ v.good = 0 /\ v.committed = t.committed
        /\ v.left = t.left /\ v.lenient = t.lenient
    BY <1>7 DEF Task
  <2> HIDE DEF v
  <2>4. (~t.lenient => b.stored = t.committed) /\ b.stored <= t.committed
    BY <1>1, <1>2, <1>7 DEF ImportSound, BatchesTell, ImportCounts
  <2>5. ImportSound(v, e, b)
    BY <1>2, <1>4, <2>3, <2>4
       DEF ImportSound, ImportTells, OneTxTells, BatchesTell, ImportCounts, Over
  <2>6. QED
    BY <1>1, <1>2, <1>7, <2>1, <2>2, <2>5, OneTask
<1> QED
  BY <1>1, <1>5, <1>6, <1>7 DEF ClosesImport, OneTx

LEMMA SettleImportKeeps == ASSUME ImportInv, NEW j \in Import, SettlesImport(j) PROVE ImportInv'
<1>1. PICK t \in Task, e \in ImportEntry, b \in TableRecord :
        t = task[j] /\ e = import[j] /\ b = table[j] /\ ImportSound(t, e, b)
  BY ImportFacts
<1>2. t.pc = "settle" /\ UNCHANGED <<table, old>>
  BY <1>1 DEF SettlesImport, Works
<1>3. e.state = "running"
  BY <1>1, <1>2 DEF ImportSound, ImportTells
<1> DEFINE v == [t EXCEPT !.pc = "over"]
           f == [e EXCEPT !.state = t.fin, !.rows = t.committed]
<1>4. v \in Task /\ f \in ImportEntry
  BY DEF Task, ImportEntry
<1>5. task' = [task EXCEPT ![j] = v]
  BY <1>1 DEF SettlesImport, Works
<1>6. import' = [import EXCEPT ![j] = f]
  BY <1>1, <1>3 DEF SettlesImport
<1>7. table' = [table EXCEPT ![j] = b] /\ old' \subseteq Import
  BY <1>1, <1>2 DEF ImportInv, ImportTypeOK
<1>8. /\ v.pc = "over" /\ v.way = t.way /\ v.lenient = t.lenient /\ v.good = t.good
      /\ v.committed = t.committed /\ v.left = t.left /\ f.by = e.by /\ f.state = t.fin
      /\ f.state \in Over /\ f.rows = t.committed
  BY DEF Task, ImportEntry
<1> HIDE DEF v, f
<1>9. ImportTells(v, f, b)
  <2>1. ~t.lenient => b.stored = t.committed
    BY <1>1, <1>2 DEF ImportSound, OneTxTells, BatchesTell, Task
  <2>2. t.way # "batches" /\ t.fin # "done" => b = Untouched
    BY <1>1, <1>2 DEF ImportSound, OneTxTells
  <2>3. QED
    BY <1>8, <2>1, <2>2 DEF ImportTells, Over
<1>10. OneTxTells(v, b) /\ BatchesTell(v, b)
  BY <1>8 DEF OneTxTells, BatchesTell
<1>11. ImportCounts(v, b)
  BY <1>1, <1>8 DEF ImportSound, ImportCounts
<1>12. ImportSound(v, f, b)
  BY <1>9, <1>10, <1>11 DEF ImportSound
<1>13. f.by = import[j].by /\ f.state # "running"
  BY <1>1, <1>8 DEF Over
<1> QED
  BY <1>4, <1>5, <1>6, <1>7, <1>12, <1>13, OneImport

LEMMA SweepImportsKeeps ==
  ASSUME ImportInv, SweepImports \/ \E j \in Import : ImportAges(j)
  PROVE  ImportInv'
<1>1. UNCHANGED <<task, table>> /\ old' \subseteq Import
  BY DEF SweepImports, ImportAges, ImportInv, ImportTypeOK
<1>2. ASSUME NEW j \in Import
      PROVE  /\ import'[j] \in ImportEntry /\ import'[j].by = import[j].by
             /\ import'[j].rows = import[j].rows
             /\ import'[j].state \in {import[j].state, "swept"}
             /\ import'[j].state = "swept" => import[j].state \in Over \cup {"swept"}
  <2>1. PICK e \in ImportEntry : e = import[j]
    BY ImportFacts
  <2>2. \/ import'[j] = e
        \/ import'[j] = [e EXCEPT !.state = "swept"] /\ e.state \in Over
    BY <2>1 DEF SweepImports, ImportAges
  <2>3. CASE import'[j] = e
    BY <2>1, <2>3
  <2>4. CASE import'[j] = [e EXCEPT !.state = "swept"] /\ e.state \in Over
    <3>1. import'[j] \in ImportEntry
      BY <2>4 DEF ImportEntry
    <3>2. QED
      BY <2>1, <2>4, <3>1 DEF ImportEntry
  <2>5. QED
    BY <2>2, <2>3, <2>4
<1>3. ImportTypeOK'
  <2>1. import' = [j \in Import |-> import'[j]]
    BY DEF SweepImports, ImportAges, ImportInv, ImportTypeOK
  <2>2. import' \in [Import -> ImportEntry]
    BY <1>2, <2>1
  <2>3. QED
    BY <1>1, <2>2 DEF ImportInv, ImportTypeOK
<1>4. ASSUME NEW j \in Import PROVE ImportSound(task'[j], import'[j], table'[j])
  <2>1. ImportSound(task[j], import[j], table[j])
    BY DEF ImportInv
  <2>2. ImportTells(task[j], import'[j], table[j])
    BY <1>2, <2>1 DEF ImportSound, ImportTells, Over
  <2>3. QED
    BY <1>1, <2>1, <2>2 DEF ImportSound
<1>5. ImportQuotas'
  <2>1. \A k \in Import : /\ import'[k].by = import[k].by
                          /\ import'[k].state = "running" => import[k].state = "running"
    BY <1>2
  <2>2. QED
    BY <2>1, ImportQuotasKept
<1> QED
  BY <1>3, <1>4, <1>5 DEF ImportInv

LEMMA ImportKeeps == ImportInv /\ [ImportNext]_importVars => ImportInv'
<1> SUFFICES ASSUME ImportInv, [ImportNext]_importVars PROVE ImportInv'
  OBVIOUS
<1>1. CASE UNCHANGED importVars
  BY <1>1 DEF importVars, ImportInv, ImportTypeOK, ImportQuotas, RunningImports, RunningShare
<1>2. CASE ImportNext
  BY <1>2, StartImportKeeps, CancelImportKeeps, ReadsKeep, InsertKeeps, CommitKeeps,
     CloseImportKeeps, SettleImportKeeps, SweepImportsKeeps
     DEF ImportNext, ImportReturns
<1> QED
  BY <1>1, <1>2

LEMMA ImportsTrue ==
  ASSUME ImportInv
  PROVE  /\ Cardinality(WorkingImports) <= MaxImports
         /\ \A s \in Tenant : Cardinality({j \in WorkingImports : import[j].by = s}) <= MaxShare
         /\ \A j \in Import :
              /\ import[j].state \in Over /\ ~task[j].lenient => import[j].rows = table[j].stored
              /\ OneTx(j) /\ import[j].state \in {"failed", "cancelled"} =>
                   table[j] = [stored |-> 0, cleared |-> FALSE]
<1>1. /\ WorkingImports \in SUBSET RunningImports
      /\ \A s \in Tenant : {j \in WorkingImports : import[j].by = s} \in SUBSET RunningShare(s)
  BY DEF ImportInv, ImportSound, ImportTells, WorkingImports, RunningImports, RunningShare
<1>2. IsFiniteSet(RunningImports) /\ \A s \in Tenant : IsFiniteSet(RunningShare(s))
  BY ImportAssumption, FS_Subset DEF RunningImports, RunningShare
<1>3. Cardinality(WorkingImports) <= MaxImports
  <2>1. /\ IsFiniteSet(WorkingImports)
        /\ Cardinality(WorkingImports) <= Cardinality(RunningImports)
    BY <1>1, <1>2, FS_Subset
  <2>2. Cardinality(WorkingImports) \in Nat /\ Cardinality(RunningImports) \in Nat
    BY <1>2, <2>1, FS_CardinalityType
  <2>3. QED
    BY <2>1, <2>2, ImportAssumption DEF ImportInv, ImportQuotas
<1>4. ASSUME NEW s \in Tenant
      PROVE  Cardinality({j \in WorkingImports : import[j].by = s}) <= MaxShare
  <2> DEFINE own == {j \in WorkingImports : import[j].by = s}
  <2>1. own \in SUBSET RunningShare(s)
    BY <1>1
  <2> HIDE DEF own
  <2>2. IsFiniteSet(own) /\ Cardinality(own) <= Cardinality(RunningShare(s))
    BY <1>2, <2>1, FS_Subset
  <2>3. Cardinality(own) \in Nat /\ Cardinality(RunningShare(s)) \in Nat
    BY <1>2, <2>2, FS_CardinalityType
  <2>4. Cardinality(own) <= MaxShare
    BY <2>2, <2>3, ImportAssumption DEF ImportInv, ImportQuotas
  <2>5. QED
    BY <2>4 DEF own
<1> QED
  BY <1>3, <1>4 DEF ImportInv, ImportSound, ImportTells, OneTx, Untouched

-----------------------------------------------------------------------------
(* Transactions.  A call that never shares the time between the check for  *)
(* a nested one and the slot with another is alone: whatever it finds in   *)
(* the slot is its own, and what it has not run it has not written.        *)

\* The transaction of t is in the slot or in the hands of t.
HasOwn(t) == slot = t \/ dbTx[t].pc \in {"committing", "rolls"}

TxAlone(t) ==
  /\ t \in Active => Active = {t}
  /\ slot = t => dbTx[t].pc \in {"runs", "awaits", "commits", "catches"}
  /\ dbTx[t].pc \in {"runs", "awaits", "commits"} => slot = t
  /\ dbTx[t].pc \in {"begins", "committing", "rolls"} => slot = Pool
  /\ dbTx[t].pc = "catches" => slot \in {t, Pool}
  /\ dbTx[t].pc \in {"awaits", "committing", "rolls"} => dbTx[t].on = t
  /\ \A v \in Tx \ {t} : dbTx[v].on # t

TxTold(t) ==
  /\ dbTx[t].pc \in {"idle", "begins"} => session[t] = "none"
  /\ session[t] \in {"open", "poisoned"} => HasOwn(t)
  /\ session[t] = "poisoned" => poisons /\ dbTx[t].ran < dbTx[t].issued
  /\ session[t] = "committed" => dbTx[t].told = "resolved"
  /\ dbTx[t].told # "none" => dbTx[t].pc = "over"
  /\ dbTx[t].told = "resolved" =>
       session[t] = "committed" \/ (poisons /\ dbTx[t].ran < dbTx[t].issued)
  /\ written[t][t] = dbTx[t].ran
  /\ \A u \in (Tx \cup {Pool}) \ {t} : written[u][t] = 0

\* Of every call: what it has written it was told of, one statement at a time.
TxCounts(t) ==
  /\ dbTx[t].ran <= dbTx[t].issued
  /\ dbTx[t].pc = "awaits" => dbTx[t].ran < dbTx[t].issued
  /\ \A u \in Tx \cup {Pool} : written[u][t] <= dbTx[t].ran

TxInv ==
  /\ TxTypeOK
  /\ \A t \in Tx : TxCounts(t)
  /\ \A t \in Tx \ overlapped : TxAlone(t) /\ TxTold(t)

LEMMA TxInitially == TxInit => TxInv
<1> SUFFICES ASSUME TxInit PROVE TxInv
  OBVIOUS
<1>1. 0 \in 0 .. MaxStatements
  BY TxAssumption
<1>2. TxTypeOK
  <2>1. dbTx \in [Tx -> Script]
    BY <1>1 DEF TxInit, Script
  <2>2. /\ session \in [Tx -> {"none", "open", "poisoned", "committed", "gone"}]
        /\ written \in [Tx \cup {Pool} -> [Tx -> 0 .. MaxStatements]]
    BY <1>1 DEF TxInit
  <2>3. QED
    BY <2>1, <2>2 DEF TxInit, TxTypeOK
<1>3. \A t \in Tx : TxCounts(t)
  BY DEF TxInit, TxCounts
<1>4. Active = {}
  BY DEF TxInit, Active
<1>5. \A t \in Tx : TxAlone(t) /\ TxTold(t)
  BY <1>4, TxAssumption DEF TxInit, TxAlone, TxTold
<1> QED
  BY <1>2, <1>3, <1>5 DEF TxInv

\* What a call finds of another one, if neither has overlapped with that.
LEMMA TxApart ==
  ASSUME TxInv, NEW t \in Tx \ overlapped, NEW v \in Active, v # t
  PROVE  /\ t \notin Active /\ slot # t /\ dbTx[v].on # t
         /\ session[t] \notin {"open", "poisoned"}
<1>1. TxAlone(t) /\ TxTold(t) /\ v \in Tx
  BY DEF TxInv, Active
<1>2. t \notin Active /\ dbTx[v].on # t
  BY <1>1 DEF TxAlone
<1>3. dbTx[t].pc \in {"idle", "over"}
  BY <1>2 DEF Active
<1> QED
  BY <1>1, <1>2, <1>3 DEF TxAlone, TxTold, HasOwn

\* A call that is not under way stays as it is while others act.
LEMMA TxRests ==
  ASSUME TxInv, NEW t \in Tx \ overlapped, t \notin Active, dbTx'[t] = dbTx[t],
         session'[t] = session[t], slot' # t, UNCHANGED poisons,
         \A u \in Tx \cup {Pool} : written'[u][t] = written[u][t],
         \A v \in Tx \ {t} : dbTx'[v].on # t
  PROVE  TxAlone(t)' /\ TxTold(t)'
<1>1. TxAlone(t) /\ TxTold(t)
  BY DEF TxInv
<1>2. dbTx[t].pc \in {"idle", "over"} /\ t \notin Active'
  BY DEF Active
<1>3. TxAlone(t)'
  BY <1>1, <1>2 DEF TxAlone
<1>4. slot # t /\ session[t] \notin {"open", "poisoned"}
  BY <1>1, <1>2 DEF TxAlone, TxTold, HasOwn
<1>5. TxTold(t)'
  BY <1>1, <1>2, <1>4 DEF TxTold, HasOwn
<1> QED
  BY <1>3, <1>5

\* The same where only the script of another call and what it works on has changed.
LEMMA TxOthers ==
  ASSUME TxInv, NEW v \in Active, NEW t \in Tx \ overlapped, t # v,
         slot' # t, session'[t] = session[t], UNCHANGED poisons,
         \A u \in Tx : u # v => dbTx'[u] = dbTx[u], dbTx'[v].on # t,
         \A u \in Tx \cup {Pool} : written'[u][t] = written[u][t]
  PROVE  TxAlone(t)' /\ TxTold(t)'
<1>1. t \notin Active /\ v \in Tx
  BY TxApart DEF Active
<1>2. \A u \in Tx \ {t} : dbTx'[u].on # t
  BY DEF TxInv, TxAlone
<1> QED
  BY <1>1, <1>2, TxRests

\* A step of a call that is under way needs to be looked at on that call alone.
LEMMA OneCall ==
  ASSUME TxInv, NEW v \in Active, TxTypeOK', UNCHANGED <<poisons, overlapped>>,
         \A u \in Tx : u # v => dbTx'[u] = dbTx[u],
         slot' \in {slot, v, Pool}, dbTx'[v].on \in {dbTx[v].on, slot},
         \A t \in Tx \ {v} :
           /\ t # slot /\ t # dbTx[v].on /\ session[t] \notin {"open", "poisoned"} =>
                session'[t] = session[t]
           /\ \A u \in Tx \cup {Pool} : written'[u][t] = written[u][t],
         TxCounts(v)', v \notin overlapped => TxAlone(v)' /\ TxTold(v)'
  PROVE  TxInv'
<1>1. v \in Tx
  BY DEF Active
<1>2. ASSUME NEW t \in Tx \ overlapped' PROVE TxAlone(t)' /\ TxTold(t)'
  <2>1. CASE t = v
    BY <1>2, <2>1
  <2>2. CASE t # v
    <3>1. slot # t /\ dbTx[v].on # t /\ session[t] \notin {"open", "poisoned"}
      BY <1>2, <2>2, TxApart
    <3>2. slot' # t /\ dbTx'[v].on # t
      BY <2>2, <3>1, TxAssumption
    <3>3. session'[t] = session[t]
      BY <2>2, <3>1
    <3>4. \A u \in Tx \cup {Pool} : written'[u][t] = written[u][t]
      BY <2>2
    <3>5. QED
      BY <1>2, <2>2, <3>2, <3>3, <3>4, TxOthers
  <2>3. QED
    BY <2>1, <2>2
<1>3. ASSUME NEW t \in Tx PROVE TxCounts(t)'
  <2>1. CASE t = v
    BY <2>1
  <2>2. CASE t # v
    <3>1. TxCounts(t) /\ dbTx'[t] = dbTx[t] /\ \A u \in Tx \cup {Pool} : written'[u][t] = written[u][t]
      BY <2>2 DEF TxInv
    <3>2. QED
      BY <3>1 DEF TxCounts
  <2>3. QED
    BY <2>1, <2>2
<1> QED
  BY <1>2, <1>3 DEF TxInv

LEMMA TxFacts ==
  ASSUME TxInv, NEW v \in Tx
  PROVE  /\ dbTx[v] \in Script /\ TxCounts(v) /\ (v \notin overlapped => TxAlone(v) /\ TxTold(v))
         /\ session[v] \in {"none", "open", "poisoned", "committed", "gone"}
         /\ v \in Active <=> dbTx[v].pc \notin {"idle", "over"}
  BY DEF TxInv, TxTypeOK, Active

\* A call goes on, or is rejected.
LEMMA GoesTyped ==
  ASSUME dbTx \in [Tx -> Script], NEW v \in Tx,
         NEW pc \in {"idle", "begins", "runs", "awaits", "commits", "committing", "catches",
                     "rolls", "over"},
         dbTx' = [dbTx EXCEPT ![v].pc = pc]
  PROVE  dbTx' \in [Tx -> Script]
<1> DEFINE d == [dbTx[v] EXCEPT !.pc = pc]
<1>1. d \in Script
  BY DEF Script
<1> QED
  BY <1>1

LEMMA RejectedTyped ==
  ASSUME dbTx \in [Tx -> Script], NEW v \in Tx, dbTx' = Rejected(v)
  PROVE  dbTx' \in [Tx -> Script]
<1> DEFINE d == [dbTx[v] EXCEPT !.pc = "over", !.told = "rejected"]
<1>1. d \in Script
  BY DEF Script
<1>2. dbTx' = [dbTx EXCEPT ![v] = d]
  BY DEF Rejected
<1> QED
  BY <1>1, <1>2

LEMMA BeginsKeeps == ASSUME TxInv, NEW v \in Tx, Begins(v) PROVE TxInv'
<1>1. dbTx[v].pc = "idle" /\ UNCHANGED <<slot, session, written, poisons>>
  BY DEF Begins
<1>2. CASE slot # Pool
  <2>1. dbTx' = Rejected(v) /\ UNCHANGED overlapped
    BY <1>2 DEF Begins
  <2>2. dbTx'[v] = [dbTx[v] EXCEPT !.pc = "over", !.told = "rejected"]
    BY <2>1 DEF Rejected, TxInv, TxTypeOK
  <2>3. \A u \in Tx : u # v => dbTx'[u] = dbTx[u]
    BY <2>1 DEF Rejected, TxInv, TxTypeOK
  <2>4. /\ dbTx'[v].pc = "over" /\ dbTx'[v].told = "rejected" /\ dbTx'[v].on = dbTx[v].on
        /\ dbTx'[v].ran = dbTx[v].ran /\ dbTx'[v].issued = dbTx[v].issued
    BY <2>2, TxFacts DEF Script
  <2>5. TxTypeOK'
    BY <1>1, <2>1, RejectedTyped DEF TxInv, TxTypeOK
  <2>6. Active' = Active
    BY <1>1, <2>3, <2>4 DEF Active
  <2>7. \A t \in Tx : TxCounts(t)'
    <3>1. \A t \in Tx : TxCounts(t)
      BY DEF TxInv
    <3>2. QED
      BY <1>1, <2>3, <2>4, <3>1 DEF TxCounts
  <2>8. ASSUME NEW t \in Tx \ overlapped' PROVE TxAlone(t)' /\ TxTold(t)'
    <3>1. TxAlone(t) /\ TxTold(t)
      BY <2>1, <2>8 DEF TxInv
    <3>2. TxAlone(t)'
      BY <1>1, <2>3, <2>4, <2>6, <3>1 DEF TxAlone
    <3>3. TxTold(t)'
      <4>1. CASE t = v
        <5>1. ~HasOwn(t) /\ session[t] = "none"
          BY <1>1, <3>1, <4>1 DEF TxAlone, TxTold, HasOwn
        <5>2. QED
          BY <1>1, <2>4, <3>1, <4>1, <5>1 DEF TxTold
      <4>2. CASE t # v
        BY <1>1, <2>3, <3>1, <4>2 DEF TxTold, HasOwn
      <4>3. QED
        BY <4>1, <4>2
    <3>4. QED
      BY <3>2, <3>3
  <2>9. QED
    BY <2>5, <2>7, <2>8 DEF TxInv
<1>3. CASE slot = Pool
  <2>1. /\ dbTx' = [dbTx EXCEPT ![v].pc = "begins"]
        /\ overlapped' = IF Active # {} THEN overlapped \cup Active \cup {v} ELSE overlapped
    BY <1>3 DEF Begins, Goes
  <2>2. dbTx'[v] = [dbTx[v] EXCEPT !.pc = "begins"]
    BY <2>1 DEF TxInv, TxTypeOK
  <2>3. \A u \in Tx : u # v => dbTx'[u] = dbTx[u]
    BY <2>1 DEF TxInv, TxTypeOK
  <2>4. /\ dbTx'[v].pc = "begins" /\ dbTx'[v].told = dbTx[v].told /\ dbTx'[v].on = dbTx[v].on
        /\ dbTx'[v].ran = dbTx[v].ran /\ dbTx'[v].issued = dbTx[v].issued
    BY <2>2, TxFacts DEF Script
  <2>5. TxTypeOK'
    BY <1>1, <2>1, GoesTyped DEF TxInv, TxTypeOK, Active
  <2>6. Active' = Active \cup {v}
    BY <2>3, <2>4 DEF Active
  <2>7. \A t \in Tx : TxCounts(t)'
    <3>1. \A t \in Tx : TxCounts(t)
      BY DEF TxInv
    <3>2. QED
      BY <1>1, <2>3, <2>4, <3>1 DEF TxCounts
  <2>8. ASSUME NEW t \in Tx \ overlapped' PROVE TxAlone(t)' /\ TxTold(t)'
    <3>1. t \notin overlapped /\ t \notin Active /\ (t = v => Active = {})
      BY <1>1, <2>1, <2>8 DEF Active
    <3>2. TxAlone(t) /\ TxTold(t)
      BY <3>1 DEF TxInv
    <3>3. slot # t /\ \A u \in Tx \ {t} : dbTx'[u].on # t
      BY <1>3, <2>3, <2>4, <3>2, TxAssumption DEF TxAlone
    <3>4. CASE t = v
      <4>1. Active' = {t}
        BY <2>6, <3>1, <3>4
      <4>2. TxAlone(t)'
        BY <1>1, <1>3, <2>4, <3>3, <3>4, <4>1 DEF TxAlone
      <4>3. session[t] = "none"
        BY <1>1, <3>2, <3>4 DEF TxTold
      <4>4. TxTold(t)'
        BY <1>1, <2>4, <3>2, <3>4, <4>3 DEF TxTold
      <4>5. QED
        BY <4>2, <4>4
    <3>5. CASE t # v
      BY <1>1, <2>3, <3>1, <3>3, <3>5, TxRests
    <3>6. QED
      BY <3>4, <3>5
  <2>9. QED
    BY <2>5, <2>7, <2>8 DEF TxInv
<1> QED
  BY <1>2, <1>3

LEMMA OpensKeeps == ASSUME TxInv, NEW v \in Tx, Opens(v) PROVE TxInv'
<1>1. /\ dbTx[v].pc = "begins" /\ UNCHANGED <<written, poisons, overlapped>> /\ v \in Active
  BY DEF Opens, Active
<1>2. dbTx[v] \in Script /\ TxCounts(v) /\ (v \notin overlapped => TxAlone(v) /\ TxTold(v))
  BY TxFacts
<1>3. CASE /\ slot' = v /\ dbTx' = [dbTx EXCEPT ![v].pc = "runs"]
           /\ session' = [u \in Tx |->
                IF u = v THEN "open" ELSE IF u = slot /\ Unheld(u) THEN "gone" ELSE session[u]]
  <2>1. TxTypeOK'
    BY <1>1, <1>3, GoesTyped DEF TxInv, TxTypeOK
  <2>2. \A u \in Tx : u # v => dbTx'[u] = dbTx[u]
    BY <1>3 DEF TxInv, TxTypeOK
  <2>3. /\ dbTx'[v].pc = "runs" /\ dbTx'[v].told = dbTx[v].told /\ dbTx'[v].on = dbTx[v].on
        /\ dbTx'[v].ran = dbTx[v].ran /\ dbTx'[v].issued = dbTx[v].issued
    BY <1>2, <1>3 DEF Script, TxInv, TxTypeOK
  <2>4. session'[v] = "open" /\ \A t \in Tx \ {v} : t # slot => session'[t] = session[t]
    BY <1>3
  <2>5. TxCounts(v)'
    BY <1>1, <1>2, <2>3 DEF TxCounts
  <2>6. ASSUME v \notin overlapped PROVE TxAlone(v)' /\ TxTold(v)'
    <3>1. TxAlone(v) /\ TxTold(v)
      BY <1>2, <2>6
    <3>2. Active' = {v}
      BY <1>1, <2>2, <2>3, <3>1 DEF TxAlone, Active
    <3>3. TxAlone(v)'
      BY <1>3, <2>2, <2>3, <3>1, <3>2 DEF TxAlone
    <3>4. TxTold(v)'
      BY <1>1, <1>3, <2>3, <2>4, <3>1 DEF TxTold, HasOwn
    <3>5. QED
      BY <3>3, <3>4
  <2>7. QED
    BY <1>1, <1>3, <2>1, <2>2, <2>3, <2>4, <2>5, <2>6, OneCall
<1>4. CASE dbTx' = Rejected(v) /\ UNCHANGED <<slot, session>>
  <2>1. TxTypeOK'
    BY <1>1, <1>4, RejectedTyped DEF TxInv, TxTypeOK
  <2>2. \A u \in Tx : u # v => dbTx'[u] = dbTx[u]
    BY <1>4 DEF Rejected, TxInv, TxTypeOK
  <2>3. /\ dbTx'[v].pc = "over" /\ dbTx'[v].told = "rejected" /\ dbTx'[v].on = dbTx[v].on
        /\ dbTx'[v].ran = dbTx[v].ran /\ dbTx'[v].issued = dbTx[v].issued
    BY <1>2, <1>4 DEF Rejected, Script, TxInv, TxTypeOK
  <2>4. TxCounts(v)'
    BY <1>1, <1>2, <2>3 DEF TxCounts
  <2>5. ASSUME v \notin overlapped PROVE TxAlone(v)' /\ TxTold(v)'
    <3>1. TxAlone(v) /\ TxTold(v)
      BY <1>2, <2>5
    <3>2. v \notin Active'
      BY <2>3 DEF Active
    <3>3. slot # v /\ session[v] = "none"
      BY <1>1, <3>1, TxAssumption DEF TxAlone, TxTold
    <3>4. TxAlone(v)'
      BY <1>4, <2>2, <2>3, <3>1, <3>2, <3>3 DEF TxAlone
    <3>5. TxTold(v)'
      BY <1>1, <1>4, <2>3, <3>1, <3>3 DEF TxTold, HasOwn
    <3>6. QED
      BY <3>4, <3>5
  <2>6. QED
    BY <1>1, <1>4, <2>1, <2>2, <2>3, <2>4, <2>5, OneCall
<1>5. \/ /\ slot' = v /\ Goes(v, "runs")
         /\ session' = [u \in Tx |->
              IF u = v THEN "open" ELSE IF u = slot /\ Unheld(u) THEN "gone" ELSE session[u]]
      \/ dbTx' = Rejected(v) /\ UNCHANGED <<slot, session>>
  BY DEF Opens
<1> QED
  BY <1>3, <1>4, <1>5 DEF Goes

LEMMA IssuesKeeps == ASSUME TxInv, NEW v \in Tx, Issues(v) PROVE TxInv'
<1>1. /\ dbTx[v].pc = "runs" /\ dbTx[v].issued < MaxStatements /\ v \in Active
      /\ dbTx' = [dbTx EXCEPT ![v].pc = "awaits", ![v].on = slot, ![v].issued = dbTx[v].issued + 1]
      /\ UNCHANGED <<slot, session, written, poisons, overlapped>>
  BY DEF Issues, Active
<1>2. dbTx[v] \in Script /\ TxCounts(v) /\ (v \notin overlapped => TxAlone(v) /\ TxTold(v))
  BY TxFacts
<1>3. \A u \in Tx : u # v => dbTx'[u] = dbTx[u]
  BY <1>1 DEF TxInv, TxTypeOK
<1>4. dbTx'[v] = [dbTx[v] EXCEPT !.pc = "awaits", !.on = slot, !.issued = dbTx[v].issued + 1]
  BY <1>1 DEF TxInv, TxTypeOK
<1>5. /\ dbTx'[v].pc = "awaits" /\ dbTx'[v].told = dbTx[v].told /\ dbTx'[v].on = slot
      /\ dbTx'[v].ran = dbTx[v].ran /\ dbTx'[v].issued = dbTx[v].issued + 1
  BY <1>2, <1>4 DEF Script
<1>6. dbTx[v].ran \in Nat /\ dbTx[v].issued \in Nat
  BY <1>2, TxAssumption DEF Script
<1>7. TxTypeOK'
  <2>1. dbTx[v].issued + 1 \in 0 .. MaxStatements
    BY <1>1, <1>6, TxAssumption
  <2>2. dbTx'[v] \in Script
    BY <1>2, <1>4, <2>1 DEF Script, TxInv, TxTypeOK
  <2>3. dbTx' \in [Tx -> Script]
    BY <1>1, <1>4, <2>2 DEF TxInv, TxTypeOK
  <2>4. QED
    BY <1>1, <2>3 DEF TxInv, TxTypeOK
<1>8. TxCounts(v)'
  <2>1. dbTx'[v].ran < dbTx'[v].issued /\ dbTx'[v].ran <= dbTx'[v].issued
    BY <1>2, <1>5, <1>6 DEF TxCounts
  <2>2. UNCHANGED written
    BY <1>1
  <2>3. \A u \in Tx \cup {Pool} : written'[u][v] <= dbTx'[v].ran
    BY <1>2, <1>5, <2>2 DEF TxCounts
  <2>4. QED
    BY <2>1, <2>3 DEF TxCounts
<1>9. ASSUME v \notin overlapped PROVE TxAlone(v)' /\ TxTold(v)'
  <2>1. TxAlone(v) /\ TxTold(v)
    BY <1>2, <1>9
  <2>2. Active' = {v}
    BY <1>1, <1>3, <1>5, <2>1 DEF TxAlone, Active
  <2>3. TxAlone(v)'
    BY <1>1, <1>3, <1>5, <2>1, <2>2 DEF TxAlone
  <2>4. TxTold(v)'
    BY <1>1, <1>5, <1>6, <2>1 DEF TxTold, HasOwn
  <2>5. QED
    BY <2>3, <2>4
<1> QED
  BY <1>1, <1>3, <1>5, <1>7, <1>8, <1>9, OneCall

LEMMA CallbackEndsKeeps == ASSUME TxInv, NEW v \in Tx, CallbackEnds(v) PROVE TxInv'
<1>1. PICK pc \in {"commits", "catches"} : dbTx' = [dbTx EXCEPT ![v].pc = pc]
  BY DEF CallbackEnds, Goes
<1>2. /\ dbTx[v].pc = "runs" /\ v \in Active
      /\ UNCHANGED <<slot, session, written, poisons, overlapped>>
  BY DEF CallbackEnds, Active
<1>3. dbTx[v] \in Script /\ TxCounts(v) /\ (v \notin overlapped => TxAlone(v) /\ TxTold(v))
  BY TxFacts
<1>4. \A u \in Tx : u # v => dbTx'[u] = dbTx[u]
  BY <1>1 DEF TxInv, TxTypeOK
<1>5. /\ dbTx'[v].pc = pc /\ dbTx'[v].told = dbTx[v].told /\ dbTx'[v].on = dbTx[v].on
      /\ dbTx'[v].ran = dbTx[v].ran /\ dbTx'[v].issued = dbTx[v].issued
  BY <1>1, <1>3 DEF Script, TxInv, TxTypeOK
<1>6. TxTypeOK'
  BY <1>1, <1>2, GoesTyped DEF TxInv, TxTypeOK
<1>7. TxCounts(v)'
  BY <1>2, <1>3, <1>5 DEF TxCounts
<1>8. ASSUME v \notin overlapped PROVE TxAlone(v)' /\ TxTold(v)'
  <2>1. TxAlone(v) /\ TxTold(v)
    BY <1>3, <1>8
  <2>2. Active' = {v}
    BY <1>2, <1>4, <1>5, <2>1 DEF TxAlone, Active
  <2>3. TxAlone(v)'
    BY <1>2, <1>4, <1>5, <2>1, <2>2 DEF TxAlone
  <2>4. TxTold(v)'
    BY <1>2, <1>5, <2>1 DEF TxTold, HasOwn
  <2>5. QED
    BY <2>3, <2>4
<1> QED
  BY <1>2, <1>4, <1>5, <1>6, <1>7, <1>8, OneCall

\* A statement that runs: the transaction of its call has it, and the call is told.
LEMMA RunsKeeps == ASSUME TxInv, NEW v \in Tx, Runs(v) PROVE TxInv'
<1>1. /\ dbTx[v].pc = "awaits" /\ v \in Active /\ UNCHANGED <<slot, poisons, overlapped>>
  BY DEF Runs, Active
<1>2. /\ dbTx[v] \in Script /\ TxCounts(v) /\ (v \notin overlapped => TxAlone(v) /\ TxTold(v))
      /\ session[v] \in {"none", "open", "poisoned", "committed", "gone"}
  BY TxFacts
<1>3. dbTx[v].ran \in Nat /\ dbTx[v].issued \in Nat /\ dbTx[v].issued <= MaxStatements
  BY <1>2, TxAssumption DEF Script
<1>4. PICK w \in Tx \cup {Pool} : w = dbTx[v].on
  BY <1>2 DEF Script
<1>5. dbTx[v].ran < dbTx[v].issued
  BY <1>1, <1>2 DEF TxCounts
<1>6. CASE /\ w \in {Pool} \cup {u \in Tx : session[u] = "open"}
           /\ written' = [written EXCEPT ![w][v] = written[w][v] + 1]
           /\ dbTx' = [dbTx EXCEPT ![v].pc = "runs", ![v].ran = dbTx[v].ran + 1]
           /\ session' = [u \in Tx |-> IF Outlived(v, u) THEN "gone" ELSE session[u]]
  <2>1. \A u \in Tx : u # v => dbTx'[u] = dbTx[u]
    BY <1>6 DEF TxInv, TxTypeOK
  <2>2. dbTx'[v] = [dbTx[v] EXCEPT !.pc = "runs", !.ran = dbTx[v].ran + 1]
    BY <1>6 DEF TxInv, TxTypeOK
  <2>3. /\ dbTx'[v].pc = "runs" /\ dbTx'[v].told = dbTx[v].told /\ dbTx'[v].on = w
        /\ dbTx'[v].ran = dbTx[v].ran + 1 /\ dbTx'[v].issued = dbTx[v].issued
    BY <1>2, <1>4, <2>2 DEF Script
  <2>4. /\ written'[w][v] = written[w][v] + 1
        /\ \A u \in Tx \cup {Pool} : u # w => written'[u][v] = written[u][v]
        /\ \A t \in Tx \ {v} : \A u \in Tx \cup {Pool} : written'[u][t] = written[u][t]
    BY <1>6 DEF TxInv, TxTypeOK
  <2>5. \A u \in Tx \cup {Pool} : written[u][v] \in Nat /\ written[u][v] <= dbTx[v].ran
    BY <1>2, TxAssumption DEF TxInv, TxTypeOK, TxCounts
  <2>6. TxCounts(v)'
    <3>1. dbTx'[v].ran <= dbTx'[v].issued
      BY <1>3, <1>5, <2>3
    <3>2. ASSUME NEW u \in Tx \cup {Pool} PROVE written'[u][v] <= dbTx'[v].ran
      <4>1. written[u][v] \in Nat /\ written[u][v] <= dbTx[v].ran
        BY <2>5
      <4>2. written'[u][v] \in {written[u][v], written[u][v] + 1}
        BY <2>4
      <4>3. QED
        BY <1>3, <2>3, <4>1, <4>2
    <3>3. QED
      BY <2>3, <3>1, <3>2 DEF TxCounts
  <2>7. TxTypeOK'
    <3>1. dbTx[v].ran + 1 \in 0 .. MaxStatements
      BY <1>3, <1>5, TxAssumption
    <3>2. dbTx'[v] \in Script
      BY <1>2, <2>2, <3>1 DEF Script
    <3>3. dbTx' \in [Tx -> Script]
      BY <1>6, <2>2, <3>2 DEF TxInv, TxTypeOK
    <3>4. written[w][v] + 1 \in 0 .. MaxStatements
      <4>1. written[w][v] \in Nat /\ written[w][v] <= dbTx[v].ran
        BY <2>5
      <4>2. QED
        BY <1>3, <1>5, <4>1, TxAssumption
    <3>5. written' \in [Tx \cup {Pool} -> [Tx -> 0 .. MaxStatements]]
      BY <1>6, <3>4 DEF TxInv, TxTypeOK
    <3>6. session' \in [Tx -> {"none", "open", "poisoned", "committed", "gone"}]
      BY <1>6 DEF TxInv, TxTypeOK
    <3>7. QED
      BY <1>1, <3>3, <3>5, <3>6 DEF TxInv, TxTypeOK
  <2>8. ASSUME v \notin overlapped PROVE TxAlone(v)' /\ TxTold(v)'
    <3>1. TxAlone(v) /\ TxTold(v) /\ slot = v /\ w = v /\ session[v] = "open"
      <4>1. TxAlone(v) /\ TxTold(v)
        BY <1>2, <2>8
      <4>2. slot = v /\ w = v
        BY <1>1, <1>4, <4>1 DEF TxAlone
      <4>3. QED
        BY <1>6, <4>1, <4>2, TxAssumption
    <3>2. Active' = {v}
      BY <1>1, <2>1, <2>3, <3>1 DEF TxAlone, Active
    <3>3. TxAlone(v)'
      BY <1>1, <2>1, <2>3, <3>1, <3>2 DEF TxAlone
    <3>4. session'[v] = "open"
      BY <1>6, <3>1 DEF Outlived
    <3>5. written[v][v] = dbTx[v].ran /\ \A u \in (Tx \cup {Pool}) \ {v} : written[u][v] = 0
      BY <3>1 DEF TxTold
    <3>6. written'[v][v] = dbTx'[v].ran /\ \A u \in (Tx \cup {Pool}) \ {v} : written'[u][v] = 0
      BY <2>3, <2>4, <3>1, <3>5
    <3>7. dbTx'[v].told = "none"
      BY <1>1, <1>2, <2>3, <3>1 DEF TxTold, Script
    <3>8. TxTold(v)'
      BY <1>1, <2>3, <3>1, <3>4, <3>6, <3>7 DEF TxTold, HasOwn
    <3>9. QED
      BY <3>3, <3>8
  <2>9. \A t \in Tx \ {v} : session[t] \notin {"open", "poisoned"} => session'[t] = session[t]
    BY <1>6 DEF Outlived
  <2>10. QED
    BY <1>1, <1>4, <2>1, <2>3, <2>4, <2>6, <2>7, <2>8, <2>9, OneCall
<1>7. CASE \E pc \in {"runs", "catches"} :
             /\ dbTx' = [dbTx EXCEPT ![v].pc = pc] /\ UNCHANGED written
             /\ session' = [u \in Tx |->
                  IF Outlived(v, u) THEN "gone"
                  ELSE IF u = w /\ session[u] = "open" /\ poisons THEN "poisoned" ELSE session[u]]
  <2>1. PICK pc \in {"runs", "catches"} :
             /\ dbTx' = [dbTx EXCEPT ![v].pc = pc] /\ UNCHANGED written
             /\ session' = [u \in Tx |->
                  IF Outlived(v, u) THEN "gone"
                  ELSE IF u = w /\ session[u] = "open" /\ poisons THEN "poisoned" ELSE session[u]]
    BY <1>7
  <2>2. \A u \in Tx : u # v => dbTx'[u] = dbTx[u]
    BY <2>1 DEF TxInv, TxTypeOK
  <2>3. /\ dbTx'[v].pc = pc /\ dbTx'[v].told = dbTx[v].told /\ dbTx'[v].on = dbTx[v].on
        /\ dbTx'[v].ran = dbTx[v].ran /\ dbTx'[v].issued = dbTx[v].issued
    BY <1>2, <2>1 DEF Script, TxInv, TxTypeOK
  <2>4. TxTypeOK'
    <3>1. dbTx' \in [Tx -> Script]
      <4>1. [dbTx[v] EXCEPT !.pc = pc] \in Script
        BY <1>2 DEF Script
      <4>2. dbTx' = [dbTx EXCEPT ![v].pc = pc]
        BY <2>1
      <4>3. QED
        BY <4>1, <4>2 DEF TxInv, TxTypeOK
    <3>2. session' \in [Tx -> {"none", "open", "poisoned", "committed", "gone"}]
      <4>1. session \in [Tx -> {"none", "open", "poisoned", "committed", "gone"}]
        BY DEF TxInv, TxTypeOK
      <4>2. \A u \in Tx : session'[u] \in {session[u], "gone", "poisoned"}
        BY <2>1
      <4>3. session' = [u \in Tx |-> session'[u]]
        BY <2>1
      <4>4. \A u \in Tx : session'[u] \in {"none", "open", "poisoned", "committed", "gone"}
        BY <4>1, <4>2
      <4>5. QED
        BY <4>3, <4>4
    <3>3. QED
      BY <1>1, <2>1, <3>1, <3>2 DEF TxInv, TxTypeOK
  <2>5. TxCounts(v)'
    BY <1>2, <2>1, <2>3 DEF TxCounts
  <2>6. ASSUME v \notin overlapped PROVE TxAlone(v)' /\ TxTold(v)'
    <3>1. TxAlone(v) /\ TxTold(v) /\ slot = v
      BY <1>1, <1>2, <2>6 DEF TxAlone
    <3>2. Active' = {v}
      BY <1>1, <2>2, <2>3, <3>1 DEF TxAlone, Active
    <3>3. TxAlone(v)'
      BY <1>1, <2>2, <2>3, <3>1, <3>2 DEF TxAlone
    <3>4. session'[v] = session[v] \/ (session'[v] = "poisoned" /\ poisons)
      BY <2>1, <3>1 DEF Outlived
    <3>5. dbTx'[v].told = "none"
      BY <1>1, <1>2, <2>3, <3>1 DEF TxTold, Script
    <3>6. session[v] # "committed"
      BY <2>3, <3>1, <3>5 DEF TxTold
    <3>7. TxTold(v)'
      BY <1>1, <1>5, <2>1, <2>3, <3>1, <3>4, <3>5, <3>6 DEF TxTold, HasOwn
    <3>8. QED
      BY <3>3, <3>7
  <2>7. \A t \in Tx \ {v} : session[t] \notin {"open", "poisoned"} => session'[t] = session[t]
    BY <2>1 DEF Outlived
  <2>8. QED
    BY <1>1, <2>1, <2>2, <2>3, <2>4, <2>5, <2>6, <2>7, OneCall
<1> QED
  BY <1>4, <1>6, <1>7 DEF Runs, Goes

LEMMA TakesSlotKeeps == ASSUME TxInv, NEW v \in Tx, TakesSlot(v) PROVE TxInv'
<1>1. /\ dbTx[v].pc \in {"commits", "catches"} /\ v \in Active
      /\ UNCHANGED <<session, written, poisons, overlapped>>
  BY DEF TakesSlot, Active
<1>2. dbTx[v] \in Script /\ TxCounts(v) /\ (v \notin overlapped => TxAlone(v) /\ TxTold(v))
  BY TxFacts
<1>3. \E s \in Script :
        /\ dbTx' = [dbTx EXCEPT ![v] = s]
        /\ s.ran = dbTx[v].ran /\ s.issued = dbTx[v].issued
        /\ \/ /\ slot # Pool /\ slot' = Pool /\ s.on = slot /\ s.told = dbTx[v].told
              /\ s.pc \in {"committing", "rolls"}
           \/ /\ slot = Pool /\ slot' = slot /\ s.on = dbTx[v].on /\ s.told = dbTx[v].told
              /\ s.pc = "catches"
           \/ /\ slot = Pool /\ slot' = slot /\ s.on = dbTx[v].on /\ s.told = "rejected"
              /\ s.pc = "over" /\ dbTx[v].pc = "catches"
  <2>1. CASE slot # Pool
    <3>1. PICK pc \in {"committing", "rolls"} :
            pc = IF dbTx[v].pc = "commits" THEN "committing" ELSE "rolls"
      OBVIOUS
    <3> DEFINE s == [dbTx[v] EXCEPT !.on = slot, !.pc = pc]
    <3>2. s \in Script
      BY <1>2 DEF TxInv, TxTypeOK, Script
    <3>3. slot' = Pool /\ dbTx' = [dbTx EXCEPT ![v] = s]
      BY <2>1, <3>1 DEF TakesSlot, TxInv, TxTypeOK
    <3>4. /\ s.ran = dbTx[v].ran /\ s.issued = dbTx[v].issued /\ s.on = slot
          /\ s.told = dbTx[v].told /\ s.pc = pc
      BY <1>2 DEF Script
    <3> HIDE DEF s
    <3>5. QED
      BY <2>1, <3>2, <3>3, <3>4
  <2>2. CASE slot = Pool /\ dbTx[v].pc = "commits"
    <3> DEFINE s == [dbTx[v] EXCEPT !.pc = "catches"]
    <3>1. s \in Script
      BY <1>2 DEF Script
    <3>2. slot' = slot /\ dbTx' = [dbTx EXCEPT ![v] = s]
      BY <2>2 DEF TakesSlot, Goes, TxInv, TxTypeOK
    <3>3. /\ s.ran = dbTx[v].ran /\ s.issued = dbTx[v].issued /\ s.on = dbTx[v].on
          /\ s.told = dbTx[v].told /\ s.pc = "catches"
      BY <1>2 DEF Script
    <3> HIDE DEF s
    <3>4. QED
      BY <2>2, <3>1, <3>2, <3>3
  <2>3. CASE slot = Pool /\ dbTx[v].pc = "catches"
    <3> DEFINE s == [dbTx[v] EXCEPT !.pc = "over", !.told = "rejected"]
    <3>1. s \in Script
      BY <1>2 DEF Script
    <3>2. slot' = slot /\ dbTx' = [dbTx EXCEPT ![v] = s]
      BY <2>3 DEF TakesSlot, Rejected, TxInv, TxTypeOK
    <3>3. /\ s.ran = dbTx[v].ran /\ s.issued = dbTx[v].issued /\ s.on = dbTx[v].on
          /\ s.told = "rejected" /\ s.pc = "over"
      BY <1>2 DEF Script
    <3> HIDE DEF s
    <3>4. QED
      BY <2>3, <3>1, <3>2, <3>3
  <2>4. QED
    BY <1>1, <2>1, <2>2, <2>3
<1>4. PICK s \in Script :
        /\ dbTx' = [dbTx EXCEPT ![v] = s]
        /\ s.ran = dbTx[v].ran /\ s.issued = dbTx[v].issued
        /\ \/ /\ slot # Pool /\ slot' = Pool /\ s.on = slot /\ s.told = dbTx[v].told
              /\ s.pc \in {"committing", "rolls"}
           \/ /\ slot = Pool /\ slot' = slot /\ s.on = dbTx[v].on /\ s.told = dbTx[v].told
              /\ s.pc = "catches"
           \/ /\ slot = Pool /\ slot' = slot /\ s.on = dbTx[v].on /\ s.told = "rejected"
              /\ s.pc = "over" /\ dbTx[v].pc = "catches"
  BY <1>3
<1>5. dbTx'[v] = s /\ \A u \in Tx : u # v => dbTx'[u] = dbTx[u]
  BY <1>4 DEF TxInv, TxTypeOK
<1>6. TxTypeOK'
  BY <1>1, <1>4 DEF TxInv, TxTypeOK
<1>7. TxCounts(v)'
  BY <1>1, <1>2, <1>4, <1>5 DEF TxCounts
<1>8. ASSUME v \notin overlapped PROVE TxAlone(v)' /\ TxTold(v)'
  <2>1. TxAlone(v) /\ TxTold(v) /\ slot \in {v, Pool} /\ dbTx[v].told = "none"
    BY <1>1, <1>2, <1>8 DEF TxAlone, TxTold, Script
  <2>2. Active' \in {{v}, {}} /\ (s.pc # "over" => Active' = {v})
    BY <1>1, <1>4, <1>5, <2>1 DEF TxAlone, Active
  <2>3. TxAlone(v)'
    BY <1>4, <1>5, <2>1, <2>2, TxAssumption DEF TxAlone
  <2>4. session[v] # "committed"
    BY <2>1 DEF TxTold
  <2>5. slot = Pool => session[v] \notin {"open", "poisoned"}
    BY <1>1, <2>1, TxAssumption DEF TxTold, HasOwn
  <2>6. TxTold(v)'
    BY <1>1, <1>4, <1>5, <2>1, <2>4, <2>5 DEF TxTold, HasOwn
  <2>7. QED
    BY <2>3, <2>6
<1> QED
  BY <1>1, <1>4, <1>5, <1>6, <1>7, <1>8, OneCall

LEMMA CommitsKeeps == ASSUME TxInv, NEW v \in Tx, Commits(v) PROVE TxInv'
<1>1. /\ dbTx[v].pc = "committing" /\ v \in Active
      /\ UNCHANGED <<slot, written, poisons, overlapped>>
  BY DEF Commits, Active
<1>2. dbTx[v] \in Script /\ TxCounts(v) /\ (v \notin overlapped => TxAlone(v) /\ TxTold(v))
  BY TxFacts
<1>3. PICK w \in Tx \cup {Pool} : w = dbTx[v].on
  BY <1>2 DEF Script
<1>4. CASE /\ session[w] \in {"open", "poisoned"}
           /\ session' = [session EXCEPT ![w] = IF session[w] = "open" THEN "committed" ELSE "gone"]
           /\ dbTx' = [dbTx EXCEPT ![v].pc = "over", ![v].told = "resolved"]
  <2>1. \A u \in Tx : u # v => dbTx'[u] = dbTx[u]
    BY <1>4 DEF TxInv, TxTypeOK
  <2>2. /\ dbTx'[v].pc = "over" /\ dbTx'[v].told = "resolved" /\ dbTx'[v].on = dbTx[v].on
        /\ dbTx'[v].ran = dbTx[v].ran /\ dbTx'[v].issued = dbTx[v].issued
    BY <1>2, <1>4 DEF Script, TxInv, TxTypeOK
  <2>3. TxTypeOK'
    <3>1. dbTx' \in [Tx -> Script]
      BY <1>2, <1>4 DEF TxInv, TxTypeOK, Script
    <3>2. session' \in [Tx -> {"none", "open", "poisoned", "committed", "gone"}]
      BY <1>4 DEF TxInv, TxTypeOK
    <3>3. QED
      BY <1>1, <3>1, <3>2 DEF TxInv, TxTypeOK
  <2>4. TxCounts(v)'
    BY <1>1, <1>2, <2>2 DEF TxCounts
  <2>5. ASSUME v \notin overlapped PROVE TxAlone(v)' /\ TxTold(v)'
    <3>1. TxAlone(v) /\ TxTold(v) /\ slot = Pool /\ w = v
      BY <1>1, <1>2, <1>3, <2>5 DEF TxAlone
    <3>2. v \notin Active'
      BY <2>2 DEF Active
    <3>3. TxAlone(v)'
      BY <1>1, <2>1, <2>2, <3>1, <3>2, TxAssumption DEF TxAlone
    <3>4. session'[v] = IF session[v] = "open" THEN "committed" ELSE "gone"
      BY <1>4, <3>1 DEF TxInv, TxTypeOK
    <3>5. session[v] # "open" => poisons /\ dbTx[v].ran < dbTx[v].issued
      BY <1>4, <3>1 DEF TxTold
    <3>6. TxTold(v)'
      BY <1>1, <2>2, <3>1, <3>4, <3>5 DEF TxTold
    <3>7. QED
      BY <3>3, <3>6
  <2>6. \A t \in Tx \ {v} : t # dbTx[v].on => session'[t] = session[t]
    BY <1>3, <1>4 DEF TxInv, TxTypeOK
  <2>7. QED
    BY <1>1, <2>1, <2>2, <2>3, <2>4, <2>5, <2>6, OneCall
<1>5. CASE /\ dbTx' = [dbTx EXCEPT ![v].pc = "catches"]
           /\ session' = IF session[w] \in {"open", "poisoned"}
                           THEN [session EXCEPT ![w] = "gone"] ELSE session
  <2>1. \A u \in Tx : u # v => dbTx'[u] = dbTx[u]
    BY <1>5 DEF TxInv, TxTypeOK
  <2>2. /\ dbTx'[v].pc = "catches" /\ dbTx'[v].told = dbTx[v].told /\ dbTx'[v].on = dbTx[v].on
        /\ dbTx'[v].ran = dbTx[v].ran /\ dbTx'[v].issued = dbTx[v].issued
    BY <1>2, <1>5 DEF Script, TxInv, TxTypeOK
  <2>3. TxTypeOK'
    <3>1. dbTx' \in [Tx -> Script]
      BY <1>2, <1>5 DEF TxInv, TxTypeOK, Script
    <3>2. session' \in [Tx -> {"none", "open", "poisoned", "committed", "gone"}]
      BY <1>5 DEF TxInv, TxTypeOK
    <3>3. QED
      BY <1>1, <3>1, <3>2 DEF TxInv, TxTypeOK
  <2>4. TxCounts(v)'
    BY <1>1, <1>2, <2>2 DEF TxCounts
  <2>5. ASSUME v \notin overlapped PROVE TxAlone(v)' /\ TxTold(v)'
    <3>1. TxAlone(v) /\ TxTold(v) /\ slot = Pool /\ w = v
      BY <1>1, <1>2, <1>3, <2>5 DEF TxAlone
    <3>2. Active' = {v}
      BY <1>1, <2>1, <2>2, <3>1 DEF TxAlone, Active
    <3>3. TxAlone(v)'
      BY <1>1, <2>1, <2>2, <3>1, <3>2, TxAssumption DEF TxAlone
    <3>4. session'[v] \in {session[v], "gone"} /\ session'[v] \notin {"open", "poisoned"}
      BY <1>5, <3>1 DEF TxInv, TxTypeOK
    <3>5. dbTx[v].told = "none" /\ session[v] # "committed"
      BY <1>1, <1>2, <3>1 DEF TxTold, Script
    <3>6. TxTold(v)'
      BY <1>1, <2>2, <3>1, <3>4, <3>5 DEF TxTold
    <3>7. QED
      BY <3>3, <3>6
  <2>6. \A t \in Tx \ {v} : t # dbTx[v].on => session'[t] = session[t]
    BY <1>3, <1>5 DEF TxInv, TxTypeOK
  <2>7. QED
    BY <1>1, <2>1, <2>2, <2>3, <2>4, <2>5, <2>6, OneCall
<1> QED
  BY <1>3, <1>4, <1>5 DEF Commits, Goes

LEMMA RollsBackKeeps == ASSUME TxInv, NEW v \in Tx, RollsBack(v) PROVE TxInv'
<1>1. /\ dbTx[v].pc = "rolls" /\ v \in Active
      /\ UNCHANGED <<slot, written, poisons, overlapped>>
  BY DEF RollsBack, Active
<1>2. dbTx[v] \in Script /\ TxCounts(v) /\ (v \notin overlapped => TxAlone(v) /\ TxTold(v))
  BY TxFacts
<1>3. PICK w \in Tx \cup {Pool} : w = dbTx[v].on
  BY <1>2 DEF Script
<1>4. /\ session' = [session EXCEPT ![w] = IF session[w] = "committed" THEN session[w] ELSE "gone"]
      /\ dbTx' = [dbTx EXCEPT ![v].pc = "over", ![v].told = "rejected"]
  BY <1>3 DEF RollsBack, Rejected
<1>5. \A u \in Tx : u # v => dbTx'[u] = dbTx[u]
  BY <1>4 DEF TxInv, TxTypeOK
<1>6. /\ dbTx'[v].pc = "over" /\ dbTx'[v].told = "rejected" /\ dbTx'[v].on = dbTx[v].on
      /\ dbTx'[v].ran = dbTx[v].ran /\ dbTx'[v].issued = dbTx[v].issued
  BY <1>2, <1>4 DEF Script, TxInv, TxTypeOK
<1>7. TxTypeOK'
  <2>1. dbTx' \in [Tx -> Script]
    BY <1>2, <1>4 DEF TxInv, TxTypeOK, Script
  <2>2. session' \in [Tx -> {"none", "open", "poisoned", "committed", "gone"}]
    BY <1>4 DEF TxInv, TxTypeOK
  <2>3. QED
    BY <1>1, <2>1, <2>2 DEF TxInv, TxTypeOK
<1>8. TxCounts(v)'
  BY <1>1, <1>2, <1>6 DEF TxCounts
<1>9. ASSUME v \notin overlapped PROVE TxAlone(v)' /\ TxTold(v)'
  <2>1. TxAlone(v) /\ TxTold(v) /\ slot = Pool /\ w = v
    BY <1>1, <1>2, <1>3, <1>9 DEF TxAlone
  <2>2. v \notin Active'
    BY <1>6 DEF Active
  <2>3. TxAlone(v)'
    BY <1>1, <1>5, <1>6, <2>1, <2>2, TxAssumption DEF TxAlone
  <2>4. session[v] # "committed"
    BY <1>1, <1>2, <2>1 DEF TxTold
  <2>5. session'[v] = "gone"
    BY <1>4, <2>1, <2>4 DEF TxInv, TxTypeOK
  <2>6. TxTold(v)'
    BY <1>1, <1>6, <2>1, <2>5 DEF TxTold
  <2>7. QED
    BY <2>3, <2>6
<1>10. \A t \in Tx \ {v} : t # dbTx[v].on => session'[t] = session[t]
  BY <1>3, <1>4 DEF TxInv, TxTypeOK
<1> QED
  BY <1>1, <1>5, <1>6, <1>7, <1>8, <1>9, <1>10, OneCall

LEMMA RequestEndsKeeps == ASSUME TxInv, RequestEnds PROVE TxInv'
<1>1. slot' = Pool /\ UNCHANGED <<written, poisons, overlapped>>
  BY DEF RequestEnds
<1>2. ASSUME NEW t \in Tx
      PROVE  /\ dbTx'[t] \in Script
             /\ dbTx'[t].pc = "over" /\ dbTx'[t].told = dbTx[t].told /\ dbTx'[t].on = dbTx[t].on
             /\ dbTx'[t].ran = dbTx[t].ran /\ dbTx'[t].issued = dbTx[t].issued
  <2>1. dbTx'[t] = [dbTx[t] EXCEPT !.pc = "over"] /\ dbTx[t] \in Script
    BY DEF RequestEnds, TxInv, TxTypeOK
  <2>2. QED
    BY <2>1 DEF Script
<1>3. ASSUME NEW t \in Tx
      PROVE  /\ session'[t] \in {session[t], "gone"}
             /\ session'[t] \notin {"open", "poisoned"}
             /\ session[t] = "committed" => session'[t] = "committed"
  BY DEF RequestEnds
<1>4. TxTypeOK'
  <2>1. dbTx' \in [Tx -> Script]
    <3>1. dbTx' = [t \in Tx |-> dbTx'[t]]
      BY DEF RequestEnds
    <3>2. QED
      BY <1>2, <3>1
  <2>2. session' \in [Tx -> {"none", "open", "poisoned", "committed", "gone"}]
    <3>1. session' = [t \in Tx |-> session'[t]]
      BY DEF RequestEnds
    <3>2. session \in [Tx -> {"none", "open", "poisoned", "committed", "gone"}]
      BY DEF TxInv, TxTypeOK
    <3>3. \A t \in Tx : session'[t] \in {"none", "open", "poisoned", "committed", "gone"}
      BY <1>3, <3>2
    <3>4. QED
      BY <3>1, <3>3
  <2>3. QED
    BY <1>1, <2>1, <2>2 DEF TxInv, TxTypeOK
<1>5. Active' = {}
  BY <1>2 DEF Active
<1>6. ASSUME NEW t \in Tx PROVE TxCounts(t)'
  <2>1. TxCounts(t)
    BY DEF TxInv
  <2>2. QED
    BY <1>1, <1>2, <2>1 DEF TxCounts
<1>7. ASSUME NEW t \in Tx \ overlapped' PROVE TxAlone(t)' /\ TxTold(t)'
  <2>1. TxAlone(t) /\ TxTold(t)
    BY <1>1, <1>7 DEF TxInv
  <2>2. TxAlone(t)'
    <3>1. t \notin Active' /\ slot' # t
      BY <1>1, <1>5, TxAssumption
    <3>2. \A v \in Tx \ {t} : dbTx'[v].on # t
      BY <1>2, <2>1 DEF TxAlone
    <3>3. dbTx'[t].pc = "over"
      BY <1>2
    <3>4. QED
      BY <3>1, <3>2, <3>3 DEF TxAlone
  <2>3. TxTold(t)'
    <3>1. dbTx'[t].pc = "over" /\ dbTx'[t].told = dbTx[t].told
      BY <1>2
    <3>2. dbTx'[t].ran = dbTx[t].ran /\ dbTx'[t].issued = dbTx[t].issued
      BY <1>2
    <3>3. /\ session'[t] \in {session[t], "gone"} /\ session'[t] \notin {"open", "poisoned"}
          /\ session[t] = "committed" => session'[t] = "committed"
      BY <1>3
    <3>4. dbTx[t].told = "resolved" /\ session[t] # "committed" =>
            poisons /\ dbTx[t].ran < dbTx[t].issued
      BY <2>1 DEF TxTold
    <3>5. session[t] = "committed" => dbTx[t].told = "resolved"
      BY <2>1 DEF TxTold
    <3>6. QED
      BY <1>1, <2>1, <3>1, <3>2, <3>3, <3>4, <3>5 DEF TxTold
  <2>4. QED
    BY <2>2, <2>3
<1> QED
  BY <1>4, <1>6, <1>7 DEF TxInv

LEMMA TxKeeps == TxInv /\ [TxNext]_txVars => TxInv'
<1> SUFFICES ASSUME TxInv, [TxNext]_txVars PROVE TxInv'
  OBVIOUS
<1>1. CASE UNCHANGED txVars
  BY <1>1 DEF txVars, TxInv, TxTypeOK, TxCounts, TxAlone, TxTold, HasOwn, Active
<1>2. CASE TxNext
  BY <1>2, BeginsKeeps, OpensKeeps, IssuesKeeps, RunsKeeps, CallbackEndsKeeps, TakesSlotKeeps,
     CommitsKeeps, RollsBackKeeps, RequestEndsKeeps
     DEF TxNext
<1> QED
  BY <1>1, <1>2

LEMMA TxTrue == TxInv => TxIsAtomic
<1> SUFFICES ASSUME TxInv, NEW t \in Tx \ overlapped
             PROVE  /\ dbTx[t].told = "resolved" =>
                         \/ session[t] = "committed" /\ written[t][t] = dbTx[t].ran
                         \/ poisons /\ dbTx[t].ran < dbTx[t].issued
                    /\ dbTx[t].told = "rejected" => session[t] # "committed"
                    /\ \A u \in ({Pool} \cup Tx) \ {t} : written[u][t] = 0
  BY DEF TxIsAtomic
<1> QED
  BY DEF TxInv, TxTold

-----------------------------------------------------------------------------
(* Mails.  A mail that the queue has taken is in the queue or with a       *)
(* worker until it is done, or a worker has died; and once a worker leaves *)
(* the queue is empty and nobody can put anything in it.                   *)

\* Of a mail's record c: answer, verdict and result by how far its job has come.
MailSound(c) ==
  /\ c.pc \in {"idle", "submits", "sender", "known"} => c.job = "none" /\ c.answer = "none"
  /\ c.pc = "refused" => c.mode = "enqueue" /\ c.job = "none" /\ c.answer \in {"failed", "full"}
  /\ c.pc \in {"accepted", "waits"} => c.mode = "send" /\ c.job # "none" /\ c.answer = "none"
  /\ c.job = "none" =>
       /\ ~c.sent /\ c.verdict = "none" /\ c.answer \in {"none", "failed", "full"}
       /\ c.result \in {"none", c.answer}
  /\ c.job \in {"queued", "working", "dropped"} => c.verdict = "none" /\ c.result = "none"
  /\ c.job \in {"queued", "working"} => ~c.sent
  /\ c.job \in {"reporting", "done"} =>
       /\ c.verdict \in Verdicts /\ (c.verdict = "ok" => c.sent)
       /\ c.verdict = "invalid" => ~c.sent
  /\ c.job = "reporting" => c.result = "none"
  /\ c.job = "done" => c.result \in {"none", c.verdict}
  /\ c.job # "none" /\ c.mode = "send" =>
       c.answer \in {"none", "failed"} \/ (c.job = "done" /\ c.answer = c.verdict)
  /\ c.job # "none" /\ c.mode = "enqueue" => c.answer = "ok"

\* Of the record c of a mail with a ticket.
TicketSound(c) ==
  /\ c.mode = "enqueue" /\ c.pc # "idle"
  /\ c.pc = "over" /\ c.job \in {"none", "done"} => c.result # "none"

QueueSound ==
  /\ \A i \in DOMAIN mailQueue : mail[mailQueue[i]].job = "queued"
  /\ \A i, k \in DOMAIN mailQueue : mailQueue[i] = mailQueue[k] => i = k

JobPlaced(m) ==
  /\ mail[m].job = "queued" => \E i \in DOMAIN mailQueue : mailQueue[i] = m
  /\ mail[m].job \in {"working", "reporting"} => \E w \in Worker : worker[w] = m
  /\ mail[m].job = "dropped" => \E w \in Worker : worker[w] = "dead"

Gone == {w \in Worker : worker[w] = "gone"}
Left == {w \in Worker : worker[w] \in {"leaves", "released", "gone"}}

DrainSound ==
  /\ drain.heard <= Cardinality(Gone)
  /\ Left # {} => /\ mailQueue = <<>> /\ drain.pc # "up"
                  /\ \A m \in Mail : ~HoldsSender(m)

MailInv ==
  /\ MailTypeOK /\ QueueSound /\ DrainSound
  /\ \A m \in Mail : /\ MailSound(mail[m]) /\ JobPlaced(m)
                     /\ HasTicket(m) => TicketSound(mail[m])

LEMMA MailAppend ==
  ASSUME NEW s \in Seq(Mail), NEW e \in Mail
  PROVE  /\ Append(s, e) \in Seq(Mail)
         /\ DOMAIN Append(s, e) = DOMAIN s \cup {Len(s) + 1}
         /\ Len(s) + 1 \notin DOMAIN s
         /\ \A i \in DOMAIN s : Append(s, e)[i] = s[i]
         /\ Append(s, e)[Len(s) + 1] = e
OBVIOUS

LEMMA MailTail ==
  ASSUME NEW s \in Seq(Mail), s # <<>>
  PROVE  /\ Tail(s) \in Seq(Mail) /\ Head(s) \in Mail
         /\ 1 \in DOMAIN s /\ Head(s) = s[1]
         /\ \A i \in DOMAIN Tail(s) : i \in Nat /\ i + 1 \in DOMAIN s /\ Tail(s)[i] = s[i + 1]
         /\ \A i \in DOMAIN Tail(s) : i + 1 # 1
         /\ \A i \in DOMAIN s : i # 1 => i - 1 \in DOMAIN Tail(s) /\ Tail(s)[i - 1] = s[i]
OBVIOUS

LEMMA MailInitially == MailInit => MailInv
<1> SUFFICES ASSUME MailInit PROVE MailInv
  OBVIOUS
<1>1. Cardinality(Worker) \in Nat
  BY MailAssumption, FS_CardinalityType
<1>2. MailTypeOK
  <2>1. ASSUME NEW d \in {"send", "enqueue"}
        PROVE  [mode |-> d, pc |-> "idle", answer |-> "none", job |-> "none", verdict |-> "none",
                sent |-> FALSE, future |-> "none", result |-> "none"] \in MailCall
    BY DEF MailCall, Result, Verdicts
  <2>2. mail \in [Mail -> MailCall]
    BY <2>1 DEF MailInit
  <2>3. mailQueue \in Seq(Mail) /\ tickets \in Seq(Mail)
    BY DEF MailInit
  <2>4. worker \in [Worker -> Mail \cup {"free", "leaves", "released", "gone", "dead"}]
    BY DEF MailInit
  <2>5. drain \in [pc : {"up", "collects", "down"}, heard : 0 .. Cardinality(Worker)]
    BY <1>1 DEF MailInit
  <2>6. QED
    BY <2>2, <2>3, <2>4, <2>5 DEF MailTypeOK
<1>3. DOMAIN mailQueue = {} /\ DOMAIN tickets = {}
  <2>1. DOMAIN <<>> = {}
    OBVIOUS
  <2>2. QED
    BY <2>1 DEF MailInit
<1>4. QueueSound
  BY <1>3 DEF QueueSound
<1>5. DrainSound
  <2>1. Gone = {} /\ Left = {}
    BY DEF MailInit, Gone, Left
  <2>2. Cardinality({}) = 0
    BY FS_EmptySet
  <2>3. QED
    BY <2>1, <2>2 DEF MailInit, DrainSound
<1>6. ASSUME NEW m \in Mail PROVE MailSound(mail[m]) /\ JobPlaced(m) /\ ~HasTicket(m)
  <2>1. /\ mail[m].pc = "idle" /\ mail[m].answer = "none" /\ mail[m].job = "none"
        /\ mail[m].verdict = "none" /\ mail[m].sent = FALSE /\ mail[m].result = "none"
    BY DEF MailInit
  <2>2. QED
    BY <1>3, <2>1 DEF MailSound, JobPlaced, HasTicket
<1> QED
  BY <1>2, <1>4, <1>5, <1>6 DEF MailInv

LEMMA MailFacts ==
  ASSUME MailInv, NEW m \in Mail
  PROVE  /\ mail[m] \in MailCall /\ MailSound(mail[m]) /\ JobPlaced(m)
         /\ HasTicket(m) => TicketSound(mail[m])
  BY DEF MailInv, MailTypeOK

\* Steps that leave the workers and the drain alone and give nobody a sender.
LEMMA DrainKept ==
  ASSUME MailInv, UNCHANGED <<worker, drain>>,
         Left # {} => mailQueue' = mailQueue /\ \A m \in Mail : HoldsSender(m)' => HoldsSender(m)
  PROVE  DrainSound'
<1>1. Gone' = Gone /\ Left' = Left
  BY DEF Gone, Left
<1> QED
  BY <1>1 DEF MailInv, DrainSound

\* A step of one mail's call that leaves its job alone.
LEMMA OneMail ==
  ASSUME MailInv, NEW m \in Mail, NEW c \in MailCall,
         mail' = [mail EXCEPT ![m] = c], UNCHANGED <<mailQueue, worker, tickets, drain>>,
         c.job = mail[m].job, MailSound(c), HasTicket(m) => TicketSound(c),
         c.pc \in {"sender", "known", "accepted"} /\ Left # {} => HoldsSender(m)
  PROVE  MailInv'
<1>1. mail'[m] = c /\ \A n \in Mail \ {m} : mail'[n] = mail[n]
  BY DEF MailInv, MailTypeOK
<1>2. MailTypeOK'
  BY DEF MailInv, MailTypeOK
<1>3. \A n \in Mail : mail'[n].job = mail[n].job /\ (HasTicket(n)' <=> HasTicket(n))
  BY <1>1 DEF HasTicket
<1>4. QueueSound'
  <2>1. \A i \in DOMAIN mailQueue : mailQueue[i] \in Mail
    BY DEF MailInv, MailTypeOK
  <2>2. QED
    BY <1>3, <2>1 DEF MailInv, QueueSound
<1>5. DrainSound'
  BY <1>1, DrainKept DEF HoldsSender
<1>6. ASSUME NEW n \in Mail
      PROVE  /\ MailSound(mail'[n]) /\ JobPlaced(n)'
             /\ HasTicket(n)' => TicketSound(mail'[n])
  BY <1>1, <1>3 DEF MailInv, JobPlaced
<1> QED
  BY <1>2, <1>4, <1>5, <1>6 DEF MailInv

\* An answer that is no verdict, before the queue has taken the mail.
LEMMA RefusalSound ==
  ASSUME MailInv, NEW m \in Mail, mail[m].pc \in {"submits", "sender", "known"},
         NEW a \in {"failed", "full"}
  PROVE  /\ Answered(m, a) \in MailCall /\ Answered(m, a).job = mail[m].job
         /\ MailSound(Answered(m, a)) /\ (HasTicket(m) => TicketSound(Answered(m, a)))
         /\ Answered(m, a).pc \in {"refused", "over"}
<1>1. PICK c \in MailCall : c = mail[m]
  BY MailFacts
<1>2. MailSound(c) /\ (HasTicket(m) => TicketSound(c)) /\ c.pc \in {"submits", "sender", "known"}
  BY <1>1, MailFacts
<1>3. PICK pc \in {"refused", "over"} : pc = IF c.mode = "enqueue" THEN "refused" ELSE "over"
  OBVIOUS
<1> DEFINE d == [c EXCEPT !.answer = a, !.pc = pc]
<1>4. Answered(m, a) = d
  BY <1>1, <1>3 DEF Answered
<1>5. d \in MailCall
  BY DEF MailCall, Result, Verdicts
<1>6. /\ d.pc = pc /\ d.answer = a /\ d.mode = c.mode /\ d.job = c.job /\ d.sent = c.sent
      /\ d.verdict = c.verdict /\ d.result = c.result
  BY DEF MailCall
<1> HIDE DEF d
<1>7. c.job = "none" /\ c.answer = "none" /\ c.mode \in {"send", "enqueue"}
  BY <1>2 DEF MailSound, MailCall
<1>8. MailSound(d)
  BY <1>2, <1>3, <1>6, <1>7 DEF MailSound
<1>9. HasTicket(m) => TicketSound(d)
  BY <1>2, <1>3, <1>6 DEF TicketSound
<1> QED
  BY <1>1, <1>4, <1>5, <1>6, <1>8, <1>9

LEMMA TakesSenderKeeps == ASSUME MailInv, NEW m \in Mail, TakesSender(m) PROVE MailInv'
<1>1. PICK c \in MailCall : c = mail[m]
  BY MailFacts
<1>2. /\ MailSound(c) /\ (HasTicket(m) => TicketSound(c)) /\ c.pc = "submits"
      /\ UNCHANGED <<mailQueue, worker, tickets, drain>>
  BY <1>1, MailFacts DEF TakesSender
<1>3. CASE drain.pc = "up"
  <2> DEFINE d == [c EXCEPT !.pc = "sender"]
  <2>1. d \in MailCall
    BY DEF MailCall
  <2>2. mail' = [mail EXCEPT ![m] = d]
    BY <1>1, <1>3 DEF TakesSender
  <2>3. /\ d.pc = "sender" /\ d.answer = c.answer /\ d.mode = c.mode /\ d.job = c.job
        /\ d.sent = c.sent /\ d.verdict = c.verdict /\ d.result = c.result
    BY DEF MailCall
  <2> HIDE DEF d
  <2>4. MailSound(d) /\ (HasTicket(m) => TicketSound(d))
    BY <1>2, <2>3 DEF MailSound, TicketSound
  <2>5. Left = {}
    BY <1>3 DEF MailInv, DrainSound
  <2>6. QED
    BY <1>1, <1>2, <2>1, <2>2, <2>3, <2>4, <2>5, OneMail
<1>4. CASE drain.pc # "up"
  <2>1. PICK d \in MailCall : d = Answered(m, "failed")
    BY <1>1, <1>2, RefusalSound
  <2>2. /\ d.job = mail[m].job /\ MailSound(d) /\ (HasTicket(m) => TicketSound(d))
        /\ d.pc \in {"refused", "over"}
    BY <1>1, <1>2, <2>1, RefusalSound
  <2>3. mail' = [mail EXCEPT ![m] = d]
    BY <1>4, <2>1 DEF TakesSender
  <2>4. QED
    BY <1>2, <2>2, <2>3, OneMail
<1> QED
  BY <1>3, <1>4

LEMMA LooksUpKeeps == ASSUME MailInv, NEW m \in Mail, LooksUpProfile(m) PROVE MailInv'
<1>1. PICK c \in MailCall : c = mail[m]
  BY MailFacts
<1>2. /\ MailSound(c) /\ (HasTicket(m) => TicketSound(c)) /\ c.pc = "sender" /\ HoldsSender(m)
      /\ UNCHANGED <<mailQueue, worker, tickets, drain>>
  BY <1>1, MailFacts DEF LooksUpProfile, HoldsSender
<1>3. CASE ~Disposed
  <2> DEFINE d == [c EXCEPT !.pc = "known"]
  <2>1. d \in MailCall
    BY DEF MailCall
  <2>2. mail' = [mail EXCEPT ![m] = d]
    BY <1>1, <1>3 DEF LooksUpProfile
  <2>3. /\ d.pc = "known" /\ d.answer = c.answer /\ d.mode = c.mode /\ d.job = c.job
        /\ d.sent = c.sent /\ d.verdict = c.verdict /\ d.result = c.result
    BY DEF MailCall
  <2> HIDE DEF d
  <2>4. MailSound(d) /\ (HasTicket(m) => TicketSound(d))
    BY <1>2, <2>3 DEF MailSound, TicketSound
  <2>5. QED
    BY <1>1, <1>2, <2>1, <2>2, <2>3, <2>4, OneMail
<1>4. CASE Disposed
  <2>1. PICK d \in MailCall : d = Answered(m, "failed")
    BY <1>1, <1>2, RefusalSound
  <2>2. /\ d.job = mail[m].job /\ MailSound(d) /\ (HasTicket(m) => TicketSound(d))
        /\ d.pc \in {"refused", "over"}
    BY <1>1, <1>2, <2>1, RefusalSound
  <2>3. mail' = [mail EXCEPT ![m] = d]
    BY <1>4, <2>1 DEF LooksUpProfile
  <2>4. QED
    BY <1>2, <2>2, <2>3, OneMail
<1> QED
  BY <1>3, <1>4

LEMMA SpawnsFutureKeeps == ASSUME MailInv, NEW m \in Mail, SpawnsFuture(m) PROVE MailInv'
<1>1. PICK c \in MailCall : c = mail[m]
  BY MailFacts
<1>2. /\ MailSound(c) /\ (HasTicket(m) => TicketSound(c)) /\ c.pc = "accepted" /\ HoldsSender(m)
      /\ UNCHANGED <<mailQueue, worker, tickets, drain>>
  BY <1>1, MailFacts DEF SpawnsFuture, HoldsSender
<1>3. c.mode = "send" /\ c.job # "none" /\ c.answer = "none"
  BY <1>2 DEF MailSound
<1>4. ~HasTicket(m)
  BY <1>2, <1>3 DEF TicketSound
<1>5. \E d \in MailCall :
        /\ mail' = [mail EXCEPT ![m] = d]
        /\ d.mode = c.mode /\ d.job = c.job /\ d.sent = c.sent /\ d.verdict = c.verdict
        /\ d.result = c.result
        /\ \/ d.pc = "waits" /\ d.answer = "none"
           \/ d.pc = "over" /\ d.answer = "failed"
  <2>1. CASE Disposed
    <3> DEFINE d == [c EXCEPT !.answer = "failed", !.pc = "over"]
    <3>1. mail' = [mail EXCEPT ![m] = d]
      BY <1>1, <1>3, <2>1 DEF SpawnsFuture, Answered
    <3>2. d \in MailCall
      BY DEF MailCall, Result, Verdicts
    <3>3. /\ d.mode = c.mode /\ d.job = c.job /\ d.sent = c.sent /\ d.verdict = c.verdict
          /\ d.result = c.result /\ d.pc = "over" /\ d.answer = "failed"
      BY DEF MailCall
    <3> HIDE DEF d
    <3>4. QED
      BY <3>1, <3>2, <3>3
  <2>2. CASE ~Disposed
    <3> DEFINE d == [c EXCEPT !.pc = "waits", !.future = "pending"]
    <3>1. mail' = [mail EXCEPT ![m] = d]
      BY <1>1, <2>2 DEF SpawnsFuture
    <3>2. d \in MailCall
      BY DEF MailCall
    <3>3. /\ d.mode = c.mode /\ d.job = c.job /\ d.sent = c.sent /\ d.verdict = c.verdict
          /\ d.result = c.result /\ d.pc = "waits" /\ d.answer = "none"
      BY <1>3 DEF MailCall
    <3> HIDE DEF d
    <3>4. QED
      BY <3>1, <3>2, <3>3
  <2>3. QED
    BY <2>1, <2>2
<1>6. PICK d \in MailCall :
        /\ mail' = [mail EXCEPT ![m] = d]
        /\ d.mode = c.mode /\ d.job = c.job /\ d.sent = c.sent /\ d.verdict = c.verdict
        /\ d.result = c.result
        /\ \/ d.pc = "waits" /\ d.answer = "none"
           \/ d.pc = "over" /\ d.answer = "failed"
  BY <1>5
<1>7. MailSound(d)
  BY <1>2, <1>3, <1>6 DEF MailSound
<1> QED
  BY <1>1, <1>2, <1>4, <1>6, <1>7, OneMail

\* The answer of a send is the verdict of a job that is done, or a failure.
LEMMA PollsKeeps == ASSUME MailInv, NEW m \in Mail, Polls(m) \/ CutsOff(m) PROVE MailInv'
<1>1. PICK c \in MailCall : c = mail[m]
  BY MailFacts
<1>2. /\ MailSound(c) /\ (HasTicket(m) => TicketSound(c)) /\ c.pc = "waits"
      /\ UNCHANGED <<mailQueue, worker, tickets, drain>>
  BY <1>1, MailFacts DEF Polls, CutsOff
<1>3. c.mode = "send" /\ c.job # "none" /\ c.answer = "none"
  BY <1>2 DEF MailSound
<1>4. ~HasTicket(m)
  BY <1>2, <1>3 DEF TicketSound
<1>5. \E a \in Result : /\ mail' = [mail EXCEPT ![m] =
                                     [c EXCEPT !.answer = a, !.pc = "over", !.future = "freed"]]
                        /\ a \in {"none", "failed"} \/ (c.job = "done" /\ a = c.verdict)
  <2>1. CASE CutsOff(m)
    <3>1. c.answer \in Result
      BY <1>3 DEF Result
    <3>2. mail' = [mail EXCEPT ![m] = [c EXCEPT !.pc = "over", !.future = "freed"]]
      BY <1>1, <2>1 DEF CutsOff, MailInv, MailTypeOK
    <3>3. [c EXCEPT !.pc = "over", !.future = "freed"]
            = [c EXCEPT !.answer = c.answer, !.pc = "over", !.future = "freed"]
      BY DEF MailCall
    <3>4. QED
      BY <1>3, <3>1, <3>2, <3>3
  <2>2. CASE Polls(m) /\ c.future = "ready" /\ c.job = "done"
    <3>1. c.verdict \in Result
      BY <1>2, <2>2 DEF MailSound, Result
    <3>2. mail' = [mail EXCEPT ![m] =
                     [c EXCEPT !.answer = c.verdict, !.pc = "over", !.future = "freed"]]
      BY <1>1, <1>3, <2>2 DEF Polls, Answered
    <3>3. QED
      BY <2>2, <3>1, <3>2
  <2>3. CASE Polls(m) /\ ~(c.future = "ready" /\ c.job = "done")
    <3>1. "failed" \in Result
      BY DEF Result, Verdicts
    <3>2. mail' = [mail EXCEPT ![m] =
                     [c EXCEPT !.answer = "failed", !.pc = "over", !.future = "freed"]]
      BY <1>1, <1>3, <2>3 DEF Polls, Answered
    <3>3. QED
      BY <3>1, <3>2
  <2>4. QED
    BY <2>1, <2>2, <2>3
<1>6. PICK a \in Result :
        /\ mail' = [mail EXCEPT ![m] = [c EXCEPT !.answer = a, !.pc = "over", !.future = "freed"]]
        /\ a \in {"none", "failed"} \/ (c.job = "done" /\ a = c.verdict)
  BY <1>5
<1> DEFINE d == [c EXCEPT !.answer = a, !.pc = "over", !.future = "freed"]
<1>7. d \in MailCall
  BY DEF MailCall
<1>8. /\ d.mode = c.mode /\ d.job = c.job /\ d.sent = c.sent /\ d.verdict = c.verdict
      /\ d.result = c.result /\ d.pc = "over" /\ d.answer = a
  BY DEF MailCall
<1>9. mail' = [mail EXCEPT ![m] = d]
  BY <1>6
<1> HIDE DEF d
<1>10. MailSound(d)
  BY <1>2, <1>3, <1>6, <1>8 DEF MailSound
<1> QED
  BY <1>1, <1>2, <1>4, <1>7, <1>8, <1>9, <1>10, OneMail

LEMMA FillsRefusalKeeps == ASSUME MailInv, NEW m \in Mail, FillsRefusal(m) PROVE MailInv'
<1>1. PICK c \in MailCall : c = mail[m]
  BY MailFacts
<1>2. /\ MailSound(c) /\ (HasTicket(m) => TicketSound(c)) /\ c.pc = "refused"
      /\ UNCHANGED <<mailQueue, worker, tickets, drain>>
  BY <1>1, MailFacts DEF FillsRefusal
<1>3. /\ c.mode = "enqueue" /\ c.job = "none" /\ c.answer \in {"failed", "full"}
      /\ c.result \in {"none", c.answer}
  BY <1>2 DEF MailSound
<1>4. PICK r \in Result : r = Filled(m, c.answer)
  BY <1>1, <1>3 DEF Filled, MailCall
<1>5. r \in {"none", c.answer} /\ (HasTicket(m) => r # "none")
  BY <1>1, <1>3, <1>4 DEF Filled
<1> DEFINE d == [c EXCEPT !.pc = "over", !.result = r]
<1>6. d \in MailCall
  BY DEF MailCall
<1>7. /\ d.mode = c.mode /\ d.job = c.job /\ d.sent = c.sent /\ d.verdict = c.verdict
      /\ d.result = r /\ d.pc = "over" /\ d.answer = c.answer
  BY DEF MailCall
<1>8. mail' = [mail EXCEPT ![m] = d]
  BY <1>1, <1>4 DEF FillsRefusal, MailInv, MailTypeOK
<1> HIDE DEF d
<1>9. MailSound(d)
  BY <1>2, <1>3, <1>5, <1>7 DEF MailSound
<1>10. HasTicket(m) => TicketSound(d)
  BY <1>3, <1>5, <1>7 DEF TicketSound
<1> QED
  BY <1>1, <1>2, <1>6, <1>7, <1>8, <1>9, <1>10, OneMail

LEMMA ForwardsKeeps == ASSUME MailInv, NEW m \in Mail, Forwards(m) PROVE MailInv'
<1>1. PICK c \in MailCall : c = mail[m]
  BY MailFacts
<1>2. /\ MailSound(c) /\ (HasTicket(m) => TicketSound(c))
      /\ UNCHANGED <<mailQueue, worker, tickets, drain>>
  BY <1>1, MailFacts DEF Forwards
<1>3. PICK f \in {"ready", "closed"} : mail' = [mail EXCEPT ![m].future = f]
  BY DEF Forwards
<1> DEFINE d == [c EXCEPT !.future = f]
<1>4. d \in MailCall
  BY DEF MailCall
<1>5. /\ d.mode = c.mode /\ d.job = c.job /\ d.sent = c.sent /\ d.verdict = c.verdict
      /\ d.result = c.result /\ d.pc = c.pc /\ d.answer = c.answer
  BY DEF MailCall
<1>6. mail' = [mail EXCEPT ![m] = d]
  BY <1>1, <1>3 DEF MailInv, MailTypeOK
<1> HIDE DEF d
<1>7. MailSound(d) /\ (HasTicket(m) => TicketSound(d))
  BY <1>2, <1>5 DEF MailSound, TicketSound
<1>8. d.pc \in {"sender", "known", "accepted"} => HoldsSender(m)
  BY <1>1, <1>5 DEF HoldsSender
<1> QED
  BY <1>1, <1>2, <1>4, <1>5, <1>6, <1>7, <1>8, OneMail

LEMMA ReservesKeeps == ASSUME MailInv, NEW m \in Mail, Reserves(m) PROVE MailInv'
<1>1. PICK c \in MailCall : c = mail[m]
  BY MailFacts
<1>2. /\ MailSound(c) /\ (HasTicket(m) => TicketSound(c)) /\ c.pc = "idle"
      /\ UNCHANGED <<mailQueue, worker, drain>>
  BY <1>1, MailFacts DEF Reserves
<1> DEFINE d == [c EXCEPT !.pc = "submits"]
<1>3. d \in MailCall
  BY DEF MailCall
<1>4. mail' = [mail EXCEPT ![m] = d]
  BY <1>1 DEF Reserves, MailInv, MailTypeOK
<1>5. /\ d.pc = "submits" /\ d.answer = c.answer /\ d.mode = c.mode /\ d.job = c.job
      /\ d.sent = c.sent /\ d.verdict = c.verdict /\ d.result = c.result
  BY DEF MailCall
<1> HIDE DEF d
<1>6. mail'[m] = d /\ \A n \in Mail \ {m} : mail'[n] = mail[n]
  BY <1>4 DEF MailInv, MailTypeOK
<1>7. /\ tickets' \in Seq(Mail)
      /\ \A n \in Mail : HasTicket(n)' => HasTicket(n) \/ (n = m /\ c.mode = "enqueue")
  <2>1. PICK s \in Seq(Mail) : s = tickets
    BY DEF MailInv, MailTypeOK
  <2>2. CASE c.mode # "enqueue"
    BY <1>1, <2>1, <2>2 DEF Reserves, HasTicket
  <2>3. CASE c.mode = "enqueue"
    <3>1. PICK l \in Seq(Mail) : l = Append(s, m)
      BY <2>1, MailAppend
    <3>2. \A i \in DOMAIN l : l[i] = m \/ \E k \in DOMAIN s : s[k] = l[i]
      BY <3>1, MailAppend
    <3>3. l # <<>>
      BY <3>1
    <3>4. tickets' = l \/ tickets' = Tail(l)
      BY <1>1, <2>1, <2>3, <3>1 DEF Reserves, Tickets
    <3>5. CASE tickets' = l
      BY <2>1, <2>3, <3>2, <3>5 DEF HasTicket
    <3>6. CASE tickets' = Tail(l)
      <4>1. Tail(l) \in Seq(Mail) /\ \A i \in DOMAIN Tail(l) : \E k \in DOMAIN l : Tail(l)[i] = l[k]
        BY <3>3, MailTail
      <4>2. QED
        BY <2>1, <2>3, <3>2, <3>6, <4>1 DEF HasTicket
    <3>7. QED
      BY <3>4, <3>5, <3>6
  <2>4. QED
    BY <2>2, <2>3
<1>8. MailTypeOK'
  BY <1>2, <1>3, <1>4, <1>7 DEF MailInv, MailTypeOK
<1>9. \A n \in Mail : mail'[n].job = mail[n].job
  BY <1>1, <1>5, <1>6
<1>10. QueueSound'
  <2>1. \A i \in DOMAIN mailQueue : mailQueue[i] \in Mail
    BY DEF MailInv, MailTypeOK
  <2>2. QED
    BY <1>2, <1>9, <2>1 DEF MailInv, QueueSound
<1>11. DrainSound'
  BY <1>2, <1>5, <1>6, DrainKept DEF HoldsSender
<1>12. MailSound(d) /\ (c.mode = "enqueue" \/ HasTicket(m) => TicketSound(d))
  BY <1>2, <1>5 DEF MailSound, TicketSound
<1>13. ASSUME NEW n \in Mail
       PROVE  /\ MailSound(mail'[n]) /\ JobPlaced(n)'
              /\ HasTicket(n)' => TicketSound(mail'[n])
  <2>1. MailSound(mail[n]) /\ JobPlaced(n) /\ (HasTicket(n) => TicketSound(mail[n]))
    BY MailFacts
  <2>2. JobPlaced(n)'
    BY <1>2, <1>9, <2>1 DEF JobPlaced
  <2>3. QED
    BY <1>6, <1>7, <1>12, <2>1, <2>2
<1> QED
  BY <1>8, <1>10, <1>11, <1>13 DEF MailInv

LEMMA TicketAgesKeeps == ASSUME MailInv, TicketAges PROVE MailInv'
<1>1. PICK s \in Seq(Mail) : s = tickets /\ s # <<>>
  BY DEF MailInv, MailTypeOK, TicketAges
<1>2. tickets' = Tail(s) /\ UNCHANGED <<mail, mailQueue, worker, drain>>
  BY <1>1 DEF TicketAges
<1>3. tickets' \in Seq(Mail) /\ \A n \in Mail : HasTicket(n)' => HasTicket(n)
  BY <1>1, <1>2, MailTail DEF HasTicket
<1>4. MailTypeOK'
  BY <1>2, <1>3 DEF MailInv, MailTypeOK
<1>5. DrainSound' /\ QueueSound'
  BY <1>2 DEF MailInv, DrainSound, QueueSound, Gone, Left, HoldsSender
<1>6. ASSUME NEW n \in Mail
      PROVE  MailSound(mail'[n]) /\ JobPlaced(n)' /\ (HasTicket(n)' => TicketSound(mail'[n]))
  BY <1>2, <1>3, MailFacts DEF JobPlaced
<1> QED
  BY <1>4, <1>5, <1>6 DEF MailInv

LEMMA OffersKeeps == ASSUME MailInv, NEW m \in Mail, Offers(m) PROVE MailInv'
<1>1. PICK c \in MailCall : c = mail[m]
  BY MailFacts
<1>2. /\ MailSound(c) /\ (HasTicket(m) => TicketSound(c)) /\ c.pc = "known" /\ HoldsSender(m)
      /\ UNCHANGED <<worker, tickets, drain>>
  BY <1>1, MailFacts DEF Offers, HoldsSender
<1>3. CASE \E a \in {"failed", "full"} : mail' = [mail EXCEPT ![m] = Answered(m, a)] /\ UNCHANGED mailQueue
  <2>1. PICK a \in {"failed", "full"} : mail' = [mail EXCEPT ![m] = Answered(m, a)] /\ UNCHANGED mailQueue
    BY <1>3
  <2>2. PICK d \in MailCall : d = Answered(m, a)
    BY <1>1, <1>2, RefusalSound
  <2>3. /\ d.job = mail[m].job /\ MailSound(d) /\ (HasTicket(m) => TicketSound(d))
        /\ d.pc \in {"refused", "over"}
    BY <1>1, <1>2, <2>2, RefusalSound
  <2>4. QED
    BY <1>2, <2>1, <2>2, <2>3, OneMail
<1>4. CASE mail' = [mail EXCEPT ![m] = Accepted(m)] /\ mailQueue' = Append(mailQueue, m)
  <2>1. /\ c.job = "none" /\ c.answer = "none" /\ ~c.sent /\ c.verdict = "none"
        /\ c.result = "none" /\ c.mode \in {"send", "enqueue"}
    BY <1>2 DEF MailSound, MailCall
  <2>2. PICK a \in {"ok", "none"} : a = IF c.mode = "enqueue" THEN "ok" ELSE "none"
    OBVIOUS
  <2>3. PICK pc \in {"over", "accepted"} : pc = IF c.mode = "enqueue" THEN "over" ELSE "accepted"
    OBVIOUS
  <2> DEFINE d == [c EXCEPT !.answer = a, !.pc = pc, !.job = "queued"]
  <2>4. Accepted(m) = d
    <3>1. mail[m] = c /\ c \in MailCall
      BY <1>1
    <3>2. CASE c.mode = "enqueue"
      <4>1. Answered(m, "ok") = [c EXCEPT !.answer = "ok", !.pc = "over"]
        BY <3>1, <3>2 DEF Answered
      <4>2. QED
        BY <2>2, <2>3, <3>1, <3>2, <4>1 DEF Accepted, MailCall
    <3>3. CASE c.mode # "enqueue"
      <4>1. c.answer = "none"
        BY <2>1, <3>1
      <4>2. QED
        BY <2>2, <2>3, <3>1, <3>3, <4>1 DEF Accepted, MailCall
    <3>4. QED
      BY <3>2, <3>3
  <2>5. d \in MailCall
    <3>1. a \in Result
      BY DEF Result, Verdicts
    <3>2. QED
      BY <3>1 DEF MailCall
  <2>6. /\ d.pc = pc /\ d.answer = a /\ d.mode = c.mode /\ d.job = "queued"
        /\ d.sent = c.sent /\ d.verdict = c.verdict /\ d.result = c.result
    BY DEF MailCall
  <2> HIDE DEF d
  <2>7. MailSound(d) /\ (HasTicket(m) => TicketSound(d))
    BY <1>2, <2>1, <2>2, <2>3, <2>6 DEF MailSound, TicketSound
  <2>8. mail'[m] = d /\ \A n \in Mail \ {m} : mail'[n] = mail[n]
    BY <1>4, <2>4 DEF MailInv, MailTypeOK
  <2>9. PICK q \in Seq(Mail) : q = mailQueue /\ mailQueue' = Append(q, m)
    BY <1>4 DEF MailInv, MailTypeOK
  <2>10. /\ mailQueue' \in Seq(Mail)
         /\ DOMAIN mailQueue' = DOMAIN q \cup {Len(q) + 1}
         /\ Len(q) + 1 \notin DOMAIN q
         /\ \A i \in DOMAIN q : mailQueue'[i] = q[i]
         /\ mailQueue'[Len(q) + 1] = m
    BY <2>9, MailAppend
  <2>11. MailTypeOK'
    BY <1>2, <1>4, <2>4, <2>5, <2>10 DEF MailInv, MailTypeOK
  <2>12. \A i \in DOMAIN q : q[i] \in Mail /\ mail[q[i]].job = "queued" /\ q[i] # m
    BY <1>1, <2>1, <2>9 DEF MailInv, QueueSound
  <2>13. QueueSound'
    <3>1. \A i \in DOMAIN mailQueue' : mail'[mailQueue'[i]].job = "queued"
      BY <2>6, <2>8, <2>10, <2>12
    <3>2. \A i, k \in DOMAIN q : q[i] = q[k] => i = k
      BY <2>9 DEF MailInv, QueueSound
    <3>3. \A i, k \in DOMAIN mailQueue' : mailQueue'[i] = mailQueue'[k] => i = k
      BY <2>10, <2>12, <3>2
    <3>4. QED
      BY <3>1, <3>3 DEF QueueSound
  <2>14. DrainSound'
    <3>1. Left = {}
      BY <1>2 DEF MailInv, DrainSound
    <3>2. QED
      BY <1>2, <3>1, DrainKept
  <2>15. ASSUME NEW n \in Mail
         PROVE  /\ MailSound(mail'[n]) /\ JobPlaced(n)'
                /\ HasTicket(n)' => TicketSound(mail'[n])
    <3>1. HasTicket(n)' <=> HasTicket(n)
      BY <1>2 DEF HasTicket
    <3>2. MailSound(mail[n]) /\ JobPlaced(n) /\ (HasTicket(n) => TicketSound(mail[n]))
      BY MailFacts
    <3>3. CASE n = m
      <4>1. \E i \in DOMAIN mailQueue' : mailQueue'[i] = m
        BY <2>10
      <4>2. QED
        BY <2>6, <2>7, <2>8, <3>1, <3>3, <4>1 DEF JobPlaced
    <3>4. CASE n # m
      <4>1. mail'[n] = mail[n]
        BY <2>8, <3>4
      <4>2. mail[n].job = "queued" => \E i \in DOMAIN mailQueue' : mailQueue'[i] = n
        BY <2>9, <2>10, <3>2 DEF JobPlaced
      <4>3. QED
        BY <1>2, <3>1, <3>2, <4>1, <4>2 DEF JobPlaced
    <3>5. QED
      BY <3>3, <3>4
  <2>16. QED
    BY <2>11, <2>13, <2>14, <2>15 DEF MailInv
<1> QED
  BY <1>3, <1>4 DEF Offers

\* Where nothing but worker w and the mail it is at changes.
LEMMA WorkerApart ==
  ASSUME MailInv, NEW w \in Worker, NEW n \in Mail, worker[w] # n, worker[w] # "dead",
         \A v \in Worker : v # w => worker'[v] = worker[v],
         mail'[n] = mail[n], mail[n].job # "queued"
  PROVE  JobPlaced(n)'
<1>1. JobPlaced(n)
  BY MailFacts
<1>2. ASSUME NEW v \in Worker, worker[v] \in {n, "dead"} PROVE worker'[v] = worker[v]
  BY <1>2
<1> QED
  BY <1>1, <1>2 DEF JobPlaced

LEMMA TakesKeeps == ASSUME MailInv, NEW w \in Worker, Takes(w) PROVE MailInv'
<1>1. PICK q \in Seq(Mail) : q = mailQueue /\ q # <<>>
  BY DEF MailInv, MailTypeOK, Takes
<1>2. PICK m \in Mail : m = Head(q)
  BY <1>1, MailTail
<1>3. PICK c \in MailCall : c = mail[m]
  BY MailFacts
<1>4. /\ worker[w] = "free" /\ worker' = [worker EXCEPT ![w] = m]
      /\ mail' = [mail EXCEPT ![m].job = "working"] /\ mailQueue' = Tail(q)
      /\ UNCHANGED <<tickets, drain>>
  BY <1>1, <1>2 DEF Takes
<1>5. /\ Tail(q) \in Seq(Mail)
      /\ 1 \in DOMAIN q /\ m = q[1]
      /\ \A i \in DOMAIN Tail(q) : i \in Nat /\ i + 1 \in DOMAIN q /\ Tail(q)[i] = q[i + 1]
      /\ \A i \in DOMAIN Tail(q) : i + 1 # 1
      /\ \A i \in DOMAIN q : i # 1 => i - 1 \in DOMAIN Tail(q) /\ Tail(q)[i - 1] = q[i]
  BY <1>1, <1>2, MailTail
<1>6. /\ \A i \in DOMAIN q : mail[q[i]].job = "queued" /\ q[i] \in Mail
      /\ \A i, k \in DOMAIN q : q[i] = q[k] => i = k
  BY <1>1 DEF MailInv, QueueSound
<1>7. c.job = "queued" /\ MailSound(c) /\ (HasTicket(m) => TicketSound(c))
  BY <1>3, <1>5, <1>6, MailFacts
<1> DEFINE d == [c EXCEPT !.job = "working"]
<1>8. d \in MailCall
  BY DEF MailCall
<1>9. mail' = [mail EXCEPT ![m] = d]
  BY <1>3, <1>4 DEF MailInv, MailTypeOK
<1>10. /\ d.pc = c.pc /\ d.answer = c.answer /\ d.mode = c.mode /\ d.job = "working"
       /\ d.sent = c.sent /\ d.verdict = c.verdict /\ d.result = c.result
  BY DEF MailCall
<1> HIDE DEF d
<1>11. mail'[m] = d /\ \A n \in Mail \ {m} : mail'[n] = mail[n]
  BY <1>9 DEF MailInv, MailTypeOK
<1>12. worker'[w] = m /\ \A v \in Worker : v # w => worker'[v] = worker[v]
  BY <1>4 DEF MailInv, MailTypeOK
<1>13. MailTypeOK'
  <2>1. mail' \in [Mail -> MailCall]
    BY <1>8, <1>9 DEF MailInv, MailTypeOK
  <2>2. worker' \in [Worker -> Mail \cup {"free", "leaves", "released", "gone", "dead"}]
    BY <1>4 DEF MailInv, MailTypeOK
  <2>3. mailQueue' \in Seq(Mail)
    BY <1>4, <1>5
  <2>4. QED
    BY <1>4, <2>1, <2>2, <2>3 DEF MailInv, MailTypeOK
<1>14. QueueSound'
  <2>1. \A i \in DOMAIN Tail(q) : Tail(q)[i] \in Mail \ {m} /\ mail[Tail(q)[i]].job = "queued"
    BY <1>5, <1>6
  <2>2. \A i, k \in DOMAIN Tail(q) : Tail(q)[i] = Tail(q)[k] => i = k
    <3>1. SUFFICES ASSUME NEW i \in DOMAIN Tail(q), NEW k \in DOMAIN Tail(q),
                          Tail(q)[i] = Tail(q)[k]
                   PROVE  i = k
      OBVIOUS
    <3>2. i \in Nat /\ k \in Nat /\ i + 1 \in DOMAIN q /\ k + 1 \in DOMAIN q /\ q[i + 1] = q[k + 1]
      BY <1>5, <3>1
    <3>3. i + 1 = k + 1
      BY <1>6, <3>2
    <3>4. QED
      BY <3>2, <3>3
  <2>3. QED
    BY <1>4, <1>11, <2>1, <2>2 DEF QueueSound
<1>15. DrainSound'
  <2>1. Left = {}
    BY <1>1 DEF MailInv, DrainSound
  <2>2. m \notin {"leaves", "released", "gone"}
    BY MailAssumption
  <2>3. Left' = {} /\ Gone' = Gone
    <3>1. \A v \in Worker : worker'[v] = worker[v] \/ (v = w /\ worker[v] = "free" /\ worker'[v] = m)
      BY <1>4, <1>12
    <3>2. QED
      BY <2>1, <2>2, <3>1 DEF Left, Gone
  <2>4. QED
    BY <1>4, <2>3 DEF MailInv, DrainSound
<1>16. ASSUME NEW n \in Mail
       PROVE  /\ MailSound(mail'[n]) /\ JobPlaced(n)'
              /\ HasTicket(n)' => TicketSound(mail'[n])
  <2>1. HasTicket(n)' <=> HasTicket(n)
    BY <1>4 DEF HasTicket
  <2>2. MailSound(mail[n]) /\ JobPlaced(n) /\ (HasTicket(n) => TicketSound(mail[n]))
    BY MailFacts
  <2>3. CASE n = m
    <3>1. MailSound(d) /\ (HasTicket(m) => TicketSound(d))
      BY <1>7, <1>10 DEF MailSound, TicketSound
    <3>2. JobPlaced(n)'
      BY <1>10, <1>11, <1>12, <2>3 DEF JobPlaced
    <3>3. QED
      BY <1>11, <2>1, <2>3, <3>1, <3>2
  <2>4. CASE n # m
    <3>1. mail'[n] = mail[n]
      BY <1>11, <2>4
    <3>2. CASE mail[n].job = "queued"
      <4>1. PICK i \in DOMAIN q : q[i] = n
        BY <1>1, <2>2, <3>2 DEF JobPlaced
      <4>2. i # 1
        BY <1>5, <2>4, <4>1
      <4>3. \E k \in DOMAIN mailQueue' : mailQueue'[k] = n
        BY <1>4, <1>5, <4>1, <4>2
      <4>4. QED
        BY <2>1, <2>2, <3>1, <3>2, <4>3 DEF JobPlaced
    <3>3. CASE mail[n].job # "queued"
      <4>1. worker[w] # n /\ worker[w] # "dead"
        BY <1>4, MailAssumption
      <4>2. JobPlaced(n)'
        BY <1>12, <3>1, <3>3, <4>1, WorkerApart
      <4>3. QED
        BY <2>1, <2>2, <3>1, <4>2
    <3>4. QED
      BY <3>2, <3>3
  <2>5. QED
    BY <2>3, <2>4
<1> QED
  BY <1>13, <1>14, <1>15, <1>16 DEF MailInv

\* A worker's mail gets on; the queue is left alone.
LEMMA OneJob ==
  ASSUME MailInv, NEW w \in Worker, NEW m \in Mail, worker[w] = m,
         mail[m].job \in {"working", "reporting"},
         NEW d \in MailCall, mail' = [mail EXCEPT ![m] = d], UNCHANGED <<mailQueue, tickets, drain>>,
         NEW s \in {m, "free"}, worker' = [worker EXCEPT ![w] = s],
         d.pc = mail[m].pc, MailSound(d), HasTicket(m) => TicketSound(d),
         \/ d.job = "reporting" /\ s = m
         \/ d.job = "done"
  PROVE  MailInv'
<1>1. mail'[m] = d /\ \A n \in Mail \ {m} : mail'[n] = mail[n]
  BY DEF MailInv, MailTypeOK
<1>2. worker'[w] = s /\ \A v \in Worker : v # w => worker'[v] = worker[v]
  BY DEF MailInv, MailTypeOK
<1>3. MailTypeOK'
  BY DEF MailInv, MailTypeOK
<1>4. QueueSound'
  <2>1. \A i \in DOMAIN mailQueue : mailQueue[i] \in Mail /\ mail[mailQueue[i]].job = "queued"
    BY DEF MailInv, MailTypeOK, QueueSound
  <2>2. QED
    BY <1>1, <2>1 DEF MailInv, QueueSound
<1>5. DrainSound'
  <2>1. {m, "free"} \cap {"leaves", "released", "gone"} = {}
    BY MailAssumption
  <2>2. \A v \in Worker : worker'[v] = worker[v] \/ (worker[v] = m /\ worker'[v] \in {m, "free"})
    BY <1>2
  <2>3. Left' = Left /\ Gone' = Gone
    BY <2>1, <2>2 DEF Left, Gone
  <2>4. \A n \in Mail : HoldsSender(n)' <=> HoldsSender(n)
    BY <1>1 DEF HoldsSender
  <2>5. QED
    BY <2>3, <2>4 DEF MailInv, DrainSound
<1>6. ASSUME NEW n \in Mail
      PROVE  /\ MailSound(mail'[n]) /\ JobPlaced(n)'
             /\ HasTicket(n)' => TicketSound(mail'[n])
  <2>1. HasTicket(n)' <=> HasTicket(n)
    BY DEF HasTicket
  <2>2. MailSound(mail[n]) /\ JobPlaced(n) /\ (HasTicket(n) => TicketSound(mail[n]))
    BY MailFacts
  <2>3. CASE n = m
    <3>1. JobPlaced(n)'
      BY <1>1, <1>2, <2>3 DEF JobPlaced
    <3>2. QED
      BY <1>1, <2>1, <2>3, <3>1
  <2>4. CASE n # m
    <3>1. mail'[n] = mail[n]
      BY <1>1, <2>4
    <3>2. CASE mail[n].job = "queued"
      BY <2>1, <2>2, <3>1, <3>2 DEF JobPlaced
    <3>3. CASE mail[n].job # "queued"
      <4>1. worker[w] # n /\ worker[w] # "dead"
        BY <2>4, MailAssumption
      <4>2. JobPlaced(n)'
        BY <1>2, <3>1, <3>3, <4>1, WorkerApart
      <4>3. QED
        BY <2>1, <2>2, <3>1, <4>2
    <3>4. QED
      BY <3>2, <3>3
  <2>5. QED
    BY <2>3, <2>4
<1> QED
  BY <1>3, <1>4, <1>5, <1>6 DEF MailInv

LEMMA DeliversKeeps == ASSUME MailInv, NEW w \in Worker, Delivers(w) PROVE MailInv'
<1>1. PICK m \in Mail : m = worker[w]
  BY DEF Delivers
<1>2. PICK c \in MailCall : c = mail[m]
  BY MailFacts
<1>3. /\ MailSound(c) /\ (HasTicket(m) => TicketSound(c)) /\ c.job = "working"
      /\ UNCHANGED <<mailQueue, worker, tickets, drain>>
  BY <1>1, <1>2, MailFacts DEF Delivers
<1>4. PICK v \in Verdicts, s \in BOOLEAN :
        /\ (v = "ok" => s) /\ (v = "invalid" => ~s)
        /\ mail' = [mail EXCEPT ![m].job = "reporting", ![m].verdict = v, ![m].sent = s]
  BY <1>1 DEF Delivers
<1> DEFINE d == [c EXCEPT !.job = "reporting", !.verdict = v, !.sent = s]
<1>5. d \in MailCall
  BY DEF MailCall
<1>6. mail' = [mail EXCEPT ![m] = d]
  BY <1>2, <1>4 DEF MailInv, MailTypeOK
<1>7. /\ d.pc = c.pc /\ d.answer = c.answer /\ d.mode = c.mode /\ d.job = "reporting"
      /\ d.verdict = v /\ d.result = c.result /\ (d.sent <=> s)
  BY DEF MailCall
<1> HIDE DEF d
<1>8. MailSound(d) /\ (HasTicket(m) => TicketSound(d))
  BY <1>3, <1>4, <1>7 DEF MailSound, TicketSound
<1>9. worker' = [worker EXCEPT ![w] = m]
  BY <1>1, <1>3 DEF MailInv, MailTypeOK
<1> QED
  BY <1>1, <1>2, <1>3, <1>5, <1>6, <1>7, <1>8, <1>9, OneJob

LEMMA ReportsKeeps == ASSUME MailInv, NEW w \in Worker, Reports(w) PROVE MailInv'
<1>1. PICK m \in Mail : m = worker[w]
  BY DEF Reports
<1>2. PICK c \in MailCall : c = mail[m]
  BY MailFacts
<1>3. /\ MailSound(c) /\ (HasTicket(m) => TicketSound(c)) /\ c.job = "reporting"
      /\ UNCHANGED <<mailQueue, tickets, drain>>
  BY <1>1, <1>2, MailFacts DEF Reports
<1>4. c.result = "none" /\ c.verdict \in Verdicts
  BY <1>3 DEF MailSound
<1>5. PICK r \in Result : r = IF c.mode = "enqueue" THEN Filled(m, c.verdict) ELSE c.result
  BY <1>2, <1>4 DEF Filled, Result
<1>6. r \in {"none", c.verdict} /\ (HasTicket(m) => r # "none")
  <2>1. HasTicket(m) => c.mode = "enqueue"
    BY <1>3 DEF TicketSound
  <2>2. QED
    BY <1>2, <1>4, <1>5, <2>1 DEF Filled, Verdicts
<1> DEFINE d == [c EXCEPT !.job = "done", !.result = r]
<1>7. d \in MailCall
  BY DEF MailCall
<1>8. mail' = [mail EXCEPT ![m] = d]
  BY <1>1, <1>2, <1>5 DEF Reports, MailInv, MailTypeOK
<1>9. /\ d.pc = c.pc /\ d.answer = c.answer /\ d.mode = c.mode /\ d.job = "done"
      /\ d.verdict = c.verdict /\ d.result = r /\ d.sent = c.sent
  BY DEF MailCall
<1> HIDE DEF d
<1>10. MailSound(d) /\ (HasTicket(m) => TicketSound(d))
  BY <1>3, <1>6, <1>9 DEF MailSound, TicketSound
<1>11. worker' = [worker EXCEPT ![w] = "free"]
  BY DEF Reports
<1> QED
  BY <1>1, <1>2, <1>3, <1>7, <1>8, <1>9, <1>10, <1>11, OneJob

\* Leaving: the queue is empty, and stays so, as nobody has a sender or gets one.
LEMMA LeavesKeeps ==
  ASSUME MailInv, NEW w \in Worker, Leaves(w) \/ Releases(w) \/ Signals(w)
  PROVE  MailInv'
<1>1. /\ worker[w] \in {"free", "leaves", "released"}
      /\ UNCHANGED <<mail, mailQueue, tickets, drain>>
  BY DEF Leaves, Releases, Signals
<1>2. PICK s \in {"leaves", "released", "gone"} : worker' = [worker EXCEPT ![w] = s]
  BY DEF Leaves, Releases, Signals
<1>3. worker'[w] = s /\ \A v \in Worker : v # w => worker'[v] = worker[v]
  BY <1>2 DEF MailInv, MailTypeOK
<1>4. MailTypeOK'
  BY <1>1, <1>2 DEF MailInv, MailTypeOK
<1>5. QueueSound'
  BY <1>1 DEF MailInv, QueueSound
<1>6. mailQueue = <<>> /\ drain.pc # "up" /\ \A m \in Mail : ~HoldsSender(m)
  <2>1. CASE Leaves(w)
    BY <2>1 DEF Leaves
  <2>2. CASE Releases(w) \/ Signals(w)
    BY <2>2 DEF Releases, Signals, Left, MailInv, DrainSound
  <2>3. QED
    BY <2>1, <2>2
<1>7. drain.heard <= Cardinality(Gone')
  <2>1. Gone \in SUBSET Gone' /\ IsFiniteSet(Gone')
    BY <1>1, <1>3, MailAssumption, FS_Subset DEF Gone
  <2>2. Cardinality(Gone) <= Cardinality(Gone') /\ IsFiniteSet(Gone)
    BY <2>1, FS_Subset
  <2>3. Cardinality(Gone) \in Nat /\ Cardinality(Gone') \in Nat
    BY <2>1, <2>2, FS_CardinalityType
  <2>4. Cardinality(Worker) \in Nat
    BY MailAssumption, FS_CardinalityType
  <2>5. drain.heard \in Nat /\ drain.heard <= Cardinality(Gone)
    BY <2>4 DEF MailInv, MailTypeOK, DrainSound
  <2>6. QED
    BY <2>2, <2>3, <2>5
<1>8. DrainSound'
  <2>1. mailQueue' = <<>> /\ drain'.pc # "up" /\ \A m \in Mail : ~HoldsSender(m)'
    BY <1>1, <1>6 DEF HoldsSender
  <2>2. QED
    BY <1>1, <1>7, <2>1 DEF DrainSound
<1>9. ASSUME NEW n \in Mail
      PROVE  /\ MailSound(mail'[n]) /\ JobPlaced(n)'
             /\ HasTicket(n)' => TicketSound(mail'[n])
  <2>1. HasTicket(n)' <=> HasTicket(n)
    BY <1>1 DEF HasTicket
  <2>2. MailSound(mail[n]) /\ JobPlaced(n) /\ (HasTicket(n) => TicketSound(mail[n]))
    BY MailFacts
  <2>3. CASE mail[n].job = "queued"
    BY <1>1, <2>1, <2>2, <2>3 DEF JobPlaced
  <2>4. CASE mail[n].job # "queued"
    <3>1. worker[w] # n /\ worker[w] # "dead"
      <4>1. n \notin {"free", "leaves", "released"} \/ n \in {"released"}
        BY MailAssumption
      <4>2. n # "released"
        BY MailAssumption
      <4>3. QED
        BY <1>1, <4>1, <4>2
    <3>2. JobPlaced(n)'
      BY <1>1, <1>3, <2>4, <3>1, WorkerApart
    <3>3. QED
      BY <1>1, <2>1, <2>2, <3>2
  <2>5. QED
    BY <2>3, <2>4
<1> QED
  BY <1>4, <1>5, <1>8, <1>9 DEF MailInv

LEMMA DiesKeeps == ASSUME MailInv, NEW w \in Worker, Dies(w) PROVE MailInv'
<1>1. /\ worker' = [worker EXCEPT ![w] = "dead"] /\ UNCHANGED <<tickets, drain>>
      /\ worker[w] \in Mail \cup {"free"}
      /\ worker[w] \in Mail => mail[worker[w]].job = "working"
  BY MailAssumption DEF Dies
<1>2. PICK last \in BOOLEAN : last = (\A v \in Worker \ {w} : ~HoldsReceiver(v))
  <2>1. (\A v \in Worker \ {w} : ~HoldsReceiver(v)) \in BOOLEAN
    OBVIOUS
  <2>2. QED
    BY <2>1
<1>3. PICK lost \in SUBSET Mail : lost = {m \in Mail : worker[w] = m \/ (last /\ mail[m].job = "queued")}
  OBVIOUS
<1>4. PICK s \in BOOLEAN :
        mail' = [m \in Mail |->
          IF m \in lost THEN [Dropped(m) EXCEPT !.sent = s /\ worker[w] = m] ELSE mail[m]]
  BY <1>2, <1>3 DEF Dies
<1>5. mailQueue' = IF last THEN <<>> ELSE mailQueue
  BY <1>2 DEF Dies
<1>6. worker'[w] = "dead" /\ \A v \in Worker : v # w => worker'[v] = worker[v]
  BY <1>1 DEF MailInv, MailTypeOK
<1>7. \A n \in lost : mail[n].job \in {"working", "queued"}
  BY <1>1, <1>3
<1>8. ASSUME NEW n \in lost
      PROVE  /\ mail'[n] \in MailCall /\ mail'[n].pc = mail[n].pc /\ mail'[n].job = "dropped"
             /\ MailSound(mail'[n]) /\ (HasTicket(n) => TicketSound(mail'[n]))
  <2>1. PICK c \in MailCall : c = mail[n]
    BY MailFacts
  <2>2. MailSound(c) /\ (HasTicket(n) => TicketSound(c)) /\ c.job \in {"working", "queued"}
    BY <1>7, <2>1, MailFacts
  <2>3. PICK sent \in BOOLEAN : sent = (s /\ worker[w] = n)
    <3>1. (s /\ worker[w] = n) \in BOOLEAN
      OBVIOUS
    <3>2. QED
      BY <3>1
  <2> DEFINE d == [c EXCEPT !.job = "dropped", !.sent = sent]
  <2>4. d \in MailCall
    BY DEF MailCall
  <2>5. mail'[n] = d
    BY <1>4, <2>1, <2>3 DEF Dropped, MailCall
  <2>6. /\ d.pc = c.pc /\ d.answer = c.answer /\ d.mode = c.mode /\ d.job = "dropped"
        /\ d.verdict = c.verdict /\ d.result = c.result
    BY DEF MailCall
  <2> HIDE DEF d
  <2>7. MailSound(d) /\ (HasTicket(n) => TicketSound(d))
    BY <2>2, <2>6 DEF MailSound, TicketSound
  <2>8. QED
    BY <2>1, <2>4, <2>5, <2>6, <2>7
<1>9. \A n \in Mail \ lost : mail'[n] = mail[n]
  BY <1>4
<1>10. MailTypeOK'
  <2>1. mail' \in [Mail -> MailCall]
    <3>1. mail' = [n \in Mail |-> mail'[n]]
      BY <1>4
    <3>2. \A n \in Mail : mail'[n] \in MailCall
      BY <1>8, <1>9, MailFacts
    <3>3. QED
      BY <3>1, <3>2
  <2>2. worker' \in [Worker -> Mail \cup {"free", "leaves", "released", "gone", "dead"}]
    BY <1>1 DEF MailInv, MailTypeOK
  <2>3. mailQueue' \in Seq(Mail)
    BY <1>5 DEF MailInv, MailTypeOK
  <2>4. QED
    BY <1>1, <2>1, <2>2, <2>3 DEF MailInv, MailTypeOK
<1>11. ~last => \A i \in DOMAIN mailQueue : mailQueue[i] \in Mail \ lost /\ mail[mailQueue[i]].job = "queued"
  BY <1>1, <1>3 DEF MailInv, MailTypeOK, QueueSound
<1>12. QueueSound'
  <2>1. CASE last
    <3>1. mailQueue' = <<>> /\ DOMAIN <<>> = {}
      BY <1>5, <2>1
    <3>2. DOMAIN mailQueue' = {}
      BY <3>1
    <3>3. QED
      BY <3>2 DEF QueueSound
  <2>2. CASE ~last
    BY <1>5, <1>9, <1>11, <2>2 DEF MailInv, QueueSound
  <2>3. QED
    BY <2>1, <2>2
<1>13. DrainSound'
  <2>1. \A v \in Worker : worker'[v] = worker[v] \/ (worker[v] \in Mail \cup {"free"} /\ worker'[v] = "dead")
    BY <1>1, <1>6
  <2>2. Left' = Left /\ Gone' = Gone
    BY <2>1, MailAssumption DEF Left, Gone
  <2>3. \A n \in Mail : HoldsSender(n)' <=> HoldsSender(n)
    BY <1>8, <1>9 DEF HoldsSender
  <2>4. mailQueue = <<>> => mailQueue' = <<>>
    BY <1>5
  <2>5. QED
    BY <1>1, <2>2, <2>3, <2>4 DEF MailInv, DrainSound
<1>14. ASSUME NEW n \in Mail
       PROVE  /\ MailSound(mail'[n]) /\ JobPlaced(n)'
              /\ HasTicket(n)' => TicketSound(mail'[n])
  <2>1. HasTicket(n)' <=> HasTicket(n)
    BY <1>1 DEF HasTicket
  <2>2. MailSound(mail[n]) /\ JobPlaced(n) /\ (HasTicket(n) => TicketSound(mail[n]))
    BY MailFacts
  <2>3. CASE n \in lost
    <3>1. JobPlaced(n)'
      BY <1>6, <1>8, <2>3 DEF JobPlaced
    <3>2. QED
      BY <1>8, <2>1, <2>3, <3>1
  <2>4. CASE n \notin lost
    <3>1. mail'[n] = mail[n] /\ worker[w] # n
      BY <1>3, <1>9, <2>4
    <3>2. CASE mail[n].job = "queued"
      <4>1. ~last
        BY <1>3, <2>4, <3>2
      <4>2. QED
        BY <1>5, <2>1, <2>2, <3>1, <3>2, <4>1 DEF JobPlaced
    <3>3. CASE mail[n].job # "queued"
      <4>1. worker[w] # "dead"
        BY <1>1, MailAssumption
      <4>2. JobPlaced(n)'
        BY <1>6, <3>1, <3>3, <4>1, WorkerApart
      <4>3. QED
        BY <2>1, <2>2, <3>1, <4>2
    <3>4. QED
      BY <3>2, <3>3
  <2>5. QED
    BY <2>3, <2>4
<1> QED
  BY <1>10, <1>12, <1>13, <1>14 DEF MailInv

LEMMA DrainsKeep == ASSUME MailInv, DrainStarts \/ HearsExit \/ Disposes PROVE MailInv'
<1>1. UNCHANGED <<mail, mailQueue, worker, tickets>> /\ drain'.pc \in {"collects", "down"}
  BY DEF DrainStarts, HearsExit, Disposes, MailInv, MailTypeOK
<1>2. Gone' = Gone /\ Left' = Left /\ Gone \in SUBSET Worker
  BY <1>1 DEF Gone, Left
<1>3. IsFiniteSet(Gone) /\ Cardinality(Gone) <= Cardinality(Worker)
  BY <1>2, MailAssumption, FS_Subset
<1>4. Cardinality(Gone) \in Nat /\ Cardinality(Worker) \in Nat
  BY <1>3, MailAssumption, FS_CardinalityType
<1>5. drain.heard \in 0 .. Cardinality(Worker) /\ drain.heard <= Cardinality(Gone)
  BY DEF MailInv, MailTypeOK, DrainSound
<1>6. /\ drain' \in [pc : {"up", "collects", "down"}, heard : 0 .. Cardinality(Worker)]
      /\ drain'.heard <= Cardinality(Gone)
  <2>1. CASE DrainStarts \/ Disposes
    BY <1>5, <2>1 DEF DrainStarts, Disposes, MailInv, MailTypeOK
  <2>2. CASE HearsExit
    <3>1. drain' = [drain EXCEPT !.heard = drain.heard + 1] /\ drain.heard < Cardinality(Gone)
      BY <2>2 DEF HearsExit, Gone
    <3>2. drain.heard + 1 \in 0 .. Cardinality(Worker) /\ drain.heard + 1 <= Cardinality(Gone)
      BY <1>3, <1>4, <1>5, <3>1
    <3>3. QED
      BY <3>1, <3>2 DEF MailInv, MailTypeOK
  <2>3. QED
    BY <2>1, <2>2
<1>7. DrainSound'
  BY <1>1, <1>2, <1>6 DEF MailInv, DrainSound, HoldsSender
<1>8. MailTypeOK' /\ QueueSound'
  BY <1>1, <1>6 DEF MailInv, MailTypeOK, QueueSound
<1>9. \A n \in Mail : JobPlaced(n)' /\ (HasTicket(n)' <=> HasTicket(n))
  BY <1>1, MailFacts DEF JobPlaced, HasTicket
<1> QED
  BY <1>1, <1>7, <1>8, <1>9 DEF MailInv

LEMMA MailKeeps == MailInv /\ [MailNext]_mailVars => MailInv'
<1> SUFFICES ASSUME MailInv, [MailNext]_mailVars PROVE MailInv'
  OBVIOUS
<1>1. CASE UNCHANGED mailVars
  BY <1>1 DEF mailVars, MailInv, MailTypeOK, QueueSound, DrainSound, JobPlaced, HasTicket,
              HoldsSender, Gone, Left
<1>2. CASE MailNext
  BY <1>2, ReservesKeeps, TakesSenderKeeps, LooksUpKeeps, OffersKeeps, SpawnsFutureKeeps,
     PollsKeeps, FillsRefusalKeeps, ForwardsKeeps, TakesKeeps, DeliversKeeps, ReportsKeeps,
     LeavesKeeps, DiesKeeps, TicketAgesKeeps, DrainsKeep
     DEF MailNext, Calls, Serves
<1> QED
  BY <1>1, <1>2

LEMMA MailsTrue == MailInv => MailsAreTrue
<1> SUFFICES ASSUME MailInv, NEW m \in Mail
             PROVE  /\ "ok" \in {mail[m].verdict, mail[m].result} => mail[m].sent
                    /\ mail[m].mode = "send" /\ mail[m].answer = "ok" => mail[m].sent
                    /\ {mail[m].answer, mail[m].result} \cap {"full", "invalid"} # {} => ~mail[m].sent
                    /\ mail[m].job # "none" => mail[m].result \in {"none", mail[m].verdict}
                    /\ mail[m].pc = "over" /\ mail[m].job \in {"none", "done"} /\ HasTicket(m) =>
                         mail[m].result # "none"
  BY DEF MailsAreTrue
<1>1. PICK c \in MailCall : c = mail[m]
  BY MailFacts
<1>2. MailSound(c) /\ (HasTicket(m) => TicketSound(c))
  BY <1>1, MailFacts
<1>3. c.job \in {"none", "queued", "working", "reporting", "done", "dropped"}
      /\ c.mode \in {"send", "enqueue"}
  BY DEF MailCall
<1>4. /\ "ok" \in {c.verdict, c.result} => c.sent
      /\ c.mode = "send" /\ c.answer = "ok" => c.sent
      /\ c.job # "none" => c.result \in {"none", c.verdict}
  BY <1>2, <1>3 DEF MailSound, Verdicts
<1>5. {c.answer, c.result} \cap {"full", "invalid"} # {} => ~c.sent
  BY <1>2, <1>3 DEF MailSound, Verdicts
<1>6. HasTicket(m) /\ c.pc = "over" /\ c.job \in {"none", "done"} => c.result # "none"
  BY <1>2 DEF TicketSound
<1> QED
  BY <1>1, <1>4, <1>5, <1>6

\* All have gone: then the queue is empty, nobody works and nobody has died.
LEMMA DrainTrue == MailInv => DrainIsGraceful
<1> SUFFICES ASSUME MailInv, drain.heard = Cardinality(Worker)
             PROVE  /\ \A w \in Worker : worker[w] = "gone"
                    /\ \A m \in Mail : mail[m].job \in {"none", "done"}
  BY DEF DrainIsGraceful
<1>1. Gone \in SUBSET Worker
  BY DEF Gone
<1>2. Cardinality(Gone) <= Cardinality(Worker) /\ IsFiniteSet(Gone)
  BY <1>1, MailAssumption, FS_Subset
<1>3. Cardinality(Gone) \in Nat /\ Cardinality(Worker) \in Nat
  BY <1>2, MailAssumption, FS_CardinalityType
<1>4. Cardinality(Worker) <= Cardinality(Gone)
  BY DEF MailInv, DrainSound
<1>5. Gone = Worker
  BY <1>1, <1>2, <1>3, <1>4, MailAssumption, FS_Subset
<1>6. \A w \in Worker : worker[w] = "gone"
  BY <1>5 DEF Gone
<1>7. mailQueue = <<>>
  BY <1>6, MailAssumption DEF MailInv, DrainSound, Left
<1>8. DOMAIN mailQueue = {}
  <2>1. DOMAIN <<>> = {}
    OBVIOUS
  <2>2. QED
    BY <1>7, <2>1
<1>9. ASSUME NEW m \in Mail PROVE mail[m].job \in {"none", "done"}
  <2>1. /\ JobPlaced(m)
        /\ mail[m].job \in {"none", "queued", "working", "reporting", "done", "dropped"}
    BY MailFacts DEF MailCall
  <2>2. m # "gone" /\ "dead" # "gone"
    BY MailAssumption
  <2>3. QED
    BY <1>6, <1>8, <2>1, <2>2 DEF JobPlaced
<1> QED
  BY <1>6, <1>9

-----------------------------------------------------------------------------
(***************************************************************************)
(* The parts side by side: a step of one leaves the variables of the       *)
(* others alone, so what each keeps the whole keeps.                       *)
(***************************************************************************)
EntriesInv == ExportInv /\ ImportInv /\ MailInv /\ TxInv

LEMMA EntriesInitially == MCInit => EntriesInv
BY ExportInitially, ImportInitially, MailInitially, TxInitially DEF MCInit, EntriesInv

LEMMA EntriesKept == EntriesInv /\ [MCNext]_all => EntriesInv'
<1> SUFFICES ASSUME EntriesInv, [MCNext]_all PROVE EntriesInv'
  OBVIOUS
<1>1. [ExportNext]_exportVars
  BY DEF MCNext, all, Engine, Exporting, Importing, Mailing, InTx
<1>2. [ImportNext]_importVars
  BY DEF MCNext, all, Engine, Exporting, Importing, Mailing, InTx
<1>3. [MailNext]_mailVars
  BY DEF MCNext, all, Engine, Exporting, Importing, Mailing, InTx
<1>4. [TxNext]_txVars
  BY DEF MCNext, all, Engine, Exporting, Importing, Mailing, InTx
<1> QED
  BY <1>1, <1>2, <1>3, <1>4, ExportKeeps, ImportKeeps, MailKeeps, TxKeeps DEF EntriesInv

LEMMA EntriesTell == EntriesInv => EntriesAreTrue
<1> SUFFICES ASSUME EntriesInv PROVE EntriesAreTrue
  OBVIOUS
<1>1. ExportInv /\ ImportInv /\ MailInv /\ TxInv
  BY DEF EntriesInv
<1>2. TransfersAreTrue
  BY <1>1, ExportsTrue, ImportsTrue DEF TransfersAreTrue
<1> QED
  BY <1>1, <1>2, MailsTrue, DrainTrue, TxTrue DEF EntriesAreTrue

\* What requests leave behind is what its entries tell: exports and imports keep to
\* their quotas and end in true states (op_db_export, op_db_import and their pumps),
\* mails are what calls and tickets say of them and a drain loses none (handle_send,
\* with_rt), and db.tx is all or nothing (tx in bootstrap.js).
THEOREM EntriesTrue == MCSpec => []EntriesAreTrue
BY EntriesInitially, EntriesKept, EntriesTell, PTL DEF MCSpec

-----------------------------------------------------------------------------
(***************************************************************************)
(* Exports and imports implement TransferRegistry.  The refinement needs   *)
(* what EntriesInv says, that a transfer works only while its entry runs,  *)
(* and that what ends as cancelled has been cancelled: the permit that     *)
(* wakes the select loop of an export, the flag that run_import looks at.  *)
(***************************************************************************)

ExportAsked ==
  \A j \in Export :
    "cancelled" \in {pump[j].end, pump[j].fin} \/ pump[j].permit => export[j].asked

LEMMA ExportAskedInitially == ExportInit => ExportAsked
BY DEF ExportInit, ExportAsked

LEMMA ExportAskedKept == ExportInv /\ ExportAsked /\ [ExportNext]_exportVars => ExportAsked'
<1> SUFFICES ASSUME ExportInv, ExportAsked, [ExportNext]_exportVars PROVE ExportAsked'
  OBVIOUS
<1>1. export \in [Export -> ExportEntry] /\ pump \in [Export -> Pump]
  BY DEF ExportInv, ExportTypeOK
<1>2. CASE SweepArtefacts \/ UNCHANGED exportVars \/ \E j \in Export : ArtefactAges(j)
  <2>1. UNCHANGED <<export, pump>>
    BY <1>2 DEF SweepArtefacts, ArtefactAges, exportVars
  <2>2. QED
    BY <2>1 DEF ExportAsked
<1>3. ASSUME NEW j \in Export, StartExport(j) \/ CancelExport(j) PROVE ExportAsked'
  BY <1>1, <1>3 DEF StartExport, CancelExport, ExportAsked, ExportEntry, Pump
<1>4. ASSUME NEW j \in Export,
             \/ RefusesStatement(j) \/ CursorOpens(j) \/ UploadOpens(j) \/ FallsBack(j)
             \/ SpawnsPump(j) \/ LosesExport(j) \/ ReadsRow(j) \/ HearsCancel(j)
             \/ StopsReading(j) \/ Writes(j) \/ Aborts(j)
      PROVE  ExportAsked'
  <2>1. /\ UNCHANGED export
        /\ \A k \in Export \ {j} : pump'[k] = pump[k]
    BY <1>1, <1>4 DEF RefusesStatement, CursorOpens, UploadOpens, FallsBack, SpawnsPump,
       LosesExport, ReadsRow, HearsCancel, StopsReading, Writes, Aborts, Settle
  <2>2. /\ pump'[j].permit => pump[j].permit
        /\ pump'[j].end = "cancelled" => pump[j].end = "cancelled" \/ pump[j].permit
        /\ pump'[j].fin = "cancelled" => "cancelled" \in {pump[j].end, pump[j].fin}
    BY <1>1, <1>4 DEF RefusesStatement, CursorOpens, UploadOpens, FallsBack, SpawnsPump,
       LosesExport, ReadsRow, HearsCancel, StopsReading, Writes, Aborts, Settle, Pump
  <2>3. QED
    BY <2>1, <2>2 DEF ExportAsked
<1>5. ASSUME NEW j \in Export, CursorFails(j) \/ SettlesExport(j) PROVE ExportAsked'
  BY <1>1, <1>5 DEF CursorFails, SettlesExport, Finish, ExportAsked, ExportEntry, Pump
<1> QED
  BY <1>2, <1>3, <1>4, <1>5 DEF ExportNext, ExportReturns

LEMMA ExportRegistryInit == ExportInit => ExportRegistry!Init
<1> SUFFICES ASSUME ExportInit PROVE ExportRegistry!Init
  OBVIOUS
<1>1. \A j \in Export : /\ export[j].state = "none" /\ export[j].by \in Subject
                        /\ ~export[j].asked /\ pump[j].pc = "idle"
  BY DEF ExportInit
<1> QED
  BY <1>1 DEF ExportRegistry!Init, WorkingExports

\* The instances count as the parts do.
LEMMA SameCount ==
  ASSUME NEW S
  PROVE  /\ ExportRegistry!Cardinality(S) = Cardinality(S)
         /\ ImportRegistry!Cardinality(S) = Cardinality(S)
BY DEF ExportRegistry!Cardinality, ImportRegistry!Cardinality, Cardinality

LEMMA ExportStarts ==
  ASSUME ExportInv, NEW j \in Export, StartExport(j)
  PROVE  ExportRegistry!Next \/ UNCHANGED ExportRegistry!vars
<1>1. export \in [Export -> ExportEntry] /\ pump \in [Export -> Pump]
  BY DEF ExportInv, ExportTypeOK
<1>2. CASE ExportsFull(export[j].by)
  <2>1. WorkingExports' = WorkingExports /\ UNCHANGED export
    BY <1>1, <1>2 DEF StartExport, WorkingExports, Pump
  <2>2. QED
    BY <2>1 DEF ExportRegistry!vars
<1>3. CASE ~ExportsFull(export[j].by)
  <2>1. /\ pump[j].pc = "idle" /\ pump' = [pump EXCEPT ![j].pc = "query"]
        /\ export' = [export EXCEPT ![j].state = "running"]
    BY <1>3 DEF StartExport
  <2>2. export[j].state = "none"
    BY <2>1 DEF ExportInv, ExportSound
  <2>3. WorkingExports' = WorkingExports \cup {j}
    BY <1>1, <2>1 DEF WorkingExports, Pump
  <2>4. /\ [k \in Export |-> export'[k].state]
             = [[k \in Export |-> export[k].state] EXCEPT ![j] = "running"]
        /\ [k \in Export |-> export'[k].by] = [k \in Export |-> export[k].by]
        /\ {k \in Export : export'[k].asked} = {k \in Export : export[k].asked}
    BY <1>1, <2>1 DEF ExportEntry
  <2>5. /\ ExportRegistry!Running = RunningExports
        /\ {k \in RunningExports : export[k].by = export[j].by} = RunningOf(export[j].by)
    BY DEF ExportRegistry!Running, RunningExports, RunningOf
  <2>6. Cardinality(RunningExports) < MaxExports /\ Cardinality(RunningOf(export[j].by)) < MaxOwn
    <3>1. IsFiniteSet(RunningExports) /\ IsFiniteSet(RunningOf(export[j].by))
      BY ExportAssumption, FS_Subset DEF RunningExports, RunningOf
    <3>2. Cardinality(RunningExports) \in Nat /\ Cardinality(RunningOf(export[j].by)) \in Nat
      BY <3>1, FS_CardinalityType
    <3>3. /\ ~(Cardinality(RunningExports) >= MaxExports)
          /\ ~(Cardinality(RunningOf(export[j].by)) >= MaxOwn)
      BY <1>3 DEF ExportsFull, RunningExports
    <3>4. QED
      BY <3>2, <3>3, ExportAssumption
  <2>7. {k \in ExportRegistry!Running :
           [i \in Export |-> export[i].by][k] = [i \in Export |-> export[i].by][j]}
          = RunningOf(export[j].by)
    BY <2>5 DEF RunningExports
  <2>8. ExportRegistry!Register(j)
    <3>1. [k \in Export |-> export[k].state][j] = "none"
      BY <2>2
    <3>2. Cardinality(ExportRegistry!Running) < MaxExports
      BY <2>5, <2>6
    <3>3. Cardinality({k \in ExportRegistry!Running :
             [i \in Export |-> export[i].by][k] = [i \in Export |-> export[i].by][j]}) < MaxOwn
      BY <2>6, <2>7
    <3>4. QED
      BY <2>3, <2>4, <3>1, <3>2, <3>3, SameCount DEF ExportRegistry!Register
  <2>9. QED
    BY <2>8 DEF ExportRegistry!Next
<1> QED
  BY <1>2, <1>3

LEMMA ExportIsCancelled ==
  ASSUME ExportInv, NEW j \in Export, CancelExport(j)
  PROVE  ExportRegistry!Next
<1>1. export \in [Export -> ExportEntry] /\ pump \in [Export -> Pump]
  BY DEF ExportInv, ExportTypeOK
<1>2. WorkingExports' = WorkingExports
  BY <1>1 DEF CancelExport, WorkingExports, Pump
<1>3. /\ [k \in Export |-> export'[k].state] = [k \in Export |-> export[k].state]
      /\ [k \in Export |-> export'[k].by] = [k \in Export |-> export[k].by]
      /\ {k \in Export : export'[k].asked} = {k \in Export : export[k].asked} \cup {j}
  BY <1>1 DEF CancelExport, ExportEntry
<1>4. j \in ExportRegistry!Running
  BY DEF CancelExport, ExportRegistry!Running
<1>5. ExportRegistry!Cancel(j)
  BY <1>2, <1>3, <1>4 DEF ExportRegistry!Cancel
<1> QED
  BY <1>5 DEF ExportRegistry!Next

LEMMA ExportPumps ==
  ASSUME ExportInv, NEW j \in Export,
         \/ CursorOpens(j) \/ UploadOpens(j) \/ FallsBack(j) \/ SpawnsPump(j) \/ ReadsRow(j)
         \/ HearsCancel(j) \/ StopsReading(j) \/ Writes(j) \/ Aborts(j)
  PROVE  UNCHANGED ExportRegistry!vars
<1>1. pump \in [Export -> Pump]
  BY DEF ExportInv, ExportTypeOK
<1>2. /\ UNCHANGED export
      /\ \A k \in Export \ {j} : pump'[k] = pump[k]
      /\ pump[j].pc \notin {"idle", "over", "lost"} /\ pump'[j].pc \notin {"idle", "over", "lost"}
  BY <1>1 DEF CursorOpens, UploadOpens, FallsBack, SpawnsPump, ReadsRow, HearsCancel,
              StopsReading, Writes, Aborts, Settle, Pump
<1>3. WorkingExports' = WorkingExports
  BY <1>2 DEF WorkingExports
<1> QED
  BY <1>2, <1>3 DEF ExportRegistry!vars

LEMMA ExportVanishes ==
  ASSUME ExportInv, NEW j \in Export, LosesExport(j) \/ RefusesStatement(j)
  PROVE  ExportRegistry!Next
<1>1. pump \in [Export -> Pump]
  BY DEF ExportInv, ExportTypeOK
<1>2. UNCHANGED export /\ j \in WorkingExports /\ WorkingExports' = WorkingExports \ {j}
  BY <1>1 DEF LosesExport, RefusesStatement, WorkingExports, Pump
<1>3. ExportRegistry!Vanish(j)
  BY <1>2 DEF ExportRegistry!Vanish
<1> QED
  BY <1>3 DEF ExportRegistry!Next

LEMMA ExportSettles ==
  ASSUME ExportInv, ExportAsked, NEW j \in Export, CursorFails(j) \/ SettlesExport(j)
  PROVE  ExportRegistry!Next
<1>1. export \in [Export -> ExportEntry] /\ pump \in [Export -> Pump]
  BY DEF ExportInv, ExportTypeOK
<1>2. PICK end \in Terminal : end = IF CursorFails(j) THEN "failed" ELSE pump[j].fin
  BY <1>1 DEF Pump, Terminal
<1>3. j \in WorkingExports /\ export[j].state = "running"
  BY DEF CursorFails, SettlesExport, WorkingExports, ExportInv, ExportSound
<1>4. export' = [export EXCEPT ![j].state = end] /\ pump' = [pump EXCEPT ![j].pc = "over"]
  BY <1>2, <1>3 DEF CursorFails, SettlesExport, Finish
<1>5. WorkingExports' = WorkingExports \ {j}
  BY <1>1, <1>4 DEF WorkingExports, Pump
<1>6. /\ [k \in Export |-> export'[k].state]
           = [[k \in Export |-> export[k].state] EXCEPT ![j] = end]
      /\ [k \in Export |-> export'[k].by] = [k \in Export |-> export[k].by]
      /\ {k \in Export : export'[k].asked} = {k \in Export : export[k].asked}
  BY <1>1, <1>4 DEF ExportEntry
<1>7. end = "cancelled" => export[j].asked
  BY <1>2 DEF ExportAsked
<1>8. ExportRegistry!Settle(j, end)
  BY <1>3, <1>5, <1>6, <1>7 DEF ExportRegistry!Settle
<1> QED
  BY <1>2, <1>8 DEF ExportRegistry!Next, ExportRegistry!Outcome, Terminal

LEMMA ExportStep ==
  ExportInv /\ ExportAsked /\ [ExportNext]_exportVars =>
    [ExportRegistry!Next]_(ExportRegistry!vars)
<1> SUFFICES ASSUME ExportInv, ExportAsked, [ExportNext]_exportVars
             PROVE  ExportRegistry!Next \/ UNCHANGED ExportRegistry!vars
  OBVIOUS
<1>1. CASE SweepArtefacts \/ UNCHANGED exportVars \/ \E j \in Export : ArtefactAges(j)
  <2>1. UNCHANGED <<export, pump>>
    BY <1>1 DEF SweepArtefacts, ArtefactAges, exportVars
  <2>2. QED
    BY <2>1 DEF ExportRegistry!vars, WorkingExports
<1>2. CASE \E j \in Export :
             StartExport(j) \/ CancelExport(j) \/ ExportReturns(j) \/ LosesExport(j)
               \/ ReadsRow(j) \/ StopsReading(j) \/ HearsCancel(j)
  BY <1>2, ExportStarts, ExportIsCancelled, ExportPumps, ExportVanishes, ExportSettles
     DEF ExportReturns
<1> QED
  BY <1>1, <1>2 DEF ExportNext

\* The flag that run_import looks at is raised by cancel alone.
ImportAsked == \A j \in Import : task[j].fin = "cancelled" => import[j].asked

LEMMA ImportAskedInitially == ImportInit => ImportAsked
BY DEF ImportInit, ImportAsked

\* What the steps of a task between its registration and its end do to the registry:
\* nothing, but for the progress they note in the entry.
ImportWorks(j) ==
  BeginsImport(j) \/ DeletesRows(j) \/ LooksForCancel(j) \/ CollectsRow(j) \/ HasBatch(j)
    \/ InsertsBatch(j) \/ CommitsBatch(j) \/ ClosesImport(j)

\* Import j goes on working, and is to be cancelled only if it has been.
GoesOnWith(j) ==
  /\ \A k \in Import \ {j} : task'[k] = task[k]
  /\ task[j].pc \notin {"idle", "over", "lost"}
  /\ task'[j].pc \notin {"idle", "over", "lost"}
  /\ task'[j].fin = "cancelled" => task[j].fin = "cancelled" \/ import[j].asked

LEMMA TaskMoves ==
  ASSUME ImportInv, NEW j \in Import, NEW from, NEW u, Works(j, from, u),
         from \notin {"idle", "over", "lost"}, u.pc \notin {"idle", "over", "lost"},
         u.fin = "cancelled" => task[j].fin = "cancelled" \/ import[j].asked
  PROVE  GoesOnWith(j)
BY DEF ImportInv, ImportTypeOK, Works, GoesOnWith

LEMMA TaskStops ==
  ASSUME ImportInv, NEW j \in Import, NEW from, NEW fin, Stops(j, from, fin),
         from \notin {"idle", "over", "lost"}, fin = "cancelled" => import[j].asked
  PROVE  GoesOnWith(j)
<1>1. PICK t \in Task : t = task[j]
  BY DEF ImportInv, ImportTypeOK
<1>2. /\ [t EXCEPT !.pc = "close", !.fin = fin].pc = "close"
      /\ [t EXCEPT !.pc = "close", !.fin = fin].fin = fin
  BY DEF Task
<1> QED
  BY <1>1, <1>2, TaskMoves DEF Stops

LEMMA ImportGoesOn ==
  ASSUME ImportInv, NEW j \in Import, ImportWorks(j)
  PROVE  GoesOnWith(j)
<1>1. PICK t \in Task : t = task[j]
  BY DEF ImportInv, ImportTypeOK
<1>2. CASE \E from \in {"begin", "delete", "look", "collect", "insert", "commit"} :
             Stops(j, from, "failed") \/ Stops(j, from, "done")
  BY <1>2, TaskStops
<1>3. CASE Stops(j, "look", "cancelled") /\ import[j].asked
  BY <1>3, TaskStops
<1>4. CASE BeginsImport(j) /\ ~Stops(j, "begin", "failed")
  <2>1. PICK pc \in {"delete", "look"} : Works(j, "begin", [t EXCEPT !.pc = pc])
    BY <1>1, <1>4 DEF BeginsImport
  <2> DEFINE u == [t EXCEPT !.pc = pc]
  <2>2. Works(j, "begin", u) /\ u.pc = pc /\ u.fin = t.fin
    BY <2>1 DEF Task
  <2> HIDE DEF u
  <2>3. QED
    BY <1>1, <2>2, TaskMoves
<1>5. CASE DeletesRows(j) /\ ~Stops(j, "delete", "failed")
  <2> DEFINE u == [t EXCEPT !.pc = "look"]
  <2>1. Works(j, "delete", u)
    BY <1>1, <1>5 DEF DeletesRows
  <2>2. u.pc = "look" /\ u.fin = t.fin
    BY DEF Task
  <2> HIDE DEF u
  <2>3. QED
    BY <1>1, <2>1, <2>2, TaskMoves
<1>6. CASE LooksForCancel(j) /\ ~import[j].asked /\ ~Stops(j, "look", "failed")
  <2> DEFINE u == [t EXCEPT !.pc = "collect", !.batch = 0, !.last = FALSE]
  <2>1. Works(j, "look", u)
    BY <1>1, <1>6 DEF LooksForCancel
  <2>2. u.pc = "collect" /\ u.fin = t.fin
    BY DEF Task
  <2> HIDE DEF u
  <2>3. QED
    BY <1>1, <2>1, <2>2, TaskMoves
<1>7. CASE \/ CollectsRow(j) /\ ~Stops(j, "collect", "failed")
           \/ HasBatch(j) /\ ~Stops(j, "collect", "done")
  <2> DEFINE u == [t EXCEPT !.left = @ - 1, !.batch = @ + 1]
             v == [t EXCEPT !.left = @ - 1]
             w == [t EXCEPT !.pc = "insert", !.last = t.batch < Batch]
  <2>1. Works(j, "collect", u) \/ Works(j, "collect", v) \/ Works(j, "collect", w)
    BY <1>1, <1>7 DEF CollectsRow, HasBatch
  <2>2. /\ u.pc = t.pc /\ u.fin = t.fin
        /\ v.pc = t.pc /\ v.fin = t.fin
        /\ w.pc = "insert" /\ w.fin = t.fin
    BY DEF Task
  <2> HIDE DEF u, v, w
  <2>3. \A x : Works(j, "collect", x) => t.pc = "collect"
    BY <1>1 DEF Works
  <2>4. QED
    BY <1>1, <2>1, <2>2, <2>3, TaskMoves
<1>8. CASE InsertsBatch(j) /\ ~Stops(j, "insert", "failed")
  <2>1. PICK n : LET u == [t EXCEPT !.good = @ + n, !.lenient = @ \/ n < t.batch] IN
                 \/ Works(j, "insert", Counted(u))
                 \/ Works(j, "insert", [u EXCEPT !.pc = "commit"])
    BY <1>1, <1>8 DEF InsertsBatch
  <2> DEFINE u == [t EXCEPT !.good = @ + n, !.lenient = @ \/ n < t.batch]
             v == Counted(u)
             w == [u EXCEPT !.pc = "commit"]
  <2>2. Works(j, "insert", v) \/ Works(j, "insert", w)
    BY <2>1
  <2>3. /\ v.pc \in {"close", "look"} /\ v.fin = "done"
        /\ w.pc = "commit" /\ w.fin = t.fin
    BY DEF Counted, Task
  <2> HIDE DEF u, v, w
  <2>4. QED
    BY <1>1, <2>2, <2>3, TaskMoves
<1>9. CASE CommitsBatch(j) /\ ~Stops(j, "commit", "failed")
  <2> DEFINE u == [Counted(t) EXCEPT !.good = 0]
  <2>1. Works(j, "commit", u)
    BY <1>1, <1>9 DEF CommitsBatch
  <2>2. u.pc \in {"close", "look"} /\ u.fin = "done"
    BY DEF Counted, Task
  <2> HIDE DEF u
  <2>3. QED
    BY <1>1, <2>1, <2>2, TaskMoves
<1>10. CASE ClosesImport(j)
  <2> DEFINE u == [t EXCEPT !.pc = "settle", !.good = 0]
             v == [t EXCEPT !.pc = "settle", !.good = 0, !.committed = 0,
                            !.fin = IF @ = "done" THEN "failed" ELSE @]
  <2>1. Works(j, "close", u) \/ Works(j, "close", v)
    BY <1>1, <1>10 DEF ClosesImport
  <2>2. /\ u.pc = "settle" /\ u.fin = t.fin
        /\ v.pc = "settle" /\ v.fin \in {t.fin, "failed"}
    BY DEF Task
  <2> HIDE DEF u, v
  <2>3. QED
    BY <1>1, <2>1, <2>2, TaskMoves
<1> QED
  BY <1>2, <1>3, <1>4, <1>5, <1>6, <1>7, <1>8, <1>9, <1>10
     DEF ImportWorks, BeginsImport, DeletesRows, LooksForCancel, CollectsRow, HasBatch,
         InsertsBatch, CommitsBatch

LEMMA ImportNotes ==
  ASSUME ImportInv, NEW j \in Import, ImportWorks(j)
  PROVE  /\ GoesOnWith(j)
         /\ \A k \in Import : /\ import'[k].state = import[k].state
                              /\ import'[k].by = import[k].by
                              /\ import'[k].asked = import[k].asked
<1>1. import \in [Import -> ImportEntry]
  BY DEF ImportInv, ImportTypeOK
<1>2. UNCHANGED import \/ Progress(j)
  BY DEF ImportWorks, BeginsImport, DeletesRows, LooksForCancel, CollectsRow, HasBatch,
         InsertsBatch, CommitsBatch, ClosesImport
<1>3. \A k \in Import : /\ import'[k].state = import[k].state
                        /\ import'[k].by = import[k].by
                        /\ import'[k].asked = import[k].asked
  BY <1>1, <1>2 DEF Progress, ImportEntry
<1> QED
  BY <1>3, ImportGoesOn

LEMMA ImportAskedKept == ImportInv /\ ImportAsked /\ [ImportNext]_importVars => ImportAsked'
<1> SUFFICES ASSUME ImportInv, ImportAsked, [ImportNext]_importVars PROVE ImportAsked'
  OBVIOUS
<1>1. import \in [Import -> ImportEntry] /\ task \in [Import -> Task]
  BY DEF ImportInv, ImportTypeOK
<1>2. CASE SweepImports \/ UNCHANGED importVars \/ \E j \in Import : ImportAges(j)
  <2>1. UNCHANGED task /\ \A k \in Import : import'[k].asked = import[k].asked
    BY <1>1, <1>2 DEF SweepImports, ImportAges, importVars, ImportEntry
  <2>2. QED
    BY <2>1 DEF ImportAsked
<1>3. ASSUME NEW j \in Import,
             StartImport(j) \/ CancelImport(j) \/ LosesImport(j) \/ SettlesImport(j)
      PROVE  ImportAsked'
  <2>1. \A k \in Import : task'[k].fin = task[k].fin
    BY <1>1, <1>3 DEF StartImport, CancelImport, LosesImport, SettlesImport, Works, Task
  <2>2. \A k \in Import : import'[k].asked = import[k].asked \/ import'[k].asked
    <3>1. CASE StartImport(j) \/ CancelImport(j) \/ LosesImport(j)
      BY <1>1, <3>1 DEF StartImport, CancelImport, LosesImport, ImportEntry
    <3>2. CASE SettlesImport(j)
      BY <1>1, <3>2 DEF SettlesImport, ImportEntry
    <3>3. QED
      BY <1>3, <3>1, <3>2
  <2>3. QED
    BY <2>1, <2>2 DEF ImportAsked
<1>4. ASSUME NEW j \in Import, ImportWorks(j) PROVE ImportAsked'
  BY <1>4, ImportNotes DEF ImportAsked, GoesOnWith
<1> QED
  BY <1>2, <1>3, <1>4 DEF ImportNext, ImportReturns, ImportWorks

LEMMA ImportRegistryInit == ImportInit => ImportRegistry!Init
<1> SUFFICES ASSUME ImportInit PROVE ImportRegistry!Init
  OBVIOUS
<1>1. \A j \in Import : /\ import[j].state = "none" /\ import[j].by \in Tenant
                        /\ ~import[j].asked /\ task[j].pc = "idle"
  BY DEF ImportInit
<1> QED
  BY <1>1 DEF ImportRegistry!Init, WorkingImports

LEMMA ImportStarts ==
  ASSUME ImportInv, NEW j \in Import, StartImport(j)
  PROVE  ImportRegistry!Next \/ UNCHANGED ImportRegistry!vars
<1>1. import \in [Import -> ImportEntry] /\ task \in [Import -> Task]
  BY DEF ImportInv, ImportTypeOK
<1>2. CASE ImportsFull(import[j].by)
  <2>1. WorkingImports' = WorkingImports /\ UNCHANGED import
    BY <1>1, <1>2 DEF StartImport, WorkingImports, Task
  <2>2. QED
    BY <2>1 DEF ImportRegistry!vars
<1>3. CASE ~ImportsFull(import[j].by)
  <2>1. /\ task[j].pc = "idle"
        /\ task' = [task EXCEPT ![j].pc = IF OneTx(j) THEN "begin" ELSE "look"]
        /\ import' = [import EXCEPT ![j].state = "running"]
    BY <1>3 DEF StartImport
  <2>2. import[j].state = "none"
    BY <2>1 DEF ImportInv, ImportSound, ImportTells
  <2>3. WorkingImports' = WorkingImports \cup {j}
    BY <1>1, <2>1 DEF WorkingImports, Task
  <2>4. /\ [k \in Import |-> import'[k].state]
             = [[k \in Import |-> import[k].state] EXCEPT ![j] = "running"]
        /\ [k \in Import |-> import'[k].by] = [k \in Import |-> import[k].by]
        /\ {k \in Import : import'[k].asked} = {k \in Import : import[k].asked}
    BY <1>1, <2>1 DEF ImportEntry
  <2>5. ImportRegistry!Running = RunningImports
    BY DEF ImportRegistry!Running, RunningImports
  <2>6. /\ Cardinality(RunningImports) < MaxImports
        /\ Cardinality(RunningShare(import[j].by)) < MaxShare
    <3>1. IsFiniteSet(RunningImports) /\ IsFiniteSet(RunningShare(import[j].by))
      BY ImportAssumption, FS_Subset DEF RunningImports, RunningShare
    <3>2. /\ Cardinality(RunningImports) \in Nat
          /\ Cardinality(RunningShare(import[j].by)) \in Nat
      BY <3>1, FS_CardinalityType
    <3>3. RunningShare(import[j].by) = {k \in RunningImports : import[k].by = import[j].by}
      BY DEF RunningImports, RunningShare
    <3>4. /\ ~(Cardinality(RunningImports) >= MaxImports)
          /\ ~(Cardinality(RunningShare(import[j].by)) >= MaxShare)
      BY <1>3, <3>3 DEF ImportsFull, RunningImports
    <3>5. QED
      BY <3>2, <3>4, ImportAssumption
  <2>7. {k \in ImportRegistry!Running :
           [i \in Import |-> import[i].by][k] = [i \in Import |-> import[i].by][j]}
          = RunningShare(import[j].by)
    BY <2>5 DEF RunningImports, RunningShare
  <2>8. ImportRegistry!Register(j)
    <3>1. [k \in Import |-> import[k].state][j] = "none"
      BY <2>2
    <3>2. Cardinality(ImportRegistry!Running) < MaxImports
      BY <2>5, <2>6
    <3>3. Cardinality({k \in ImportRegistry!Running :
             [i \in Import |-> import[i].by][k] = [i \in Import |-> import[i].by][j]}) < MaxShare
      BY <2>6, <2>7
    <3>4. QED
      BY <2>3, <2>4, <3>1, <3>2, <3>3, SameCount DEF ImportRegistry!Register
  <2>9. QED
    BY <2>8 DEF ImportRegistry!Next
<1> QED
  BY <1>2, <1>3

LEMMA ImportIsCancelled ==
  ASSUME ImportInv, NEW j \in Import, CancelImport(j)
  PROVE  ImportRegistry!Next
<1>1. import \in [Import -> ImportEntry]
  BY DEF ImportInv, ImportTypeOK
<1>2. WorkingImports' = WorkingImports
  BY DEF CancelImport, WorkingImports
<1>3. /\ [k \in Import |-> import'[k].state] = [k \in Import |-> import[k].state]
      /\ [k \in Import |-> import'[k].by] = [k \in Import |-> import[k].by]
      /\ {k \in Import : import'[k].asked} = {k \in Import : import[k].asked} \cup {j}
  BY <1>1 DEF CancelImport, ImportEntry
<1>4. j \in ImportRegistry!Running
  BY DEF CancelImport, ImportRegistry!Running
<1>5. ImportRegistry!Cancel(j)
  BY <1>2, <1>3, <1>4 DEF ImportRegistry!Cancel
<1> QED
  BY <1>5 DEF ImportRegistry!Next

LEMMA ImportWorksOn ==
  ASSUME ImportInv, NEW j \in Import, ImportWorks(j)
  PROVE  UNCHANGED ImportRegistry!vars
<1>1. WorkingImports' = WorkingImports
  BY ImportNotes DEF WorkingImports, GoesOnWith
<1>2. /\ [k \in Import |-> import'[k].state] = [k \in Import |-> import[k].state]
      /\ [k \in Import |-> import'[k].by] = [k \in Import |-> import[k].by]
      /\ {k \in Import : import'[k].asked} = {k \in Import : import[k].asked}
  BY ImportNotes
<1> QED
  BY <1>1, <1>2 DEF ImportRegistry!vars

LEMMA ImportVanishes ==
  ASSUME ImportInv, NEW j \in Import, LosesImport(j)
  PROVE  ImportRegistry!Next
<1>1. task \in [Import -> Task]
  BY DEF ImportInv, ImportTypeOK
<1>2. UNCHANGED import /\ j \in WorkingImports /\ WorkingImports' = WorkingImports \ {j}
  BY <1>1 DEF LosesImport, WorkingImports, Task
<1>3. ImportRegistry!Vanish(j)
  BY <1>2 DEF ImportRegistry!Vanish
<1> QED
  BY <1>3 DEF ImportRegistry!Next

LEMMA ImportSettles ==
  ASSUME ImportInv, ImportAsked, NEW j \in Import, SettlesImport(j)
  PROVE  ImportRegistry!Next
<1>1. import \in [Import -> ImportEntry] /\ task \in [Import -> Task]
  BY DEF ImportInv, ImportTypeOK
<1>2. PICK end \in Over : end = task[j].fin
  BY <1>1 DEF Task
<1>3. j \in WorkingImports /\ import[j].state = "running" /\ task[j].pc = "settle"
  BY DEF SettlesImport, Works, WorkingImports, ImportInv, ImportSound, ImportTells
<1>4. /\ import' = [import EXCEPT ![j] = [@ EXCEPT !.state = end, !.rows = task[j].committed]]
      /\ task' = [task EXCEPT ![j] = [task[j] EXCEPT !.pc = "over"]]
  BY <1>2, <1>3 DEF SettlesImport, Works
<1>5. WorkingImports' = WorkingImports \ {j}
  BY <1>1, <1>4 DEF WorkingImports, Task
<1>6. /\ [k \in Import |-> import'[k].state]
           = [[k \in Import |-> import[k].state] EXCEPT ![j] = end]
      /\ [k \in Import |-> import'[k].by] = [k \in Import |-> import[k].by]
      /\ {k \in Import : import'[k].asked} = {k \in Import : import[k].asked}
  BY <1>1, <1>4 DEF ImportEntry
<1>7. end = "cancelled" => import[j].asked
  BY <1>2 DEF ImportAsked
<1>8. ImportRegistry!Settle(j, end)
  BY <1>3, <1>5, <1>6, <1>7 DEF ImportRegistry!Settle
<1> QED
  BY <1>2, <1>8 DEF ImportRegistry!Next, ImportRegistry!Outcome, Over

\* The sweep forgets what is over and old, all of it in one go.
LEMMA ImportsForgotten ==
  ASSUME ImportInv, SweepImports
  PROVE  ImportRegistry!Next
<1>1. import \in [Import -> ImportEntry]
  BY DEF ImportInv, ImportTypeOK
<1> PICK S \in SUBSET Import : S = {j \in old : import[j].state \in Over}
  BY DEF ImportInv, ImportTypeOK
<1>2. \A k \in Import : /\ import'[k].state = IF k \in S THEN "swept" ELSE import[k].state
                        /\ import'[k].by = import[k].by
                        /\ import'[k].asked = import[k].asked
  BY <1>1 DEF SweepImports, ImportEntry
<1>3. \A k \in S : [i \in Import |-> import[i].state][k] \in ImportRegistry!Outcome
  BY <1>1 DEF ImportRegistry!Outcome, Over
<1>4. WorkingImports' = WorkingImports
  BY DEF SweepImports, WorkingImports
<1>5. /\ [k \in Import |-> import'[k].state]
           = [k \in Import |-> IF k \in S THEN "swept"
                                          ELSE [i \in Import |-> import[i].state][k]]
      /\ [k \in Import |-> import'[k].by] = [k \in Import |-> import[k].by]
      /\ {k \in Import : import'[k].asked} = {k \in Import : import[k].asked}
  BY <1>2
<1>6. ImportRegistry!Forget(S)
  BY <1>3, <1>4, <1>5 DEF ImportRegistry!Forget
<1> QED
  BY <1>6 DEF ImportRegistry!Next

LEMMA ImportStep ==
  ImportInv /\ ImportAsked /\ [ImportNext]_importVars =>
    [ImportRegistry!Next]_(ImportRegistry!vars)
<1> SUFFICES ASSUME ImportInv, ImportAsked, [ImportNext]_importVars
             PROVE  ImportRegistry!Next \/ UNCHANGED ImportRegistry!vars
  OBVIOUS
<1>1. CASE UNCHANGED importVars \/ \E j \in Import : ImportAges(j)
  <2>1. UNCHANGED <<import, task>>
    BY <1>1 DEF ImportAges, importVars
  <2>2. QED
    BY <2>1 DEF ImportRegistry!vars, WorkingImports
<1>2. CASE SweepImports
  BY <1>2, ImportsForgotten
<1>3. CASE \E j \in Import :
             StartImport(j) \/ CancelImport(j) \/ LosesImport(j) \/ ImportReturns(j)
  BY <1>3, ImportStarts, ImportIsCancelled, ImportVanishes, ImportWorksOn, ImportSettles
     DEF ImportReturns, ImportWorks
<1> QED
  BY <1>1, <1>2, <1>3 DEF ImportNext

-----------------------------------------------------------------------------
\* Both registries keep the promise of TransferRegistry for any quotas, owners and sets
\* of transfers: a transfer starts within the quotas of all and of its owner (register),
\* only the end of its work settles it, once (finish: the first one wins), and it is
\* called cancelled only if cancel was called while it ran.
THEOREM RegistriesKept == MCSpec => KeepsRegistries
<1> DEFINE Kept == EntriesInv /\ ExportAsked /\ ImportAsked
<1>1. MCInit => Kept /\ ExportRegistry!Init /\ ImportRegistry!Init
  BY EntriesInitially, ExportAskedInitially, ImportAskedInitially, ExportRegistryInit,
     ImportRegistryInit DEF MCInit
<1>2. Kept /\ [MCNext]_all => /\ Kept'
                              /\ [ExportRegistry!Next]_(ExportRegistry!vars)
                              /\ [ImportRegistry!Next]_(ImportRegistry!vars)
  <2> SUFFICES ASSUME Kept, [MCNext]_all
               PROVE  /\ Kept'
                      /\ [ExportRegistry!Next]_(ExportRegistry!vars)
                      /\ [ImportRegistry!Next]_(ImportRegistry!vars)
    OBVIOUS
  <2>1. [ExportNext]_exportVars /\ [ImportNext]_importVars
    BY DEF MCNext, all, Engine, Exporting, Importing, Mailing, InTx
  <2>2. ExportInv /\ ImportInv
    BY DEF EntriesInv
  <2> QED
    BY <2>1, <2>2, EntriesKept, ExportAskedKept, ImportAskedKept, ExportStep, ImportStep
<1> QED
  BY <1>1, <1>2, PTL
     DEF MCSpec, KeepsRegistries, ExportRegistry!Spec, ImportRegistry!Spec
=============================================================================
