--------------------------- MODULE RoutePoolProofs ---------------------------
(***************************************************************************)
(* Type correctness and safety of RoutePool for any sets of connection     *)
(* tasks and worker threads; that no fire of a connection with an id of    *)
(* its own is forgotten; the step from the actions of the pool to those of *)
(* FrameScheduler; and what FrameSchedulerProofs proves of the scheduler,  *)
(* carried over to the pool.                                               *)
(***************************************************************************)
EXTENDS RoutePool, FiniteSetTheorems, TLAPS

-----------------------------------------------------------------------------
\* What appending to and taking from a sequence do to its elements.
LEMMA AppendElements ==
  ASSUME NEW S, NEW s \in Seq(S), NEW e \in S
  PROVE  /\ DOMAIN Append(s, e) = DOMAIN s \cup {Len(s) + 1}
         /\ Len(s) + 1 \notin DOMAIN s
         /\ \A i \in DOMAIN s : Append(s, e)[i] = s[i]
         /\ Append(s, e)[Len(s) + 1] = e
OBVIOUS

LEMMA TailElements ==
  ASSUME NEW S, NEW s \in Seq(S), s # <<>>
  PROVE  /\ 1 \in DOMAIN s
         /\ Head(s) = s[1]
         /\ \A i \in DOMAIN Tail(s) : i \in Nat /\ i + 1 \in DOMAIN s /\ Tail(s)[i] = s[i + 1]
         /\ \A i \in DOMAIN Tail(s) : i + 1 # 1
OBVIOUS

-----------------------------------------------------------------------------
(* The operations keep the types. *)

LEMMA ResolveType ==
  ASSUME QueueTypeOK, NEW S, NEW r \in {"idle", "wait"} \cup Result, Resolve(S, r)
  PROVE  reply' \in [Caller -> {"idle", "wait"} \cup Result]
BY DEF QueueTypeOK, Resolve

LEMMA NotifyType ==
  ASSUME QueueTypeOK, NotifyOne \/ NotifyAll \/ UNCHANGED notifyVars
  PROVE  /\ permit' \in BOOLEAN
         /\ armed' \in SUBSET Worker
         /\ parked' \in SUBSET Worker
BY DEF QueueTypeOK, NotifyOne, NotifyAll, notifyVars

LEMMA EnqueueType ==
  ASSUME QueueTypeOK, NEW f \in Frame, Enqueue(f)
  PROVE  /\ ready' \in Seq(Frame)
         /\ waiting' \in [Conn -> Seq(Frame)]
         /\ inFlight' \in SUBSET Conn
<1>1. f.conn \in Conn
  BY DEF Frame
<1>2. CASE f.conn \in inFlight
  <2>1. Append(waiting[f.conn], f) \in Seq(Frame)
    BY <1>1 DEF QueueTypeOK
  <2>2. QED
    BY <1>2, <2>1 DEF Enqueue, QueueTypeOK
<1>3. CASE f.conn \notin inFlight
  <2>1. Append(ready, f) \in Seq(Frame)
    BY DEF QueueTypeOK
  <2>2. QED
    BY <1>1, <1>3, <2>1 DEF Enqueue, QueueTypeOK
<1>4. QED
  BY <1>2, <1>3

LEMMA SubmitType ==
  ASSUME QueueTypeOK, NEW p \in Caller, NEW c \in Conn, Submit(p, c)
  PROVE  QueueTypeOK'
<1>1. PICK f \in Frame : f = [conn |-> c, call |-> p]
  BY DEF Frame
<1>2. reply' \in [Caller -> {"idle", "wait"} \cup Result]
  BY ResolveType DEF Submit, Result
<1>3. CASE closed
  BY <1>2, <1>3 DEF Submit, QueueTypeOK, queueVars, notifyVars
<1>4. CASE ~closed
  <2>1. Enqueue(f) /\ UNCHANGED closed /\ NotifyOne
    BY <1>1, <1>4 DEF Submit
  <2>2. /\ permit' \in BOOLEAN
        /\ armed' \in SUBSET Worker
        /\ parked' \in SUBSET Worker
    BY <2>1, NotifyType
  <2>3. /\ ready' \in Seq(Frame)
        /\ waiting' \in [Conn -> Seq(Frame)]
        /\ inFlight' \in SUBSET Conn
    BY <2>1, EnqueueType
  <2>4. QED
    BY <1>2, <2>1, <2>2, <2>3 DEF QueueTypeOK
<1>5. QED
  BY <1>3, <1>4

LEMMA CompleteType ==
  ASSUME QueueTypeOK, NEW c \in Conn, Complete(c)
  PROVE  QueueTypeOK'
<1>1. /\ permit' \in BOOLEAN
      /\ armed' \in SUBSET Worker
      /\ parked' \in SUBSET Worker
  BY NotifyType DEF Complete
<1>2. CASE waiting[c] = <<>>
  BY <1>1, <1>2 DEF Complete, QueueTypeOK
<1>3. CASE waiting[c] # <<>>
  <2>1. waiting' = [waiting EXCEPT ![c] = Tail(@)] /\ ReleaseHead(c) /\ UNCHANGED closed
    BY <1>3 DEF Complete
  <2>2. waiting[c] \in Seq(Frame)
    BY DEF QueueTypeOK
  <2>3. Head(waiting[c]) \in Frame /\ Tail(waiting[c]) \in Seq(Frame)
    BY <1>3, <2>2
  <2>4. waiting' \in [Conn -> Seq(Frame)]
    BY <2>1, <2>3 DEF QueueTypeOK
  <2>5. /\ ready' \in Seq(Frame)
        /\ inFlight' \in SUBSET Conn
        /\ reply' \in [Caller -> {"idle", "wait"} \cup Result]
    <3>1. CASE closed
      BY <2>1, <3>1, ResolveType DEF ReleaseHead, QueueTypeOK, Result
    <3>2. CASE ~closed
      <4>1. ready \in Seq(Frame) /\ Head(waiting[c]) \in Frame
        BY <2>3 DEF QueueTypeOK
      <4>2. Append(ready, Head(waiting[c])) \in Seq(Frame)
        BY <4>1
      <4>3. QED
        BY <2>1, <3>2, <4>2 DEF ReleaseHead, QueueTypeOK
    <3>3. QED
      BY <3>1, <3>2
  <2>6. QED
    BY <1>1, <2>1, <2>4, <2>5 DEF QueueTypeOK
<1>4. QED
  BY <1>2, <1>3

LEMMA DropConnType ==
  ASSUME QueueTypeOK, NEW c \in Conn, DropConn(c)
  PROVE  QueueTypeOK'
<1>1. reply' \in [Caller -> {"idle", "wait"} \cup Result]
  BY ResolveType DEF DropConn, Result
<1>2. QED
  BY <1>1 DEF DropConn, QueueTypeOK, notifyVars

LEMMA CloseType ==
  ASSUME QueueTypeOK, Close
  PROVE  QueueTypeOK'
<1>1. reply' \in [Caller -> {"idle", "wait"} \cup Result]
  BY ResolveType DEF Close, Result
<1>2. QED
  BY <1>1, NotifyType DEF Close, QueueTypeOK

-----------------------------------------------------------------------------
(* The inductive invariant.                                                *)
(*                                                                         *)
(* LiveIsExact is inductive once the counted threads are finitely many.    *)
(* WriteBackBeforeNextFrame and NoFrameAfterDetach are not: they hold      *)
(* because a connection task has one frame out at a time and waits for its *)
(* answer, so the invariant follows the frames (OneFrame): whoever queues, *)
(* holds back or executes a frame owes its caller the answer, and no two   *)
(* places hold a frame of the same caller.                                 *)

Busy == {"load", "exec", "store", "answer"}
Clearing == {"panic", "purge"}

\* A worker has a frame in hand from pull to the answer, and to the end of the
\* clean-up after a panic.
Hands ==
  \A w \in Worker :
    IF wpc[w] \in Busy \cup Clearing THEN hold[w] \in Frame ELSE hold[w] = NoFrame

\* The caller of the frame waits for its answer, under the id it submitted with.
Waits(l) == lpc[l] = "await" /\ reply[l] = "wait"
Owed(f) == Waits(f.call) /\ f.conn = handle[f.call]

ReadyOwed == \A i \in DOMAIN ready : Owed(ready[i])
WaitingOwed == \A c \in Conn : \A i \in DOMAIN waiting[c] :
                 Owed(waiting[c][i]) /\ waiting[c][i].conn = c
HeldOwed == \A w \in Worker : wpc[w] \in Busy => Owed(hold[w])

ReadyApart == \A i, j \in DOMAIN ready : ready[i].call = ready[j].call => i = j
WaitingApart == \A c \in Conn : \A i, j \in DOMAIN waiting[c] :
                  waiting[c][i].call = waiting[c][j].call => i = j
HeldApart ==
  \A v, w \in Worker :
    wpc[v] \in Busy /\ wpc[w] \in Busy /\ hold[v].call = hold[w].call => v = w
ReadyNotWaiting ==
  \A i \in DOMAIN ready, c \in Conn : \A j \in DOMAIN waiting[c] :
    ready[i].call # waiting[c][j].call
HeldNotReady ==
  \A w \in Worker : wpc[w] \in Busy =>
    \A i \in DOMAIN ready : ready[i].call # hold[w].call
HeldNotWaiting ==
  \A w \in Worker : wpc[w] \in Busy =>
    \A c \in Conn : \A j \in DOMAIN waiting[c] : waiting[c][j].call # hold[w].call

OneFrame ==
  /\ ReadyOwed /\ WaitingOwed /\ HeldOwed
  /\ ReadyApart /\ WaitingApart /\ HeldApart
  /\ ReadyNotWaiting /\ HeldNotReady /\ HeldNotWaiting

Leaving == {"detach", "drop", "last", "gone"}

\* A task has a channel open only while it awaits it, and is in the session table
\* from attach to detach if it has an id of its own.
Loops ==
  \A l \in Caller :
    /\ reply[l] # "idle" => lpc[l] = "await"
    /\ handle[l] \in {Zero, l}
    /\ handle[l] = l /\ lpc[l] \notin {"drop", "last", "gone"} => l \in sessions
    /\ lpc[l] = "hire" => hires[l] > 0

\* panic_conn is for connections that attach took in; the task whose frame panicked
\* has PoolClosed for an answer, and leaves.
Cleared ==
  /\ \A w \in Worker : wpc[w] \in Clearing => hold[w].conn # Zero
  /\ \A w \in Worker, l \in Caller :
       wpc[w] \in Clearing /\ hold[w].conn = l =>
         \/ lpc[l] \in Leaving
         \/ lpc[l] = "await" /\ reply[l] = "closed"

\* A closed pool has nothing queued and nobody asleep.
Drained ==
  closed => /\ ready = <<>>
            /\ \A c \in Conn : waiting[c] = <<>>
            /\ armed = {} /\ parked = {}

Exact == LiveIsExact /\ IsFiniteSet(Counted)

IInv == TypeOK /\ Hands /\ OneFrame /\ Loops /\ Cleared /\ Drained /\ Exact

-----------------------------------------------------------------------------
(* The live counter. *)

CountedPc == {"boot", "latched", "pull", "await", "leave", "load", "exec", "store",
              "answer", "poison", "panic", "purge", "reap"}

\* A thread that stays counted, or uncounted, leaves the counter right.
LEMMA CountKeeps ==
  ASSUME TypeOK, Exact, NEW w \in Worker, NEW p, wpc[w] \in CountedPc <=> p \in CountedPc,
         Become(w, p), UNCHANGED live
  PROVE  Exact'
<1>1. Counted' = Counted
  BY DEF Counted, CountedPc, Become, TypeOK
<1> QED
  BY <1>1 DEF Exact, LiveIsExact

LEMMA CountSame ==
  ASSUME Exact, UNCHANGED <<wpc, live>>
  PROVE  Exact'
<1>1. Counted' = Counted
  BY DEF Counted
<1> QED
  BY <1>1 DEF Exact, LiveIsExact

\* A thread that starts is counted by the one that starts it.
LEMMA CountUp ==
  ASSUME TypeOK, Exact, NEW w \in Worker, wpc[w] \notin CountedPc, SpawnWorker(w)
  PROVE  Exact'
<1>1. Counted' = Counted \cup {w} /\ w \notin Counted
  BY DEF Counted, CountedPc, SpawnWorker, Become, TypeOK
<1>2. IsFiniteSet(Counted') /\ Cardinality(Counted') = Cardinality(Counted) + 1
  BY <1>1, FS_AddElement DEF Exact
<1> QED
  BY <1>2 DEF Exact, LiveIsExact, SpawnWorker

\* A thread that ends takes itself off, from a counter that is not zero.
LEMMA CountDown ==
  ASSUME TypeOK, Exact, NEW w \in Worker, NEW p, wpc[w] \in CountedPc, p \notin CountedPc,
         Become(w, p), live' = live - 1
  PROVE  Exact' /\ live' \in Nat
<1>1. Counted' = Counted \ {w} /\ w \in Counted
  BY DEF Counted, CountedPc, Become, TypeOK
<1>2. IsFiniteSet(Counted') /\ Cardinality(Counted') = Cardinality(Counted) - 1
  BY <1>1, FS_RemoveElement DEF Exact
<1>3. Cardinality(Counted') \in Nat
  BY <1>2, FS_CardinalityType
<1> QED
  BY <1>2, <1>3 DEF Exact, LiveIsExact

-----------------------------------------------------------------------------
(* The frames. *)

LEMMA QueuedFrames ==
  ASSUME TypeOK
  PROVE  /\ \A f \in Frame : f.conn \in Conn /\ f.call \in Caller
         /\ \A i \in DOMAIN ready : ready[i] \in Frame
         /\ \A c \in Conn : \A i \in DOMAIN waiting[c] : waiting[c][i] \in Frame
<1>1. ready \in Seq(Frame) /\ \A c \in Conn : waiting[c] \in Seq(Frame)
  BY DEF TypeOK, QueueTypeOK
<1>2. \A s \in Seq(Frame) : \A i \in DOMAIN s : s[i] \in Frame
  OBVIOUS
<1>3. \A f \in Frame : f.conn \in Conn /\ f.call \in Caller
  BY DEF Frame
<1> QED
  BY <1>1, <1>2, <1>3

\* Steps that add no frame, answer only callers in S, and take the frames of those
\* away.
LEMMA FramesKept ==
  ASSUME TypeOK, Hands, OneFrame, NEW S,
         ready' = ready \/ ready' = <<>>,
         \A c \in Conn : waiting'[c] = waiting[c] \/ waiting'[c] = <<>>,
         \A w \in Worker : wpc'[w] \in Busy =>
           wpc[w] \in Busy /\ hold'[w] = hold[w] /\ hold[w].call \notin S,
         \A l \in Caller : l \notin S /\ Waits(l) => Waits(l)' /\ handle'[l] = handle[l],
         \A i \in DOMAIN ready' : ready'[i].call \notin S,
         \A c \in Conn : \A i \in DOMAIN waiting'[c] : waiting'[c][i].call \notin S
  PROVE  OneFrame'
<1>1. DOMAIN <<>> = {}
  OBVIOUS
<1>2. \A i \in DOMAIN ready' : i \in DOMAIN ready /\ ready'[i] = ready[i]
  BY <1>1
<1>3. \A c \in Conn : \A i \in DOMAIN waiting'[c] :
        i \in DOMAIN waiting[c] /\ waiting'[c][i] = waiting[c][i]
  BY <1>1
<1>4. ASSUME NEW f \in Frame, f.call \notin S, Owed(f)
      PROVE  Owed(f)'
  BY <1>4, QueuedFrames DEF Owed, Waits
<1>5. ReadyOwed'
  BY <1>2, <1>4, QueuedFrames DEF OneFrame, ReadyOwed, Owed
<1>6. WaitingOwed'
  BY <1>3, <1>4, QueuedFrames DEF OneFrame, WaitingOwed, Owed
<1>7. HeldOwed'
  BY <1>4 DEF OneFrame, HeldOwed, Hands, Owed
<1>8. ReadyApart' /\ WaitingApart' /\ HeldApart'
  BY <1>2, <1>3 DEF OneFrame, ReadyApart, WaitingApart, HeldApart
<1>9. ReadyNotWaiting' /\ HeldNotReady' /\ HeldNotWaiting'
  BY <1>2, <1>3 DEF OneFrame, ReadyNotWaiting, HeldNotReady, HeldNotWaiting
<1> QED
  BY <1>5, <1>6, <1>7, <1>8, <1>9 DEF OneFrame

\* Steps that answer nobody.
LEMMA FramesQuiet ==
  ASSUME TypeOK, Hands, OneFrame, UNCHANGED <<ready, waiting>>,
         \A w \in Worker : wpc'[w] \in Busy => wpc[w] \in Busy /\ hold'[w] = hold[w],
         \A l \in Caller : Waits(l) => Waits(l)' /\ handle'[l] = handle[l]
  PROVE  OneFrame'
<1> DEFINE S == {}
<1>1. \A x : x \notin S
  OBVIOUS
<1> HIDE DEF S
<1> QED
  BY <1>1, FramesKept

\* No frame of a caller that is not waiting is anywhere.
LEMMA NoFrameOf ==
  ASSUME OneFrame, NEW l \in Caller, ~Waits(l)
  PROVE  /\ \A i \in DOMAIN ready : ready[i].call # l
         /\ \A c \in Conn : \A i \in DOMAIN waiting[c] : waiting[c][i].call # l
         /\ \A w \in Worker : wpc[w] \in Busy => hold[w].call # l
BY DEF OneFrame, ReadyOwed, WaitingOwed, HeldOwed, Owed

\* The frame that a task submits is its only one, in the ready queue ...
LEMMA FrameReady ==
  ASSUME TypeOK, Hands, OneFrame, NEW f \in Frame, f.conn = handle[f.call],
         ~Waits(f.call), Waits(f.call)',
         \A l \in Caller : Waits(l) => Waits(l)',
         ready' = Append(ready, f), UNCHANGED <<waiting, handle, wpc, hold>>
  PROVE  OneFrame'
<1> DEFINE n == Len(ready) + 1
<1>1. f.call \in Caller /\ ready \in Seq(Frame)
  BY QueuedFrames DEF TypeOK, QueueTypeOK
<1>2. /\ DOMAIN ready' = DOMAIN ready \cup {n}
      /\ n \notin DOMAIN ready
      /\ \A i \in DOMAIN ready : ready'[i] = ready[i]
      /\ ready'[n] = f
  BY <1>1, AppendElements
<1> HIDE DEF n
<1>3. /\ \A i \in DOMAIN ready : ready[i].call # f.call
      /\ \A c \in Conn : \A i \in DOMAIN waiting[c] : waiting[c][i].call # f.call
      /\ \A w \in Worker : wpc[w] \in Busy => hold[w].call # f.call
  BY <1>1, NoFrameOf
<1>4. Owed(f)' /\ \A g \in Frame : Owed(g) => Owed(g)'
  BY QueuedFrames DEF Owed
<1>5. ReadyOwed'
  BY <1>2, <1>4, QueuedFrames DEF OneFrame, ReadyOwed
<1>6. WaitingOwed' /\ HeldOwed'
  BY <1>4, QueuedFrames DEF OneFrame, WaitingOwed, HeldOwed, Hands
<1>7. ReadyApart'
  BY <1>2, <1>3 DEF OneFrame, ReadyApart
<1>8. WaitingApart' /\ HeldApart' /\ HeldNotWaiting'
  BY DEF OneFrame, WaitingApart, HeldApart, HeldNotWaiting
<1>9. ReadyNotWaiting' /\ HeldNotReady'
  BY <1>2, <1>3 DEF OneFrame, ReadyNotWaiting, HeldNotReady
<1> QED
  BY <1>5, <1>6, <1>7, <1>8, <1>9 DEF OneFrame

\* ... or behind the frame its connection has out.
LEMMA FrameHeldBack ==
  ASSUME TypeOK, Hands, OneFrame, NEW f \in Frame, f.conn = handle[f.call],
         ~Waits(f.call), Waits(f.call)',
         \A l \in Caller : Waits(l) => Waits(l)',
         waiting' = [waiting EXCEPT ![f.conn] = Append(@, f)],
         UNCHANGED <<ready, handle, wpc, hold>>
  PROVE  OneFrame'
<1> DEFINE n == Len(waiting[f.conn]) + 1
<1>1. /\ f.call \in Caller /\ f.conn \in Conn
      /\ waiting \in [Conn -> Seq(Frame)]
  BY QueuedFrames DEF TypeOK, QueueTypeOK
<1>2. /\ \A c \in Conn \ {f.conn} : waiting'[c] = waiting[c]
      /\ DOMAIN waiting'[f.conn] = DOMAIN waiting[f.conn] \cup {n}
      /\ n \notin DOMAIN waiting[f.conn]
      /\ \A i \in DOMAIN waiting[f.conn] : waiting'[f.conn][i] = waiting[f.conn][i]
      /\ waiting'[f.conn][n] = f
  <2>1. waiting[f.conn] \in Seq(Frame) /\ waiting'[f.conn] = Append(waiting[f.conn], f)
    BY <1>1
  <2> QED
    BY <1>1, <2>1, AppendElements
<1> HIDE DEF n
<1>3. /\ \A i \in DOMAIN ready : ready[i].call # f.call
      /\ \A c \in Conn : \A i \in DOMAIN waiting[c] : waiting[c][i].call # f.call
      /\ \A w \in Worker : wpc[w] \in Busy => hold[w].call # f.call
  BY <1>1, NoFrameOf
<1>4. \A c \in Conn : \A i \in DOMAIN waiting'[c] :
        \/ i \in DOMAIN waiting[c] /\ waiting'[c][i] = waiting[c][i]
        \/ c = f.conn /\ i = n /\ waiting'[c][i] = f
  BY <1>2
<1>5. Owed(f)' /\ \A g \in Frame : Owed(g) => Owed(g)'
  BY QueuedFrames DEF Owed
<1>6. WaitingOwed'
  BY <1>4, <1>5, QueuedFrames DEF OneFrame, WaitingOwed
<1>7. ReadyOwed' /\ HeldOwed'
  BY <1>5, QueuedFrames DEF OneFrame, ReadyOwed, HeldOwed, Hands
<1>8. WaitingApart'
  BY <1>3, <1>4 DEF OneFrame, WaitingApart
<1>9. ReadyApart' /\ HeldApart' /\ HeldNotReady'
  BY DEF OneFrame, ReadyApart, HeldApart, HeldNotReady
<1>10. ReadyNotWaiting' /\ HeldNotWaiting'
  BY <1>3, <1>4 DEF OneFrame, ReadyNotWaiting, HeldNotWaiting
<1> QED
  BY <1>6, <1>7, <1>8, <1>9, <1>10 DEF OneFrame

\* pull moves the oldest ready frame into the hands of the worker.
LEMMA FrameTaken ==
  ASSUME TypeOK, Hands, OneFrame, NEW w \in Worker, wpc[w] \notin Busy,
         ready # <<>>, ready' = Tail(ready),
         hold' = [hold EXCEPT ![w] = Head(ready)], Become(w, "load"),
         UNCHANGED <<waiting, lpc, reply, handle>>
  PROVE  OneFrame'
<1>1. /\ 1 \in DOMAIN ready /\ Head(ready) = ready[1]
      /\ \A i \in DOMAIN ready' :
           i \in Nat /\ i + 1 \in DOMAIN ready /\ ready'[i] = ready[i + 1] /\ i + 1 # 1
  <2>1. ready \in Seq(Frame)
    BY DEF TypeOK, QueueTypeOK
  <2> QED
    BY <2>1, TailElements
<1>2. /\ wpc'[w] = "load" /\ hold'[w] = ready[1]
      /\ \A v \in Worker \ {w} : wpc'[v] = wpc[v] /\ hold'[v] = hold[v]
  BY <1>1 DEF Become, TypeOK
<1>3. \A f \in Frame : Owed(f)' = Owed(f)
  BY DEF Owed, Waits
<1>4. \A v \in Worker : wpc'[v] \in Busy => hold'[v] \in Frame
  BY <1>1, <1>2, QueuedFrames DEF Hands
<1>5. ReadyOwed'
  BY <1>1, <1>3, QueuedFrames DEF OneFrame, ReadyOwed
<1>6. WaitingOwed'
  BY <1>3, QueuedFrames DEF OneFrame, WaitingOwed
<1>7. HeldOwed'
  BY <1>1, <1>2, <1>3, <1>4 DEF OneFrame, ReadyOwed, HeldOwed
<1>8. ReadyApart'
  BY <1>1 DEF OneFrame, ReadyApart
<1>9. WaitingApart'
  BY DEF OneFrame, WaitingApart
<1>10. HeldApart'
  BY <1>1, <1>2 DEF OneFrame, HeldApart, HeldNotReady
<1>11. HeldNotReady'
  BY <1>1, <1>2 DEF OneFrame, HeldNotReady, ReadyApart
<1>12. ReadyNotWaiting' /\ HeldNotWaiting'
  BY <1>1, <1>2 DEF OneFrame, ReadyNotWaiting, HeldNotWaiting
<1> QED
  BY <1>5, <1>6, <1>7, <1>8, <1>9, <1>10, <1>11, <1>12 DEF OneFrame

\* complete moves the oldest frame held back for a connection to the ready queue.
LEMMA FrameReleased ==
  ASSUME TypeOK, Hands, OneFrame, NEW c \in Conn, waiting[c] # <<>>,
         waiting' = [waiting EXCEPT ![c] = Tail(@)],
         ready' = Append(ready, Head(waiting[c])),
         \A w \in Worker : wpc'[w] \in Busy => wpc[w] \in Busy,
         UNCHANGED <<hold, lpc, reply, handle>>
  PROVE  OneFrame'
<1> DEFINE n == Len(ready) + 1
           f == waiting[c][1]
<1>1. ready \in Seq(Frame) /\ waiting \in [Conn -> Seq(Frame)]
  BY DEF TypeOK, QueueTypeOK
<1>2. /\ 1 \in DOMAIN waiting[c] /\ Head(waiting[c]) = f
      /\ \A i \in DOMAIN waiting'[c] :
           /\ i \in Nat /\ i + 1 \in DOMAIN waiting[c] /\ i + 1 # 1
           /\ waiting'[c][i] = waiting[c][i + 1]
      /\ \A d \in Conn \ {c} : waiting'[d] = waiting[d]
  <2>1. waiting[c] \in Seq(Frame) /\ waiting'[c] = Tail(waiting[c])
    BY <1>1
  <2> QED
    BY <1>1, <2>1, TailElements
<1>3. f \in Frame
  BY <1>2, QueuedFrames
<1>4. /\ DOMAIN ready' = DOMAIN ready \cup {n}
      /\ n \notin DOMAIN ready
      /\ \A i \in DOMAIN ready : ready'[i] = ready[i]
      /\ ready'[n] = f
  BY <1>1, <1>2, <1>3, AppendElements
<1>5. \A g \in Frame : Owed(g)' = Owed(g)
  BY DEF Owed, Waits
<1>6. \A d \in Conn : \A i \in DOMAIN waiting'[d] :
        \E j \in DOMAIN waiting[d] :
          waiting'[d][i] = waiting[d][j] /\ (d = c => j = i + 1 /\ j # 1) /\ (d # c => j = i)
  BY <1>2
<1>7. \A d \in Conn : \A j \in DOMAIN waiting[d] : (d = c => j # 1) => waiting[d][j].call # f.call
  <2> SUFFICES ASSUME NEW d \in Conn, NEW j \in DOMAIN waiting[d], d = c => j # 1,
                      waiting[d][j].call = f.call
               PROVE  FALSE
    OBVIOUS
  <2>1. waiting[d][j].conn = d /\ f.conn = c
    BY <1>2 DEF OneFrame, WaitingOwed
  <2>2. waiting[d][j].conn = f.conn
    BY <1>2 DEF OneFrame, WaitingOwed, Owed
  <2> QED
    BY <1>2, <2>1, <2>2 DEF OneFrame, WaitingApart
<1> HIDE DEF n, f
<1>8. ReadyOwed'
  BY <1>2, <1>3, <1>4, <1>5, QueuedFrames DEF OneFrame, ReadyOwed, WaitingOwed, f
<1>9. WaitingOwed'
  BY <1>5, <1>6, QueuedFrames DEF OneFrame, WaitingOwed
<1>10. HeldOwed'
  BY <1>5 DEF OneFrame, HeldOwed, Hands
<1>11. ReadyApart'
  BY <1>2, <1>4 DEF OneFrame, ReadyApart, ReadyNotWaiting, f
<1>12. WaitingApart'
  BY <1>2 DEF OneFrame, WaitingApart
<1>13. HeldApart'
  BY DEF OneFrame, HeldApart
<1>14. ReadyNotWaiting'
  BY <1>4, <1>6, <1>7 DEF OneFrame, ReadyNotWaiting
<1>15. HeldNotReady'
  BY <1>2, <1>4 DEF OneFrame, HeldNotReady, HeldNotWaiting, f
<1>16. HeldNotWaiting'
  BY <1>6 DEF OneFrame, HeldNotWaiting
<1> QED
  BY <1>8, <1>9, <1>10, <1>11, <1>12, <1>13, <1>14, <1>15, <1>16 DEF OneFrame

-----------------------------------------------------------------------------
(* Answers. *)

\* Only callers that wait are answered.
Answers == \A l \in Caller : reply'[l] # reply[l] => Waits(l)

\* drop_conn answers the frames held back for one connection, and only those.
LEMMA FramesDropped ==
  ASSUME TypeOK, Hands, OneFrame, NEW c \in Conn, DropConn(c), UNCHANGED handle,
         \A w \in Worker : wpc'[w] \in Busy => wpc[w] \in Busy /\ hold'[w] = hold[w],
         \A l \in Caller : lpc[l] = "await" => lpc'[l] = "await"
  PROVE  OneFrame' /\ Answers
<1> DEFINE S == CallsIn(waiting[c])
<1>1. /\ ready' = ready
      /\ waiting \in [Conn -> Seq(Frame)]
      /\ waiting' = [waiting EXCEPT ![c] = <<>>]
      /\ \A l \in Caller : reply'[l] = IF l \in S THEN "dropped" ELSE reply[l]
  BY DEF DropConn, Resolve, TypeOK, QueueTypeOK
<1>2. DOMAIN waiting'[c] = {} /\ waiting'[c] = <<>>
  BY <1>1
<1>3. \A d \in Conn \ {c} : waiting'[d] = waiting[d]
  BY <1>1
<1>4. \A i \in DOMAIN ready' : ready'[i].call \notin S
  BY <1>1 DEF OneFrame, ReadyNotWaiting, CallsIn
<1>5. ASSUME NEW d \in Conn, NEW i \in DOMAIN waiting'[d] PROVE waiting'[d][i].call \notin S
  <2>1. d # c /\ i \in DOMAIN waiting[d] /\ waiting'[d][i] = waiting[d][i]
    BY <1>2, <1>3
  <2>2. ASSUME NEW j \in DOMAIN waiting[c], waiting[c][j].call = waiting[d][i].call PROVE FALSE
    BY <2>1, <2>2 DEF OneFrame, WaitingOwed, Owed
  <2> QED
    BY <2>1, <2>2 DEF CallsIn
<1>6. \A w \in Worker : wpc'[w] \in Busy => hold[w].call \notin S
  BY DEF OneFrame, HeldNotWaiting, CallsIn
<1>7. \A l \in S : Waits(l)
  BY DEF OneFrame, WaitingOwed, Owed, CallsIn
<1>8. Answers
  BY <1>1, <1>7 DEF Answers
<1> HIDE DEF S
<1>9. \A l \in Caller : l \notin S /\ Waits(l) => Waits(l)' /\ handle'[l] = handle[l]
  BY <1>1 DEF Waits
<1> QED
  BY <1>1, <1>2, <1>3, <1>4, <1>5, <1>6, <1>8, <1>9, FramesKept

\* close answers everything queued; on a closed pool it changes nothing.
LEMMA FramesClosed ==
  ASSUME TypeOK, Hands, OneFrame, Drained, Close, UNCHANGED <<handle, lpc, hold>>,
         \A w \in Worker : wpc'[w] \in Busy => wpc[w] \in Busy
  PROVE  /\ OneFrame' /\ Drained' /\ Answers
         /\ closed => UNCHANGED <<queueVars, notifyVars, reply>>
<1> DEFINE S == CallsIn(ready) \cup UNION {CallsIn(waiting[c]) : c \in Conn}
<1>1. /\ ready' = <<>>
      /\ waiting' = [c \in Conn |-> <<>>]
      /\ reply' = [l \in Caller |-> IF l \in S THEN "closed" ELSE reply[l]]
      /\ armed' = {} /\ parked' = {} /\ closed' = TRUE
      /\ UNCHANGED <<inFlight, permit>>
  BY DEF Close, Resolve, NotifyAll
<1>2. DOMAIN ready' = {} /\ \A c \in Conn : waiting'[c] = <<>> /\ DOMAIN waiting'[c] = {}
  BY <1>1
<1>3. Drained'
  BY <1>1, <1>2 DEF Drained
<1>4. \A w \in Worker : wpc'[w] \in Busy => hold[w].call \notin S
  BY DEF OneFrame, HeldNotReady, HeldNotWaiting, CallsIn
<1>5. \A l \in S : Waits(l)
  BY DEF OneFrame, ReadyOwed, WaitingOwed, Owed, CallsIn
<1>6. Answers
  BY <1>1, <1>5 DEF Answers
<1>7. ASSUME closed PROVE UNCHANGED <<queueVars, notifyVars, reply>>
  <2>1. /\ ready = <<>> /\ \A c \in Conn : waiting[c] = <<>>
        /\ armed = {} /\ parked = {}
    BY <1>7 DEF Drained
  <2>2. S = {}
    BY <2>1 DEF CallsIn
  <2> HIDE DEF S
  <2>3. waiting' = waiting /\ reply' = reply
    BY <1>1, <2>1, <2>2 DEF TypeOK, QueueTypeOK
  <2> QED
    BY <1>1, <1>7, <2>1, <2>3 DEF queueVars, notifyVars
<1> HIDE DEF S
<1>8. \A l \in Caller : l \notin S /\ Waits(l) => Waits(l)' /\ handle'[l] = handle[l]
  BY <1>1 DEF Waits
<1>9. OneFrame'
  BY <1>1, <1>2, <1>4, <1>8, FramesKept
<1> QED
  BY <1>3, <1>6, <1>7, <1>9

\* The worker that answers its frame, or unwinds with it, was the only one to have
\* a frame of that caller.
LEMMA FrameAnswered ==
  ASSUME TypeOK, Hands, OneFrame, NEW w \in Worker, wpc[w] \in Busy,
         NEW r \in Result, Resolve({hold[w].call}, r),
         NEW p, p \notin Busy, Become(w, p), hold' = hold \/ PutDown(w),
         UNCHANGED <<ready, waiting, lpc, handle>>
  PROVE  OneFrame' /\ Answers /\ reply'[hold[w].call] = r
<1> DEFINE q == hold[w].call
<1>1. q \in Caller /\ Waits(q)
  BY QueuedFrames DEF Hands, OneFrame, HeldOwed, Owed
<1>2. \A l \in Caller : reply'[l] = IF l = q THEN r ELSE reply[l]
  BY DEF Resolve
<1>3. /\ wpc'[w] \notin Busy
      /\ \A v \in Worker \ {w} : wpc'[v] = wpc[v] /\ hold'[v] = hold[v]
  BY DEF Become, PutDown, TypeOK
<1>4. \A v \in Worker : wpc'[v] \in Busy =>
        wpc[v] \in Busy /\ hold'[v] = hold[v] /\ hold[v].call \notin {q}
  BY <1>3 DEF OneFrame, HeldApart
<1>5. \A i \in DOMAIN ready' : ready'[i].call \notin {q}
  BY DEF OneFrame, HeldNotReady
<1>6. \A c \in Conn : \A i \in DOMAIN waiting'[c] : waiting'[c][i].call \notin {q}
  BY DEF OneFrame, HeldNotWaiting
<1>7. Answers /\ reply'[q] = r
  BY <1>1, <1>2 DEF Answers
<1> HIDE DEF q
<1>8. \A l \in Caller : l \notin {q} /\ Waits(l) => Waits(l)' /\ handle'[l] = handle[l]
  BY <1>2 DEF Waits
<1>9. OneFrame'
  BY <1>4, <1>5, <1>6, <1>8, FramesKept
<1> QED
  BY <1>7, <1>9 DEF q

\* What such answers leave alone.
LEMMA TasksKept ==
  ASSUME Loops, UNCHANGED <<lpc, handle, hires, sessions>>, Answers
  PROVE  Loops'
BY DEF Loops, Answers, Waits

LEMMA ClearedKept ==
  ASSUME Cleared, UNCHANGED lpc, Answers,
         \A w \in Worker : wpc'[w] \in Clearing => wpc[w] \in Clearing /\ hold'[w] = hold[w]
  PROVE  Cleared'
BY DEF Cleared, Answers, Waits

-----------------------------------------------------------------------------
(* The connection tasks. *)

\* A task that does not wait for a frame moves on, and touches no frame.
LEMMA TaskMoves ==
  ASSUME IInv, NEW l \in Caller, ~Waits(l), NEW p, Goto(l, p),
         UNCHANGED <<ready, waiting, wpc, hold, armed, parked, live>>,
         closed' => closed,
         \A m \in Caller \ {l} : reply'[m] = reply[m] /\ handle'[m] = handle[m]
  PROVE  Hands' /\ OneFrame' /\ Drained' /\ Exact'
<1>1. \A m \in Caller : Waits(m) => Waits(m)' /\ handle'[m] = handle[m]
  BY DEF Waits, Goto, IInv, TypeOK
<1>2. OneFrame'
  BY <1>1, FramesQuiet DEF IInv
<1>3. Hands' /\ Drained'
  BY DEF IInv, Hands, Drained
<1>4. Exact'
  BY CountSame DEF IInv
<1> QED
  BY <1>2, <1>3, <1>4

LEMMA AttachKeeps ==
  ASSUME IInv, NEW l \in Caller,
         AttachCheck(l) \/ AttachOpen(l) \/ AttachRegister(l)
  PROVE  IInv'
<1> USE DEF schedulerVars, queueVars, notifyVars, workerVars, poolVars
<1>1. lpc[l] \in {"connect", "open", "register"} /\ ~Waits(l)
  BY DEF AttachCheck, AttachOpen, AttachRegister, Waits
<1>2. TypeOK /\ QueueTypeOK /\ Loops /\ Cleared /\ lpc \in [Caller -> LoopPc]
  BY DEF IInv, TypeOK
<1>3. CASE AttachCheck(l)
  <2> USE <1>3 DEF AttachCheck
  <2>1. PICK p \in {"fire", "open"} : Goto(l, p)
    OBVIOUS
  <2>2. TypeOK'
    BY <1>2, <2>1 DEF TypeOK, QueueTypeOK, Goto, LoopPc
  <2>3. Loops' /\ Cleared'
    BY <1>1, <1>2, <2>1 DEF Loops, Cleared, Goto, Leaving
  <2> QED
    BY <1>1, <2>1, <2>2, <2>3, TaskMoves DEF IInv
<1>4. CASE AttachOpen(l)
  <2> USE <1>4 DEF AttachOpen
  <2>1. /\ Goto(l, "register") /\ closed' = FALSE
        /\ UNCHANGED <<ready, waiting, inFlight, notifyVars, reply>>
    BY <1>2 DEF Reopen, QueueTypeOK
  <2>2. TypeOK'
    <3>1. hires' \in [Caller -> 0..WorkersMax]
      BY <1>2, WorkersMaxAssumption DEF TypeOK
    <3> QED
      BY <1>2, <2>1, <3>1 DEF TypeOK, QueueTypeOK, Goto, LoopPc
  <2>3. Loops' /\ Cleared'
    BY <1>1, <1>2, <2>1 DEF Loops, Cleared, Goto, Leaving
  <2> QED
    BY <1>1, <2>1, <2>2, <2>3, TaskMoves DEF IInv
<1>5. CASE AttachRegister(l)
  <2> USE <1>5 DEF AttachRegister
  <2>1. PICK p \in {"hire", "fire"} : Goto(l, p) /\ (p = "hire" => hires[l] > 0)
    OBVIOUS
  <2>2. TypeOK'
    BY <1>2, <2>1, ConnAssumption DEF TypeOK, QueueTypeOK, Goto, LoopPc
  <2>3. Loops' /\ Cleared'
    BY <1>1, <1>2, <2>1 DEF Loops, Cleared, Goto, Leaving, TypeOK
  <2>4. \A m \in Caller \ {l} : handle'[m] = handle[m]
    BY <1>2 DEF TypeOK
  <2> QED
    BY <1>1, <2>1, <2>2, <2>3, <2>4, TaskMoves DEF IInv
<1> QED
  BY <1>3, <1>4, <1>5

LEMMA HireKeeps == ASSUME IInv, NEW l \in Caller, AttachHire(l) PROVE IInv'
<1> USE DEF schedulerVars, queueVars, notifyVars
<1>1. PICK w \in Worker : wpc[w] = "off" /\ SpawnWorker(w)
  BY DEF AttachHire
<1>2. TypeOK /\ QueueTypeOK /\ Loops /\ Cleared /\ Hands
  BY DEF IInv, TypeOK
<1>3. hold' = hold /\ wpc' = [wpc EXCEPT ![w] = "boot"]
  BY <1>1, <1>2 DEF SpawnWorker, PutDown, Become, Hands, Busy, Clearing, TypeOK
<1>4. PICK p \in {"hire", "fire"} : Goto(l, p) /\ (p = "hire" => hires[l] > 1)
  BY DEF AttachHire
<1>5. hires[l] \in 1..WorkersMax /\ lpc[l] = "hire"
  BY <1>2 DEF AttachHire, Loops, TypeOK
<1>6. TypeOK'
  BY <1>1, <1>2, <1>3, <1>4, <1>5, WorkersMaxAssumption
  DEF AttachHire, SpawnWorker, TypeOK, QueueTypeOK, Goto, LoopPc, WorkerPc
<1>7. Loops' /\ Cleared'
  BY <1>2, <1>3, <1>4, <1>5
  DEF AttachHire, Loops, Cleared, Goto, Leaving, TypeOK, Clearing
<1>8. Hands' /\ Drained'
  <2>1. Hands'
    BY <1>1, <1>2, <1>3 DEF Hands, Busy, Clearing, TypeOK
  <2>2. Drained'
    BY DEF AttachHire, Drained, IInv
  <2> QED
    BY <2>1, <2>2
<1>9. \A m \in Caller : Waits(m) => Waits(m)' /\ handle'[m] = handle[m]
  BY <1>2, <1>4, <1>5 DEF AttachHire, Waits, Goto, TypeOK
<1>10. \A v \in Worker : wpc'[v] \in Busy => wpc[v] \in Busy /\ hold'[v] = hold[v]
  BY <1>2, <1>3 DEF TypeOK, Busy
<1>11. OneFrame'
  BY <1>2, <1>9, <1>10, FramesQuiet DEF IInv, AttachHire
<1>12. Exact'
  BY <1>1, CountUp DEF IInv, CountedPc
<1> QED
  BY <1>6, <1>7, <1>8, <1>11, <1>12 DEF IInv

\* A task fires only when nothing of it is queued, and then waits.
LEMMA FireKeeps == ASSUME IInv, NEW l \in Caller, FireEvent(l) PROVE IInv'
<1>1. /\ lpc[l] = "fire" /\ lpc' = [lpc EXCEPT ![l] = "await"]
      /\ Submit(l, handle[l])
      /\ UNCHANGED <<ev, handle, hires, wpc, hold, out, sessions, live, failed, retiring, rpc>>
  BY DEF FireEvent, Goto, workerVars, poolVars
<1>2. TypeOK /\ QueueTypeOK /\ Loops /\ Cleared /\ Hands /\ handle[l] \in Conn
  BY DEF IInv, TypeOK
<1>3. QueueTypeOK'
  BY <1>1, <1>2, SubmitType
<1>4. TypeOK'
  BY <1>1, <1>2, <1>3 DEF TypeOK, LoopPc
<1>5. /\ \A m \in Caller \ {l} : lpc'[m] = lpc[m] /\ reply'[m] = reply[m]
      /\ lpc'[l] = "await" /\ ~Waits(l)
      /\ reply'[l] = IF closed THEN "closed" ELSE "wait"
  BY <1>1, <1>2 DEF Submit, Resolve, Waits, TypeOK
<1>6. Loops'
  BY <1>1, <1>2, <1>5 DEF Loops
<1>7. Cleared'
  BY <1>1, <1>2, <1>5 DEF Cleared, Leaving
<1>8. Hands' /\ Exact'
  BY <1>1, CountSame DEF IInv, Hands
<1>9. OneFrame' /\ Drained'
  <2>1. \A m \in Caller : Waits(m) => Waits(m)' /\ handle'[m] = handle[m]
    BY <1>1, <1>5 DEF Waits
  <2>2. CASE closed
    <3>1. UNCHANGED <<queueVars, notifyVars>>
      BY <1>1, <2>2 DEF Submit
    <3> QED
      BY <1>1, <1>2, <2>1, <3>1, FramesQuiet DEF IInv, Drained, queueVars, notifyVars
  <2>3. CASE ~closed
    <3> DEFINE f == [conn |-> handle[l], call |-> l]
    <3>1. f \in Frame /\ f.call = l /\ f.conn = handle[l]
      BY <1>2 DEF Frame
    <3>2. Enqueue(f) /\ ~closed'
      BY <1>1, <2>3 DEF Submit
    <3>3. Waits(l)'
      BY <1>5, <2>3 DEF Waits
    <3> HIDE DEF f
    <3>4. CASE f.conn \in inFlight
      BY <1>1, <1>2, <1>5, <2>1, <3>1, <3>2, <3>3, <3>4, FrameHeldBack DEF Enqueue, IInv, Drained
    <3>5. CASE f.conn \notin inFlight
      BY <1>1, <1>2, <1>5, <2>1, <3>1, <3>2, <3>3, <3>5, FrameReady DEF Enqueue, IInv, Drained
    <3> QED
      BY <3>4, <3>5
  <2> QED
    BY <2>2, <2>3
<1> QED
  BY <1>4, <1>6, <1>7, <1>8, <1>9 DEF IInv

\* An answer ends the wait; after PoolClosed the task leaves.
LEMMA AnsweredKeeps ==
  ASSUME IInv, NEW l \in Caller, Answered(l) \/ ClientStep(l)
  PROVE  IInv'
<1> USE DEF schedulerVars, queueVars, notifyVars, workerVars, poolVars
<1>1. TypeOK /\ QueueTypeOK /\ Loops /\ Cleared
  BY DEF IInv, TypeOK
<1>2. ~Waits(l) /\ lpc[l] \in {"await", "read"}
  BY DEF Answered, ClientStep, ReadMessage, ReadEnd, Waits, Result
<1>3. PICK p \in {"detach", "fire", "read"} :
        /\ Goto(l, p)
        /\ lpc[l] = "await" /\ reply[l] = "closed" => p = "detach"
  BY DEF Answered, ClientStep, ReadMessage, ReadEnd, FireNext
<1>4. /\ ev' \in [Caller -> Event]
      /\ UNCHANGED <<ready, waiting, inFlight, closed, permit, armed, parked, handle, hires,
                     wpc, hold, out, sessions, live, failed, retiring, rpc>>
  BY <1>1 DEF Answered, ClientStep, ReadMessage, ReadEnd, FireNext, TypeOK, Event
<1>5. /\ reply' \in [Caller -> {"idle", "wait"} \cup Result]
      /\ \A m \in Caller \ {l} : reply'[m] = reply[m]
      /\ reply'[l] = "idle"
  BY <1>1 DEF Answered, ClientStep, ReadMessage, ReadEnd, FireNext, QueueTypeOK, Loops
<1>6. TypeOK'
  BY <1>1, <1>3, <1>4, <1>5 DEF TypeOK, QueueTypeOK, Goto, LoopPc
<1>7. Loops' /\ Cleared'
  BY <1>1, <1>2, <1>3, <1>4, <1>5 DEF Loops, Cleared, Goto, Leaving, TypeOK
<1> QED
  BY <1>2, <1>3, <1>4, <1>5, <1>6, <1>7, TaskMoves DEF IInv

LEMMA DetachKeeps ==
  ASSUME IInv, NEW l \in Caller, DetachRemove(l) \/ DetachDrop(l) \/ DetachLast(l)
  PROVE  IInv'
<1>1. TypeOK /\ QueueTypeOK /\ Loops /\ Cleared
  BY DEF IInv, TypeOK
<1>2. lpc[l] \in {"detach", "drop", "last"} /\ ~Waits(l)
  BY DEF DetachRemove, DetachDrop, DetachLast, Waits
<1>3. CASE DetachRemove(l)
  <2> USE DEF schedulerVars, queueVars, notifyVars, workerVars, poolVars
  <2>1. /\ Goto(l, "drop") /\ sessions' = sessions \ {handle[l]} /\ lpc[l] = "detach"
        /\ UNCHANGED <<ready, waiting, inFlight, closed, permit, armed, parked, reply, ev,
                       handle, hires, wpc, hold, out, live, failed, retiring, rpc>>
    BY <1>3 DEF DetachRemove
  <2>2. TypeOK'
    BY <1>1, <2>1 DEF TypeOK, QueueTypeOK, Goto, LoopPc
  <2>3. Loops' /\ Cleared'
    BY <1>1, <2>1, ConnAssumption DEF Loops, Cleared, Goto, Leaving, TypeOK
  <2> QED
    BY <1>2, <2>1, <2>2, <2>3, TaskMoves DEF IInv
<1>4. CASE DetachDrop(l)
  <2>1. /\ Goto(l, "last") /\ DropConn(handle[l]) /\ lpc[l] = "drop" /\ handle[l] \in Conn
        /\ UNCHANGED <<ev, handle, hires, wpc, hold, out, sessions, live, failed, retiring, rpc>>
    BY <1>1, <1>4 DEF DetachDrop, workerVars, poolVars, TypeOK
  <2>2. /\ \A m \in Caller \ {l} : lpc'[m] = lpc[m]
        /\ lpc'[l] = "last" /\ lpc' \in [Caller -> LoopPc]
    BY <1>1, <2>1 DEF Goto, TypeOK, LoopPc
  <2>3. OneFrame' /\ Answers
    BY <2>1, <2>2, FramesDropped DEF IInv
  <2>4. QueueTypeOK'
    BY <1>1, <2>1, DropConnType
  <2>5. TypeOK'
    BY <1>1, <2>1, <2>2, <2>4 DEF TypeOK
  <2>6. Loops' /\ Cleared'
    BY <1>1, <2>1, <2>2, <2>3 DEF Loops, Cleared, Leaving, Answers, Waits
  <2>7. Hands' /\ Exact'
    BY <2>1, CountSame DEF IInv, Hands
  <2>8. Drained'
    BY <1>1, <2>1 DEF IInv, Drained, DropConn, notifyVars, QueueTypeOK
  <2> QED
    BY <2>3, <2>5, <2>6, <2>7, <2>8 DEF IInv
<1>5. CASE DetachLast(l)
  <2> USE DEF schedulerVars, queueVars, notifyVars, workerVars, poolVars
  <2>1. /\ Goto(l, "gone") /\ lpc[l] = "last"
        /\ retiring' \in BOOLEAN /\ rpc' \in {"off", "linger", "close", "clear"}
        /\ UNCHANGED <<ready, waiting, inFlight, closed, permit, armed, parked, reply, ev,
                       handle, hires, wpc, hold, out, sessions, live, failed>>
    BY <1>1, <1>5 DEF DetachLast, TypeOK
  <2>2. TypeOK'
    BY <1>1, <2>1 DEF TypeOK, QueueTypeOK, Goto, LoopPc
  <2>3. Loops' /\ Cleared'
    BY <1>1, <2>1 DEF Loops, Cleared, Goto, Leaving, TypeOK
  <2> QED
    BY <1>2, <2>1, <2>2, <2>3, TaskMoves DEF IInv
<1> QED
  BY <1>3, <1>4, <1>5

LEMMA LoopKeeps ==
  ASSUME IInv, NEW l \in Caller, LoopStep(l) \/ ClientStep(l)
  PROVE  IInv'
BY AttachKeeps, HireKeeps, FireKeeps, AnsweredKeeps, DetachKeeps DEF LoopStep

-----------------------------------------------------------------------------
(* The retire thread. *)

LEMMA RetireKeeps == ASSUME IInv, RetireStep PROVE IInv'
<1>1. TypeOK /\ QueueTypeOK
  BY DEF IInv, TypeOK
<1>2. CASE RetireClose
  <2>1. /\ Close /\ rpc' = "clear"
        /\ UNCHANGED <<lpc, ev, handle, hires, wpc, hold, out, sessions, live, failed, retiring>>
    BY <1>2 DEF RetireClose, loopVars, workerVars
  <2>2. QueueTypeOK'
    BY <1>1, <2>1, CloseType
  <2>3. TypeOK'
    BY <1>1, <2>1, <2>2 DEF TypeOK
  <2>4. OneFrame' /\ Drained' /\ Answers
    BY <2>1, FramesClosed DEF IInv
  <2>5. Loops' /\ Cleared'
    BY <2>1, <2>4, TasksKept, ClearedKept DEF IInv
  <2>6. Hands' /\ Exact'
    BY <2>1, CountSame DEF IInv, Hands
  <2> QED
    BY <2>3, <2>4, <2>5, <2>6 DEF IInv
<1>3. CASE RetireCheck \/ RetireClear
  <2>1. /\ rpc' \in {"close", "clear", "off"} /\ retiring' \in BOOLEAN
        /\ UNCHANGED <<ready, waiting, inFlight, closed, permit, armed, parked, reply,
                       lpc, ev, handle, hires, wpc, hold, out, sessions, live, failed>>
    BY <1>1, <1>3 DEF RetireCheck, RetireClear, schedulerVars, queueVars, notifyVars,
                      loopVars, workerVars, TypeOK
  <2>2. TypeOK'
    BY <1>1, <2>1 DEF TypeOK, QueueTypeOK
  <2>3. \A l \in Caller : Waits(l)' = Waits(l)
    BY <2>1 DEF Waits
  <2>4. OneFrame'
    BY <2>1, <2>3, FramesQuiet DEF IInv
  <2>5. Hands' /\ Loops' /\ Cleared' /\ Drained'
    BY <2>1 DEF IInv, Hands, Loops, Cleared, Drained
  <2>6. Exact'
    BY <2>1, CountSame DEF IInv
  <2> QED
    BY <2>2, <2>4, <2>5, <2>6 DEF IInv
<1> QED
  BY <1>2, <1>3 DEF RetireStep

-----------------------------------------------------------------------------
(* The worker threads. *)

\* A worker moves on without touching a frame: what it has in hand stays what the
\* stage it enters asks for.
LEMMA WorkerMoves ==
  ASSUME IInv, NEW w \in Worker, NEW p \in WorkerPc, Become(w, p),
         wpc[w] \in Busy <=> p \in Busy, wpc[w] \in Clearing <=> p \in Clearing,
         UNCHANGED <<ready, waiting, inFlight, closed, reply, loopVars, hold, sessions>>
  PROVE  Hands' /\ OneFrame' /\ Loops' /\ Cleared'
<1>1. /\ wpc'[w] = p
      /\ \A v \in Worker \ {w} : wpc'[v] = wpc[v]
      /\ UNCHANGED <<lpc, handle, hires>>
  BY DEF Become, IInv, TypeOK, loopVars
<1>2. Hands'
  BY <1>1 DEF IInv, Hands
<1>3. \A l \in Caller : Waits(l)' = Waits(l)
  BY <1>1 DEF Waits
<1>4. \A v \in Worker : wpc'[v] \in Busy => wpc[v] \in Busy
  BY <1>1
<1>5. OneFrame'
  BY <1>1, <1>3, <1>4, FramesQuiet DEF IInv
<1>6. Loops' /\ Cleared'
  BY <1>1 DEF IInv, Loops, Cleared
<1> QED
  BY <1>2, <1>5, <1>6

\* Boot, exits and the session steps: the scheduler is left alone.
LEMMA OffQueueKeeps ==
  ASSUME IInv, NEW w \in Worker,
         \/ BootOk(w) \/ BootFail(w) \/ LatchedExit(w) \/ BootPanic(w) \/ LeaveClosed(w)
         \/ LoadSession(w) \/ StoreSession(w) \/ PoisonExit(w) \/ Reap(w) \/ RespawnCheck(w)
  PROVE  IInv'
<1> USE DEF schedulerVars, queueVars, notifyVars, poolVars
<1>1. TypeOK /\ QueueTypeOK
  BY DEF IInv, TypeOK
<1>2. /\ failed' \in BOOLEAN
      /\ UNCHANGED <<ready, waiting, inFlight, closed, permit, armed, parked, reply, loopVars,
                     hold, out, sessions, retiring, rpc>>
  BY <1>1 DEF BootOk, BootFail, LatchedExit, BootPanic, LeaveClosed, LoadSession,
              StoreSession, PoisonExit, Reap, RespawnCheck, TypeOK
<1>3. PICK p \in WorkerPc :
        /\ Become(w, p)
        /\ wpc[w] \in Busy <=> p \in Busy
        /\ wpc[w] \in Clearing <=> p \in Clearing
        /\ \/ (wpc[w] \in CountedPc <=> p \in CountedPc) /\ UNCHANGED live
           \/ wpc[w] \in CountedPc /\ p \notin CountedPc /\ live' = live - 1
  <2> USE DEF WorkerPc, Busy, Clearing, CountedPc
  <2>1. CASE BootOk(w) \/ BootFail(w) \/ BootPanic(w)
    BY <2>1 DEF BootOk, BootFail, BootPanic
  <2>2. CASE LoadSession(w) \/ StoreSession(w)
    BY <2>2 DEF LoadSession, StoreSession
  <2>3. CASE LatchedExit(w) \/ LeaveClosed(w)
    BY <2>3 DEF LatchedExit, LeaveClosed
  <2>4. CASE PoisonExit(w) \/ Reap(w)
    BY <2>4 DEF PoisonExit, Reap
  <2>5. CASE RespawnCheck(w)
    BY <2>5 DEF RespawnCheck
  <2> QED
    BY <2>1, <2>2, <2>3, <2>4, <2>5
<1>4. Exact' /\ live' \in Nat
  BY <1>1, <1>3, CountKeeps, CountDown DEF IInv, TypeOK
<1>5. TypeOK'
  BY <1>1, <1>2, <1>3, <1>4 DEF TypeOK, QueueTypeOK, Become, loopVars
<1>6. Drained'
  BY <1>2 DEF IInv, Drained
<1> QED
  BY <1>2, <1>3, <1>4, <1>5, <1>6, WorkerMoves DEF IInv

LEMMA RespawnKeeps == ASSUME IInv, NEW w \in Worker, RespawnHire(w) PROVE IInv'
<1> USE DEF schedulerVars, queueVars, notifyVars
<1>1. TypeOK /\ QueueTypeOK /\ Hands
  BY DEF IInv, TypeOK
<1>2. /\ wpc[w] = "hire" /\ SpawnWorker(w) /\ Become(w, "boot") /\ live' = live + 1
      /\ UNCHANGED <<ready, waiting, inFlight, closed, permit, armed, parked, reply, loopVars,
                     out, sessions, failed, retiring, rpc>>
  BY DEF RespawnHire, SpawnWorker
<1>3. hold' = hold
  BY <1>1, <1>2 DEF SpawnWorker, PutDown, Hands, Busy, Clearing, TypeOK
<1>4. /\ "boot" \in WorkerPc
      /\ wpc[w] \in Busy <=> "boot" \in Busy
      /\ wpc[w] \in Clearing <=> "boot" \in Clearing
      /\ wpc[w] \notin CountedPc
  BY <1>2 DEF WorkerPc, Busy, Clearing, CountedPc
<1>5. TypeOK'
  BY <1>1, <1>2, <1>3 DEF TypeOK, QueueTypeOK, Become, loopVars, WorkerPc
<1>6. Drained'
  BY <1>2 DEF IInv, Drained
<1>7. Exact'
  BY <1>2, <1>4, CountUp DEF IInv
<1> QED
  BY <1>2, <1>3, <1>4, <1>5, <1>6, <1>7, WorkerMoves DEF IInv

LEMMA LatchedCloseKeeps == ASSUME IInv, NEW w \in Worker, LatchedClose(w) PROVE IInv'
<1>1. /\ wpc[w] = "shut" /\ Close /\ Become(w, "off")
      /\ UNCHANGED <<lpc, ev, handle, hires, hold, out, sessions, live, failed, retiring, rpc>>
  BY DEF LatchedClose, loopVars, poolVars
<1>2. TypeOK /\ QueueTypeOK
  BY DEF IInv, TypeOK
<1>3. QueueTypeOK'
  BY <1>1, <1>2, CloseType
<1>4. TypeOK'
  BY <1>1, <1>2, <1>3 DEF TypeOK, Become, WorkerPc
<1>5. wpc'[w] = "off" /\ \A v \in Worker \ {w} : wpc'[v] = wpc[v]
  BY <1>1, <1>2 DEF Become, TypeOK
<1>6. \A v \in Worker :
        /\ wpc'[v] \in Busy => wpc[v] \in Busy
        /\ wpc'[v] \in Clearing => wpc[v] \in Clearing
  BY <1>5 DEF Busy, Clearing
<1>7. OneFrame' /\ Drained' /\ Answers
  BY <1>1, <1>6, FramesClosed DEF IInv
<1>8. Loops' /\ Cleared'
  BY <1>1, <1>6, <1>7, TasksKept, ClearedKept DEF IInv
<1>9. Hands'
  BY <1>1, <1>5 DEF IInv, Hands, Busy, Clearing
<1>10. Exact'
  BY <1>1, CountKeeps DEF IInv, CountedPc
<1> QED
  BY <1>4, <1>7, <1>8, <1>9, <1>10 DEF IInv

\* pull, in its three outcomes, and the wait.
LEMMA TakeKeeps == ASSUME IInv, NEW w \in Worker, Take(w) PROVE IInv'
<1>1. /\ wpc[w] = "pull" /\ Become(w, "load")
      /\ ready # <<>> /\ ready' = Tail(ready) /\ hold' = [hold EXCEPT ![w] = Head(ready)]
      /\ UNCHANGED <<waiting, inFlight, closed, permit, armed, parked, reply,
                     lpc, ev, handle, hires, out, sessions, live, failed, retiring, rpc>>
  BY DEF Take, PullFrame, notifyVars, loopVars, poolVars
<1>2. TypeOK /\ QueueTypeOK /\ ready \in Seq(Frame)
  BY DEF IInv, TypeOK, QueueTypeOK
<1>3. Head(ready) \in Frame /\ Tail(ready) \in Seq(Frame)
  BY <1>1, <1>2
<1>4. /\ wpc'[w] = "load" /\ hold'[w] = Head(ready)
      /\ \A v \in Worker \ {w} : wpc'[v] = wpc[v] /\ hold'[v] = hold[v]
  BY <1>1, <1>2 DEF Become, TypeOK
<1>5. TypeOK'
  BY <1>1, <1>2, <1>3 DEF TypeOK, QueueTypeOK, Become, WorkerPc
<1>6. Hands'
  BY <1>3, <1>4 DEF IInv, Hands, Busy, Clearing
<1>7. OneFrame'
  BY <1>1, FrameTaken DEF IInv, Busy
<1>8. Loops' /\ Cleared'
  BY <1>1, <1>4 DEF IInv, Loops, Cleared, Clearing
<1>9. Drained'
  BY <1>1 DEF IInv, Drained
<1>10. Exact'
  BY <1>1, CountKeeps DEF IInv, CountedPc
<1> QED
  BY <1>5, <1>6, <1>7, <1>8, <1>9, <1>10 DEF IInv

LEMMA PullKeeps ==
  ASSUME IInv, NEW w \in Worker,
         FindClosed(w) \/ FindNothing(w) \/ WakeUp(w) \/ FallAsleep(w)
  PROVE  IInv'
<1> USE DEF queueVars, notifyVars, loopVars, workerVars, poolVars
<1>1. TypeOK /\ QueueTypeOK
  BY DEF IInv, TypeOK
<1>2. PICK p \in {"leave", "await", "pull"} : Become(w, p) /\ wpc[w] \in {"pull", "await"}
  BY <1>1 DEF FindClosed, FindNothing, WakeUp, FallAsleep, Become, TypeOK
<1>3. UNCHANGED <<ready, waiting, inFlight, closed, reply, loopVars, hold, out, sessions, live,
                  failed, retiring, rpc>>
  BY DEF FindClosed, FindNothing, WakeUp, FallAsleep, PullNone, PullWaits
<1>4. permit' \in BOOLEAN /\ armed' \in SUBSET Worker /\ parked' \in SUBSET Worker
  BY <1>1 DEF FindClosed, FindNothing, WakeUp, FallAsleep, PullNone, PullWaits,
              Awoken, Awaits, QueueTypeOK
<1>5. TypeOK'
  BY <1>1, <1>2, <1>3, <1>4 DEF TypeOK, QueueTypeOK, Become, WorkerPc
<1>6. Drained'
  BY <1>3 DEF IInv, Drained, FindClosed, FindNothing, WakeUp, FallAsleep, PullNone, PullWaits,
              Awoken, Awaits
<1>7. Exact'
  BY <1>2, <1>3, CountKeeps DEF IInv, CountedPc
<1>8. /\ p \in WorkerPc
      /\ wpc[w] \in Busy <=> p \in Busy
      /\ wpc[w] \in Clearing <=> p \in Clearing
  BY <1>2 DEF WorkerPc, Busy, Clearing
<1> QED
  BY <1>2, <1>3, <1>5, <1>6, <1>7, <1>8, WorkerMoves DEF IInv

\* ws_event returns, and complete releases the connection; on a closed pool nothing
\* is held back.
LEMMA ExecuteKeeps == ASSUME IInv, NEW w \in Worker, Execute(w) PROVE IInv'
<1>1. TypeOK /\ QueueTypeOK /\ Hands
  BY DEF IInv, TypeOK
<1>2. PICK o \in {"ok", "core", "timeout", "oom"}, p \in {"store", "answer"} :
        out' = [out EXCEPT ![w] = o] /\ Become(w, p)
  BY OutcomesAssumption DEF Execute
<1> DEFINE c == hold[w].conn
<1>3. /\ wpc[w] = "exec" /\ Complete(c) /\ c \in Conn
      /\ UNCHANGED <<lpc, ev, handle, hires, hold, sessions, live, failed, retiring, rpc>>
  BY <1>1, QueuedFrames DEF Execute, Hands, Busy, loopVars, poolVars
<1> HIDE DEF c
<1>4. QueueTypeOK'
  BY <1>1, <1>3, CompleteType
<1>5. TypeOK'
  BY <1>1, <1>2, <1>3, <1>4 DEF TypeOK, Become, WorkerPc
<1>6. wpc'[w] = p /\ \A v \in Worker \ {w} : wpc'[v] = wpc[v]
  BY <1>1, <1>2 DEF Become, TypeOK
<1>7. \A v \in Worker : wpc'[v] \in Busy => wpc[v] \in Busy
  BY <1>3, <1>6 DEF Busy
<1>8. OneFrame' /\ UNCHANGED reply
  <2>1. CASE waiting[c] = <<>>
    <3>1. UNCHANGED <<ready, waiting, reply>>
      BY <1>3, <2>1 DEF Complete
    <3>2. \A l \in Caller : Waits(l)' = Waits(l)
      BY <1>3, <3>1 DEF Waits
    <3> QED
      BY <1>3, <1>7, <3>1, <3>2, FramesQuiet DEF IInv
  <2>2. CASE waiting[c] # <<>>
    <3>1. ~closed
      BY <1>3, <2>2 DEF IInv, Drained
    <3>2. /\ waiting' = [waiting EXCEPT ![c] = Tail(@)]
          /\ ready' = Append(ready, Head(waiting[c]))
          /\ UNCHANGED reply
      BY <1>3, <2>2, <3>1 DEF Complete, ReleaseHead
    <3> QED
      BY <1>3, <1>7, <2>2, <3>2, FrameReleased DEF IInv
  <2> QED
    BY <2>1, <2>2
<1>9. Hands' /\ Loops' /\ Cleared'
  BY <1>3, <1>6, <1>8 DEF IInv, Hands, Loops, Cleared, Busy, Clearing
<1>10. Drained'
  BY <1>3 DEF IInv, Drained, Complete, NotifyOne
<1>11. Exact'
  BY <1>2, <1>3, CountKeeps DEF IInv, CountedPc
<1> QED
  BY <1>5, <1>8, <1>9, <1>10, <1>11 DEF IInv

LEMMA AnswerKeeps == ASSUME IInv, NEW w \in Worker, AnswerFrame(w) PROVE IInv'
<1>1. TypeOK /\ QueueTypeOK
  BY DEF IInv, TypeOK
<1>2. ReplyTo(out[w]) \in Result
  BY <1>1 DEF ReplyTo, Result, TypeOK
<1>3. PICK p \in {"poison", "pull"} : Become(w, p)
  BY DEF AnswerFrame
<1>4. /\ wpc[w] = "answer" /\ PutDown(w) /\ Resolve({hold[w].call}, ReplyTo(out[w]))
      /\ out' = [out EXCEPT ![w] = "ok"]
      /\ UNCHANGED <<ready, waiting, inFlight, closed, permit, armed, parked,
                     lpc, ev, handle, hires, sessions, live, failed, retiring, rpc>>
  BY DEF AnswerFrame, queueVars, notifyVars, loopVars, poolVars
<1>5. OneFrame' /\ Answers
  BY <1>1, <1>2, <1>3, <1>4, FrameAnswered DEF IInv, Busy
<1>6. reply' \in [Caller -> {"idle", "wait"} \cup Result]
  BY <1>1, <1>2, <1>4, ResolveType
<1>7. TypeOK'
  BY <1>1, <1>3, <1>4, <1>6 DEF TypeOK, QueueTypeOK, Become, PutDown, WorkerPc
<1>8. /\ wpc'[w] = p /\ hold'[w] = NoFrame
      /\ \A v \in Worker \ {w} : wpc'[v] = wpc[v] /\ hold'[v] = hold[v]
  BY <1>1, <1>3, <1>4 DEF Become, PutDown, TypeOK
<1>9. Hands'
  BY <1>8 DEF IInv, Hands, Busy, Clearing
<1>10. Loops' /\ Cleared'
  BY <1>4, <1>5, <1>8, TasksKept, ClearedKept DEF IInv, Clearing
<1>11. Drained'
  BY <1>4 DEF IInv, Drained
<1>12. Exact'
  BY <1>3, <1>4, CountKeeps DEF IInv, CountedPc
<1> QED
  BY <1>5, <1>7, <1>9, <1>10, <1>11, <1>12 DEF IInv

\* The unwinding answers the caller PoolClosed; panic_conn then drops the frames of
\* its connection and takes the mark off.
LEMMA PanicKeeps == ASSUME IInv, NEW w \in Worker, FramePanic(w) PROVE IInv'
<1>1. TypeOK /\ QueueTypeOK /\ Hands /\ Loops /\ Cleared
  BY DEF IInv, TypeOK
<1>2. /\ wpc[w] = "exec" /\ Resolve({hold[w].call}, "closed")
      /\ UNCHANGED <<ready, waiting, inFlight, closed, permit, armed, parked, out,
                     lpc, ev, handle, hires, sessions, live, failed, retiring, rpc>>
  BY DEF FramePanic, queueVars, notifyVars, loopVars, poolVars
<1>3. PICK p \in {"panic", "reap"} :
        /\ Become(w, p)
        /\ p = "panic" => UNCHANGED hold /\ hold[w].conn # Zero
        /\ p = "reap" => PutDown(w)
  BY DEF FramePanic
<1>4. /\ "closed" \in Result /\ p \notin Busy /\ wpc[w] \in Busy
      /\ hold' = hold \/ PutDown(w)
  BY <1>2, <1>3 DEF Result, Busy
<1>5. OneFrame' /\ Answers /\ reply'[hold[w].call] = "closed"
  BY <1>1, <1>2, <1>3, <1>4, FrameAnswered DEF IInv
<1>6. reply' \in [Caller -> {"idle", "wait"} \cup Result]
  BY <1>1, <1>2, <1>4, ResolveType
<1>7. TypeOK'
  BY <1>1, <1>2, <1>3, <1>6 DEF TypeOK, QueueTypeOK, Become, PutDown, WorkerPc
<1>8. /\ wpc'[w] = p
      /\ p = "reap" => hold'[w] = NoFrame
      /\ \A v \in Worker \ {w} : wpc'[v] = wpc[v] /\ hold'[v] = hold[v]
  BY <1>1, <1>3 DEF Become, PutDown, TypeOK
<1>9. Hands'
  BY <1>1, <1>2, <1>3, <1>8 DEF Hands, Busy, Clearing
<1>10. Loops'
  BY <1>1, <1>2, <1>5, TasksKept
<1>11. Cleared'
  <2>1. ASSUME NEW l \in Caller, hold[w].conn = l
        PROVE  lpc[l] = "await" /\ reply'[l] = "closed"
    <3>1. hold[w].call \in Caller /\ Owed(hold[w])
      BY <1>1, <1>2, QueuedFrames DEF IInv, OneFrame, HeldOwed, Hands, Busy
    <3>2. hold[w].call = l
      BY <1>1, <2>1, <3>1, ConnAssumption DEF Owed, Loops
    <3> QED
      BY <1>5, <3>1, <3>2 DEF Owed, Waits
  <2>2. ASSUME NEW v \in Worker, NEW l \in Caller, v # w, wpc[v] \in Clearing, hold[v].conn = l
        PROVE  \/ lpc[l] \in Leaving
               \/ lpc[l] = "await" /\ reply'[l] = "closed"
    <3>1. \/ lpc[l] \in Leaving
          \/ lpc[l] = "await" /\ reply[l] = "closed"
      BY <1>1, <2>2 DEF Cleared
    <3>2. reply[l] = "closed" => reply'[l] = reply[l]
      BY <1>5 DEF Answers, Waits
    <3> QED
      BY <3>1, <3>2
  <2>3. ASSUME NEW v \in Worker, wpc'[v] \in Clearing
        PROVE  hold'[v] = hold[v] /\ hold[v].conn # Zero /\ (v # w => wpc[v] \in Clearing)
    <3>1. CASE v = w
      BY <1>3, <1>8, <2>3, <3>1 DEF Clearing
    <3>2. CASE v # w
      BY <1>1, <1>8, <2>3, <3>2 DEF Cleared
    <3> QED
      BY <3>1, <3>2
  <2> QED
    BY <1>2, <2>1, <2>2, <2>3 DEF Cleared
<1>12. Drained'
  BY <1>2 DEF IInv, Drained
<1>13. Exact'
  BY <1>2, <1>3, CountKeeps DEF IInv, CountedPc
<1> QED
  BY <1>5, <1>7, <1>9, <1>10, <1>11, <1>12, <1>13 DEF IInv

LEMMA PanicDropKeeps == ASSUME IInv, NEW w \in Worker, PanicDrop(w) PROVE IInv'
<1>1. TypeOK /\ QueueTypeOK /\ Hands
  BY DEF IInv, TypeOK
<1>2. /\ wpc[w] = "panic" /\ Become(w, "purge") /\ DropConn(hold[w].conn)
      /\ hold[w].conn \in Conn
      /\ UNCHANGED <<lpc, ev, handle, hires, hold, out, sessions, live, failed, retiring, rpc>>
  BY <1>1, QueuedFrames DEF PanicDrop, loopVars, poolVars, Hands, Busy, Clearing
<1>3. QueueTypeOK'
  BY <1>1, <1>2, DropConnType
<1>4. TypeOK'
  BY <1>1, <1>2, <1>3 DEF TypeOK, Become, WorkerPc
<1>5. wpc'[w] = "purge" /\ \A v \in Worker \ {w} : wpc'[v] = wpc[v]
  BY <1>1, <1>2 DEF Become, TypeOK
<1>6. \A v \in Worker :
        /\ wpc'[v] \in Busy => wpc[v] \in Busy
        /\ wpc'[v] \in Clearing => wpc[v] \in Clearing
  BY <1>2, <1>5 DEF Busy, Clearing
<1>7. OneFrame' /\ Answers
  BY <1>2, <1>6, FramesDropped DEF IInv
<1>8. Loops' /\ Cleared'
  BY <1>2, <1>6, <1>7, TasksKept, ClearedKept DEF IInv
<1>9. Hands'
  BY <1>1, <1>2, <1>5 DEF Hands, Busy, Clearing
<1>10. Drained'
  BY <1>1, <1>2 DEF IInv, Drained, DropConn, notifyVars, QueueTypeOK
<1>11. Exact'
  BY <1>2, CountKeeps DEF IInv, CountedPc
<1> QED
  BY <1>4, <1>7, <1>8, <1>9, <1>10, <1>11 DEF IInv

LEMMA PanicClearKeeps == ASSUME IInv, NEW w \in Worker, PanicClear(w) PROVE IInv'
<1>1. TypeOK /\ QueueTypeOK
  BY DEF IInv, TypeOK
<1>2. /\ wpc[w] = "purge" /\ Become(w, "reap") /\ PutDown(w)
      /\ inFlight' \in SUBSET Conn
      /\ UNCHANGED <<ready, waiting, closed, permit, armed, parked, reply, out,
                     lpc, ev, handle, hires, sessions, live, failed, retiring, rpc>>
  BY <1>1 DEF PanicClear, ClearInFlight, notifyVars, loopVars, poolVars, QueueTypeOK
<1>3. /\ wpc'[w] = "reap" /\ hold'[w] = NoFrame
      /\ \A v \in Worker \ {w} : wpc'[v] = wpc[v] /\ hold'[v] = hold[v]
  BY <1>1, <1>2 DEF Become, PutDown, TypeOK
<1>4. TypeOK'
  BY <1>1, <1>2 DEF TypeOK, QueueTypeOK, Become, PutDown, WorkerPc
<1>5. \A l \in Caller : Waits(l)' = Waits(l)
  BY <1>2 DEF Waits
<1>6. \A v \in Worker :
        /\ wpc'[v] \in Busy => wpc[v] \in Busy /\ hold'[v] = hold[v]
        /\ wpc'[v] \in Clearing => wpc[v] \in Clearing /\ hold'[v] = hold[v]
  BY <1>3 DEF Busy, Clearing
<1>7. OneFrame'
  BY <1>2, <1>5, <1>6, FramesQuiet DEF IInv
<1>8. Answers
  BY <1>2 DEF Answers
<1>9. Hands' /\ Loops' /\ Cleared' /\ Drained'
  BY <1>2, <1>3, <1>6, <1>8, TasksKept, ClearedKept DEF IInv, Hands, Busy, Clearing, Drained
<1>10. Exact'
  BY <1>2, CountKeeps DEF IInv, CountedPc
<1> QED
  BY <1>4, <1>7, <1>9, <1>10 DEF IInv

LEMMA WorkerKeeps == ASSUME IInv, NEW w \in Worker, WorkerStep(w) PROVE IInv'
BY OffQueueKeeps, RespawnKeeps, LatchedCloseKeeps, TakeKeeps, PullKeeps, ExecuteKeeps,
   AnswerKeeps, PanicKeeps, PanicDropKeeps, PanicClearKeeps DEF WorkerStep

-----------------------------------------------------------------------------
(* The theorems. *)

LEMMA InitHolds == Init => IInv
<1> SUFFICES ASSUME Init PROVE IInv
  OBVIOUS
<1>1. /\ ready = <<>> /\ waiting = [c \in Conn |-> <<>>]
      /\ DOMAIN ready = {} /\ \A c \in Conn : waiting[c] = <<>> /\ DOMAIN waiting[c] = {}
  BY DEF Init, QueueInit
<1>2. <<>> \in Seq(Frame) /\ Zero \in Conn
  BY ConnAssumption
<1>3. QueueTypeOK
  BY <1>2 DEF Init, QueueInit, QueueTypeOK
<1>4. TypeOK
  <2>1. /\ hires \in [Caller -> 0..WorkersMax]
        /\ live \in Nat /\ sessions \in SUBSET Caller
    BY WorkersMaxAssumption DEF Init
  <2>2. /\ lpc \in [Caller -> LoopPc] /\ ev \in [Caller -> Event]
        /\ handle \in [Caller -> Conn]
    BY <1>2 DEF Init, LoopPc, Event
  <2>3. /\ wpc \in [Worker -> WorkerPc]
        /\ hold \in [Worker -> Frame \cup {NoFrame}]
        /\ out \in [Worker -> {"ok", "core", "timeout", "oom"}]
    BY DEF Init, WorkerPc
  <2> QED
    BY <1>3, <2>1, <2>2, <2>3 DEF Init, TypeOK
<1>5. \A w \in Worker : wpc[w] = "off" /\ hold[w] = NoFrame
  BY DEF Init
<1>6. Hands /\ Cleared
  BY <1>5 DEF Hands, Cleared, Busy, Clearing
<1>7. OneFrame
  <2>1. ReadyOwed /\ WaitingOwed /\ ReadyApart /\ WaitingApart /\ ReadyNotWaiting
    BY <1>1 DEF ReadyOwed, WaitingOwed, ReadyApart, WaitingApart, ReadyNotWaiting
  <2>2. HeldOwed /\ HeldApart /\ HeldNotReady /\ HeldNotWaiting
    BY <1>5 DEF HeldOwed, HeldApart, HeldNotReady, HeldNotWaiting, Busy
  <2> QED
    BY <2>1, <2>2 DEF OneFrame
<1>8. Loops
  BY ConnAssumption DEF Init, QueueInit, Loops
<1>9. Drained
  BY <1>1 DEF Init, QueueInit, Drained
<1>10. Counted = {}
  BY <1>5 DEF Counted
<1>11. Exact
  BY <1>10, FS_EmptySet DEF Init, Exact, LiveIsExact
<1> QED
  BY <1>4, <1>6, <1>7, <1>8, <1>9, <1>11 DEF IInv

LEMMA StepKeeps == IInv /\ [Next]_vars => IInv'
<1> SUFFICES ASSUME IInv, [Next]_vars PROVE IInv'
  OBVIOUS
<1>1. CASE Next
  BY <1>1, LoopKeeps, WorkerKeeps, RetireKeeps DEF Next
<1>2. CASE UNCHANGED vars
  <2>1. UNCHANGED <<ready, waiting, inFlight, closed, permit, armed, parked, reply,
                    lpc, ev, handle, hires, wpc, hold, out, sessions, live, failed,
                    retiring, rpc>>
    BY <1>2 DEF vars, queueVars, notifyVars, loopVars, workerVars, poolVars
  <2>2. TypeOK'
    BY <2>1 DEF IInv, TypeOK, QueueTypeOK
  <2>3. \A l \in Caller : Waits(l)' = Waits(l)
    BY <2>1 DEF Waits
  <2>4. OneFrame'
    BY <2>1, <2>3, FramesQuiet DEF IInv
  <2>5. Hands' /\ Loops' /\ Cleared' /\ Drained'
    BY <2>1 DEF IInv, Hands, Loops, Cleared, Drained
  <2>6. Exact'
    BY <2>1, CountSame DEF IInv
  <2> QED
    BY <2>2, <2>4, <2>5, <2>6 DEF IInv
<1> QED
  BY <1>1, <1>2

LEMMA Inductive == Spec => []IInv
BY InitHolds, StepKeeps, PTL DEF Spec

\* Every reachable state of the pool has the types of TypeOK: in particular `live`,
\* an AtomicUsize that every exit decrements, never passes below zero, and attach
\* never counts more hires than workers_max.
THEOREM TypeCorrect == Spec => []TypeOK
BY Inductive, PTL DEF IInv

\* The counter of the pool is the number of its threads that have not left, in every
\* interleaving of the five exits with attach and respawn_if_needed.
THEOREM LiveExact == Spec => []LiveIsExact
BY Inductive, PTL DEF IInv, Exact

\* No frame of a connection starts while the state of its predecessor is still to be
\* written back (worker_main's write-back after complete), however many workers and
\* connections there are: the next frame is fired by a task that still waits.
THEOREM WritesBackFirst == Spec => []WriteBackBeforeNextFrame
<1>1. IInv => WriteBackBeforeNextFrame
  <2> SUFFICES ASSUME IInv, NEW v \in Worker, NEW w \in Worker,
                      wpc[v] = "store", hold[v].conn # Zero, v # w,
                      wpc[w] \in {"load", "exec"}, hold[v].conn = hold[w].conn
               PROVE  FALSE
    BY DEF WriteBackBeforeNextFrame
  <2>1. /\ hold[v] \in Frame /\ hold[w] \in Frame /\ Owed(hold[v]) /\ Owed(hold[w])
        /\ hold[v].call # hold[w].call
    BY DEF IInv, Hands, OneFrame, HeldOwed, HeldApart, Busy
  <2>2. \A u \in {v, w} : hold[u].call \in Caller /\ hold[u].conn = handle[hold[u].call]
    BY <2>1, QueuedFrames DEF IInv, Owed
  <2>3. \A u \in {v, w} : hold[u].conn = hold[u].call
    BY <2>2 DEF IInv, Loops
  <2> QED
    BY <2>1, <2>3
<1> QED
  BY <1>1, Inductive, PTL

\* Nobody executes a frame of a connection that has left the session table
\* (RoutePool::detach): the task of that frame is still waiting for it.
THEOREM NoGhostFrame == Spec => []NoFrameAfterDetach
<1>1. IInv => NoFrameAfterDetach
  <2> SUFFICES ASSUME IInv, NEW w \in Worker, wpc[w] \in {"load", "exec"},
                      hold[w].conn # Zero
               PROVE  hold[w].conn \in sessions
    BY DEF NoFrameAfterDetach
  <2>1. hold[w] \in Frame /\ Owed(hold[w])
    BY DEF IInv, Hands, OneFrame, HeldOwed, Busy
  <2>2. /\ hold[w].call \in Caller /\ hold[w].conn = handle[hold[w].call]
        /\ lpc[hold[w].call] = "await"
    BY <2>1, QueuedFrames DEF IInv, Owed, Waits
  <2> QED
    BY <2>2 DEF IInv, Loops
<1> QED
  BY <1>1, Inductive, PTL

-----------------------------------------------------------------------------
(***************************************************************************)
(* No fire is forgotten.  IInv says where the frames are; that the frame   *)
(* of a connection is never held back needs the marks as well: the mark of *)
(* an id stands for a frame that is still to be completed, or for a        *)
(* connection that has its PoolClosed and will not fire again.             *)
(***************************************************************************)

\* The frame of l is still to be completed.
Due(l) ==
  \/ \E i \in DOMAIN ready : ready[i].call = l
  \/ \E w \in Worker : wpc[w] \in {"load", "exec"} /\ hold[w].call = l

Fate(l) == lpc[l] \in Leaving \/ reply[l] = "closed" \/ (reply[l] = "wait" /\ Due(l))

Kept(l) ==
  /\ l \in inFlight => handle[l] = l /\ Fate(l)
  /\ reply[l] = "wait" /\ handle[l] # Zero => Scheduled(l)

KInv == IInv /\ \A l \in Caller : Kept(l)

\* A task nobody touches, whose frame goes on.
LEMMA KeptOn ==
  ASSUME NEW l \in Caller, Kept(l), l \in inFlight' => l \in inFlight,
         lpc'[l] = lpc[l], handle'[l] = handle[l], reply'[l] = reply[l],
         Due(l) => Due(l)', Scheduled(l) => Scheduled(l)'
  PROVE  Kept(l)'
BY DEF Kept, Fate

\* The workers go on with the frames they have in hand.
LEMMA HandsKept ==
  ASSUME NEW l \in Caller, UNCHANGED ready,
         \A w \in Worker : wpc[w] \in Busy =>
           /\ hold'[w] = hold[w] /\ wpc'[w] \in Busy
           /\ wpc[w] \in {"load", "exec"} => wpc'[w] \in {"load", "exec"}
  PROVE  (Due(l) => Due(l)') /\ (Scheduled(l) => Scheduled(l)')
BY DEF Due, Scheduled, Busy

\* Nothing is held back behind the own frame of a connection.
LEMMA NoneBehind ==
  ASSUME IInv, NEW l \in Caller, ~Waits(l) \/ \E w \in Worker : wpc[w] \in Busy /\ hold[w].call = l
  PROVE  waiting[l] = <<>>
<1> SUFFICES ASSUME waiting[l] # <<>> PROVE FALSE
  OBVIOUS
<1>1. l \in Conn /\ waiting[l] \in Seq(Frame)
  BY ConnAssumption DEF IInv, TypeOK, QueueTypeOK
<1>2. 1 \in DOMAIN waiting[l] /\ waiting[l][1] \in Frame /\ waiting[l][1].call \in Caller
  BY <1>1, QueuedFrames DEF IInv
<1>3. Owed(waiting[l][1]) /\ waiting[l][1].conn = l
  BY <1>1, <1>2 DEF IInv, OneFrame, WaitingOwed
<1>4. waiting[l][1].call = l
  BY <1>2, <1>3, ConnAssumption DEF Owed, IInv, Loops
<1> QED
  BY <1>1, <1>2, <1>3, <1>4 DEF Owed, IInv, OneFrame, HeldNotWaiting

\* A task that has no frame out has no mark either, unless it leaves.
LEMMA NoMark ==
  ASSUME IInv, NEW l \in Caller, Kept(l), ~Waits(l), l \in inFlight
  PROVE  lpc[l] \in Leaving \/ (lpc[l] = "await" /\ reply[l] = "closed")
BY DEF Kept, Fate, Waits, IInv, Loops

\* The steps of a task that does not wait: those of attach and detach, of the client,
\* and the reception of an answer.
LEMMA IdleKept ==
  ASSUME KInv, NEW l \in Caller, ~Waits(l), reply'[l] # "wait",
         \A m \in Caller : m \in inFlight' => m \in inFlight,
         UNCHANGED ready,
         \A m \in Caller \ {l} : lpc'[m] = lpc[m] /\ handle'[m] = handle[m] /\ reply'[m] = reply[m],
         lpc[l] \in Leaving \cup {"await"} => handle'[l] = handle[l],
         lpc[l] \in Leaving => lpc'[l] \in Leaving,
         lpc[l] = "await" /\ reply[l] = "closed" => lpc'[l] \in Leaving,
         \A w \in Worker : wpc[w] \in Busy => hold'[w] = hold[w] /\ wpc'[w] = wpc[w]
  PROVE  \A m \in Caller : Kept(m)'
<1>1. ASSUME NEW m \in Caller, m # l PROVE Kept(m)'
  <2>1. (Due(m) => Due(m)') /\ (Scheduled(m) => Scheduled(m)')
    BY HandsKept
  <2> QED
    BY <1>1, <2>1, KeptOn DEF KInv
<1>2. Kept(l)'
  <2>1. l \in inFlight' =>
          handle'[l] = l /\ (lpc[l] \in Leaving \/ (lpc[l] = "await" /\ reply[l] = "closed"))
    BY NoMark DEF KInv, Kept
  <2> QED
    BY <2>1 DEF Kept, Fate
<1> QED
  BY <1>1, <1>2

LEMMA IdleTaskKept ==
  ASSUME KInv, NEW l \in Caller,
         \/ AttachCheck(l) \/ AttachOpen(l) \/ AttachRegister(l)
         \/ Answered(l) \/ ClientStep(l) \/ DetachRemove(l) \/ DetachLast(l)
  PROVE  \A m \in Caller : Kept(m)'
<1> USE DEF schedulerVars, queueVars, notifyVars, workerVars, poolVars
<1>1. TypeOK /\ QueueTypeOK /\ Loops
  BY DEF KInv, IInv, TypeOK
<1>2. ~Waits(l) /\ UNCHANGED <<ready, inFlight, wpc, hold>>
  BY DEF AttachCheck, AttachOpen, Reopen, AttachRegister, Answered, ClientStep, ReadMessage,
         ReadEnd, DetachRemove, DetachLast, Waits, Result
<1>3. PICK p \in LoopPc : Goto(l, p)
  BY DEF AttachCheck, AttachOpen, AttachRegister, Answered, ClientStep, ReadMessage, ReadEnd,
         FireNext, DetachRemove, DetachLast, LoopPc
<1>4. lpc'[l] = p /\ \A m \in Caller \ {l} : lpc'[m] = lpc[m]
  BY <1>1, <1>3 DEF Goto, TypeOK
<1>5. /\ lpc[l] \in Leaving => p \in Leaving
      /\ lpc[l] = "await" /\ reply[l] = "closed" => p \in Leaving
  BY <1>1, <1>3, <1>4 DEF AttachCheck, AttachOpen, AttachRegister, Answered, ClientStep,
     ReadMessage, ReadEnd, FireNext, DetachRemove, DetachLast, Leaving, Goto, TypeOK
<1>6. /\ \A m \in Caller \ {l} : handle'[m] = handle[m] /\ reply'[m] = reply[m]
      /\ lpc[l] \in Leaving \cup {"await"} => handle'[l] = handle[l]
  BY <1>1 DEF AttachCheck, AttachOpen, Reopen, AttachRegister, Answered, ClientStep,
     ReadMessage, ReadEnd, DetachRemove, DetachLast, Leaving, TypeOK, QueueTypeOK
<1>7. reply'[l] # "wait"
  BY <1>1 DEF AttachCheck, AttachOpen, Reopen, AttachRegister, Answered, ClientStep,
     ReadMessage, ReadEnd, DetachRemove, DetachLast, TypeOK, QueueTypeOK, Loops
<1> QED
  BY <1>2, <1>4, <1>5, <1>6, <1>7, IdleKept

\* attach hires: the slot taken had no frame.
LEMMA HireKept ==
  ASSUME KInv, NEW l \in Caller, AttachHire(l)
  PROVE  \A m \in Caller : Kept(m)'
<1>1. TypeOK /\ QueueTypeOK /\ Loops
  BY DEF KInv, IInv, TypeOK
<1>2. /\ lpc[l] = "hire" /\ UNCHANGED <<ready, inFlight, reply, handle>>
      /\ \A m \in Caller \ {l} : lpc'[m] = lpc[m]
  BY <1>1 DEF AttachHire, schedulerVars, queueVars, Goto, TypeOK
<1>3. ~Waits(l) /\ reply[l] # "wait" /\ lpc[l] \notin Leaving \cup {"await"}
  BY <1>1, <1>2 DEF Waits, Loops, Leaving
<1>4. \A w \in Worker : wpc[w] \in Busy => hold'[w] = hold[w] /\ wpc'[w] = wpc[w]
  BY <1>1 DEF AttachHire, SpawnWorker, Become, PutDown, TypeOK, Busy
<1> QED
  BY <1>2, <1>3, <1>4, IdleKept

\* fire: the task has no mark, so that its frame is ready at once if the id is its own.
LEMMA FireKept ==
  ASSUME KInv, NEW l \in Caller, FireEvent(l)
  PROVE  \A m \in Caller : Kept(m)'
<1>1. TypeOK /\ QueueTypeOK /\ Loops /\ handle[l] \in Conn
  BY DEF KInv, IInv, TypeOK
<1>2. /\ lpc[l] = "fire" /\ lpc' = [lpc EXCEPT ![l] = "await"]
      /\ Submit(l, handle[l])
      /\ UNCHANGED <<handle, wpc, hold>>
  BY DEF FireEvent, Goto, workerVars
<1>3. /\ \A m \in Caller \ {l} : lpc'[m] = lpc[m] /\ reply'[m] = reply[m]
      /\ lpc'[l] = "await" /\ ~Waits(l)
      /\ reply'[l] = IF closed THEN "closed" ELSE "wait"
  BY <1>1, <1>2 DEF Submit, Resolve, Waits, TypeOK, QueueTypeOK
<1>4. l \notin inFlight
  BY <1>2, <1>3, NoMark DEF KInv, Leaving
<1>5. CASE closed
  <2>1. UNCHANGED <<ready, inFlight>>
    BY <1>2, <1>5 DEF Submit, queueVars
  <2>2. \A m \in Caller \ {l} : Kept(m)'
    BY <1>2, <1>3, <2>1, HandsKept, KeptOn DEF KInv
  <2>3. Kept(l)'
    BY <1>3, <1>4, <1>5, <2>1 DEF Kept
  <2> QED
    BY <2>2, <2>3
<1>6. CASE ~closed
  <2> DEFINE f == [conn |-> handle[l], call |-> l]
             n == Len(ready) + 1
  <2>1. f.call = l /\ f.conn = handle[l] /\ f \in Frame
    BY <1>1 DEF Frame
  <2>2. Enqueue(f)
    BY <1>2, <1>6 DEF Submit
  <2> HIDE DEF f
  <2>3. ready \in Seq(Frame)
    BY <1>1 DEF QueueTypeOK
  <2>4. \A i \in DOMAIN ready : i \in DOMAIN ready' /\ ready'[i] = ready[i]
    <3>1. CASE f.conn \in inFlight
      BY <2>2, <3>1 DEF Enqueue
    <3>2. CASE f.conn \notin inFlight
      BY <2>1, <2>2, <2>3, <3>2, AppendElements DEF Enqueue
    <3> QED
      BY <3>1, <3>2
  <2>5. f.conn \notin inFlight => n \in DOMAIN ready' /\ ready'[n] = f
    BY <2>1, <2>2, <2>3, AppendElements DEF Enqueue
  <2> HIDE DEF n
  <2>6. inFlight' = inFlight \cup {handle[l]}
    BY <2>1, <2>2 DEF Enqueue
  <2>7. handle[l] \in {Zero, l} /\ Zero \notin Caller
    BY <1>1, ConnAssumption DEF Loops
  <2>8. ASSUME NEW m \in Caller, m # l PROVE Kept(m)'
    <3>1. (Due(m) => Due(m)') /\ (Scheduled(m) => Scheduled(m)')
      BY <1>2, <2>4 DEF Due, Scheduled
    <3>2. m \in inFlight' => m \in inFlight
      BY <2>6, <2>7, <2>8
    <3> QED
      BY <1>2, <1>3, <2>8, <3>1, <3>2, KeptOn DEF KInv
  <2>9. Kept(l)'
    <3>1. CASE handle[l] = Zero
      BY <1>2, <1>4, <2>6, <2>7, <3>1 DEF Kept
    <3>2. CASE handle[l] = l
      <4>1. Due(l)' /\ Scheduled(l)'
        BY <1>4, <2>1, <2>5, <3>2 DEF Due, Scheduled
      <4> QED
        BY <1>2, <1>3, <1>6, <3>2, <4>1 DEF Kept, Fate
    <3> QED
      BY <2>7, <3>1, <3>2
  <2> QED
    BY <2>8, <2>9
<1> QED
  BY <1>5, <1>6

\* drop_conn answers none whose frame is due: a connection that leaves waits for nothing,
\* and nobody waits behind the own frame of one that panicked.
LEMMA DropKept ==
  ASSUME KInv, NEW c \in Conn, DropConn(c), c \in Caller => ~Waits(c), UNCHANGED handle,
         \A m \in Caller : lpc'[m] = lpc[m] \/ (lpc[m] \in Leaving /\ lpc'[m] \in Leaving),
         \A w \in Worker : wpc[w] \in Busy => hold'[w] = hold[w] /\ wpc'[w] = wpc[w]
  PROVE  \A m \in Caller : Kept(m)'
<1> SUFFICES ASSUME NEW m \in Caller PROVE Kept(m)'
  OBVIOUS
<1>1. /\ UNCHANGED <<ready, inFlight>>
      /\ reply'[m] = IF m \in CallsIn(waiting[c]) THEN "dropped" ELSE reply[m]
  BY DEF DropConn, Resolve
<1>2. (Due(m) => Due(m)') /\ (Scheduled(m) => Scheduled(m)')
  BY <1>1, HandsKept
<1>3. m \in CallsIn(waiting[c]) => Waits(m) /\ handle[m] = c
  BY DEF KInv, IInv, OneFrame, WaitingOwed, Owed, CallsIn
<1>4. m \in CallsIn(waiting[c]) => m \notin inFlight
  BY <1>3 DEF KInv, Kept
<1> QED
  BY <1>1, <1>2, <1>4 DEF KInv, Kept, Fate

\* close answers all whose frames are queued.
LEMMA CloseKept ==
  ASSUME KInv, Close, UNCHANGED <<lpc, handle>>,
         \A w \in Worker : wpc[w] \in Busy => hold'[w] = hold[w] /\ wpc'[w] = wpc[w]
  PROVE  \A m \in Caller : Kept(m)'
<1> SUFFICES ASSUME NEW m \in Caller PROVE Kept(m)'
  OBVIOUS
<1> DEFINE S == CallsIn(ready) \cup UNION {CallsIn(waiting[c]) : c \in Conn}
<1>1. inFlight' = inFlight /\ reply'[m] = IF m \in S THEN "closed" ELSE reply[m]
  BY DEF Close, Resolve
<1>2. m \notin S => \A i \in DOMAIN ready : ready[i].call # m
  BY DEF CallsIn
<1> HIDE DEF S
<1>3. m \notin S => (Due(m) => Due(m)') /\ (Scheduled(m) => Scheduled(m)')
  BY <1>2 DEF Due, Scheduled, Busy
<1> QED
  BY <1>1, <1>3 DEF KInv, Kept, Fate

\* pull: the oldest ready frame passes into the hands of a worker.
LEMMA TakeKept ==
  ASSUME KInv, NEW w \in Worker, Take(w)
  PROVE  \A m \in Caller : Kept(m)'
<1> SUFFICES ASSUME NEW m \in Caller PROVE Kept(m)'
  OBVIOUS
<1>1. TypeOK /\ ready \in Seq(Frame)
  BY DEF KInv, IInv, TypeOK, QueueTypeOK
<1>2. /\ wpc[w] = "pull" /\ Become(w, "load")
      /\ ready # <<>> /\ ready' = Tail(ready) /\ hold' = [hold EXCEPT ![w] = Head(ready)]
      /\ UNCHANGED <<inFlight, reply, lpc, handle>>
  BY DEF Take, PullFrame, loopVars
<1>3. /\ wpc'[w] = "load" /\ hold'[w] = ready[1]
      /\ \A v \in Worker \ {w} : wpc'[v] = wpc[v] /\ hold'[v] = hold[v]
  BY <1>1, <1>2, TailElements DEF Become, TypeOK
<1>4. \A i \in DOMAIN ready : i = 1 \/ \E j \in DOMAIN ready' : ready'[j] = ready[i]
  <2> SUFFICES ASSUME NEW i \in DOMAIN ready, i # 1
               PROVE  i - 1 \in DOMAIN ready' /\ ready'[i - 1] = ready[i]
    OBVIOUS
  <2> QED
    BY <1>1, <1>2
<1>5. (\E i \in DOMAIN ready : ready[i].call = m) => Due(m)' /\ Scheduled(m)'
  BY <1>3, <1>4 DEF Due, Scheduled
<1>6. \A v \in Worker : wpc[v] \in Busy => v # w
  BY <1>2 DEF Busy
<1>7. (Due(m) => Due(m)') /\ (Scheduled(m) => Scheduled(m)')
  BY <1>3, <1>5, <1>6 DEF Due, Scheduled, Busy
<1> QED
  BY <1>2, <1>7, KeptOn DEF KInv

\* complete: the mark that goes is that of the frame in hand, behind which nothing of a
\* connection with an id of its own is held back.
LEMMA ExecuteKept ==
  ASSUME KInv, NEW w \in Worker, Execute(w)
  PROVE  \A m \in Caller : Kept(m)'
<1> SUFFICES ASSUME NEW m \in Caller PROVE Kept(m)'
  OBVIOUS
<1> DEFINE c == hold[w].conn
<1>1. TypeOK /\ ready \in Seq(Frame) /\ waiting \in [Conn -> Seq(Frame)] /\ Loops
  BY DEF KInv, IInv, TypeOK, QueueTypeOK
<1>2. /\ wpc[w] = "exec" /\ Complete(hold[w].conn)
      /\ UNCHANGED <<lpc, handle, hold>>
  BY DEF Execute, loopVars
<1>3. /\ hold[w] \in Frame /\ hold[w].call \in Caller /\ c \in Conn
      /\ Waits(hold[w].call) /\ c = handle[hold[w].call]
  BY <1>1, <1>2, QueuedFrames DEF KInv, IInv, Hands, OneFrame, HeldOwed, Owed, Busy
<1>4. wpc'[w] \in {"store", "answer"} /\ \A v \in Worker \ {w} : wpc'[v] = wpc[v]
  BY <1>1 DEF Execute, Become, TypeOK
<1> HIDE DEF c
<1>5. c \in Caller => c = hold[w].call /\ waiting[c] = <<>>
  <2> SUFFICES ASSUME c \in Caller PROVE c = hold[w].call /\ waiting[c] = <<>>
    OBVIOUS
  <2>1. c = hold[w].call
    BY <1>1, <1>3, ConnAssumption DEF Loops
  <2> QED
    BY <1>2, <2>1, NoneBehind DEF KInv, Busy
<1>6. /\ reply' = reply
      /\ m \in inFlight' => m \in inFlight /\ m # c
      /\ \A i \in DOMAIN ready : i \in DOMAIN ready' /\ ready'[i] = ready[i]
  <2>1. CASE waiting[c] = <<>>
    BY <1>2, <2>1 DEF Complete, c
  <2>2. CASE waiting[c] # <<>>
    <3>1. ~closed /\ m # c
      BY <1>3, <1>5, <2>2 DEF KInv, IInv, Drained
    <3>2. /\ ready' = Append(ready, Head(waiting[c])) /\ reply' = reply
          /\ inFlight' = inFlight \cup {c}
      BY <1>2, <2>2, <3>1 DEF Complete, ReleaseHead, c
    <3>3. Head(waiting[c]) \in Frame
      BY <1>1, <1>3, <2>2
    <3>4. \A i \in DOMAIN ready : i \in DOMAIN ready' /\ ready'[i] = ready[i]
      BY <1>1, <3>2, <3>3, AppendElements
    <3> QED
      BY <3>1, <3>2, <3>4
  <2> QED
    BY <2>1, <2>2
<1>7. Scheduled(m) => Scheduled(m)'
  BY <1>2, <1>4, <1>6 DEF Scheduled
<1>8. m \in inFlight' => hold[w].call # m
  BY <1>3, <1>6 DEF KInv, Kept
<1>9. hold[w].call # m => (Due(m) => Due(m)')
  BY <1>2, <1>4, <1>6 DEF Due
<1> QED
  BY <1>2, <1>6, <1>7, <1>8, <1>9 DEF KInv, Kept, Fate

\* The caller that is answered, or whose frame unwound, has no other frame; it has no
\* mark unless the answer is PoolClosed.
LEMMA AnswerKept ==
  ASSUME KInv, NEW w \in Worker, AnswerFrame(w) \/ FramePanic(w)
  PROVE  \A m \in Caller : Kept(m)'
<1> SUFFICES ASSUME NEW m \in Caller PROVE Kept(m)'
  OBVIOUS
<1> DEFINE q == hold[w].call
<1>1. TypeOK
  BY DEF KInv, IInv
<1>2. PICK r \in Result : /\ Resolve({hold[w].call}, r)
                          /\ wpc[w] = "answer" \/ r = "closed"
  BY <1>1 DEF AnswerFrame, FramePanic, ReplyTo, Result, TypeOK
<1>3. /\ wpc[w] \in {"answer", "exec"}
      /\ UNCHANGED <<ready, inFlight, lpc, handle>>
      /\ \A v \in Worker \ {w} : wpc'[v] = wpc[v] /\ hold'[v] = hold[v]
  BY <1>1 DEF AnswerFrame, FramePanic, queueVars, loopVars, Become, PutDown, TypeOK
<1>4. q \in Caller /\ Waits(q) /\ reply'[m] = IF m = q THEN r ELSE reply[m]
  BY <1>1, <1>2, <1>3, QueuedFrames
  DEF KInv, IInv, Hands, OneFrame, HeldOwed, Owed, Busy, Resolve
<1>5. /\ \A i \in DOMAIN ready : ready[i].call # q
      /\ \A v \in Worker \ {w} : wpc[v] \in Busy => hold[v].call # q
  BY <1>3 DEF KInv, IInv, OneFrame, HeldNotReady, HeldApart, Busy
<1> HIDE DEF q
<1>6. CASE m = q
  <2>1. wpc[w] = "answer" => m \notin inFlight
    BY <1>4, <1>5, <1>6 DEF KInv, Kept, Fate, Due, Waits, Leaving, Busy
  <2>2. r # "wait"
    BY DEF Result
  <2> QED
    BY <1>2, <1>3, <1>4, <1>6, <2>1, <2>2 DEF KInv, Kept, Fate
<1>7. CASE m # q
  <2>1. (Due(m) => Due(m)') /\ (Scheduled(m) => Scheduled(m)')
    BY <1>3, <1>7 DEF Due, Scheduled, q
  <2> QED
    BY <1>3, <1>4, <1>7, <2>1, KeptOn DEF KInv
<1> QED
  BY <1>6, <1>7

\* The two halves of panic_conn.
LEMMA PanicKept ==
  ASSUME KInv, NEW w \in Worker, PanicDrop(w) \/ PanicClear(w)
  PROVE  \A m \in Caller : Kept(m)'
<1>1. TypeOK
  BY DEF KInv, IInv
<1>2. wpc[w] \in {"panic", "purge"} /\ UNCHANGED <<lpc, handle>>
  BY DEF PanicDrop, PanicClear, loopVars
<1>3. \A v \in Worker : wpc[v] \in Busy => hold'[v] = hold[v] /\ wpc'[v] = wpc[v]
  BY <1>1, <1>2 DEF PanicDrop, PanicClear, Become, PutDown, TypeOK, Busy
<1>4. CASE PanicDrop(w)
  <2>1. DropConn(hold[w].conn) /\ hold[w].conn \in Conn
    BY <1>1, <1>2, <1>4, QueuedFrames DEF PanicDrop, KInv, IInv, Hands, Clearing
  <2>2. hold[w].conn \in Caller => ~Waits(hold[w].conn)
    BY <1>2 DEF KInv, IInv, Cleared, Clearing, Waits, Leaving
  <2> QED
    BY <1>2, <1>3, <2>1, <2>2, DropKept
<1>5. CASE PanicClear(w)
  <2> SUFFICES ASSUME NEW m \in Caller PROVE Kept(m)'
    OBVIOUS
  <2>1. /\ UNCHANGED <<ready, reply>>
        /\ m \in inFlight' => m \in inFlight
    BY <1>5 DEF PanicClear, ClearInFlight
  <2>2. (Due(m) => Due(m)') /\ (Scheduled(m) => Scheduled(m)')
    BY <1>3, <2>1 DEF Due, Scheduled, Busy
  <2> QED
    BY <1>2, <2>1, <2>2, KeptOn DEF KInv
<1> QED
  BY <1>4, <1>5

\* What the other steps of the workers and of the retire thread leave alone.
LEMMA OthersKept ==
  ASSUME KInv, UNCHANGED <<ready, inFlight, reply, lpc, handle>>,
         \A w \in Worker : wpc[w] \in Busy =>
           /\ hold'[w] = hold[w] /\ wpc'[w] \in Busy
           /\ wpc[w] \in {"load", "exec"} => wpc'[w] \in {"load", "exec"}
  PROVE  \A m \in Caller : Kept(m)'
BY HandsKept, KeptOn DEF KInv

LEMMA WorkerKept ==
  ASSUME KInv, NEW w \in Worker, WorkerStep(w)
  PROVE  \A m \in Caller : Kept(m)'
<1>1. TypeOK
  BY DEF KInv, IInv
<1>2. CASE LatchedClose(w)
  <2>1. Close /\ UNCHANGED <<lpc, handle, hold>> /\ wpc[w] = "shut" /\ Become(w, "off")
    BY <1>2 DEF LatchedClose, loopVars
  <2> QED
    BY <1>1, <2>1, CloseKept DEF Become, TypeOK, Busy
<1>3. CASE \/ BootOk(w) \/ BootFail(w) \/ LatchedExit(w) \/ BootPanic(w) \/ LeaveClosed(w)
           \/ FindClosed(w) \/ FindNothing(w) \/ WakeUp(w) \/ FallAsleep(w)
           \/ PoisonExit(w) \/ Reap(w) \/ RespawnCheck(w) \/ RespawnHire(w)
  <2>1. wpc[w] \notin Busy
    BY <1>3 DEF BootOk, BootFail, LatchedExit, BootPanic, LeaveClosed, FindClosed, FindNothing,
       WakeUp, FallAsleep, PoisonExit, Reap, RespawnCheck, RespawnHire, Busy
  <2>2. /\ UNCHANGED <<ready, inFlight, reply, lpc, handle>>
        /\ \A v \in Worker \ {w} : hold'[v] = hold[v] /\ wpc'[v] = wpc[v]
    BY <1>1, <1>3 DEF BootOk, BootFail, LatchedExit, BootPanic, LeaveClosed, FindClosed,
       FindNothing, WakeUp, FallAsleep, PoisonExit, Reap, RespawnCheck, RespawnHire, SpawnWorker,
       PullNone, PullWaits, schedulerVars, queueVars, loopVars, workerVars, Become, PutDown, TypeOK
  <2> QED
    BY <2>1, <2>2, OthersKept
<1>4. CASE LoadSession(w) \/ StoreSession(w)
  <2>1. /\ UNCHANGED <<ready, inFlight, reply, lpc, handle, hold>>
        /\ \A v \in Worker \ {w} : wpc'[v] = wpc[v]
        /\ \/ wpc[w] = "load" /\ wpc'[w] = "exec"
           \/ wpc[w] = "store" /\ wpc'[w] = "answer"
    BY <1>1, <1>4 DEF LoadSession, StoreSession, schedulerVars, queueVars, loopVars, Become, TypeOK
  <2>2. \A v \in Worker : wpc[v] \in Busy =>
          /\ wpc'[v] \in Busy
          /\ wpc[v] \in {"load", "exec"} => wpc'[v] \in {"load", "exec"}
    BY <2>1 DEF Busy
  <2> QED
    BY <2>1, <2>2, OthersKept
<1> QED
  BY <1>2, <1>3, <1>4, TakeKept, ExecuteKept, AnswerKept, PanicKept DEF WorkerStep

\* Whatever attach, detach, the retire thread, failing preloads and panicking workers do
\* to each other, the frame of a connection that attach took in is ready or in the hands
\* of a worker for as long as its fire waits: nobody waits behind a mark that panic_conn
\* or close left (comment on panic_conn).
THEOREM NothingForgotten == Spec => []NoFireIsForgotten
<1>1. Init => KInv
  BY InitHolds DEF Init, QueueInit, KInv, Kept
<1>2. KInv /\ [Next]_vars => KInv'
  <2> SUFFICES ASSUME KInv, [Next]_vars PROVE \A m \in Caller : Kept(m)'
    BY StepKeeps DEF KInv
  <2>1. ASSUME NEW l \in Caller, LoopStep(l) \/ ClientStep(l) PROVE \A m \in Caller : Kept(m)'
    <3>1. CASE DetachDrop(l)
      <4>1. /\ DropConn(handle[l]) /\ handle[l] \in {Zero, l} /\ Zero \notin Caller
            /\ handle[l] \in Conn /\ lpc[l] = "drop" /\ UNCHANGED <<handle, wpc, hold>>
            /\ lpc' = [lpc EXCEPT ![l] = "last"]
        BY <3>1, ConnAssumption DEF DetachDrop, Goto, workerVars, KInv, IInv, Loops, TypeOK
      <4>2. /\ handle[l] \in Caller => ~Waits(handle[l])
            /\ \A m \in Caller : \/ lpc'[m] = lpc[m]
                                 \/ lpc[m] \in Leaving /\ lpc'[m] \in Leaving
        BY <4>1 DEF Waits, Leaving, KInv, IInv, TypeOK
      <4> QED
        BY <4>1, <4>2, DropKept
    <3> QED
      BY <2>1, <3>1, IdleTaskKept, HireKept, FireKept DEF LoopStep
  <2>2. CASE RetireStep
    <3>1. CASE RetireClose
      BY <3>1, CloseKept DEF RetireClose, loopVars, workerVars
    <3>2. CASE RetireCheck \/ RetireClear
      BY <3>2, OthersKept DEF RetireCheck, RetireClear, schedulerVars, queueVars, loopVars,
                              workerVars
    <3> QED
      BY <2>2, <3>1, <3>2 DEF RetireStep
  <2>3. CASE UNCHANGED vars
    BY <2>3, OthersKept DEF vars, queueVars, loopVars, workerVars
  <2> QED
    BY <2>1, <2>2, <2>3, WorkerKept DEF Next
<1>3. KInv => NoFireIsForgotten
  BY DEF KInv, Kept, NoFireIsForgotten
<1> QED
  BY <1>1, <1>2, <1>3, PTL DEF Spec

-----------------------------------------------------------------------------
(* The refinement. *)

\* The operators of the queue are the same in both modules.
LEMMA SameOperations ==
  /\ Scheduler!QueueInit <=> QueueInit
  /\ \A l \in Caller, c \in Conn : Scheduler!Submit(l, c) <=> Submit(l, c)
  /\ Scheduler!PullFrame <=> PullFrame
  /\ Scheduler!PullNone <=> PullNone
  /\ \A w \in Worker : Scheduler!PullWaits(w) <=> PullWaits(w)
  /\ \A w \in Worker : Scheduler!Awaits(w) <=> Awaits(w)
  /\ \A w \in Worker : Scheduler!Awoken(w) <=> Awoken(w)
  /\ \A c \in Conn : Scheduler!Complete(c) <=> Complete(c)
  /\ \A c \in Conn : Scheduler!DropConn(c) <=> DropConn(c)
  /\ \A c \in Conn : Scheduler!ClearInFlight(c) <=> ClearInFlight(c)
  /\ \A S, r : Scheduler!Resolve(S, r) <=> Resolve(S, r)
  /\ Scheduler!Close <=> Close
  /\ Scheduler!Reopen <=> Reopen
<1> USE DEF queueVars, notifyVars, Scheduler!queueVars, Scheduler!notifyVars
<1>1. \A S, r : Scheduler!Resolve(S, r) <=> Resolve(S, r)
  BY DEF Resolve, Scheduler!Resolve
<1>2. \A f : Scheduler!Enqueue(f) <=> Enqueue(f)
  BY DEF Enqueue, Scheduler!Enqueue
<1>3. (Scheduler!NotifyOne <=> NotifyOne) /\ (Scheduler!NotifyAll <=> NotifyAll)
  BY DEF NotifyOne, Scheduler!NotifyOne, NotifyAll, Scheduler!NotifyAll
<1>4. \A l \in Caller, c \in Conn : Scheduler!Submit(l, c) <=> Submit(l, c)
  BY <1>1, <1>2, <1>3 DEF Submit, Scheduler!Submit
<1>5. Scheduler!QueueInit <=> QueueInit
  BY DEF QueueInit, Scheduler!QueueInit
<1>6. /\ Scheduler!PullFrame <=> PullFrame
      /\ Scheduler!PullNone <=> PullNone
      /\ Scheduler!Reopen <=> Reopen
      /\ \A w \in Worker : Scheduler!PullWaits(w) <=> PullWaits(w)
      /\ \A w \in Worker : Scheduler!Awaits(w) <=> Awaits(w)
      /\ \A w \in Worker : Scheduler!Awoken(w) <=> Awoken(w)
  BY DEF PullFrame, PullNone, PullWaits, Awaits, Awoken, Reopen, Scheduler!PullFrame,
         Scheduler!PullNone, Scheduler!PullWaits, Scheduler!Awaits, Scheduler!Awoken,
         Scheduler!Reopen
<1>7. \A c : Scheduler!ReleaseHead(c) <=> ReleaseHead(c)
  BY <1>1 DEF ReleaseHead, Scheduler!ReleaseHead
<1>8. \A c \in Conn : Scheduler!Complete(c) <=> Complete(c)
  BY <1>3, <1>7 DEF Complete, Scheduler!Complete
<1>9. \A s : Scheduler!CallsIn(s) = CallsIn(s)
  BY DEF CallsIn, Scheduler!CallsIn
<1>10. /\ \A c \in Conn : Scheduler!DropConn(c) <=> DropConn(c)
       /\ \A c \in Conn : Scheduler!ClearInFlight(c) <=> ClearInFlight(c)
  BY <1>1, <1>9 DEF DropConn, ClearInFlight, Scheduler!DropConn, Scheduler!ClearInFlight
<1>11. Scheduler!Close <=> Close
  BY <1>3 DEF Close, Scheduler!Close, CallsIn, Scheduler!CallsIn, Resolve, Scheduler!Resolve
<1> QED
  BY <1>1, <1>4, <1>5, <1>6, <1>8, <1>10, <1>11

LEMMA StageOf ==
  /\ \A p \in {"pull", "await", "panic", "purge"} : StageAt(p) = p
  /\ \A p \in {"load", "exec"} : StageAt(p) = "exec"
  /\ \A p \in {"store", "answer"} : StageAt(p) = "answer"
  /\ \A p \in WorkerPc \ {"pull", "await", "panic", "purge", "load", "exec", "store",
                          "answer"} : StageAt(p) = "off"
BY DEF StageAt, WorkerPc

\* Where a worker is in the pool says where it is in the scheduler.
LEMMA StageMoves ==
  ASSUME TypeOK, NEW w \in Worker, NEW p, Become(w, p)
  PROVE  /\ Scheduler!Become(w, StageAt(p))
         /\ StageAt(p) = StageAt(wpc[w]) => UNCHANGED Stages
<1>1. Stages' = [Stages EXCEPT ![w] = StageAt(p)]
  BY DEF Become, Stages, TypeOK
<1>2. StageAt(p) = StageAt(wpc[w]) => [Stages EXCEPT ![w] = StageAt(p)] = Stages
  BY DEF Stages
<1> QED
  BY <1>1, <1>2 DEF Scheduler!Become

LEMMA Stutters ==
  ASSUME UNCHANGED <<queueVars, notifyVars, reply, Stages, hold>>
  PROVE  UNCHANGED Scheduler!vars
BY DEF Scheduler!vars, Scheduler!queueVars, Scheduler!notifyVars, queueVars, notifyVars

\* A task fires with an empty channel and never between the halves of panic_conn for
\* its connection: its task has the answer of the frame that panicked, and leaves.
LEMMA FireMaps ==
  ASSUME IInv, NEW l \in Caller, FireEvent(l)
  PROVE  Scheduler!Fire(l, handle[l]) /\ handle[l] \in Conn
<1>1. /\ lpc[l] = "fire" /\ Submit(l, handle[l]) /\ UNCHANGED <<wpc, hold>>
      /\ handle[l] \in {Zero, l} /\ handle[l] \in Conn /\ reply[l] = "idle"
  BY ConnAssumption DEF FireEvent, workerVars, IInv, Loops
<1>2. UNCHANGED <<Stages, hold>>
  BY <1>1 DEF Stages
<1>3. \A w \in Worker : Stages[w] = "purge" => wpc[w] = "purge"
  <2> SUFFICES ASSUME NEW w \in Worker, Stages[w] = "purge" PROVE wpc[w] = "purge"
    OBVIOUS
  <2>1. StageAt(wpc[w]) = "purge" /\ wpc[w] \in WorkerPc
    BY DEF Stages, IInv, TypeOK
  <2> QED
    BY <2>1 DEF StageAt
<1>4. ~Scheduler!BetweenHalves(handle[l])
  BY <1>1, <1>3 DEF Scheduler!BetweenHalves, IInv, Cleared, Clearing, Leaving
<1> QED
  BY <1>1, <1>2, <1>4, SameOperations DEF Scheduler!Fire, Scheduler!Submits

LEMMA LoopMaps ==
  ASSUME IInv, NEW l \in Caller, LoopStep(l) \/ ClientStep(l)
  PROVE  FireEvent(l) \/ Scheduler!Next \/ UNCHANGED Scheduler!vars
<1>1. CASE FireEvent(l)
  BY <1>1
<1>2. CASE AttachOpen(l)
  <2>1. UNCHANGED <<Stages, hold>>
    BY <1>2 DEF AttachOpen, workerVars, Stages
  <2>2. Reopen \/ UNCHANGED <<queueVars, notifyVars, reply>>
    BY <1>2 DEF AttachOpen, schedulerVars
  <2> QED
    BY <2>1, <2>2, SameOperations, Stutters DEF Scheduler!Next, Scheduler!Revive
<1>3. CASE Answered(l)
  <2>1. UNCHANGED <<Stages, hold>>
    BY <1>3 DEF Answered, workerVars, Stages
  <2>2. Scheduler!Receive(l)
    BY <1>3, <2>1 DEF Answered, Scheduler!Receive, Result, Scheduler!Result, queueVars,
                      notifyVars, Scheduler!queueVars, Scheduler!notifyVars
  <2> QED
    BY <2>2 DEF Scheduler!Next
<1>4. CASE DetachDrop(l)
  <2>1. UNCHANGED <<Stages, hold>> /\ DropConn(handle[l]) /\ handle[l] \in Conn
    BY <1>4 DEF DetachDrop, workerVars, Stages, IInv, TypeOK
  <2>2. Scheduler!Detach(handle[l])
    BY <2>1, SameOperations DEF Scheduler!Detach
  <2> QED
    BY <2>1, <2>2 DEF Scheduler!Next
<1>5. CASE AttachHire(l)
  <2>1. PICK w \in Worker : wpc[w] = "off" /\ SpawnWorker(w)
    BY <1>5 DEF AttachHire
  <2>2. hold' = hold /\ Become(w, "boot")
    BY <2>1 DEF SpawnWorker, PutDown, IInv, Hands, Busy, Clearing, TypeOK
  <2>3. StageAt("boot") = StageAt(wpc[w])
    BY <2>1, StageOf DEF WorkerPc
  <2>4. UNCHANGED Stages
    BY <2>2, <2>3, StageMoves DEF IInv
  <2> QED
    BY <1>5, <2>2, <2>4, Stutters DEF AttachHire, schedulerVars
<1>6. CASE \/ AttachCheck(l) \/ AttachRegister(l) \/ DetachRemove(l) \/ DetachLast(l)
           \/ ClientStep(l)
  <2>1. UNCHANGED <<schedulerVars, workerVars>>
    BY <1>6 DEF AttachCheck, AttachRegister, DetachRemove, DetachLast, ClientStep,
                ReadMessage, ReadEnd
  <2> QED
    BY <2>1, Stutters DEF schedulerVars, workerVars, Stages
<1> QED
  BY <1>1, <1>2, <1>3, <1>4, <1>5, <1>6 DEF LoopStep

\* A close of a closed pool changes nothing.
LEMMA CloseMaps ==
  ASSUME IInv, Close, UNCHANGED <<Stages, hold, handle, lpc>>,
         \A w \in Worker : wpc'[w] \in Busy => wpc[w] \in Busy
  PROVE  Scheduler!Next \/ UNCHANGED Scheduler!vars
<1>1. closed => UNCHANGED <<queueVars, notifyVars, reply>>
  BY FramesClosed DEF IInv
<1>2. CASE closed
  BY <1>1, <1>2, Stutters
<1>3. CASE ~closed
  BY <1>3, SameOperations DEF Scheduler!Next, Scheduler!Retire
<1> QED
  BY <1>2, <1>3

LEMMA RetireMaps ==
  ASSUME IInv, RetireStep
  PROVE  Scheduler!Next \/ UNCHANGED Scheduler!vars
<1>1. CASE RetireClose
  BY <1>1, CloseMaps DEF RetireClose, loopVars, workerVars, Stages
<1>2. CASE RetireCheck \/ RetireClear
  BY <1>2, Stutters DEF RetireCheck, RetireClear, schedulerVars, workerVars, Stages
<1> QED
  BY <1>1, <1>2 DEF RetireStep

LEMMA WorkerMaps ==
  ASSUME IInv, NEW w \in Worker, WorkerStep(w)
  PROVE  Scheduler!Next \/ UNCHANGED Scheduler!vars
<1>1. TypeOK /\ QueueTypeOK /\ Hands /\ Stages[w] = StageAt(wpc[w])
  BY DEF IInv, TypeOK, Stages
<1> DEFINE Moves(p) == Scheduler!Become(w, StageAt(p))
<1>2. \A p : Become(w, p) => Moves(p) /\ (StageAt(p) = StageAt(wpc[w]) => UNCHANGED Stages)
  BY <1>1, StageMoves
<1> HIDE DEF Moves
<1>3. ASSUME Scheduler!WorkerNext(w) PROVE Scheduler!Next
  BY <1>3 DEF Scheduler!Next
<1>4. CASE \/ BootFail(w) \/ LatchedExit(w) \/ BootPanic(w) \/ LeaveClosed(w)
           \/ LoadSession(w) \/ StoreSession(w) \/ PoisonExit(w) \/ Reap(w)
           \/ RespawnCheck(w)
  <2>1. UNCHANGED <<schedulerVars, hold>>
    BY <1>4 DEF BootFail, LatchedExit, BootPanic, LeaveClosed, LoadSession, StoreSession,
                PoisonExit, Reap, RespawnCheck
  <2>2. PICK p : Become(w, p) /\ StageAt(p) = StageAt(wpc[w])
    BY <1>4, StageOf DEF BootFail, LatchedExit, BootPanic, LeaveClosed, LoadSession,
                         StoreSession, PoisonExit, Reap, RespawnCheck, WorkerPc
  <2>3. UNCHANGED Stages
    BY <1>2, <2>2
  <2> QED
    BY <2>1, <2>3, Stutters DEF schedulerVars
<1>5. CASE RespawnHire(w)
  <2>1. hold' = hold /\ Become(w, "boot") /\ UNCHANGED schedulerVars
    BY <1>1, <1>5 DEF RespawnHire, SpawnWorker, PutDown, Hands, Busy, Clearing, TypeOK
  <2>2. StageAt("boot") = StageAt(wpc[w])
    BY <1>5, StageOf DEF RespawnHire, WorkerPc
  <2> QED
    BY <1>2, <2>1, <2>2, Stutters DEF schedulerVars
<1>6. CASE LatchedClose(w)
  <2>1. /\ wpc[w] = "shut" /\ Become(w, "off") /\ Close
        /\ UNCHANGED <<hold, handle, lpc>>
    BY <1>6 DEF LatchedClose, loopVars
  <2>2. UNCHANGED Stages
    BY <1>2, <2>1, StageOf DEF WorkerPc
  <2>3. \A v \in Worker : wpc'[v] \in Busy => wpc[v] \in Busy
    BY <1>1, <2>1 DEF Become, TypeOK, Busy
  <2> QED
    BY <2>1, <2>2, <2>3, CloseMaps
<1>7. CASE BootOk(w)
  <2>1. Stages[w] = "off" /\ Scheduler!Become(w, "pull")
    BY <1>1, <1>2, <1>7, StageOf DEF BootOk, WorkerPc, Moves
  <2> QED
    BY <1>3, <1>7, <2>1 DEF BootOk, schedulerVars, queueVars, notifyVars, Scheduler!WorkerNext,
                            Scheduler!Spawn, Scheduler!queueVars, Scheduler!notifyVars
<1>8. CASE Take(w)
  <2>1. Stages[w] = "pull" /\ Scheduler!Become(w, "exec")
    BY <1>1, <1>2, <1>8, StageOf DEF Take, Moves
  <2> QED
    BY <1>3, <1>8, <2>1, SameOperations DEF Take, Scheduler!WorkerNext, Scheduler!Take
<1>9. CASE FindClosed(w)
  <2>1. Stages[w] = "pull" /\ Scheduler!Become(w, "off")
    BY <1>1, <1>2, <1>9, StageOf DEF FindClosed, WorkerPc, Moves
  <2> QED
    BY <1>3, <1>9, <2>1, SameOperations DEF FindClosed, Scheduler!WorkerNext, Scheduler!Leave
<1>10. CASE FindNothing(w)
  <2>1. Stages[w] = "pull" /\ Scheduler!Become(w, "await")
    BY <1>1, <1>2, <1>10, StageOf DEF FindNothing, Moves
  <2> QED
    BY <1>3, <1>10, <2>1, SameOperations
    DEF FindNothing, Scheduler!WorkerNext, Scheduler!FindNothing
<1>11. CASE FallAsleep(w)
  <2>1. Stages[w] = "await" /\ UNCHANGED Stages
    BY <1>1, <1>11, StageOf DEF FallAsleep, workerVars, Stages
  <2> QED
    BY <1>3, <1>11, <2>1, SameOperations
    DEF FallAsleep, workerVars, queueVars, Scheduler!queueVars, Scheduler!WorkerNext,
        Scheduler!FallAsleep
<1>12. CASE WakeUp(w)
  <2>1. Stages[w] = "await" /\ Scheduler!Become(w, "pull")
    BY <1>1, <1>2, <1>12, StageOf DEF WakeUp, Moves
  <2> QED
    BY <1>3, <1>12, <2>1, SameOperations
    DEF WakeUp, queueVars, Scheduler!queueVars, Scheduler!WorkerNext, Scheduler!WakeUp
<1>13. CASE Execute(w)
  <2>1. wpc[w] = "exec" /\ Complete(hold[w].conn) /\ UNCHANGED hold /\ hold[w].conn \in Conn
    BY <1>1, <1>13, QueuedFrames DEF Execute, Hands, Busy
  <2>2. Scheduler!Become(w, "answer")
    BY <1>2, <1>13, StageOf DEF Execute, Moves
  <2>3. Stages[w] = "exec"
    BY <1>1, <2>1, StageOf
  <2> QED
    BY <1>3, <2>1, <2>2, <2>3, SameOperations DEF Scheduler!WorkerNext, Scheduler!Finish
<1>14. CASE AnswerFrame(w)
  <2>1. /\ wpc[w] = "answer" /\ out[w] \in {"ok", "core", "timeout", "oom"}
        /\ Scheduler!Resolve({hold[w].call}, ReplyTo(out[w])) /\ Scheduler!PutDown(w)
        /\ UNCHANGED <<queueVars, notifyVars>>
    BY <1>1, <1>14, SameOperations DEF AnswerFrame, TypeOK, PutDown, Scheduler!PutDown
  <2>2. Stages[w] = "answer"
    BY <1>1, <2>1, StageOf
  <2> USE DEF Scheduler!Answer, queueVars, notifyVars, Scheduler!queueVars, Scheduler!notifyVars
  <2>3. CASE out[w] \in Fatal
    <3>1. Scheduler!Become(w, "off")
      BY <1>2, <1>14, <2>3, StageOf DEF AnswerFrame, Moves, WorkerPc
    <3>2. ReplyTo(out[w]) \in {"timeout", "core"}
      BY <2>3 DEF Fatal, ReplyTo
    <3> QED
      BY <1>3, <2>1, <2>2, <3>1, <3>2 DEF Scheduler!WorkerNext, Scheduler!AnswerAny
  <2>4. CASE out[w] \notin Fatal
    <3>1. Scheduler!Become(w, "pull")
      BY <1>2, <1>14, <2>4, StageOf DEF AnswerFrame, Moves
    <3>2. ReplyTo(out[w]) \in {"ok", "core"}
      BY <2>1, <2>4 DEF Fatal, ReplyTo
    <3> QED
      BY <1>3, <2>1, <2>2, <3>1, <3>2 DEF Scheduler!WorkerNext, Scheduler!AnswerAny
  <2> QED
    BY <2>3, <2>4
<1>15. CASE FramePanic(w)
  <2>1. Stages[w] = "exec" /\ Scheduler!Resolve({hold[w].call}, "closed")
    BY <1>1, <1>15, StageOf, SameOperations DEF FramePanic
  <2> USE DEF FramePanic, queueVars, notifyVars, Scheduler!queueVars, Scheduler!notifyVars
  <2>2. CASE hold[w].conn # Zero
    <3>1. Scheduler!Become(w, "panic")
      BY <1>2, <1>15, <2>2, StageOf DEF Moves
    <3> QED
      BY <1>3, <1>15, <2>1, <2>2, <3>1 DEF Scheduler!WorkerNext, Scheduler!Panic
  <2>3. CASE hold[w].conn = Zero
    <3>1. Scheduler!Become(w, "off") /\ Scheduler!PutDown(w)
      BY <1>2, <1>15, <2>3, StageOf DEF Moves, WorkerPc, PutDown, Scheduler!PutDown
    <3> QED
      BY <1>3, <1>15, <2>1, <2>3, <3>1 DEF Scheduler!WorkerNext, Scheduler!PanicUncleared
  <2> QED
    BY <2>2, <2>3
<1>16. CASE PanicDrop(w)
  <2>1. wpc[w] = "panic" /\ DropConn(hold[w].conn) /\ UNCHANGED hold /\ hold[w].conn \in Conn
    BY <1>1, <1>16, QueuedFrames DEF PanicDrop, Hands, Busy, Clearing
  <2>2. Stages[w] = "panic" /\ Scheduler!Become(w, "purge")
    BY <1>1, <1>2, <1>16, StageOf DEF PanicDrop, Moves
  <2> QED
    BY <1>3, <2>1, <2>2, SameOperations DEF Scheduler!WorkerNext, Scheduler!PanicDrop
<1>17. CASE PanicClear(w)
  <2>1. /\ wpc[w] = "purge" /\ ClearInFlight(hold[w].conn) /\ Scheduler!PutDown(w)
        /\ hold[w].conn \in Conn
    BY <1>1, <1>17, QueuedFrames
    DEF PanicClear, Hands, Busy, Clearing, PutDown, Scheduler!PutDown
  <2>2. Stages[w] = "purge" /\ Scheduler!Become(w, "off")
    BY <1>1, <1>2, <1>17, StageOf DEF PanicClear, Moves, WorkerPc
  <2> QED
    BY <1>3, <2>1, <2>2, SameOperations DEF Scheduler!WorkerNext, Scheduler!PanicClear
<1> QED
  BY <1>4, <1>5, <1>6, <1>7, <1>8, <1>9, <1>10, <1>11, <1>12, <1>13, <1>14, <1>15, <1>16,
     <1>17 DEF WorkerStep

LEMMA InitMaps == Init => Scheduler!Init
<1> SUFFICES ASSUME Init PROVE Scheduler!Init
  OBVIOUS
<1>1. Stages = [w \in Worker |-> "off"]
  BY StageOf DEF Init, Stages, WorkerPc
<1> QED
  BY <1>1, SameOperations DEF Init, Scheduler!Init

LEMMA StepMaps == IInv /\ [Next]_vars => [Scheduler!Next]_(Scheduler!vars)
<1> SUFFICES ASSUME IInv, [Next]_vars
             PROVE  Scheduler!Next \/ UNCHANGED Scheduler!vars
  OBVIOUS
<1>1. CASE \E l \in Caller : FireEvent(l)
  BY <1>1, FireMaps DEF Scheduler!Next
<1>2. CASE Next /\ ~\E l \in Caller : FireEvent(l)
  BY <1>2, LoopMaps, WorkerMaps, RetireMaps DEF Next
<1>3. CASE UNCHANGED vars
  BY <1>3, Stutters DEF vars, workerVars, Stages
<1> QED
  BY <1>1, <1>2, <1>3

\* The pool drives its scheduler as FrameScheduler lets it be driven, whatever preloads
\* fail and frames panic: nobody submits for a connection while panic_conn clears up
\* after it (panic_conn, frame_loop), not even for the id 0, which panic_conn never sees.
THEOREM Refines == Spec => UsesScheduler
BY InitMaps, StepMaps, Inductive, PTL DEF Spec, UsesScheduler, Scheduler!Spec

-----------------------------------------------------------------------------
(***************************************************************************)
(* What FrameSchedulerProofs proves of the scheduler, carried over to the  *)
(* pool.                                                                   *)
(***************************************************************************)

\* The scheduler of the proofs, with none of the connections of Sockets around it.
Proved == INSTANCE FrameSchedulerProofs WITH
  stage <- Stages, subject <- "scheduler", Second <- Zero, NoSocket <- Zero,
  Socket <- {}, Pool <- {}, Limits <- {}, OutCap <- 0, MaxInbox <- 0,
  limit <- 0, open <- 0, socket <- <<>>, ids <- <<>>, members <- <<>>, topic <- {}

LEMMA ProvedAssumptions ==
  Proved!NoFrameAssumption /\ Proved!WorkerAssumption /\ Proved!SocketAssumption
<1>1. NoFrame \notin Proved!Frame
  BY NoFrameAssumption DEF Frame, Proved!Frame
<1>2. Proved!IsFiniteSet({})
  <2>1. <<>> \in Seq({})
    OBVIOUS
  <2> QED
    BY <2>1 DEF Proved!IsFiniteSet
<1>3. {} \subseteq Nat /\ 0 \in Nat /\ Zero \notin {}
  OBVIOUS
<1> QED
  BY <1>1, <1>2, <1>3, WorkerAssumption

LEMMA SameQueue ==
  /\ Proved!Init <=> Scheduler!Init
  /\ UNCHANGED Proved!vars <=> UNCHANGED Scheduler!vars
BY DEF Proved!Init, Scheduler!Init, Proved!QueueInit, Scheduler!QueueInit, Proved!vars,
       Scheduler!vars, Proved!queueVars, Scheduler!queueVars, Proved!notifyVars,
       Scheduler!notifyVars

LEMMA SameSteps == Proved!Next <=> Scheduler!Next
BY DEF Proved!queueVars, Scheduler!queueVars, Proved!notifyVars, Scheduler!notifyVars,
       Proved!Resolve, Scheduler!Resolve, Proved!Enqueue, Scheduler!Enqueue,
       Proved!NotifyOne, Scheduler!NotifyOne, Proved!NotifyAll, Scheduler!NotifyAll,
       Proved!Submit, Scheduler!Submit, Proved!PullFrame, Scheduler!PullFrame,
       Proved!PullNone, Scheduler!PullNone, Proved!PullWaits, Scheduler!PullWaits,
       Proved!Awaits, Scheduler!Awaits, Proved!Awoken, Scheduler!Awoken,
       Proved!ReleaseHead, Scheduler!ReleaseHead, Proved!Complete, Scheduler!Complete,
       Proved!CallsIn, Scheduler!CallsIn, Proved!DropConn, Scheduler!DropConn,
       Proved!ClearInFlight, Scheduler!ClearInFlight, Proved!Close, Scheduler!Close,
       Proved!Reopen, Scheduler!Reopen, Proved!Result, Scheduler!Result, Proved!Become,
       Scheduler!Become, Proved!PutDown, Scheduler!PutDown, Proved!Spawn,
       Scheduler!Spawn, Proved!Take, Scheduler!Take, Proved!Leave, Scheduler!Leave,
       Proved!FindNothing, Scheduler!FindNothing, Proved!FallAsleep,
       Scheduler!FallAsleep, Proved!WakeUp, Scheduler!WakeUp, Proved!Finish,
       Scheduler!Finish, Proved!AnswerAny, Scheduler!AnswerAny, Proved!Answer,
       Scheduler!Answer, Proved!Panic, Scheduler!Panic, Proved!PanicUncleared,
       Scheduler!PanicUncleared, Proved!PanicDrop,
       Scheduler!PanicDrop, Proved!PanicClear, Scheduler!PanicClear, Proved!WorkerNext,
       Scheduler!WorkerNext, Proved!BetweenHalves, Scheduler!BetweenHalves,
       Proved!Submits, Scheduler!Submits, Proved!Fire, Scheduler!Fire, Proved!Receive,
       Scheduler!Receive, Proved!Detach, Scheduler!Detach, Proved!Retire,
       Scheduler!Retire, Proved!Revive, Scheduler!Revive, Proved!Next, Scheduler!Next

LEMMA RefinesProved == Spec => Proved!Spec
<1>1. [Scheduler!Next]_(Scheduler!vars) => [Proved!Next]_(Proved!vars)
  BY SameQueue, SameSteps
<1> QED
  BY <1>1, SameQueue, Refines, PTL DEF Proved!Spec, UsesScheduler, Scheduler!Spec

\* Two workers of a pool are never inside handlers of one connection, not even of the id
\* that connections share which attach turned away (RoutePool::worker_main).
THEOREM PoolIsSerial == Spec => []Scheduler!PerConnSerial
<1>1. Proved!Spec => []Proved!PerConnSerial
  BY ProvedAssumptions, Proved!Serial
<1>2. Proved!PerConnSerial => Scheduler!PerConnSerial
  BY DEF Proved!PerConnSerial, Scheduler!PerConnSerial
<1> QED
  BY <1>1, <1>2, RefinesProved, PTL

\* A pool that retired, or whose preload failed, has nothing queued (Scheduler::close).
THEOREM PoolDrains == Spec => []Scheduler!ClosedIsDrained
<1>1. Proved!Spec => []Proved!ClosedIsDrained
  BY ProvedAssumptions, Proved!Drained
<1>2. Proved!ClosedIsDrained => Scheduler!ClosedIsDrained
  BY DEF Proved!ClosedIsDrained, Scheduler!ClosedIsDrained
<1> QED
  BY <1>1, <1>2, RefinesProved, PTL

\* No worker thread of the pool is poisoned or unwinding.
NoneIsLost == \A w \in Worker : wpc[w] \notin {"poison", "panic", "reap"}

\* Such a pool keeps the workers that its scheduler has.
LEMMA KeepsThem ==
  ASSUME IInv, NoneIsLost, NoneIsLost', [Next]_vars
  PROVE  [Proved!KeepsWorkers]_(Proved!vars)
<1>1. TypeOK /\ wpc \in [Worker -> WorkerPc]
  BY DEF IInv, TypeOK
<1> SUFFICES ASSUME NEW w \in Worker
             PROVE  /\ Stages'[w] # "panic"
                    /\ Stages'[w] = "off" => Stages[w] \in {"off", "pull"}
  BY DEF Proved!KeepsWorkers
<1>2. Stages[w] = StageAt(wpc[w]) /\ Stages'[w] = StageAt(wpc'[w])
  BY DEF Stages
<1>3. CASE wpc'[w] = wpc[w]
  <2>1. wpc[w] \in WorkerPc \ {"panic"}
    BY <1>1 DEF NoneIsLost
  <2>2. StageAt(wpc[w]) # "panic"
    BY <2>1, StageOf DEF WorkerPc
  <2> QED
    BY <1>2, <1>3, <2>2
<1>4. CASE WorkerStep(w)
  <2>1. CASE \/ Take(w) \/ FindNothing(w) \/ WakeUp(w) \/ BootOk(w) \/ LoadSession(w)
             \/ Execute(w) \/ StoreSession(w) \/ AnswerFrame(w)
    <3>1. wpc'[w] \in {"pull", "load", "exec", "store", "answer", "await"}
      BY <1>1, <2>1 DEF Take, FindNothing, WakeUp, BootOk, LoadSession, Execute, StoreSession,
                        AnswerFrame, Become, NoneIsLost
    <3> QED
      BY <1>2, <3>1, StageOf
  <2>2. CASE \/ BootFail(w) \/ LatchedExit(w) \/ LatchedClose(w) \/ FindClosed(w)
             \/ LeaveClosed(w) \/ PoisonExit(w) \/ Reap(w) \/ RespawnCheck(w)
             \/ RespawnHire(w)
    <3>1. /\ wpc'[w] \in {"latched", "shut", "off", "leave", "respawn", "hire", "boot"}
          /\ wpc[w] \in {"boot", "latched", "shut", "pull", "leave", "poison", "reap",
                         "respawn", "hire"}
      BY <1>1, <2>2 DEF BootFail, LatchedExit, LatchedClose, FindClosed, LeaveClosed, PoisonExit,
                        Reap, RespawnCheck, RespawnHire, SpawnWorker, Become
    <3> QED
      BY <1>2, <3>1, StageOf DEF WorkerPc
  <2>3. CASE FallAsleep(w)
    BY <1>3, <2>3 DEF FallAsleep, workerVars
  <2>4. ~BootPanic(w) /\ ~FramePanic(w) /\ ~PanicDrop(w) /\ ~PanicClear(w)
    BY <1>1 DEF BootPanic, FramePanic, PanicDrop, PanicClear, Become, NoneIsLost
  <2> QED
    BY <1>4, <2>1, <2>2, <2>3, <2>4 DEF WorkerStep
<1>5. CASE wpc[w] = "off" /\ wpc'[w] = "boot"
  BY <1>2, <1>5, StageOf DEF WorkerPc
<1>6. ASSUME NEW v \in Worker, WorkerStep(v), v # w
      PROVE  wpc'[w] = wpc[w]
  BY <1>1, <1>6 DEF WorkerStep, BootOk, BootFail, LatchedExit, LatchedClose, BootPanic, Take,
    FindClosed, FindNothing, FallAsleep, WakeUp, LeaveClosed, LoadSession, Execute,
    StoreSession, AnswerFrame, PoisonExit, FramePanic, PanicDrop, PanicClear, Reap,
    RespawnCheck, RespawnHire, SpawnWorker, Become, workerVars
<1>7. ASSUME NEW l \in Caller, LoopStep(l) \/ ClientStep(l)
      PROVE  wpc'[w] = wpc[w] \/ (wpc[w] = "off" /\ wpc'[w] = "boot")
  BY <1>1, <1>7 DEF LoopStep, ClientStep, AttachCheck, AttachOpen, AttachRegister, AttachHire,
    FireEvent, Answered, ReadMessage, ReadEnd, DetachRemove, DetachDrop, DetachLast,
    SpawnWorker, Become, workerVars
<1>8. CASE RetireStep \/ UNCHANGED vars
  BY <1>3, <1>8 DEF RetireStep, RetireCheck, RetireClose, RetireClear, workerVars, vars
<1> QED
  BY <1>3, <1>4, <1>5, <1>6, <1>7, <1>8 DEF Next

\* As long as none of its workers is lost, a pool has no ready frame before sleeping workers
\* only: while one sleeps, another that has a thread and is past its preload is awake
\* (Scheduler::pull; a failing preload counts as no loss, it closes the pool).
THEOREM PoolNotices == Spec /\ []NoneIsLost => []Scheduler!ReadyIsSeen
<1>1. IInv /\ NoneIsLost /\ NoneIsLost' /\ [Next]_vars => [Proved!KeepsWorkers]_(Proved!vars)
  BY KeepsThem
<1>2. Spec /\ []NoneIsLost => [][Proved!KeepsWorkers]_(Proved!vars)
  BY <1>1, Inductive, PTL DEF Spec
<1>3. Proved!Spec /\ [][Proved!KeepsWorkers]_(Proved!vars) => []Proved!ReadyIsSeen
  BY ProvedAssumptions, Proved!Seen
<1>4. Proved!ReadyIsSeen => Scheduler!ReadyIsSeen
  BY DEF Proved!ReadyIsSeen, Scheduler!ReadyIsSeen, Proved!Asleep, Scheduler!Asleep
<1> QED
  BY <1>2, <1>3, <1>4, RefinesProved, PTL

\* A frame of a pool is held back only behind a mark (Scheduler::submit, complete), also
\* of the id 0, and whatever panics.
THEOREM PoolHoldsBack == Spec => []Scheduler!HeldBackOnlyInFlight
<1>1. Proved!Spec => []Proved!HeldBackOnlyInFlight
  BY ProvedAssumptions, Proved!HeldBack
<1>2. Proved!HeldBackOnlyInFlight => Scheduler!HeldBackOnlyInFlight
  BY DEF Proved!HeldBackOnlyInFlight, Scheduler!HeldBackOnlyInFlight
<1> QED
  BY <1>1, <1>2, RefinesProved, PTL

\* The frames of a connection of a pool are executed one at a time, in the order fire was
\* called, and answered with their own outcome: the pool implements the mailboxes of
\* ConnMailbox (Proved!KeepsMailboxes is KeepsMailboxes of the scheduler in the pool).
THEOREM PoolKeepsMailboxes == Spec => Proved!KeepsMailboxes
<1>1. Proved!Spec => Proved!KeepsMailboxes
  BY ProvedAssumptions, Proved!Mailboxes
<1> QED
  BY <1>1, RefinesProved
=============================================================================
