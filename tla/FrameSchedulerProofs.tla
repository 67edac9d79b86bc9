------------------------ MODULE FrameSchedulerProofs ------------------------
(***************************************************************************)
(* Type correctness and safety of FrameScheduler for any sets of           *)
(* connections, callers and workers; the refinement of ConnMailbox; and    *)
(* the places, ids and rooms of Sockets for any limits and any client.     *)
(*                                                                         *)
(* In this order: what the operations on the queue do; the mark of a       *)
(* connection has one owner, so one worker executes it; no wake-up is      *)
(* lost; a call is at one place at a time, so every step is one of the     *)
(* mailboxes or none; the connections around the scheduler: their places,  *)
(* ids and rooms, and that each can go on or waits for somebody who can.   *)
(* The invariants of the scheduler are also proved of HeedlessSpec, for    *)
(* callers who submit at any time: RoutePool builds on that.               *)
(***************************************************************************)
EXTENDS MCFrameScheduler, SequenceTheorems, FiniteSetTheorems, TLAPS

-----------------------------------------------------------------------------
\* What appending to and taking from a sequence do to its elements.
LEMMA AppendElements ==
  ASSUME NEW S, NEW s \in Seq(S), NEW e \in S
  PROVE  /\ DOMAIN Append(s, e) = DOMAIN s \cup {Len(s) + 1}
         /\ Len(s) + 1 \notin DOMAIN s
         /\ \A i \in DOMAIN s : Append(s, e)[i] = s[i]
         /\ Append(s, e)[Len(s) + 1] = e
OBVIOUS

LEMMA TailElements ==
  ASSUME NEW S, NEW s \in Seq(S), s # <<>>
  PROVE  /\ 1 \in DOMAIN s
         /\ Head(s) = s[1]
         /\ \A i \in DOMAIN Tail(s) : i \in Nat /\ i + 1 \in DOMAIN s /\ Tail(s)[i] = s[i + 1]
         /\ \A i \in DOMAIN Tail(s) : i + 1 # 1
OBVIOUS

-----------------------------------------------------------------------------
(* The operations keep the types. *)

LEMMA ResolveType ==
  ASSUME QueueTypeOK, NEW S, NEW r \in {"idle", "wait"} \cup Result, Resolve(S, r)
  PROVE  reply' \in [Caller -> {"idle", "wait"} \cup Result]
BY DEF QueueTypeOK, Resolve

LEMMA NotifyType ==
  ASSUME QueueTypeOK, NotifyOne \/ NotifyAll \/ UNCHANGED notifyVars
  PROVE  /\ permit' \in BOOLEAN
         /\ armed' \in SUBSET Worker
         /\ parked' \in SUBSET Worker
BY DEF QueueTypeOK, NotifyOne, NotifyAll, notifyVars

LEMMA EnqueueType ==
  ASSUME QueueTypeOK, NEW f \in Frame, Enqueue(f)
  PROVE  /\ ready' \in Seq(Frame)
         /\ waiting' \in [Conn -> Seq(Frame)]
         /\ inFlight' \in SUBSET Conn
<1>1. f.conn \in Conn
  BY DEF Frame
<1>2. CASE f.conn \in inFlight
  <2>1. Append(waiting[f.conn], f) \in Seq(Frame)
    BY <1>1 DEF QueueTypeOK
  <2>2. QED
    BY <1>2, <2>1 DEF Enqueue, QueueTypeOK
<1>3. CASE f.conn \notin inFlight
  <2>1. Append(ready, f) \in Seq(Frame)
    BY DEF QueueTypeOK
  <2>2. QED
    BY <1>1, <1>3, <2>1 DEF Enqueue, QueueTypeOK
<1>4. QED
  BY <1>2, <1>3

LEMMA SubmitType ==
  ASSUME QueueTypeOK, NEW p \in Caller, NEW c \in Conn, Submit(p, c)
  PROVE  QueueTypeOK'
<1>1. PICK f \in Frame : f = [conn |-> c, call |-> p]
  BY DEF Frame
<1>2. reply' \in [Caller -> {"idle", "wait"} \cup Result]
  BY ResolveType DEF Submit, Result
<1>3. CASE closed
  BY <1>2, <1>3 DEF Submit, QueueTypeOK, queueVars, notifyVars
<1>4. CASE ~closed
  <2>1. Enqueue(f) /\ UNCHANGED closed /\ NotifyOne
    BY <1>1, <1>4 DEF Submit
  <2>2. /\ permit' \in BOOLEAN
        /\ armed' \in SUBSET Worker
        /\ parked' \in SUBSET Worker
    BY <2>1, NotifyType
  <2>3. /\ ready' \in Seq(Frame)
        /\ waiting' \in [Conn -> Seq(Frame)]
        /\ inFlight' \in SUBSET Conn
    BY <2>1, EnqueueType
  <2>4. QED
    BY <1>2, <2>1, <2>2, <2>3 DEF QueueTypeOK
<1>5. QED
  BY <1>3, <1>4

LEMMA CompleteType ==
  ASSUME QueueTypeOK, NEW c \in Conn, Complete(c)
  PROVE  QueueTypeOK'
<1>1. /\ permit' \in BOOLEAN
      /\ armed' \in SUBSET Worker
      /\ parked' \in SUBSET Worker
  BY NotifyType DEF Complete
<1>2. CASE waiting[c] = <<>>
  BY <1>1, <1>2 DEF Complete, QueueTypeOK
<1>3. CASE waiting[c] # <<>>
  <2>1. waiting' = [waiting EXCEPT ![c] = Tail(@)] /\ ReleaseHead(c) /\ UNCHANGED closed
    BY <1>3 DEF Complete
  <2>2. waiting[c] \in Seq(Frame)
    BY DEF QueueTypeOK
  <2>3. Head(waiting[c]) \in Frame /\ Tail(waiting[c]) \in Seq(Frame)
    BY <1>3, <2>2
  <2>4. waiting' \in [Conn -> Seq(Frame)]
    BY <2>1, <2>3 DEF QueueTypeOK
  <2>5. /\ ready' \in Seq(Frame)
        /\ inFlight' \in SUBSET Conn
        /\ reply' \in [Caller -> {"idle", "wait"} \cup Result]
    <3>1. CASE closed
      BY <2>1, <3>1, ResolveType DEF ReleaseHead, QueueTypeOK, Result
    <3>2. CASE ~closed
      <4>1. ready \in Seq(Frame) /\ Head(waiting[c]) \in Frame
        BY <2>3 DEF QueueTypeOK
      <4>2. Append(ready, Head(waiting[c])) \in Seq(Frame)
        BY <4>1
      <4>3. QED
        BY <2>1, <3>2, <4>2 DEF ReleaseHead, QueueTypeOK
    <3>3. QED
      BY <3>1, <3>2
  <2>6. QED
    BY <1>1, <2>1, <2>4, <2>5 DEF QueueTypeOK
<1>4. QED
  BY <1>2, <1>3

LEMMA DropConnType ==
  ASSUME QueueTypeOK, NEW c \in Conn, DropConn(c)
  PROVE  QueueTypeOK'
<1>1. reply' \in [Caller -> {"idle", "wait"} \cup Result]
  BY ResolveType DEF DropConn, Result
<1>2. QED
  BY <1>1 DEF DropConn, QueueTypeOK, notifyVars

LEMMA CloseType ==
  ASSUME QueueTypeOK, Close
  PROVE  QueueTypeOK'
<1>1. reply' \in [Caller -> {"idle", "wait"} \cup Result]
  BY ResolveType DEF Close, Result
<1>2. QED
  BY <1>1, NotifyType DEF Close, QueueTypeOK

-----------------------------------------------------------------------------
(* Type correctness. *)

LEMMA InitType == Init => TypeOK
<1> SUFFICES ASSUME Init
             PROVE  TypeOK
  OBVIOUS
<1>1. <<>> \in Seq(Frame)
  OBVIOUS
<1>2. QueueTypeOK
  BY <1>1 DEF Init, QueueInit, QueueTypeOK
<1>3. QED
  BY <1>2 DEF Init, TypeOK, Stage

\* A worker that holds a frame holds a frame: the stages between pull and the
\* answer (or the end of the clean-up) have something in hand.
HandsFull ==
  \A w \in Worker : stage[w] \in Owning \cup {"answer"} => hold[w] \in Frame

Typed == TypeOK /\ HandsFull

LEMMA NextTyped == Typed /\ [HeedlessNext]_vars => Typed'
<1> SUFFICES ASSUME Typed, [HeedlessNext]_vars
             PROVE  Typed'
  OBVIOUS
<1> USE DEF Typed
<1>1. ASSUME NEW p \in Caller, NEW c \in Conn, Submits(p, c)
      PROVE  Typed'
  BY <1>1, SubmitType DEF Submits, TypeOK, HandsFull
<1>2. ASSUME NEW p \in Caller, Receive(p)
      PROVE  Typed'
  BY <1>2 DEF Receive, TypeOK, HandsFull, QueueTypeOK, queueVars, notifyVars
<1>3. ASSUME NEW w \in Worker, WorkerNext(w)
      PROVE  Typed'
  <2>1. CASE Spawn(w)
    BY <2>1 DEF Spawn, Become, TypeOK, HandsFull, QueueTypeOK, queueVars, notifyVars, Stage, Owning
  <2>2. CASE Take(w)
    <3>1. Head(ready) \in Frame /\ Tail(ready) \in Seq(Frame)
      BY <2>2 DEF Take, PullFrame, TypeOK, QueueTypeOK
    <3>2. QueueTypeOK'
      BY <2>2, <3>1 DEF Take, PullFrame, TypeOK, QueueTypeOK, notifyVars
    <3>3. QED
      BY <2>2, <3>1, <3>2 DEF Take, Become, TypeOK, HandsFull, Stage
  <2>3. CASE Leave(w)
    BY <2>3 DEF Leave, PullNone, Become, TypeOK, HandsFull, QueueTypeOK, queueVars, notifyVars, Stage, Owning
  <2>4. CASE FindNothing(w)
    BY <2>4 DEF FindNothing, PullWaits, Become, TypeOK, HandsFull, QueueTypeOK, queueVars, Stage, Owning
  <2>5. CASE FallAsleep(w)
    BY <2>5 DEF FallAsleep, Awaits, TypeOK, HandsFull, QueueTypeOK, queueVars
  <2>6. CASE WakeUp(w)
    BY <2>6 DEF WakeUp, Awoken, Become, TypeOK, HandsFull, QueueTypeOK, queueVars, Stage, Owning
  <2>7. CASE Finish(w)
    <3>1. hold[w].conn \in Conn
      BY <2>7 DEF Finish, HandsFull, Owning, Frame
    <3>2. QueueTypeOK'
      BY <2>7, <3>1, CompleteType DEF Finish, TypeOK
    <3>3. QED
      BY <2>7, <3>2 DEF Finish, Become, TypeOK, HandsFull, Stage, Owning
  <2>8. CASE AnswerAny(w)
    <3>1. PICK r \in Result, next \in {"pull", "off"} : Answer(w, r, next)
      BY <2>8 DEF AnswerAny, Result
    <3>2. QueueTypeOK'
      BY <3>1, ResolveType DEF Answer, TypeOK, QueueTypeOK, queueVars, notifyVars
    <3>3. QED
      BY <3>1, <3>2 DEF Answer, Become, PutDown, TypeOK, HandsFull, Stage, Owning
  <2>9. CASE Panic(w)
    <3>1. QueueTypeOK'
      BY <2>9, ResolveType DEF Panic, TypeOK, QueueTypeOK, queueVars, notifyVars, Result
    <3>2. QED
      BY <2>9, <3>1 DEF Panic, Become, TypeOK, HandsFull, Stage, Owning
  <2>10. CASE PanicDrop(w)
    <3>1. hold[w].conn \in Conn
      BY <2>10 DEF PanicDrop, HandsFull, Owning, Frame
    <3>2. QueueTypeOK'
      BY <2>10, <3>1, DropConnType DEF PanicDrop, TypeOK
    <3>3. QED
      BY <2>10, <3>2 DEF PanicDrop, Become, TypeOK, HandsFull, Stage, Owning
  <2>11. CASE PanicClear(w)
    <3>1. QueueTypeOK'
      BY <2>11 DEF PanicClear, ClearInFlight, TypeOK, QueueTypeOK, notifyVars
    <3>2. QED
      BY <2>11, <3>1 DEF PanicClear, Become, PutDown, TypeOK, HandsFull, Stage, Owning
  <2>12. CASE PanicUncleared(w)
    <3>1. QueueTypeOK'
      BY <2>12, ResolveType DEF PanicUncleared, TypeOK, QueueTypeOK, queueVars, notifyVars, Result
    <3>2. QED
      BY <2>12, <3>1 DEF PanicUncleared, Become, PutDown, TypeOK, HandsFull, Stage, Owning
  <2>13. QED
    BY <1>3, <2>1, <2>2, <2>3, <2>4, <2>5, <2>6, <2>7, <2>8, <2>9, <2>10, <2>11, <2>12
       DEF WorkerNext
<1>4. ASSUME NEW c \in Conn, Detach(c)
      PROVE  Typed'
  BY <1>4, DropConnType DEF Detach, TypeOK, HandsFull
<1>5. CASE Retire
  BY <1>5, CloseType DEF Retire, TypeOK, HandsFull
<1>6. CASE Revive
  BY <1>6 DEF Revive, Reopen, TypeOK, HandsFull, QueueTypeOK, notifyVars
<1>7. CASE UNCHANGED vars
  BY <1>7 DEF vars, queueVars, notifyVars, TypeOK, HandsFull, QueueTypeOK
<1>8. QED
  BY <1>1, <1>2, <1>3, <1>4, <1>5, <1>6, <1>7 DEF HeedlessNext, Next, Fire

\* Every reachable state has the types of TypeOK, and a worker between pull and
\* its answer has a frame in hand, so that complete and panic_conn are called
\* with the connection of a frame that was pulled (RoutePool::worker_main).
THEOREM AlwaysTyped == HeedlessSpec => []Typed
<1>1. Init => Typed
  BY InitType DEF Typed, HandsFull, Init, Owning
<1>2. QED
  BY <1>1, NextTyped, PTL DEF HeedlessSpec

\* A step of callers that heed the window of panic_conn is one of callers that need not.
LEMMA StepHeeds == [Next]_vars => [HeedlessNext]_vars
BY DEF HeedlessNext

LEMMA Heeds == Spec => HeedlessSpec
BY StepHeeds, PTL DEF Spec, HeedlessSpec

\* The type invariant of the scheduler, for every caller it admits.
THEOREM TypeCorrect == Spec => []TypeOK
<1>1. Typed => TypeOK
  BY DEF Typed
<1>2. QED
  BY <1>1, AlwaysTyped, Heeds, PTL

-----------------------------------------------------------------------------
(* Per-connection serial execution.                                        *)
(*                                                                         *)
(* PerConnSerial speaks of executing workers only and is not inductive: a  *)
(* second frame of a connection could already be in the ready queue, or    *)
(* its mark could be taken off by a clean-up.  The strengthening says that *)
(* the mark of a connection has one owner: its frame in the ready queue,   *)
(* or the worker that executes it or cleans up after it.                   *)

Owner(w) == stage[w] \in Owning

ReadyOnce == \A i, j \in DOMAIN ready : ready[i].conn = ready[j].conn => i = j
ReadyMarked == \A i \in DOMAIN ready : ready[i].conn \in inFlight
OwnerMarked == \A w \in Worker : Owner(w) => hold[w].conn \in inFlight
OwnerOnce == \A v, w \in Worker :
               Owner(v) /\ Owner(w) /\ hold[v].conn = hold[w].conn => v = w
OwnerNotReady == \A w \in Worker : Owner(w) =>
                   \A i \in DOMAIN ready : ready[i].conn # hold[w].conn

OneOwner ==
  /\ ReadyOnce
  /\ ReadyMarked
  /\ OwnerMarked
  /\ OwnerOnce
  /\ OwnerNotReady

\* A held back frame is filed under its own connection.
WaitingKeyed == \A c \in Conn : \A i \in DOMAIN waiting[c] : waiting[c][i].conn = c

SerialInv == Typed /\ WaitingKeyed /\ OneOwner

\* Steps that leave the ready queue and the marks alone and make no new owner.
LEMMA QuietStep ==
  ASSUME OneOwner, UNCHANGED <<ready, inFlight>>,
         \A w \in Worker : Owner(w)' => Owner(w) /\ hold'[w] = hold[w]
  PROVE  OneOwner'
BY DEF OneOwner, ReadyOnce, ReadyMarked, OwnerMarked, OwnerOnce, OwnerNotReady

\* A frame whose connection has no mark may join the ready queue with a mark.
LEMMA MarkedAppend ==
  ASSUME Typed, OneOwner, NEW f \in Frame, f.conn \notin inFlight,
         ready' = Append(ready, f), inFlight' = inFlight \cup {f.conn},
         UNCHANGED <<stage, hold>>
  PROVE  OneOwner'
<1>1. ready \in Seq(Frame)
  BY DEF Typed, TypeOK, QueueTypeOK
<1> DEFINE n == Len(ready) + 1
<1>2. /\ DOMAIN ready' = DOMAIN ready \cup {n}
      /\ n \notin DOMAIN ready
      /\ \A i \in DOMAIN ready : ready'[i] = ready[i]
      /\ ready'[n] = f
  BY <1>1, AppendElements
<1> HIDE DEF n
<1>3. \A i \in DOMAIN ready : ready[i].conn # f.conn
  BY DEF OneOwner, ReadyMarked
<1>4. \A w \in Worker : Owner(w) => hold[w].conn # f.conn
  BY DEF OneOwner, OwnerMarked
<1>5. \A w \in Worker : Owner(w)' = Owner(w) /\ hold'[w] = hold[w]
  BY DEF Owner
<1>6. ReadyOnce'
  BY <1>2, <1>3 DEF OneOwner, ReadyOnce
<1>7. ReadyMarked'
  BY <1>2 DEF OneOwner, ReadyMarked
<1>8. OwnerMarked' /\ OwnerOnce'
  BY <1>5 DEF OneOwner, OwnerMarked, OwnerOnce
<1>9. OwnerNotReady'
  BY <1>2, <1>4, <1>5 DEF OneOwner, OwnerNotReady
<1>10. QED
  BY <1>6, <1>7, <1>8, <1>9 DEF OneOwner

\* The worker that owns a mark may take it off when it stops being its owner.
LEMMA Unmark ==
  ASSUME Typed, OneOwner, NEW w \in Worker, Owner(w), ~Owner(w)',
         inFlight' = inFlight \ {hold[w].conn}, UNCHANGED ready,
         \A v \in Worker \ {w} : Owner(v)' = Owner(v) /\ hold'[v] = hold[v]
  PROVE  OneOwner'
<1>1. \A v \in Worker : Owner(v)' => v # w /\ Owner(v) /\ hold'[v] = hold[v]
  OBVIOUS
<1>2. ReadyOnce' /\ ReadyMarked'
  BY DEF OneOwner, ReadyOnce, ReadyMarked, OwnerNotReady
<1>3. OwnerMarked'
  BY <1>1 DEF OneOwner, OwnerMarked, OwnerOnce
<1>4. OwnerOnce' /\ OwnerNotReady'
  BY <1>1 DEF OneOwner, OwnerOnce, OwnerNotReady
<1>5. QED
  BY <1>2, <1>3, <1>4 DEF OneOwner

\* complete with a frame held back: its mark goes over to that frame.
LEMMA HandOver ==
  ASSUME Typed, OneOwner, NEW w \in Worker, Owner(w), ~Owner(w)',
         NEW f \in Frame, f.conn = hold[w].conn,
         inFlight' = inFlight \cup {f.conn}, ready' = Append(ready, f),
         \A v \in Worker \ {w} : Owner(v)' = Owner(v) /\ hold'[v] = hold[v]
  PROVE  OneOwner'
<1>1. ready \in Seq(Frame)
  BY DEF Typed, TypeOK, QueueTypeOK
<1> DEFINE n == Len(ready) + 1
<1>2. /\ DOMAIN ready' = DOMAIN ready \cup {n}
      /\ n \notin DOMAIN ready
      /\ \A i \in DOMAIN ready : ready'[i] = ready[i]
      /\ ready'[n] = f
  BY <1>1, AppendElements
<1> HIDE DEF n
<1>3. \A v \in Worker : Owner(v)' => v # w /\ Owner(v) /\ hold'[v] = hold[v]
  OBVIOUS
<1>4. \A i \in DOMAIN ready : ready[i].conn # f.conn
  BY DEF OneOwner, OwnerNotReady
<1>5. ReadyOnce' /\ ReadyMarked'
  BY <1>2, <1>4 DEF OneOwner, ReadyOnce, ReadyMarked
<1>6. OwnerMarked' /\ OwnerOnce'
  BY <1>3 DEF OneOwner, OwnerMarked, OwnerOnce
<1>7. OwnerNotReady'
  BY <1>2, <1>3 DEF OneOwner, OwnerNotReady, OwnerOnce
<1>8. QED
  BY <1>5, <1>6, <1>7 DEF OneOwner

LEMMA NextKeyed == Typed /\ WaitingKeyed /\ [HeedlessNext]_vars => WaitingKeyed'
<1> SUFFICES ASSUME Typed, WaitingKeyed, [HeedlessNext]_vars
             PROVE  WaitingKeyed'
  OBVIOUS
<1>0. waiting \in [Conn -> Seq(Frame)]
  BY DEF Typed, TypeOK, QueueTypeOK
<1>1. ASSUME NEW c \in Conn, DropConn(c)
      PROVE  WaitingKeyed'
  BY <1>0, <1>1 DEF DropConn, WaitingKeyed
<1>2. ASSUME NEW p \in Caller, NEW c \in Conn, Submits(p, c)
      PROVE  WaitingKeyed'
  <2>1. PICK f \in Frame : f = [conn |-> c, call |-> p]
    BY DEF Frame
  <2>2. CASE waiting' = [waiting EXCEPT ![c] = Append(@, f)]
    <3>1. waiting[c] \in Seq(Frame)
      BY <1>0
    <3>2. \A i \in DOMAIN Append(waiting[c], f) : Append(waiting[c], f)[i].conn = c
      BY <2>1, <3>1, AppendElements DEF WaitingKeyed
    <3>3. QED
      BY <1>0, <2>2, <3>2 DEF WaitingKeyed
  <2>3. CASE UNCHANGED waiting
    BY <2>3 DEF WaitingKeyed
  <2>4. QED
    BY <1>2, <2>1, <2>2, <2>3 DEF Submits, Submit, Enqueue, queueVars
<1>3. ASSUME NEW w \in Worker, WorkerNext(w)
      PROVE  WaitingKeyed'
  <2>1. CASE Finish(w)
    <3>1. PICK c \in Conn : c = hold[w].conn /\ Complete(c)
      BY <2>1 DEF Finish, Typed, HandsFull, Owning, Frame
    <3>2. CASE UNCHANGED waiting
      BY <3>2 DEF WaitingKeyed
    <3>3. CASE waiting[c] # <<>> /\ waiting' = [waiting EXCEPT ![c] = Tail(@)]
      <4>1. \A i \in DOMAIN Tail(waiting[c]) : Tail(waiting[c])[i].conn = c
        BY <1>0, <3>3, TailElements DEF WaitingKeyed
      <4>2. QED
        BY <1>0, <3>3, <4>1 DEF WaitingKeyed
    <3>4. QED
      BY <3>1, <3>2, <3>3 DEF Complete
  <2>2. CASE PanicDrop(w)
    <3>1. hold[w].conn \in Conn
      BY <2>2 DEF PanicDrop, Typed, HandsFull, Owning, Frame
    <3>2. QED
      BY <1>1, <2>2, <3>1 DEF PanicDrop
  <2>3. CASE UNCHANGED waiting
    BY <2>3 DEF WaitingKeyed
  <2>4. QED
    BY <1>3, <2>1, <2>2, <2>3
       DEF WorkerNext, Spawn, Take, Leave, FindNothing, FallAsleep, WakeUp, AnswerAny,
           Answer, Panic, PanicUncleared, PanicClear, PullFrame, PullNone, PullWaits,
           ClearInFlight, queueVars
<1>4. CASE Retire
  BY <1>4 DEF Retire, Close, WaitingKeyed
<1>5. ASSUME NEW c \in Conn, Detach(c)
      PROVE  WaitingKeyed'
  BY <1>1, <1>5 DEF Detach
<1>6. CASE UNCHANGED waiting
  BY <1>6 DEF WaitingKeyed
<1>7. QED
  BY <1>2, <1>3, <1>4, <1>5, <1>6 DEF HeedlessNext, Next, Fire, Receive, Revive, Reopen, vars, queueVars

LEMMA NextOneOwner == SerialInv /\ [HeedlessNext]_vars => OneOwner'
<1> SUFFICES ASSUME Typed, WaitingKeyed, OneOwner, [HeedlessNext]_vars
             PROVE  OneOwner'
  BY DEF SerialInv
<1> USE DEF Owner
<1>0. /\ ready \in Seq(Frame)
      /\ waiting \in [Conn -> Seq(Frame)]
      /\ stage \in [Worker -> Stage]
      /\ hold \in [Worker -> Frame \cup {NoFrame}]
      /\ \A w \in Worker : Owner(w) => hold[w] \in Frame /\ hold[w].conn \in Conn
  BY DEF Typed, TypeOK, QueueTypeOK, HandsFull, Frame
<1>1. ASSUME NEW p \in Caller, NEW c \in Conn, Submits(p, c)
      PROVE  OneOwner'
  <2>1. PICK f \in Frame : f = [conn |-> c, call |-> p]
    BY DEF Frame
  <2>2. CASE UNCHANGED <<ready, inFlight>>
    BY <1>1, <2>2, QuietStep DEF Submits
  <2>3. CASE ~closed /\ f.conn \notin inFlight
    BY <1>1, <2>1, <2>3, MarkedAppend DEF Submits, Submit, Enqueue
  <2>4. QED
    BY <1>1, <2>1, <2>2, <2>3 DEF Submits, Submit, Enqueue, queueVars
<1>2. ASSUME NEW p \in Caller, Receive(p)
      PROVE  OneOwner'
  BY <1>2, QuietStep DEF Receive, queueVars
<1>3. ASSUME NEW w \in Worker, WorkerNext(w)
      PROVE  OneOwner'
  <2>1. CASE Take(w)
    <3>1. /\ ready # <<>>
          /\ ready' = Tail(ready)
          /\ hold' = [hold EXCEPT ![w] = Head(ready)]
          /\ stage' = [stage EXCEPT ![w] = "exec"]
          /\ stage[w] = "pull"
          /\ UNCHANGED inFlight
      BY <2>1 DEF Take, PullFrame, Become
    <3>2. /\ 1 \in DOMAIN ready
          /\ Head(ready) = ready[1]
          /\ \A i \in DOMAIN ready' : /\ i \in Nat
                                      /\ i + 1 \in DOMAIN ready
                                      /\ ready'[i] = ready[i + 1]
                                      /\ i + 1 # 1
      BY <1>0, <3>1, TailElements
    <3>3. /\ hold'[w] = ready[1]
          /\ ~Owner(w)
          /\ \A v \in Worker \ {w} : Owner(v)' = Owner(v) /\ hold'[v] = hold[v]
      BY <1>0, <3>1, <3>2 DEF Owning
    <3>4. ReadyOnce'
      <4> SUFFICES ASSUME NEW i \in DOMAIN ready', NEW j \in DOMAIN ready',
                          ready'[i].conn = ready'[j].conn
                   PROVE  i = j
        BY DEF ReadyOnce
      <4>1. i + 1 = j + 1
        BY <3>2 DEF OneOwner, ReadyOnce
      <4>2. QED
        BY <3>2, <4>1
    <3>5. ReadyMarked'
      BY <3>1, <3>2 DEF OneOwner, ReadyMarked
    <3>6. OwnerMarked'
      BY <3>1, <3>2, <3>3 DEF OneOwner, OwnerMarked, ReadyMarked
    <3>7. OwnerOnce'
      <4>1. \A v \in Worker \ {w} : Owner(v)' => hold'[v].conn # ready[1].conn
        BY <3>2, <3>3 DEF OneOwner, OwnerNotReady
      <4>2. QED
        BY <3>3, <4>1 DEF OneOwner, OwnerOnce
    <3>8. OwnerNotReady'
      <4>1. \A i \in DOMAIN ready' : ready'[i].conn # ready[1].conn
        BY <3>2 DEF OneOwner, ReadyOnce
      <4>2. QED
        BY <3>2, <3>3, <4>1 DEF OneOwner, OwnerNotReady
    <3>9. QED
      BY <3>4, <3>5, <3>6, <3>7, <3>8 DEF OneOwner
  <2>2. CASE Finish(w)
    <3>1. /\ Owner(w) /\ ~Owner(w)'
          /\ \A v \in Worker \ {w} : Owner(v)' = Owner(v) /\ hold'[v] = hold[v]
          /\ hold[w].conn \in Conn
          /\ Complete(hold[w].conn)
      BY <1>0, <2>2 DEF Finish, Become, Owning
    <3>2. CASE UNCHANGED ready /\ inFlight' = inFlight \ {hold[w].conn}
      BY <3>1, <3>2, Unmark
    <3>3. CASE waiting[hold[w].conn] # <<>> /\ ~closed
      <4>1. PICK f \in Frame : f = Head(waiting[hold[w].conn])
        BY <1>0, <3>1, <3>3
      <4>2. ready' = Append(ready, f) /\ inFlight' = inFlight \cup {hold[w].conn}
        BY <3>1, <3>3, <4>1 DEF Complete, ReleaseHead
      <4>3. f.conn = hold[w].conn
        BY <1>0, <3>1, <3>3, <4>1, TailElements DEF WaitingKeyed
      <4>4. QED
        BY <3>1, <4>2, <4>3, HandOver
    <3>4. QED
      BY <3>1, <3>2, <3>3 DEF Complete, ReleaseHead
  <2>3. CASE PanicClear(w)
    <3>1. /\ Owner(w) /\ ~Owner(w)'
          /\ \A v \in Worker \ {w} : Owner(v)' = Owner(v) /\ hold'[v] = hold[v]
      BY <1>0, <2>3 DEF PanicClear, Become, PutDown, Owning
    <3>2. QED
      BY <2>3, <3>1, Unmark DEF PanicClear, ClearInFlight
  <2>4. CASE Spawn(w) \/ Leave(w) \/ FindNothing(w) \/ FallAsleep(w) \/ WakeUp(w)
    BY <1>0, <2>4, QuietStep
       DEF Spawn, Leave, FindNothing, FallAsleep, WakeUp, PullNone, PullWaits,
           Become, queueVars, Owning
  <2>5. CASE AnswerAny(w)
    BY <1>0, <2>5, QuietStep DEF AnswerAny, Answer, Become, PutDown, queueVars, Owning
  <2>6. CASE Panic(w) \/ PanicDrop(w)
    BY <1>0, <2>6, QuietStep DEF Panic, PanicDrop, DropConn, Become, queueVars, Owning
  <2>7. CASE PanicUncleared(w)
    BY <1>0, <2>7, QuietStep DEF PanicUncleared, Become, PutDown, queueVars, Owning
  <2>8. QED
    BY <1>3, <2>1, <2>2, <2>3, <2>4, <2>5, <2>6, <2>7 DEF WorkerNext
<1>4. ASSUME NEW c \in Conn, Detach(c)
      PROVE  OneOwner'
  BY <1>4, QuietStep DEF Detach, DropConn
<1>5. CASE Retire
  BY <1>5 DEF Retire, Close, OneOwner, ReadyOnce, ReadyMarked, OwnerMarked,
              OwnerOnce, OwnerNotReady
<1>6. CASE Revive
  BY <1>6, QuietStep DEF Revive, Reopen
<1>7. CASE UNCHANGED vars
  BY <1>7, QuietStep DEF vars, queueVars
<1>8. QED
  BY <1>1, <1>2, <1>3, <1>4, <1>5, <1>6, <1>7 DEF HeedlessNext, Next, Fire

\* Per-connection serial execution, for any number of connections, callers and
\* workers, panics included (Scheduler: "per-conn in flight = 1").
THEOREM SerialAnyway == HeedlessSpec => []PerConnSerial
<1>1. Init => SerialInv
  <2>1. Init => Typed
    BY InitType DEF Typed, HandsFull, Init, Owning
  <2>2. Init => OneOwner
    BY DEF Init, QueueInit, OneOwner, ReadyOnce, ReadyMarked, OwnerMarked,
           OwnerOnce, OwnerNotReady, Owner, Owning
  <2>3. Init => WaitingKeyed
    BY DEF Init, QueueInit, WaitingKeyed
  <2>4. QED
    BY <2>1, <2>2, <2>3 DEF SerialInv
<1>2. SerialInv /\ [HeedlessNext]_vars => SerialInv'
  BY NextTyped, NextKeyed, NextOneOwner DEF SerialInv
<1>3. SerialInv => PerConnSerial
  BY DEF SerialInv, OneOwner, OwnerOnce, Owner, Owning, PerConnSerial
<1>4. QED
  BY <1>1, <1>2, <1>3, PTL DEF HeedlessSpec

\* The same of the callers that FrameScheduler has (ConnHandle::fire).
THEOREM Serial == Spec => []PerConnSerial
BY SerialAnyway, Heeds, PTL

-----------------------------------------------------------------------------
(* Nothing is queued behind a close. *)

DrainedInv == Typed /\ ClosedIsDrained

LEMMA DropConnDrained ==
  ASSUME DrainedInv, NEW c \in Conn, DropConn(c)
  PROVE  ClosedIsDrained'
BY DEF DrainedInv, Typed, TypeOK, QueueTypeOK, ClosedIsDrained, DropConn

LEMMA NextDrained == DrainedInv /\ [HeedlessNext]_vars => ClosedIsDrained'
<1> SUFFICES ASSUME DrainedInv, [HeedlessNext]_vars
             PROVE  ClosedIsDrained'
  OBVIOUS
<1> USE DEF ClosedIsDrained
<1>1. ASSUME UNCHANGED queueVars
      PROVE  ClosedIsDrained'
  BY <1>1 DEF queueVars, DrainedInv
<1>2. ASSUME NEW p \in Caller, NEW c \in Conn, Submits(p, c)
      PROVE  ClosedIsDrained'
  BY <1>1, <1>2 DEF Submits, Submit
<1>3. ASSUME NEW w \in Worker, WorkerNext(w)
      PROVE  ClosedIsDrained'
  <2>1. CASE Take(w)
    BY <2>1 DEF Take, PullFrame, DrainedInv
  <2>2. CASE Finish(w)
    <3>1. PICK c \in Conn : Complete(c)
      BY <2>2 DEF Finish, DrainedInv, Typed, HandsFull, Owning, Frame
    <3>2. QED
      BY <3>1 DEF Complete, DrainedInv
  <2>3. CASE PanicDrop(w)
    <3>1. hold[w].conn \in Conn
      BY <2>3 DEF PanicDrop, DrainedInv, Typed, HandsFull, Owning, Frame
    <3>2. QED
      BY <2>3, <3>1, DropConnDrained DEF PanicDrop
  <2>4. CASE PanicClear(w)
    BY <2>4 DEF PanicClear, ClearInFlight, DrainedInv
  <2>5. QED
    BY <1>1, <1>3, <2>1, <2>2, <2>3, <2>4
       DEF WorkerNext, Spawn, Leave, FindNothing, FallAsleep, WakeUp, AnswerAny,
           Answer, Panic, PanicUncleared, PullNone, PullWaits
<1>4. ASSUME NEW c \in Conn, Detach(c)
      PROVE  ClosedIsDrained'
  BY <1>4, DropConnDrained DEF Detach
<1>5. CASE Retire
  BY <1>5 DEF Retire, Close
<1>6. CASE Revive
  BY <1>6 DEF Revive, Reopen
<1>7. QED
  BY <1>1, <1>2, <1>3, <1>4, <1>5, <1>6 DEF HeedlessNext, Next, Fire, Receive, vars

LEMMA AlwaysDrained == HeedlessSpec => []DrainedInv
<1>1. Init => DrainedInv
  <2>1. Init => Typed
    BY InitType DEF Typed, HandsFull, Init, Owning
  <2>2. QED
    BY <2>1 DEF Init, QueueInit, DrainedInv, ClosedIsDrained
<1>2. DrainedInv /\ [HeedlessNext]_vars => DrainedInv'
  BY NextTyped, NextDrained DEF DrainedInv
<1>3. QED
  BY <1>1, <1>2, PTL DEF HeedlessSpec

\* A closed scheduler holds no frame (Scheduler::close drains, submit answers at
\* once): no fire waits behind a close.  It also makes the branch of complete
\* that answers PoolClosed unreachable.
THEOREM DrainedAnyway == HeedlessSpec => []ClosedIsDrained
<1>1. DrainedInv => ClosedIsDrained
  BY DEF DrainedInv
<1>2. QED
  BY <1>1, AlwaysDrained, PTL

\* The same of the callers that FrameScheduler has (ConnHandle::fire).
THEOREM Drained == Spec => []ClosedIsDrained
BY DrainedAnyway, Heeds, PTL

-----------------------------------------------------------------------------
(* Nothing is held back but by a frame in flight.  Between the halves of       *)
(* panic_conn the connection has nothing queued, because callers leave it      *)
(* alone: so taking its mark off leaves nobody behind.                         *)

PurgedIsEmpty ==
  \A w \in Worker : stage[w] = "purge" => waiting[hold[w].conn] = <<>>

HeldInv == DrainedInv /\ PurgedIsEmpty /\ HeldBackOnlyInFlight

\* What drop_conn, called by detach or by panic_conn, does to the queue.
LEMMA DropConnHeld ==
  ASSUME HeldInv, NEW c \in Conn, DropConn(c)
  PROVE  /\ HeldBackOnlyInFlight'
         /\ waiting'[c] = <<>>
         /\ \A d \in Conn : waiting[d] = <<>> => waiting'[d] = <<>>
BY DEF HeldInv, DrainedInv, Typed, TypeOK, QueueTypeOK, HeldBackOnlyInFlight, DropConn

\* complete takes frames out of the queues and leaves a mark for the one it
\* releases.
LEMMA CompleteHeld ==
  ASSUME HeldInv, NEW c \in Conn, Complete(c)
  PROVE  /\ HeldBackOnlyInFlight'
         /\ \A d \in Conn : waiting[d] = <<>> => waiting'[d] = <<>>
<1> USE DEF HeldInv, DrainedInv, Typed, TypeOK, QueueTypeOK, HeldBackOnlyInFlight
<1>1. CASE waiting[c] = <<>>
  BY <1>1 DEF Complete
<1>2. CASE waiting[c] # <<>>
  <2>1. ~closed
    BY <1>2 DEF ClosedIsDrained
  <2>2. QED
    BY <1>2, <2>1 DEF Complete, ReleaseHead
<1>3. QED
  BY <1>1, <1>2

\* A submission queues behind a mark, and for no connection that is being
\* cleared.
LEMMA FireHeld ==
  ASSUME HeldInv, NEW p \in Caller, NEW c \in Conn, Fire(p, c)
  PROVE  HeldBackOnlyInFlight' /\ PurgedIsEmpty'
<1>1. /\ waiting \in [Conn -> Seq(Frame)] /\ HeldBackOnlyInFlight /\ PurgedIsEmpty
      /\ \A w \in Worker : stage[w] = "purge" => hold[w].conn \in Conn \ {c}
      /\ UNCHANGED <<stage, hold>>
  BY DEF Fire, Submits, BetweenHalves, HeldInv, DrainedInv, Typed, TypeOK, QueueTypeOK,
         HandsFull, Owning, Frame
<1>2. PICK f \in Frame : f = [conn |-> c, call |-> p]
  BY DEF Frame
<1>3. CASE Enqueue(f)
  <2>1. HeldBackOnlyInFlight'
    BY <1>1, <1>2, <1>3 DEF Enqueue, HeldBackOnlyInFlight
  <2>2. \A d \in Conn \ {c} : waiting'[d] = waiting[d]
    BY <1>1, <1>2, <1>3 DEF Enqueue
  <2>3. QED
    BY <1>1, <2>1, <2>2 DEF PurgedIsEmpty
<1>4. CASE UNCHANGED <<waiting, inFlight>>
  BY <1>1, <1>4 DEF HeldBackOnlyInFlight, PurgedIsEmpty
<1>5. QED
  BY <1>2, <1>3, <1>4 DEF Fire, Submits, Submit, queueVars

LEMMA WorkerHeld ==
  ASSUME HeldInv, NEW w \in Worker, WorkerNext(w)
  PROVE  HeldBackOnlyInFlight' /\ PurgedIsEmpty'
<1>1. /\ Typed /\ HeldBackOnlyInFlight /\ PurgedIsEmpty
      /\ stage \in [Worker -> Stage] /\ waiting \in [Conn -> Seq(Frame)]
      /\ hold \in [Worker -> Frame \cup {NoFrame}]
      /\ \A v \in Worker : stage[v] \in Owning => hold[v].conn \in Conn
  BY DEF HeldInv, DrainedInv, Typed, TypeOK, QueueTypeOK, HandsFull, Frame
<1>2. CASE Finish(w)
  <2>1. PICK c \in Conn : Complete(c)
    BY <1>1, <1>2 DEF Finish, Owning
  <2>2. \A v \in Worker : stage'[v] = "purge" => stage[v] = "purge" /\ hold'[v] = hold[v]
    BY <1>1, <1>2 DEF Finish, Become
  <2>3. QED
    BY <1>1, <2>1, <2>2, CompleteHeld DEF PurgedIsEmpty, Owning
<1>3. CASE PanicDrop(w)
  <2>1. /\ stage[w] \in Owning /\ DropConn(hold[w].conn) /\ UNCHANGED hold
        /\ \A v \in Worker : stage'[v] = "purge" => v = w \/ stage[v] = "purge"
    BY <1>1, <1>3 DEF PanicDrop, Become, Owning
  <2>2. QED
    BY <1>1, <2>1, DropConnHeld DEF PurgedIsEmpty, Owning
<1>4. CASE PanicClear(w)
  <2>1. /\ \A v \in Worker : stage'[v] = "purge" => stage[v] = "purge" /\ hold'[v] = hold[v]
        /\ waiting[hold[w].conn] = <<>>
        /\ waiting' = waiting
        /\ inFlight' = inFlight \ {hold[w].conn}
    BY <1>1, <1>4 DEF PanicClear, ClearInFlight, Become, PutDown, PurgedIsEmpty
  <2>2. QED
    BY <1>1, <2>1 DEF PurgedIsEmpty, HeldBackOnlyInFlight
<1>5. CASE /\ UNCHANGED <<waiting, inFlight>>
           /\ \A v \in Worker : stage'[v] = "purge" => stage[v] = "purge" /\ hold'[v] = hold[v]
  BY <1>1, <1>5 DEF PurgedIsEmpty, HeldBackOnlyInFlight
<1>6. CASE \/ Spawn(w) \/ Take(w) \/ Leave(w) \/ FindNothing(w) \/ FallAsleep(w)
           \/ WakeUp(w) \/ AnswerAny(w) \/ Panic(w) \/ PanicUncleared(w)
  <2>1. UNCHANGED <<waiting, inFlight>>
    BY <1>6 DEF Spawn, Take, Leave, FindNothing, FallAsleep, WakeUp, AnswerAny, Answer,
                Panic, PanicUncleared, PullFrame, PullNone, PullWaits, queueVars
  <2>2. \A v \in Worker : stage'[v] = "purge" => stage[v] = "purge" /\ hold'[v] = hold[v]
    BY <1>1, <1>6 DEF Spawn, Take, Leave, FindNothing, FallAsleep, WakeUp, AnswerAny,
                      Answer, Panic, PanicUncleared, Become, PutDown
  <2>3. QED
    BY <1>5, <2>1, <2>2
<1>7. QED
  BY <1>2, <1>3, <1>4, <1>6 DEF WorkerNext

LEMMA NextHeld == HeldInv /\ [Next]_vars => HeldBackOnlyInFlight' /\ PurgedIsEmpty'
<1> SUFFICES ASSUME HeldInv, [Next]_vars
             PROVE  HeldBackOnlyInFlight' /\ PurgedIsEmpty'
  OBVIOUS
<1>1. /\ HeldBackOnlyInFlight /\ PurgedIsEmpty
      /\ \A v \in Worker : stage[v] \in Owning => hold[v].conn \in Conn
  BY DEF HeldInv, DrainedInv, Typed, HandsFull, Frame
<1>2. CASE UNCHANGED <<waiting, inFlight, stage, hold>>
  BY <1>1, <1>2 DEF HeldBackOnlyInFlight, PurgedIsEmpty
<1>3. ASSUME NEW c \in Conn, Detach(c)
      PROVE  HeldBackOnlyInFlight' /\ PurgedIsEmpty'
  <2>1. DropConn(c) /\ UNCHANGED <<stage, hold>>
    BY <1>3 DEF Detach
  <2>2. QED
    BY <1>1, <2>1, DropConnHeld DEF PurgedIsEmpty, Owning
<1>4. CASE Retire
  <2>1. waiting' = [c \in Conn |-> <<>>] /\ UNCHANGED <<stage, hold>>
    BY <1>4 DEF Retire, Close
  <2>2. QED
    BY <1>1, <2>1 DEF PurgedIsEmpty, HeldBackOnlyInFlight, Owning
<1>5. QED
  BY <1>2, <1>3, <1>4, FireHeld, WorkerHeld DEF Next, Receive, Revive, Reopen, vars, queueVars

\* A connection with held back frames carries a mark (Scheduler::complete releases
\* them with it, panic_conn gives them up before it takes it off), whatever panics, as
\* long as nobody submits for it between the halves of panic_conn.
THEOREM HeldBack == Spec => []HeldBackOnlyInFlight
<1>1. Init => HeldInv
  <2>1. Init => Typed
    BY InitType DEF Typed, HandsFull, Init, Owning
  <2>2. QED
    BY <2>1 DEF Init, QueueInit, HeldInv, DrainedInv, ClosedIsDrained, PurgedIsEmpty,
                HeldBackOnlyInFlight
<1>2. HeldInv /\ [Next]_vars => HeldInv'
  BY StepHeeds, NextTyped, NextDrained, NextHeld DEF HeldInv, DrainedInv
<1>3. HeldInv => HeldBackOnlyInFlight
  BY DEF HeldInv
<1>4. QED
  BY <1>1, <1>2, <1>3, PTL DEF Spec

-----------------------------------------------------------------------------
(* No lost wake-up.                                                        *)
(*                                                                         *)
(* ReadyIsNoticed is not inductive: a worker that holds a Notified and has *)
(* found nothing is awake, yet on its way to sleep.  What keeps it from    *)
(* falling asleep over a ready frame is the stored permit: as long as a    *)
(* frame is ready there is the permit, or a worker that is neither asleep  *)
(* nor about to be, and so looks at the queue again before it sleeps.      *)

\* The workers that sleep on their Notified or are about to.
Drowsy == parked \cup armed

Attentive == \E w \in Worker : w \notin Drowsy

NotifySound ==
  /\ \A w \in Drowsy : stage[w] = "await"
  /\ \A w \in parked : w \notin armed
  /\ permit => parked = {}

NoticedInv ==
  /\ Typed
  /\ NotifySound
  /\ ready # <<>> => permit \/ Attentive

\* notify_one leaves the permit, or wakes somebody who was fast asleep.
LEMMA NotifyOneNotices ==
  ASSUME NoticedInv, NotifyOne,
         \A w \in Drowsy : stage'[w] = stage[w]
  PROVE  NotifySound' /\ (permit \/ Attentive)'
<1>1. /\ parked \in SUBSET Worker /\ NotifySound
      /\ armed' = armed
  BY DEF NotifyOne, NoticedInv, Typed, TypeOK, QueueTypeOK
<1>2. CASE parked # {}
  <2>1. PICK w \in parked : parked' = parked \ {w} /\ UNCHANGED permit
    BY <1>2 DEF NotifyOne
  <2>2. w \in Worker /\ w \notin Drowsy'
    BY <1>1, <2>1 DEF NotifySound, Drowsy
  <2>3. NotifySound'
    BY <1>1, <2>1 DEF NotifySound, Drowsy
  <2>4. QED
    BY <2>2, <2>3 DEF Attentive
<1>3. CASE parked = {}
  <2>1. permit' = TRUE /\ parked' = {}
    BY <1>3 DEF NotifyOne
  <2>2. QED
    BY <1>1, <2>1 DEF NotifySound, Drowsy
<1>4. QED
  BY <1>2, <1>3

\* A step that leaves the Notify alone, puts no frame into the ready queue and
\* moves no drowsy worker.
LEMMA Unnoticed ==
  ASSUME NoticedInv, UNCHANGED notifyVars,
         ready' # <<>> => ready # <<>>,
         \A w \in Drowsy : stage'[w] = stage[w]
  PROVE  NotifySound' /\ (ready # <<>> => permit \/ Attentive)'
BY DEF NoticedInv, NotifySound, Drowsy, Attentive, notifyVars

LEMMA WorkerNoticed ==
  ASSUME NoticedInv, NEW w \in Worker, WorkerNext(w)
  PROVE  NotifySound' /\ (ready # <<>> => permit \/ Attentive)'
<1>1. /\ stage \in [Worker -> Stage] /\ NotifySound
      /\ armed \in SUBSET Worker /\ parked \in SUBSET Worker
      /\ permit \in BOOLEAN
      /\ ready # <<>> => permit \/ Attentive
      /\ ready \in Seq(Frame)
  BY DEF NoticedInv, Typed, TypeOK, QueueTypeOK
<1>2. ASSUME NEW s, Become(w, s), stage[w] # "await"
      PROVE  w \notin Drowsy /\ \A v \in Drowsy : stage'[v] = stage[v]
  BY <1>1, <1>2 DEF Become, NotifySound, Drowsy
<1>3. CASE Take(w)
  BY <1>2, <1>3, Unnoticed DEF Take, PullFrame
<1>4. CASE Spawn(w) \/ Leave(w) \/ AnswerAny(w) \/ Panic(w) \/ PanicUncleared(w)
  <2>1. PICK s : Become(w, s) /\ stage[w] # "await"
    BY <1>4 DEF Spawn, Leave, AnswerAny, Answer, Panic, PanicUncleared
  <2>2. UNCHANGED notifyVars /\ UNCHANGED ready
    BY <1>4 DEF Spawn, Leave, AnswerAny, Answer, Panic, PanicUncleared, PullNone, queueVars
  <2>3. QED
    BY <1>2, <2>1, <2>2, Unnoticed
<1>5. CASE PanicDrop(w)
  BY <1>2, <1>5, Unnoticed DEF PanicDrop, DropConn
<1>6. CASE PanicClear(w)
  BY <1>2, <1>6, Unnoticed DEF PanicClear, ClearInFlight
<1>7. CASE Finish(w)
  <2>1. \A v \in Drowsy : stage'[v] = stage[v]
    BY <1>2, <1>7 DEF Finish
  <2>2. NotifyOne
    BY <1>7 DEF Finish, Complete
  <2>3. QED
    BY <2>1, <2>2, NotifyOneNotices
<1>8. CASE FindNothing(w)
  <2>1. /\ w \notin Drowsy /\ ready' = <<>>
        /\ armed' = armed \cup {w} /\ UNCHANGED <<permit, parked>>
        /\ stage' = [stage EXCEPT ![w] = "await"]
    BY <1>1, <1>8 DEF FindNothing, PullWaits, Become, NotifySound, Drowsy, queueVars
  <2>2. QED
    BY <1>1, <2>1 DEF NotifySound, Drowsy
<1>9. CASE FallAsleep(w)
  <2>1. /\ w \in armed /\ ~permit /\ UNCHANGED <<ready, stage, permit>>
        /\ armed' = armed \ {w} /\ parked' = parked \cup {w}
    BY <1>9 DEF FallAsleep, Awaits, queueVars
  <2>2. Drowsy' = Drowsy
    BY <2>1 DEF Drowsy
  <2>3. NotifySound'
    BY <1>1, <2>1, <2>2 DEF NotifySound
  <2>4. QED
    BY <1>1, <2>1, <2>2, <2>3 DEF Attentive
<1>10. CASE WakeUp(w)
  <2>1. /\ w \notin parked /\ armed' = armed \ {w} /\ UNCHANGED <<parked, ready>>
        /\ permit' => permit
        /\ stage' = [stage EXCEPT ![w] = "pull"]
    BY <1>1, <1>10 DEF WakeUp, Awoken, Become, queueVars
  <2>2. w \notin Drowsy' /\ \A v \in Drowsy' : v \in Drowsy /\ v # w
    BY <2>1 DEF Drowsy
  <2>3. NotifySound'
    BY <1>1, <2>1, <2>2 DEF NotifySound, Drowsy
  <2>4. QED
    BY <2>2, <2>3 DEF Attentive
<1>11. QED
  BY <1>3, <1>4, <1>5, <1>6, <1>7, <1>8, <1>9, <1>10 DEF WorkerNext

LEMMA NextNoticed == NoticedInv /\ [HeedlessNext]_vars => NoticedInv'
<1> SUFFICES ASSUME NoticedInv, [HeedlessNext]_vars
             PROVE  NotifySound' /\ (ready # <<>> => permit \/ Attentive)'
  BY NextTyped DEF NoticedInv
<1>1. ASSUME UNCHANGED notifyVars, ready' # <<>> => ready # <<>>, UNCHANGED stage
      PROVE  NotifySound' /\ (ready # <<>> => permit \/ Attentive)'
  BY <1>1, Unnoticed
<1>2. ASSUME NEW p \in Caller, NEW c \in Conn, Submits(p, c)
      PROVE  NotifySound' /\ (ready # <<>> => permit \/ Attentive)'
  <2>1. CASE closed
    BY <1>1, <1>2, <2>1 DEF Submits, Submit, queueVars
  <2>2. CASE ~closed
    <3>1. NotifyOne /\ UNCHANGED stage
      BY <1>2, <2>2 DEF Submits, Submit
    <3>2. QED
      BY <3>1, NotifyOneNotices
  <2>3. QED
    BY <2>1, <2>2
<1>3. CASE Retire
  BY <1>3 DEF Retire, Close, NotifyAll, NotifySound, Drowsy
<1>4. CASE Revive
  BY <1>1, <1>4 DEF Revive, Reopen
<1>5. ASSUME NEW c \in Conn, Detach(c)
      PROVE  NotifySound' /\ (ready # <<>> => permit \/ Attentive)'
  BY <1>1, <1>5 DEF Detach, DropConn
<1>6. QED
  BY <1>1, <1>2, <1>3, <1>4, <1>5, WorkerNoticed DEF HeedlessNext, Next, Fire, Receive, vars, queueVars

\* No lost wake-up (pull takes its Notified before it looks at the queue, submit
\* and complete notify after their unlock): a ready frame never lies before
\* workers that all sleep (a slot without a thread counts as one that does not).
THEOREM NoticedAnyway == HeedlessSpec => []ReadyIsNoticed
<1>1. Init => NoticedInv
  <2>1. Init => Typed
    BY InitType DEF Typed, HandsFull, Init, Owning
  <2>2. QED
    BY <2>1 DEF Init, QueueInit, NoticedInv, NotifySound, Drowsy
<1>2. NoticedInv => ReadyIsNoticed
  BY WorkerAssumption DEF NoticedInv, NotifySound, Attentive, Drowsy, ReadyIsNoticed, Asleep
<1>3. QED
  BY <1>1, <1>2, NextNoticed, PTL DEF HeedlessSpec

\* The same of the callers that FrameScheduler has (ConnHandle::fire).
THEOREM Noticed == Spec => []ReadyIsNoticed
BY NoticedAnyway, Heeds, PTL

(***************************************************************************)
(* The workers that there are.  A slot without a thread is not asleep, so  *)
(* ReadyIsNoticed says nothing of a pool with one to spare.  As long as no *)
(* worker is lost, the one that is awake has a thread: what leaves is a    *)
(* worker whom pull told that nothing is ready.                            *)
(***************************************************************************)

Working == {w \in Worker : stage[w] # "off"}

Sees == \E w \in Working : w \notin Drowsy

SeenInv ==
  /\ NoticedInv
  /\ \A w \in Worker : stage[w] \notin {"panic", "purge"}
  /\ ready # <<>> => permit \/ Sees

\* A step that puts no frame into the ready queue, takes no permit, and makes no
\* worker that was awake drowsy or idle.
LEMMA SeenOn ==
  ASSUME SeenInv, ready' # <<>> => ready # <<>>, permit => permit',
         \A w \in Working \ Drowsy : w \in Working' \ Drowsy'
  PROVE  (ready # <<>> => permit \/ Sees)'
BY DEF SeenInv, Sees

\* notify_one leaves the permit, or wakes a worker with a thread.
LEMMA NotifyOneSeen ==
  ASSUME SeenInv, NotifyOne, \A w \in Drowsy : stage'[w] = stage[w]
  PROVE  (permit \/ Sees)'
<1>1. NotifySound /\ parked \in SUBSET Worker /\ armed' = armed
  BY DEF NotifyOne, SeenInv, NoticedInv, Typed, TypeOK, QueueTypeOK
<1>2. CASE parked # {}
  <2>1. PICK w \in parked : parked' = parked \ {w}
    BY <1>2 DEF NotifyOne
  <2>2. w \in Worker /\ w \notin Drowsy' /\ stage'[w] = "await"
    BY <1>1, <2>1 DEF NotifySound, Drowsy
  <2> QED
    BY <2>2 DEF Sees, Working
<1>3. CASE parked = {}
  BY <1>3 DEF NotifyOne
<1> QED
  BY <1>2, <1>3

LEMMA WorkerSeen ==
  ASSUME SeenInv, NEW w \in Worker, WorkerNext(w), KeepsWorkers
  PROVE  (ready # <<>> => permit \/ Sees)'
<1>1. /\ stage \in [Worker -> Stage] /\ NotifySound /\ ready \in Seq(Frame)
      /\ \A v \in Worker : stage[v] \notin {"panic", "purge"}
  BY DEF SeenInv, NoticedInv, Typed, TypeOK, QueueTypeOK
<1>2. CASE Finish(w)
  <2>1. NotifyOne /\ stage[w] = "exec" /\ stage' = [stage EXCEPT ![w] = "answer"]
    BY <1>2 DEF Finish, Complete, Become
  <2>2. \A v \in Drowsy : stage'[v] = stage[v]
    BY <1>1, <2>1 DEF NotifySound
  <2> QED
    BY <2>1, <2>2, NotifyOneSeen
<1>3. CASE FindNothing(w) \/ Leave(w)
  BY <1>3 DEF FindNothing, Leave, PullWaits, PullNone, queueVars
<1>4. CASE FallAsleep(w)
  <2>1. UNCHANGED <<ready, stage, permit>> /\ Drowsy' = Drowsy
    BY <1>4 DEF FallAsleep, Awaits, queueVars, Drowsy
  <2> QED
    BY <2>1, SeenOn DEF Working
<1>5. CASE WakeUp(w)
  <2>1. w \notin Drowsy' /\ stage'[w] = "pull"
    BY <1>1, <1>5 DEF WakeUp, Awoken, Become, Drowsy
  <2> QED
    BY <2>1 DEF Sees, Working
<1>6. CASE Spawn(w) \/ Take(w) \/ AnswerAny(w)
  <2>1. /\ stage[w] # "await" /\ stage'[w] # "off"
        /\ \A v \in Worker \ {w} : stage'[v] = stage[v]
        /\ UNCHANGED <<permit, armed, parked>>
        /\ ready' # <<>> => ready # <<>>
    BY <1>1, <1>6 DEF Spawn, Take, AnswerAny, Answer, Become, PullFrame, KeepsWorkers,
                      queueVars, notifyVars
  <2> QED
    BY <1>1, <2>1, SeenOn DEF Working, Drowsy
<1>7. ~Panic(w) /\ ~PanicUncleared(w) /\ ~PanicDrop(w) /\ ~PanicClear(w)
  BY <1>1 DEF Panic, PanicUncleared, PanicDrop, PanicClear, Become, KeepsWorkers
<1> QED
  BY <1>2, <1>3, <1>4, <1>5, <1>6, <1>7 DEF WorkerNext

LEMMA NextSeen == SeenInv /\ [Next /\ KeepsWorkers]_vars => SeenInv'
<1> SUFFICES ASSUME SeenInv, [Next /\ KeepsWorkers]_vars PROVE SeenInv'
  OBVIOUS
<1>1. NoticedInv'
  BY NextNoticed, StepHeeds DEF SeenInv
<1>2. CASE UNCHANGED <<ready, permit, armed, parked, stage>>
  BY <1>1, <1>2, SeenOn DEF SeenInv, Working, Drowsy
<1>3. ASSUME NEW p \in Caller, NEW c \in Conn, Fire(p, c)
      PROVE  UNCHANGED stage /\ (ready # <<>> => permit \/ Sees)'
  <2>1. UNCHANGED stage
    BY <1>3 DEF Fire, Submits
  <2>2. CASE closed
    BY <1>3, <2>1, <2>2, SeenOn DEF Fire, Submits, Submit, queueVars, notifyVars, Working, Drowsy
  <2>3. CASE ~closed
    BY <1>3, <2>1, <2>3, NotifyOneSeen DEF Fire, Submits, Submit
  <2> QED
    BY <2>1, <2>2, <2>3
<1>4. ASSUME NEW w \in Worker, WorkerNext(w), KeepsWorkers
      PROVE  SeenInv'
  <2>1. \A v \in Worker : stage'[v] \notin {"panic", "purge"}
    BY <1>4 DEF SeenInv, NoticedInv, Typed, TypeOK, WorkerNext, Spawn, Take, Leave, FindNothing,
                FallAsleep, WakeUp, Finish, AnswerAny, Answer, Panic, PanicUncleared,
                PanicDrop, PanicClear, Become, KeepsWorkers
  <2> QED
    BY <1>1, <1>4, <2>1, WorkerSeen DEF SeenInv
<1>5. CASE Retire
  BY <1>1, <1>5 DEF Retire, Close, SeenInv
<1>6. CASE Revive
  BY <1>2, <1>6 DEF Revive, Reopen, notifyVars
<1>7. ASSUME NEW c \in Conn, Detach(c) PROVE SeenInv'
  BY <1>2, <1>7 DEF Detach, DropConn, notifyVars
<1> QED
  BY <1>1, <1>2, <1>3, <1>4, <1>5, <1>6, <1>7
  DEF SeenInv, Next, Receive, vars, queueVars, notifyVars

\* A ready frame never lies before sleeping workers only (pull takes its Notified before it
\* looks at the queue), where those that there are count and none is lost on the way.
THEOREM Seen == Spec /\ [][KeepsWorkers]_vars => []ReadyIsSeen
<1>1. Init => SeenInv
  <2>1. Init => Typed
    BY InitType DEF Typed, HandsFull, Init, Owning
  <2> QED
    BY <2>1 DEF Init, QueueInit, SeenInv, NoticedInv, NotifySound, Drowsy
<1>2. SeenInv => ReadyIsSeen
  BY DEF SeenInv, NoticedInv, NotifySound, Sees, Working, Drowsy, ReadyIsSeen, Asleep
<1>3. [Next]_vars /\ [KeepsWorkers]_vars => [Next /\ KeepsWorkers]_vars
  OBVIOUS
<1>4. QED
  BY <1>1, <1>2, <1>3, NextSeen, PTL DEF Spec

-----------------------------------------------------------------------------
(* The scheduler implements the mailboxes.                                 *)
(*                                                                         *)
(* A connection's mailbox is the call that is out, then those held back.   *)
(* At most one is out (OneOwner), and while none is, none is held back but *)
(* behind a worker that cleans up after a panic (HeldBackOnlyInFlight): so *)
(* a frame that becomes ready is the first of an empty mailbox, and one    *)
(* that is released takes the place of the one that has left.  That every  *)
(* call gets the answer of its own frame needs one thing more: a call is   *)
(* in one mailbox, once, or leaving one, and is waiting for its answer.    *)

Box == [c \in Conn |-> BoxOf(c)]
Busy == {c \in Conn : Executing(c) # {}}
Leaving == {hold[w].call : w \in {v \in Worker : stage[v] = "answer"}}

SchedInv == HeldInv /\ SerialInv

-----------------------------------------------------------------------------
(* Sequences of calls. *)

LEMMA FrontThenAppend ==
  ASSUME NEW X, NEW s \in Seq(X), NEW t \in Seq(X), NEW e \in X
  PROVE  s \o Append(t, e) = Append(s \o t, e)
<1>1. /\ s \o t \in Seq(X) /\ <<e>> \in Seq(X)
      /\ Append(t, e) = t \o <<e>>
  BY AppendIsConcat
<1>2. Append(s \o t, e) = (s \o t) \o <<e>>
  BY <1>1, AppendIsConcat
<1>3. QED
  BY <1>1, <1>2, ConcatAssociative

LEMMA OneThenRest ==
  ASSUME NEW X, NEW e \in X, NEW t \in Seq(X)
  PROVE  /\ <<e>> \o t \in Seq(X) /\ <<e>> \o t # <<>>
         /\ Len(<<e>> \o t) = Len(t) + 1
         /\ Head(<<e>> \o t) = e /\ Tail(<<e>> \o t) = t
         /\ SubSeq(<<e>> \o t, 1, 1) = <<e>>
         /\ SubSeq(<<e>> \o t, 2, Len(t) + 1) = t
         /\ (<<e>> \o t)[1] = e
         /\ \A i \in DOMAIN t : i + 1 \in DOMAIN (<<e>> \o t) /\ (<<e>> \o t)[i + 1] = t[i]
<1> DEFINE u == <<e>> \o t
<1>1. /\ u \in Seq(X) /\ Len(u) = Len(t) + 1 /\ <<e>> \in Seq(X) /\ Len(<<e>>) = 1
      /\ \A i \in 1..(Len(t) + 1) : u[i] = IF i <= 1 THEN e ELSE t[i - 1]
  <2>1. <<e>> \in Seq(X) /\ Len(<<e>>) = 1 /\ <<e>>[1] = e
    OBVIOUS
  <2>2. QED
    BY <2>1, ConcatProperties
<1> HIDE DEF u
<1>2. u # <<>> /\ Head(u) = e /\ u[1] = e
  BY <1>1
<1>3. Len(t) \in Nat /\ DOMAIN t = 1..Len(t) /\ DOMAIN u = 1..(Len(t) + 1)
  BY <1>1
<1>4. \A i \in DOMAIN t : i + 1 \in DOMAIN u /\ u[i + 1] = t[i]
  BY <1>1, <1>3
<1>5. Tail(u) = t
  <2>1. Tail(u) \in Seq(X) /\ Len(Tail(u)) = Len(t) /\ \A i \in 1..Len(t) : Tail(u)[i] = t[i]
    BY <1>1, <1>2, <1>3, <1>4, HeadTailProperties
  <2>2. QED
    BY <2>1, SeqEqual
<1>6. SubSeq(u, 2, Len(t) + 1) = t
  BY <1>1, <1>2, <1>5, TailIsSubSeq
<1>7. SubSeq(u, 1, 1) = <<e>>
  <2>1. 1 \in Int /\ \A i \in 1..1 : u[i] \in X
    BY <1>1, <1>2
  <2>2. SubSeq(u, 1, 1) \in Seq(X) /\ Len(SubSeq(u, 1, 1)) = 1 /\ SubSeq(u, 1, 1)[1] = u[1]
    BY <2>1, SubSeqProperties
  <2>3. /\ <<e>> \in Seq(X) /\ Len(SubSeq(u, 1, 1)) = Len(<<e>>)
        /\ \A i \in 1..Len(SubSeq(u, 1, 1)) : SubSeq(u, 1, 1)[i] = <<e>>[i]
    BY <1>1, <1>2, <2>2
  <2>4. QED
    BY <2>2, <2>3, SeqEqual
<1>8. QED
  BY <1>1, <1>2, <1>3, <1>4, <1>5, <1>6, <1>7 DEF u

LEMMA EmptyThenRest ==
  ASSUME NEW X, NEW t \in Seq(X)
  PROVE  <<>> \o t = t /\ SubSeq(t, 1, 0) = <<>> /\ SubSeq(t, 1, Len(t)) = t
BY ConcatEmptySeq, SubSeqEmpty, SubSeqFull

LEMMA CallsOfFrames ==
  ASSUME NEW q \in Seq(Frame)
  PROVE  /\ CallsOf(q) \in Seq(Caller) /\ Len(CallsOf(q)) = Len(q)
         /\ DOMAIN CallsOf(q) = DOMAIN q
         /\ \A i \in DOMAIN q : CallsOf(q)[i] = q[i].call
         /\ CallsOf(q) = <<>> <=> q = <<>>
         /\ Mailbox!Calls(CallsOf(q)) = CallsIn(q)
<1>1. Len(q) \in Nat /\ DOMAIN q = 1..Len(q) /\ \A i \in 1..Len(q) : q[i].call \in Caller
  <2>1. Len(q) \in Nat /\ DOMAIN q = 1..Len(q) /\ \A i \in 1..Len(q) : q[i] \in Frame
    OBVIOUS
  <2>2. QED
    BY <2>1 DEF Frame
<1>2. CallsOf(q) = [i \in 1..Len(q) |-> q[i].call]
  BY <1>1 DEF CallsOf
<1>3. CallsOf(q) \in Seq(Caller) /\ Len(CallsOf(q)) = Len(q) /\ DOMAIN CallsOf(q) = DOMAIN q
  BY <1>1, <1>2
<1>4. \A i \in DOMAIN q : CallsOf(q)[i] = q[i].call
  BY <1>1, <1>2
<1>5. CallsOf(q) = <<>> <=> q = <<>>
  BY <1>3
<1>6. Mailbox!Calls(CallsOf(q)) = CallsIn(q)
  BY <1>3, <1>4 DEF Mailbox!Calls, CallsIn
<1>7. QED
  BY <1>3, <1>4, <1>5, <1>6

LEMMA CallsOfAppend ==
  ASSUME NEW q \in Seq(Frame), NEW f \in Frame
  PROVE  CallsOf(Append(q, f)) = Append(CallsOf(q), f.call)
<1>1. f.call \in Caller /\ Append(q, f) \in Seq(Frame)
  BY DEF Frame
<1>2. /\ Len(q) \in Nat /\ Len(Append(q, f)) = Len(q) + 1
      /\ DOMAIN Append(q, f) = 1..(Len(q) + 1) /\ DOMAIN q = 1..Len(q)
      /\ \A i \in 1..(Len(q) + 1) : Append(q, f)[i] = IF i = Len(q) + 1 THEN f ELSE q[i]
  OBVIOUS
<1>3. /\ CallsOf(q) \in Seq(Caller) /\ Len(CallsOf(q)) = Len(q)
      /\ \A i \in DOMAIN q : CallsOf(q)[i] = q[i].call
  BY CallsOfFrames
<1>4. /\ CallsOf(Append(q, f)) \in Seq(Caller) /\ Len(CallsOf(Append(q, f))) = Len(q) + 1
      /\ \A i \in 1..(Len(q) + 1) : CallsOf(Append(q, f))[i] = Append(q, f)[i].call
  BY <1>1, <1>2, CallsOfFrames
<1>5. /\ Append(CallsOf(q), f.call) \in Seq(Caller) /\ Len(Append(CallsOf(q), f.call)) = Len(q) + 1
      /\ \A i \in 1..Len(q) : Append(CallsOf(q), f.call)[i] = CallsOf(q)[i]
      /\ Append(CallsOf(q), f.call)[Len(q) + 1] = f.call
  BY <1>1, <1>3, AppendProperties
<1>6. \A i \in 1..(Len(q) + 1) : CallsOf(Append(q, f))[i] = Append(CallsOf(q), f.call)[i]
  BY <1>2, <1>3, <1>4, <1>5
<1>7. QED
  BY <1>4, <1>5, <1>6, SeqEqual

LEMMA CallsOfTail ==
  ASSUME NEW q \in Seq(Frame), q # <<>>
  PROVE  CallsOf(q) = <<Head(q).call>> \o CallsOf(Tail(q))
<1>1. /\ Head(q) = q[1] /\ Head(q).call \in Caller /\ Tail(q) \in Seq(Frame)
      /\ Len(q) \in Nat /\ Len(q) > 0 /\ Len(Tail(q)) = Len(q) - 1
      /\ DOMAIN q = 1..Len(q) /\ DOMAIN Tail(q) = 1..(Len(q) - 1)
      /\ \A i \in 1..(Len(q) - 1) : Tail(q)[i] = q[i + 1]
  <2>1. /\ Tail(q) \in Seq(Frame) /\ Len(Tail(q)) = Len(q) - 1
        /\ \A i \in 1..Len(Tail(q)) : Tail(q)[i] = q[i + 1]
    BY HeadTailProperties
  <2>2. Head(q) = q[1] /\ q[1] \in Frame /\ Len(q) \in Nat /\ Len(q) > 0 /\ DOMAIN q = 1..Len(q)
    OBVIOUS
  <2>3. DOMAIN Tail(q) = 1..Len(Tail(q))
    BY <2>1
  <2>4. q[1].call \in Caller
    BY <2>2 DEF Frame
  <2>5. QED
    BY <2>1, <2>2, <2>3, <2>4
<1>2. /\ CallsOf(q) \in Seq(Caller) /\ Len(CallsOf(q)) = Len(q)
      /\ \A i \in DOMAIN q : CallsOf(q)[i] = q[i].call
  BY CallsOfFrames
<1>3. /\ CallsOf(Tail(q)) \in Seq(Caller) /\ Len(CallsOf(Tail(q))) = Len(q) - 1
      /\ \A i \in DOMAIN Tail(q) : CallsOf(Tail(q))[i] = Tail(q)[i].call
  BY <1>1, CallsOfFrames
<1> DEFINE e == Head(q).call
           t == CallsOf(Tail(q))
<1>4. /\ <<e>> \o t \in Seq(Caller) /\ Len(<<e>> \o t) = Len(q)
      /\ \A i \in 1..Len(q) : (<<e>> \o t)[i] = IF i <= 1 THEN e ELSE t[i - 1]
  <2>1. /\ e \in Caller /\ t \in Seq(Caller) /\ Len(t) = Len(q) - 1
        /\ <<e>> \in Seq(Caller) /\ Len(<<e>>) = 1 /\ <<e>>[1] = e
    <3>1. e \in Caller /\ t \in Seq(Caller) /\ Len(t) = Len(q) - 1
      BY <1>1, <1>3
    <3> HIDE DEF e, t
    <3>2. QED
      BY <3>1
  <2> HIDE DEF e, t
  <2>2. /\ <<e>> \o t \in Seq(Caller) /\ Len(<<e>> \o t) = Len(<<e>>) + Len(t)
        /\ \A i \in 1..(Len(<<e>>) + Len(t)) :
             (<<e>> \o t)[i] = IF i <= Len(<<e>>) THEN <<e>>[i] ELSE t[i - Len(<<e>>)]
    BY <2>1, ConcatProperties
  <2>3. Len(<<e>>) + Len(t) = Len(q)
    BY <1>1, <2>1
  <2>4. ASSUME NEW i \in 1..Len(q)
        PROVE  (<<e>> \o t)[i] = IF i <= 1 THEN e ELSE t[i - 1]
    <3>1. (<<e>> \o t)[i] = IF i <= 1 THEN <<e>>[i] ELSE t[i - 1]
      BY <2>1, <2>2, <2>3
    <3>2. i <= 1 => i = 1
      BY <1>1
    <3>3. QED
      BY <2>1, <3>1, <3>2
  <2>5. QED
    BY <2>2, <2>3, <2>4
<1>5. \A i \in 1..Len(q) : CallsOf(q)[i] = (<<e>> \o t)[i]
  <2> SUFFICES ASSUME NEW i \in 1..Len(q) PROVE CallsOf(q)[i] = (<<e>> \o t)[i]
    OBVIOUS
  <2>1. CASE i = 1
    BY <1>1, <1>2, <1>4, <2>1
  <2>2. CASE i # 1
    <3>1. i - 1 \in 1..(Len(q) - 1) /\ ~ (i <= 1) /\ (i - 1) + 1 = i
      BY <1>1, <2>2
    <3>2. t[i - 1] = q[i].call
      BY <1>1, <1>3, <3>1
    <3>3. QED
      BY <1>1, <1>2, <1>4, <3>1, <3>2
  <2>3. QED
    BY <2>1, <2>2
<1>6. QED
  BY <1>2, <1>4, <1>5, SeqEqual

-----------------------------------------------------------------------------
(* What is out, and what the mailbox of a connection holds. *)

NoneReady(c) == \A i \in DOMAIN ready : ready[i].conn # c

LEMMA OutElements ==
  ASSUME NEW c, NEW p
  PROVE  p \in Out(c) <=>
           \/ \E w \in Worker : stage[w] = "exec" /\ hold[w].conn = c /\ p = hold[w].call
           \/ \E i \in DOMAIN ready : ready[i].conn = c /\ p = ready[i].call
BY DEF Out, Executing

LEMMA FrontIs ==
  ASSUME NEW c
  PROVE  /\ Out(c) = {} => Front(c) = <<>>
         /\ \A p : Out(c) = {p} => Front(c) = <<p>>
<1>1. Out(c) = {} => Front(c) = <<>>
  BY DEF Front
<1>2. ASSUME NEW p, Out(c) = {p}
      PROVE  Front(c) = <<p>>
  <2>1. (CHOOSE q \in Out(c) : TRUE) = p
    BY <1>2
  <2>2. Out(c) # {}
    BY <1>2
  <2>3. QED
    BY <2>1, <2>2 DEF Front
<1>3. QED
  BY <1>1, <1>2

\* The frames of a worker's hands and of the ready queue.
LEMMA InHands ==
  ASSUME SchedInv
  PROVE  /\ \A w \in Worker : stage[w] \in Owning \cup {"answer"} =>
              hold[w] \in Frame /\ hold[w].conn \in Conn /\ hold[w].call \in Caller
         /\ \A i \in DOMAIN ready : ready[i].conn \in Conn /\ ready[i].call \in Caller
         /\ ready \in Seq(Frame)
<1>1. ready \in Seq(Frame) /\ \A i \in DOMAIN ready : ready[i] \in Frame
  BY DEF SchedInv, SerialInv, Typed, TypeOK, QueueTypeOK
<1>2. \A w \in Worker : stage[w] \in Owning \cup {"answer"} => hold[w] \in Frame
  BY DEF SchedInv, SerialInv, Typed, HandsFull
<1>3. QED
  BY <1>1, <1>2 DEF Frame

\* While a worker owns the mark of c, nothing of c is ready and no other worker
\* executes for c.
LEMMA OwnersOut ==
  ASSUME SchedInv, NEW w \in Worker, Owner(w), NEW c, c = hold[w].conn
  PROVE  /\ NoneReady(c)
         /\ \A v \in Worker : stage[v] = "exec" /\ hold[v].conn = c => v = w
         /\ stage[w] = "exec" => Executing(c) = {w} /\ Out(c) = {hold[w].call}
         /\ stage[w] # "exec" => Executing(c) = {} /\ Out(c) = {}
<1>1. NoneReady(c)
  BY DEF SchedInv, SerialInv, OneOwner, OwnerNotReady, NoneReady
<1>2. \A v \in Worker : stage[v] = "exec" /\ hold[v].conn = c => v = w
  BY DEF SchedInv, SerialInv, OneOwner, OwnerOnce, Owner, Owning
<1>3. \A p : p \in Out(c) <=> stage[w] = "exec" /\ p = hold[w].call
  BY <1>1, <1>2, OutElements DEF NoneReady
<1>4. stage[w] = "exec" => Executing(c) = {w} /\ Out(c) = {hold[w].call}
  BY <1>2, <1>3 DEF Executing
<1>5. stage[w] # "exec" => Executing(c) = {} /\ Out(c) = {}
  BY <1>2, <1>3 DEF Executing
<1>6. QED
  BY <1>1, <1>2, <1>4, <1>5

\* While a frame of c is ready, it is the only one and no worker executes for c.
LEMMA ReadysOut ==
  ASSUME SchedInv, NEW i \in DOMAIN ready, NEW c, c = ready[i].conn
  PROVE  /\ Executing(c) = {}
         /\ Out(c) = {ready[i].call}
<1>1. \A w \in Worker : stage[w] = "exec" => hold[w].conn # c
  BY DEF SchedInv, SerialInv, OneOwner, OwnerNotReady, Owner, Owning
<1>2. \A j \in DOMAIN ready : ready[j].conn = c => j = i
  BY DEF SchedInv, SerialInv, OneOwner, ReadyOnce
<1>3. \A p : p \in Out(c) <=> p = ready[i].call
  BY <1>1, <1>2, OutElements
<1>4. QED
  BY <1>1, <1>3 DEF Executing

\* An unmarked connection has nothing out and nothing held back.
LEMMA UnmarkedOut ==
  ASSUME SchedInv, NEW c \in Conn, c \notin inFlight
  PROVE  Executing(c) = {} /\ Out(c) = {} /\ waiting[c] = <<>>
<1>1. \A w \in Worker : stage[w] = "exec" => hold[w].conn # c
  BY DEF SchedInv, SerialInv, OneOwner, OwnerMarked, Owner, Owning
<1>2. NoneReady(c)
  BY DEF SchedInv, SerialInv, OneOwner, ReadyMarked, NoneReady
<1>3. \A p : p \notin Out(c)
  BY <1>1, <1>2, OutElements DEF NoneReady
<1>4. waiting[c] = <<>>
  BY DEF SchedInv, HeldInv, HeldBackOnlyInFlight
<1>5. QED
  BY <1>1, <1>3, <1>4 DEF Executing

LEMMA OneIsOut ==
  ASSUME SchedInv, NEW c \in Conn
  PROVE  \/ Executing(c) = {} /\ NoneReady(c) /\ Out(c) = {} /\ Front(c) = <<>>
         \/ \E p \in Caller : Out(c) = {p} /\ Front(c) = <<p>>
<1>1. CASE Executing(c) = {} /\ NoneReady(c)
  <2>1. \A p : p \notin Out(c)
    BY <1>1, OutElements DEF Executing, NoneReady
  <2>2. Out(c) = {}
    BY <2>1
  <2>3. QED
    BY <1>1, <2>2, FrontIs
<1>2. CASE Executing(c) # {}
  <2>1. PICK w \in Worker : stage[w] = "exec" /\ hold[w].conn = c
    BY <1>2 DEF Executing
  <2>2. Owner(w) /\ hold[w].call \in Caller
    BY <2>1, InHands DEF Owner, Owning
  <2>3. Out(c) = {hold[w].call}
    BY <2>1, <2>2, OwnersOut
  <2>4. QED
    BY <2>2, <2>3, FrontIs
<1>3. CASE ~NoneReady(c)
  <2>1. PICK i \in DOMAIN ready : ready[i].conn = c
    BY <1>3 DEF NoneReady
  <2>2. Out(c) = {ready[i].call} /\ ready[i].call \in Caller
    BY <2>1, ReadysOut, InHands
  <2>3. QED
    BY <2>2, FrontIs
<1>4. QED
  BY <1>1, <1>2, <1>3

LEMMA FrontFrames ==
  ASSUME SchedInv, NEW c \in Conn
  PROVE  Front(c) \in Seq(Caller)
<1>1. <<>> \in Seq(Caller) /\ \A p \in Caller : <<p>> \in Seq(Caller)
  OBVIOUS
<1>2. Front(c) = <<>> \/ \E p \in Caller : Front(c) = <<p>>
  BY OneIsOut
<1>3. QED
  BY <1>1, <1>2

LEMMA HeldFrames ==
  ASSUME SchedInv, NEW c \in Conn
  PROVE  /\ waiting[c] \in Seq(Frame)
         /\ CallsOf(waiting[c]) \in Seq(Caller)
         /\ Mailbox!Calls(CallsOf(waiting[c])) = CallsIn(waiting[c])
         /\ CallsOf(waiting[c]) = <<>> <=> waiting[c] = <<>>
<1>1. waiting[c] \in Seq(Frame)
  BY DEF SchedInv, SerialInv, Typed, TypeOK, QueueTypeOK
<1>2. QED
  BY <1>1, CallsOfFrames

\* The mailbox, in the two cases of OneIsOut.
LEMMA BoxIs ==
  ASSUME SchedInv, NEW c \in Conn
  PROVE  /\ Box[c] \in Seq(Caller)
         /\ Out(c) = {} => Box[c] = CallsOf(waiting[c])
         /\ \A p \in Caller : Out(c) = {p} => Box[c] = <<p>> \o CallsOf(waiting[c])
<1>1. Box[c] = Front(c) \o CallsOf(waiting[c])
  BY DEF Box, BoxOf
<1>2. CallsOf(waiting[c]) \in Seq(Caller)
  BY HeldFrames
<1>3. CASE Out(c) = {}
  BY <1>1, <1>2, <1>3, FrontIs, EmptyThenRest
<1>4. ASSUME NEW p \in Caller, Out(c) = {p}
      PROVE  Box[c] = <<p>> \o CallsOf(waiting[c]) /\ Box[c] \in Seq(Caller)
  <2>1. Box[c] = <<p>> \o CallsOf(waiting[c])
    BY <1>1, <1>4, FrontIs
  <2>2. QED
    BY <1>2, <2>1, OneThenRest
<1>5. QED
  BY <1>3, <1>4, OneIsOut

LEMMA BoxKept ==
  ASSUME NEW c \in Conn, Out(c)' = Out(c), waiting'[c] = waiting[c]
  PROVE  Box'[c] = Box[c]
BY DEF Box, BoxOf, Front

-----------------------------------------------------------------------------
(* The same after a step. *)

IsReady(c, p) == \E i \in DOMAIN ready : ready[i].conn = c /\ p = ready[i].call
IsExecuted(c, p) == \E w \in Worker : stage[w] = "exec" /\ hold[w].conn = c /\ p = hold[w].call

LEMMA OutNow ==
  ASSUME NEW c, NEW p
  PROVE  /\ p \in Out(c) <=> IsExecuted(c, p) \/ IsReady(c, p)
         /\ p \in Out(c)' <=> IsExecuted(c, p)' \/ IsReady(c, p)'
<1>1. p \in Out(c) <=> IsExecuted(c, p) \/ IsReady(c, p)
  BY DEF Out, Executing, IsReady, IsExecuted
<1>2. p \in Out(c)' <=> IsExecuted(c, p)' \/ IsReady(c, p)'
  BY DEF Out, Executing, IsReady, IsExecuted
<1>3. QED
  BY <1>1, <1>2

LEMMA OutKept ==
  ASSUME NEW c, \A p : IsExecuted(c, p)' \/ IsReady(c, p)' <=> IsExecuted(c, p) \/ IsReady(c, p)
  PROVE  Out(c)' = Out(c)
<1>1. \A p : p \in Out(c)' <=> p \in Out(c)
  BY OutNow
<1>2. QED
  BY <1>1

LEMMA FrontNow ==
  ASSUME NEW c
  PROVE  /\ Out(c)' = {} => Front(c)' = <<>>
         /\ \A p : Out(c)' = {p} => Front(c)' = <<p>>
<1>1. Out(c)' = {} => Front(c)' = <<>>
  BY DEF Front
<1>2. ASSUME NEW p, Out(c)' = {p}
      PROVE  Front(c)' = <<p>>
  <2>1. (CHOOSE q \in Out(c)' : TRUE) = p
    BY <1>2
  <2>2. Out(c)' # {}
    BY <1>2
  <2>3. QED
    BY <2>1, <2>2 DEF Front
<1>3. QED
  BY <1>1, <1>2

LEMMA ReadyAppended ==
  ASSUME SchedInv, NEW f \in Frame, ready' = Append(ready, f), NEW c, NEW p
  PROVE  IsReady(c, p)' <=> IsReady(c, p) \/ (f.conn = c /\ p = f.call)
<1> DEFINE n == Len(ready) + 1
<1>1. /\ DOMAIN ready' = DOMAIN ready \cup {n}
      /\ \A i \in DOMAIN ready : ready'[i] = ready[i]
      /\ ready'[n] = f
  BY InHands, AppendElements
<1> HIDE DEF n
<1>2. QED
  BY <1>1 DEF IsReady

LEMMA ReadyTaken ==
  ASSUME SchedInv, ready # <<>>, ready' = Tail(ready), NEW c, NEW p
  PROVE  IsReady(c, p) <=> IsReady(c, p)' \/ (Head(ready).conn = c /\ p = Head(ready).call)
<1>1. ready \in Seq(Frame)
  BY InHands
<1>2. /\ 1 \in DOMAIN ready /\ Head(ready) = ready[1]
      /\ \A i \in DOMAIN ready' : i + 1 \in DOMAIN ready /\ ready'[i] = ready[i + 1]
  BY <1>1, TailElements
<1>3. \A i \in DOMAIN ready : i = 1 \/ \E j \in DOMAIN ready' : i = j + 1
  <2>1. Len(ready) \in Nat /\ DOMAIN ready = 1..Len(ready) /\ DOMAIN ready' = 1..(Len(ready) - 1)
    BY <1>1
  <2> SUFFICES ASSUME NEW i \in DOMAIN ready, i # 1
               PROVE  \E j \in DOMAIN ready' : i = j + 1
    OBVIOUS
  <2>2. i - 1 \in DOMAIN ready' /\ i = (i - 1) + 1
    BY <2>1
  <2>3. QED
    BY <2>2
<1>4. IsReady(c, p)' => IsReady(c, p)
  BY <1>2 DEF IsReady
<1>5. Head(ready).conn = c /\ p = Head(ready).call => IsReady(c, p)
  BY <1>2 DEF IsReady
<1>6. ASSUME IsReady(c, p)
      PROVE  IsReady(c, p)' \/ (Head(ready).conn = c /\ p = Head(ready).call)
  <2>1. PICK i \in DOMAIN ready : ready[i].conn = c /\ p = ready[i].call
    BY <1>6 DEF IsReady
  <2>2. CASE i = 1
    BY <1>2, <2>1, <2>2
  <2>3. CASE i # 1
    <3>1. PICK j \in DOMAIN ready' : i = j + 1
      BY <1>3, <2>3
    <3>2. ready'[j] = ready[i]
      BY <1>2, <3>1
    <3>3. QED
      BY <2>1, <3>1, <3>2 DEF IsReady
  <2>4. QED
    BY <2>2, <2>3
<1>7. QED
  BY <1>4, <1>5, <1>6

\* Steps in which no worker begins or stops executing, or answering.
LEMMA SameHands ==
  ASSUME \A w \in Worker : \/ stage'[w] = stage[w] /\ hold'[w] = hold[w]
                           \/ {stage[w], stage'[w]} \cap {"exec", "answer"} = {}
  PROVE  /\ Busy' = Busy /\ Leaving' = Leaving
         /\ \A c, p : IsExecuted(c, p)' <=> IsExecuted(c, p)
<1>1. \A w \in Worker, s \in {"exec", "answer"} :
        (stage[w] = s <=> stage'[w] = s) /\ (stage[w] = s => hold'[w] = hold[w])
  OBVIOUS
<1>2. \A c \in Conn : Executing(c)' = Executing(c)
  BY <1>1 DEF Executing
<1>3. Busy' = Busy
  BY <1>2 DEF Busy
<1>4. Leaving' = Leaving
  BY <1>1 DEF Leaving
<1>5. \A c, p : IsExecuted(c, p)' <=> IsExecuted(c, p)
  BY <1>1 DEF IsExecuted
<1>6. QED
  BY <1>3, <1>4, <1>5

\* Steps that leave the queue alone as well.
LEMMA SameBoxes ==
  ASSUME \A c, p : IsExecuted(c, p)' <=> IsExecuted(c, p), UNCHANGED <<ready, waiting>>
  PROVE  Box' = Box
<1>1. \A c, p : IsReady(c, p)' <=> IsReady(c, p)
  BY DEF IsReady
<1>2. \A c \in Conn : Out(c)' = Out(c)
  BY <1>1, OutKept
<1>3. \A c \in Conn : Box'[c] = Box[c]
  BY <1>2, BoxKept
<1>4. QED
  BY <1>3 DEF Box

-----------------------------------------------------------------------------
(* Every action of the scheduler, as an action of the mailboxes. *)

LEMMA Stutters ==
  ASSUME Box' = Box, Busy' = Busy, Leaving' = Leaving, UNCHANGED <<closed, reply>>
  PROVE  UNCHANGED Mailbox!vars
BY DEF Mailbox!vars, Box, Busy, Leaving

LEMMA FirePosts ==
  ASSUME SchedInv, NEW p \in Caller, NEW c \in Conn, Fire(p, c)
  PROVE  Mailbox!Post(p, c)
<1>1. reply[p] = "idle" /\ UNCHANGED <<stage, hold>>
  BY DEF Fire, Submits
<1>2. Busy' = Busy /\ Leaving' = Leaving /\ \A d, q : IsExecuted(d, q)' <=> IsExecuted(d, q)
  BY <1>1, SameHands
<1>3. CASE closed
  <2>1. UNCHANGED <<queueVars, notifyVars>> /\ Resolve({p}, "closed")
    BY <1>3 DEF Fire, Submits, Submit
  <2>2. Box' = Box /\ closed' = closed
    BY <1>2, <2>1, SameBoxes DEF queueVars
  <2>3. QED
    BY <1>1, <1>2, <1>3, <2>1, <2>2 DEF Resolve, Mailbox!Post, Mailbox!Say, Box, Busy, Leaving
<1>4. CASE ~closed
  <2> DEFINE f == [conn |-> c, call |-> p]
  <2>1. f \in Frame /\ f.conn = c /\ f.call = p
    BY DEF Frame
  <2> HIDE DEF f
  <2>2. Enqueue(f) /\ Resolve({p}, "wait") /\ closed' = closed
    BY <1>4 DEF Fire, Submits, Submit, f
  <2>3. waiting \in [Conn -> Seq(Frame)]
    BY DEF SchedInv, SerialInv, Typed, TypeOK, QueueTypeOK
  <2>4. Box'[c] = Append(Box[c], p) /\ \A d \in Conn \ {c} : Box'[d] = Box[d]
    <3>1. CASE c \in inFlight
      <4>1. ready' = ready /\ waiting' = [waiting EXCEPT ![c] = Append(waiting[c], f)]
        BY <2>1, <2>2, <3>1 DEF Enqueue
      <4>2. \A d \in Conn : Out(d)' = Out(d)
        BY <1>2, <4>1, OutKept DEF IsReady
      <4>3. \A d \in Conn \ {c} : Box'[d] = Box[d]
        BY <2>3, <4>1, <4>2, BoxKept
      <4>4. CallsOf(waiting'[c]) = Append(CallsOf(waiting[c]), p)
        BY <2>1, <2>3, <4>1, CallsOfAppend
      <4>5. Front(c)' = Front(c) /\ Front(c) \in Seq(Caller)
        <5>1. Out(c)' = Out(c)
          BY <4>2
        <5>2. Front(c)' = Front(c)
          BY <5>1 DEF Front
        <5>3. QED
          BY <5>2, FrontFrames
      <4>6. Box'[c] = Front(c) \o Append(CallsOf(waiting[c]), p)
        BY <4>4, <4>5 DEF Box, BoxOf
      <4>7. Box[c] = Front(c) \o CallsOf(waiting[c])
        BY DEF Box, BoxOf
      <4>8. QED
        BY <4>3, <4>5, <4>6, <4>7, HeldFrames, FrontThenAppend
    <3>2. CASE c \notin inFlight
      <4>1. ready' = Append(ready, f) /\ waiting' = waiting
        BY <2>1, <2>2, <3>2 DEF Enqueue, Enqueue_unguarded
      <4>2. \A d, q : IsReady(d, q)' <=> IsReady(d, q) \/ (c = d /\ q = p)
        BY <2>1, <4>1, ReadyAppended
      <4>3. \A d \in Conn \ {c} : Box'[d] = Box[d]
        <5> SUFFICES ASSUME NEW d \in Conn \ {c} PROVE Box'[d] = Box[d]
          OBVIOUS
        <5>1. Out(d)' = Out(d)
          BY <1>2, <4>2, OutKept
        <5>2. QED
          BY <4>1, <5>1, BoxKept
      <4>4. Out(c) = {} /\ waiting[c] = <<>>
        BY <3>2, UnmarkedOut
      <4>5. Out(c)' = {p}
        <5>1. \A q : q \in Out(c)' <=> q = p
          BY <1>2, <4>2, <4>4, OutNow
        <5>2. QED
          BY <5>1
      <4>6. Front(c)' = <<p>>
        BY <4>5, FrontNow
      <4>7. CallsOf(waiting[c]) = <<>>
        BY <4>4, HeldFrames
      <4>8. Box[c] = <<>>
        BY <4>4, <4>7, BoxIs
      <4>9. Box'[c] = <<p>> \o <<>>
        BY <4>1, <4>6, <4>7 DEF Box, BoxOf
      <4>10. QED
        BY <4>3, <4>8, <4>9
    <3>3. QED
      BY <3>1, <3>2
  <2>5. Box' = [Box EXCEPT ![c] = Append(Box[c], p)]
    BY <2>4 DEF Box
  <2>6. QED
    BY <1>1, <1>2, <1>4, <2>2, <2>5 DEF Resolve, Mailbox!Post, Mailbox!Say, Box, Busy, Leaving
<1>5. QED
  BY <1>3, <1>4

LEMMA ReceiveReceives ==
  ASSUME SchedInv, NEW p \in Caller, Receive(p)
  PROVE  Mailbox!Receive(p)
<1>1. reply[p] \in Result /\ UNCHANGED <<queueVars, stage, hold>>
  BY DEF Receive
<1>2. reply \in [Caller -> {"idle", "wait"} \cup Result]
  BY DEF SchedInv, SerialInv, Typed, TypeOK, QueueTypeOK
<1>3. reply' = [q \in Caller |-> IF q \in {p} THEN "idle" ELSE reply[q]]
  BY <1>2 DEF Receive
<1>4. Busy' = Busy /\ Leaving' = Leaving /\ \A d, q : IsExecuted(d, q)' <=> IsExecuted(d, q)
  BY <1>1, SameHands
<1>5. Box' = Box /\ closed' = closed
  BY <1>1, <1>4, SameBoxes DEF queueVars
<1>6. QED
  BY <1>1, <1>3, <1>4, <1>5
     DEF Mailbox!Receive, Mailbox!Say, Mailbox!Result, Result, Box, Busy, Leaving

LEMMA TakeStarts ==
  ASSUME SchedInv, NEW w \in Worker, Take(w)
  PROVE  \E c \in Conn : Mailbox!Start(c)
<1>1. PICK f, c : f = Head(ready) /\ c = f.conn
  OBVIOUS
<1>2. /\ stage[w] = "pull" /\ ready # <<>> /\ ready' = Tail(ready)
      /\ hold' = [hold EXCEPT ![w] = f] /\ stage' = [stage EXCEPT ![w] = "exec"]
      /\ UNCHANGED <<waiting, inFlight, closed, reply>>
  BY <1>1 DEF Take, PullFrame, Become
<1>3. ready \in Seq(Frame)
  BY InHands
<1>4. 1 \in DOMAIN ready /\ f = ready[1] /\ c \in Conn /\ f.call \in Caller
  <2>1. 1 \in DOMAIN ready /\ f = ready[1]
    BY <1>1, <1>2, <1>3
  <2>2. QED
    BY <1>1, <2>1, InHands
<1>5. /\ stage' \in [Worker -> Stage] /\ stage'[w] = "exec" /\ hold'[w] = f
      /\ \A v \in Worker \ {w} : stage'[v] = stage[v] /\ hold'[v] = hold[v]
  BY <1>1, <1>2 DEF SchedInv, SerialInv, Typed, TypeOK, Stage
<1>6. Executing(c) = {} /\ Out(c) = {f.call}
  BY <1>1, <1>4, ReadysOut
<1>7. \A d, q : IsExecuted(d, q)' <=> IsExecuted(d, q) \/ (c = d /\ q = f.call)
  BY <1>1, <1>2, <1>5 DEF IsExecuted
<1>8. \A d, q : IsReady(d, q) <=> IsReady(d, q)' \/ (c = d /\ q = f.call)
  BY <1>1, <1>2, ReadyTaken
<1>9. \A d \in Conn : Out(d)' = Out(d)
  BY <1>7, <1>8, OutKept
<1>10. Box' = Box
  <2>1. \A d \in Conn : Box'[d] = Box[d]
    BY <1>2, <1>9, BoxKept
  <2>2. QED
    BY <2>1 DEF Box
<1>11. Leaving' = Leaving
  BY <1>2, <1>5 DEF Leaving
<1>12. Busy' = Busy \cup {c}
  <2>1. Executing(c)' # {}
    BY <1>1, <1>5 DEF Executing
  <2>2. \A d \in Conn \ {c} : Executing(d)' = Executing(d)
    BY <1>1, <1>2, <1>5 DEF Executing
  <2>3. QED
    BY <1>4, <2>1, <2>2 DEF Busy
<1>13. c \notin Busy
  BY <1>6 DEF Busy
<1>14. Box[c] # <<>>
  <2>1. Box[c] = <<f.call>> \o CallsOf(waiting[c])
    BY <1>4, <1>6, BoxIs
  <2>2. QED
    BY <1>4, <2>1, HeldFrames, OneThenRest
<1>15. Mailbox!Start(c)
  BY <1>2, <1>10, <1>11, <1>12, <1>13, <1>14 DEF Mailbox!Start, Box, Busy, Leaving
<1>16. QED
  BY <1>4, <1>15

\* The frame a worker executes is the first of its mailbox.
LEMMA FirstOfBox ==
  ASSUME SchedInv, NEW w \in Worker, stage[w] = "exec",
         NEW c, c = hold[w].conn, NEW p, p = hold[w].call
  PROVE  /\ c \in Conn /\ p \in Caller
         /\ c \in Busy
         /\ Out(c) = {p} /\ Front(c) = <<p>>
         /\ Box[c] = <<p>> \o CallsOf(waiting[c])
         /\ Box[c] # <<>>
         /\ Head(Box[c]) = p /\ Tail(Box[c]) = CallsOf(waiting[c])
<1>1. Owner(w) /\ c \in Conn /\ p \in Caller
  BY InHands DEF Owner, Owning
<1>2. Executing(c) = {w} /\ Out(c) = {p}
  BY <1>1, OwnersOut
<1>3. Front(c) = <<p>> /\ c \in Busy
  BY <1>1, <1>2, FrontIs DEF Busy
<1>4. Box[c] = <<p>> \o CallsOf(waiting[c])
  BY <1>1, <1>2, BoxIs
<1>5. Box[c] # <<>> /\ Head(Box[c]) = p /\ Tail(Box[c]) = CallsOf(waiting[c])
  BY <1>1, <1>4, HeldFrames, OneThenRest
<1>6. QED
  BY <1>1, <1>2, <1>3, <1>4, <1>5

\* Its worker stops executing it.
LEMMA Stops ==
  ASSUME SchedInv, NEW w \in Worker, stage[w] = "exec", NEW c, c = hold[w].conn,
         NEW s \in Stage \ {"exec"}, stage' = [stage EXCEPT ![w] = s],
         \A v \in Worker \ {w} : hold'[v] = hold[v]
  PROVE  /\ Busy' = Busy \ {c}
         /\ \A q : ~IsExecuted(c, q)' /\ ~IsReady(c, q)
         /\ \A d \in Conn \ {c} : \A q : IsExecuted(d, q)' <=> IsExecuted(d, q)
         /\ stage'[w] = s
         /\ \A v \in Worker \ {w} : stage'[v] = stage[v]
<1>1. /\ stage'[w] = s
      /\ \A v \in Worker \ {w} : stage'[v] = stage[v]
  BY DEF SchedInv, SerialInv, Typed, TypeOK
<1>2. Owner(w)
  BY DEF Owner, Owning
<1>3. /\ \A v \in Worker : stage[v] = "exec" /\ hold[v].conn = c => v = w
      /\ NoneReady(c)
  BY <1>2, OwnersOut
<1>4. Executing(c)' = {} /\ \A d \in Conn \ {c} : Executing(d)' = Executing(d)
  BY <1>1, <1>3 DEF Executing
<1>5. Busy' = Busy \ {c}
  BY <1>4 DEF Busy
<1>6. \A q : ~IsExecuted(c, q)' /\ ~IsReady(c, q)
  BY <1>1, <1>3 DEF IsExecuted, IsReady, NoneReady
<1>7. \A d \in Conn \ {c} : \A q : IsExecuted(d, q)' <=> IsExecuted(d, q)
  BY <1>1 DEF IsExecuted
<1>8. QED
  BY <1>1, <1>5, <1>6, <1>7

LEMMA FinishFinishes ==
  ASSUME SchedInv, NEW w \in Worker, Finish(w)
  PROVE  \E c \in Conn : Mailbox!Finish(c)
<1>1. PICK c, p : c = hold[w].conn /\ p = hold[w].call
  OBVIOUS
<1>2. /\ stage[w] = "exec" /\ stage' = [stage EXCEPT ![w] = "answer"] /\ UNCHANGED hold
      /\ Complete(c)
  BY <1>1 DEF Finish, Become
<1>3. /\ c \in Conn /\ p \in Caller /\ c \in Busy
      /\ Head(Box[c]) = p /\ Tail(Box[c]) = CallsOf(waiting[c])
  BY <1>1, <1>2, FirstOfBox
<1>4. /\ Busy' = Busy \ {c}
      /\ \A q : ~IsExecuted(c, q)' /\ ~IsReady(c, q)
      /\ \A d \in Conn \ {c} : \A q : IsExecuted(d, q)' <=> IsExecuted(d, q)
      /\ stage'[w] = "answer"
      /\ \A v \in Worker \ {w} : stage'[v] = stage[v]
  <2>1. "answer" \in Stage \ {"exec"}
    BY DEF Stage
  <2>2. QED
    BY <1>1, <1>2, <2>1, Stops
<1>5. Leaving' = Leaving \cup {p}
  BY <1>1, <1>2, <1>4 DEF Leaving
<1>6. waiting \in [Conn -> Seq(Frame)]
  BY DEF SchedInv, SerialInv, Typed, TypeOK, QueueTypeOK
<1>7. /\ Box'[c] = CallsOf(waiting[c]) /\ closed' = closed /\ reply' = reply
      /\ \A d \in Conn \ {c} : Box'[d] = Box[d]
  <2>1. CASE waiting[c] = <<>>
    <3>1. UNCHANGED <<ready, waiting, reply, closed>>
      BY <1>2, <2>1 DEF Complete
    <3>2. \A d \in Conn \ {c} : Box'[d] = Box[d]
      <4> SUFFICES ASSUME NEW d \in Conn \ {c} PROVE Box'[d] = Box[d]
        OBVIOUS
      <4>1. Out(d)' = Out(d)
        BY <1>4, <3>1, OutKept DEF IsReady
      <4>2. QED
        BY <3>1, <4>1, BoxKept
    <3>3. Out(c)' = {}
      <4>1. \A q : q \notin Out(c)'
        BY <1>4, <3>1, OutNow DEF IsReady
      <4>2. QED
        BY <4>1
    <3>4. Front(c)' = <<>>
      BY <3>3, FrontNow
    <3>5. Box'[c] = <<>> \o CallsOf(waiting[c])
      BY <1>3, <3>1, <3>4 DEF Box, BoxOf
    <3>6. QED
      BY <1>3, <3>1, <3>2, <3>5, HeldFrames, EmptyThenRest
  <2>2. CASE waiting[c] # <<>>
    <3>1. ~closed
      BY <1>3, <2>2 DEF SchedInv, HeldInv, DrainedInv, ClosedIsDrained
    <3>2. PICK f : f = Head(waiting[c])
      OBVIOUS
    <3>3. /\ waiting' = [waiting EXCEPT ![c] = Tail(waiting[c])]
          /\ ready' = Append(ready, f) /\ UNCHANGED <<reply, closed>>
      BY <1>2, <2>2, <3>1, <3>2 DEF Complete, ReleaseHead
    <3>4. /\ f \in Frame /\ f.conn = c /\ f.call \in Caller
          /\ Tail(waiting[c]) \in Seq(Frame)
      <4>1. waiting[c] \in Seq(Frame)
        BY <1>3, <1>6
      <4>2. 1 \in DOMAIN waiting[c] /\ f = waiting[c][1]
        BY <2>2, <3>2, <4>1, TailElements
      <4>3. f \in Frame /\ Tail(waiting[c]) \in Seq(Frame)
        BY <2>2, <3>2, <4>1, HeadTailProperties
      <4>4. f.conn = c
        BY <1>3, <4>2 DEF SchedInv, SerialInv, WaitingKeyed
      <4>5. f.call \in Caller
        BY <4>3 DEF Frame
      <4>6. QED
        BY <4>3, <4>4, <4>5
    <3>5. \A d, q : IsReady(d, q)' <=> IsReady(d, q) \/ (c = d /\ q = f.call)
      BY <3>3, <3>4, ReadyAppended
    <3>6. \A d \in Conn \ {c} : Box'[d] = Box[d]
      <4> SUFFICES ASSUME NEW d \in Conn \ {c} PROVE Box'[d] = Box[d]
        OBVIOUS
      <4>1. Out(d)' = Out(d)
        BY <1>4, <3>5, OutKept
      <4>2. waiting'[d] = waiting[d]
        BY <1>6, <3>3
      <4>3. QED
        BY <4>1, <4>2, BoxKept
    <3>7. Out(c)' = {f.call}
      <4>1. \A q : q \in Out(c)' <=> q = f.call
        BY <1>4, <3>5, OutNow
      <4>2. QED
        BY <4>1
    <3>8. Front(c)' = <<f.call>>
      BY <3>7, FrontNow
    <3>9. Box'[c] = <<f.call>> \o CallsOf(Tail(waiting[c]))
      BY <1>3, <1>6, <3>3, <3>8 DEF Box, BoxOf
    <3>10. CallsOf(waiting[c]) = <<f.call>> \o CallsOf(Tail(waiting[c]))
      BY <1>3, <1>6, <2>2, <3>2, CallsOfTail
    <3>11. QED
      BY <3>3, <3>6, <3>9, <3>10
  <2>3. QED
    BY <2>1, <2>2
<1>8. Box' = [Box EXCEPT ![c] = Tail(Box[c])]
  BY <1>3, <1>7 DEF Box
<1>9. Mailbox!Finish(c)
  BY <1>3, <1>4, <1>5, <1>7, <1>8 DEF Mailbox!Finish, Box, Busy, Leaving
<1>10. QED
  BY <1>3, <1>9

LEMMA PanicCrashes ==
  ASSUME SchedInv, NEW w \in Worker, Panic(w) \/ PanicUncleared(w)
  PROVE  \E c \in Conn : Mailbox!Crash(c)
<1>1. PICK c, p : c = hold[w].conn /\ p = hold[w].call
  OBVIOUS
<1>2. PICK s \in {"panic", "off"} :
        /\ stage[w] = "exec" /\ stage' = [stage EXCEPT ![w] = s]
        /\ \A v \in Worker \ {w} : hold'[v] = hold[v]
        /\ Resolve({p}, "closed") /\ UNCHANGED <<ready, waiting, closed>>
  BY <1>1 DEF Panic, PanicUncleared, Become, PutDown, queueVars, SchedInv, SerialInv, Typed, TypeOK
<1>3. /\ c \in Conn /\ p \in Caller /\ c \in Busy
      /\ Head(Box[c]) = p /\ Tail(Box[c]) = CallsOf(waiting[c])
  BY <1>1, <1>2, FirstOfBox
<1>4. /\ Busy' = Busy \ {c}
      /\ \A q : ~IsExecuted(c, q)' /\ ~IsReady(c, q)
      /\ \A d \in Conn \ {c} : \A q : IsExecuted(d, q)' <=> IsExecuted(d, q)
      /\ stage'[w] = s
      /\ \A v \in Worker \ {w} : stage'[v] = stage[v]
  <2>1. s \in Stage \ {"exec"}
    BY DEF Stage
  <2>2. QED
    BY <1>1, <1>2, <2>1, Stops
<1>5. Leaving' = Leaving
  BY <1>2, <1>4 DEF Leaving
<1>6. \A d \in Conn \ {c} : Box'[d] = Box[d]
  <2> SUFFICES ASSUME NEW d \in Conn \ {c} PROVE Box'[d] = Box[d]
    OBVIOUS
  <2>1. Out(d)' = Out(d)
    BY <1>2, <1>4, OutKept DEF IsReady
  <2>2. QED
    BY <1>2, <2>1, BoxKept
<1>7. Out(c)' = {}
  <2>1. \A q : q \notin Out(c)'
    BY <1>2, <1>4, OutNow DEF IsReady
  <2>2. QED
    BY <2>1
<1>8. Front(c)' = <<>>
  BY <1>7, FrontNow
<1>9. Box'[c] = <<>> \o CallsOf(waiting[c])
  BY <1>2, <1>3, <1>8 DEF Box, BoxOf
<1>10. Box'[c] = Tail(Box[c])
  BY <1>3, <1>9, HeldFrames, EmptyThenRest
<1>11. Box' = [Box EXCEPT ![c] = Tail(Box[c])]
  BY <1>6, <1>10 DEF Box
<1>12. Mailbox!Crash(c)
  BY <1>2, <1>3, <1>4, <1>5, <1>11
     DEF Mailbox!Crash, Mailbox!Say, Resolve, Box, Busy, Leaving
<1>13. QED
  BY <1>3, <1>12

\* drop_conn gives up all calls of the mailbox but the one that is out.
LEMMA DropDiscards ==
  ASSUME SchedInv, NEW c \in Conn, DropConn(c),
         \A w \in Worker : \/ stage'[w] = stage[w] /\ hold'[w] = hold[w]
                           \/ {stage[w], stage'[w]} \cap {"exec", "answer"} = {}
  PROVE  \E n \in 0..Len(Box[c]) : Mailbox!Discard(c, n)
<1> DEFINE t == CallsOf(waiting[c])
<1>1. Busy' = Busy /\ Leaving' = Leaving /\ \A d, q : IsExecuted(d, q)' <=> IsExecuted(d, q)
  BY SameHands
<1>2. /\ waiting' = [waiting EXCEPT ![c] = <<>>] /\ UNCHANGED <<ready, closed>>
      /\ Resolve(CallsIn(waiting[c]), "dropped")
  BY DEF DropConn
<1>3. waiting'[c] = <<>> /\ \A d \in Conn \ {c} : waiting'[d] = waiting[d]
  BY <1>2 DEF SchedInv, SerialInv, Typed, TypeOK, QueueTypeOK
<1>4. \A d \in Conn : Out(d)' = Out(d)
  BY <1>1, <1>2, OutKept DEF IsReady
<1>5. \A d \in Conn \ {c} : Box'[d] = Box[d]
  BY <1>3, <1>4, BoxKept
<1>6. Front(c)' = Front(c)
  <2>1. Out(c)' = Out(c)
    BY <1>4
  <2>2. QED
    BY <2>1 DEF Front
<1>7. Box'[c] = Front(c)
  <2>1. CallsOf(waiting'[c]) = <<>>
    BY <1>3 DEF CallsOf
  <2>2. Box'[c] = Front(c) \o <<>>
    BY <1>6, <2>1 DEF Box, BoxOf
  <2>3. QED
    BY <2>2, FrontFrames, ConcatEmptySeq
<1>8. t \in Seq(Caller) /\ Mailbox!Calls(t) = CallsIn(waiting[c]) /\ Len(t) \in Nat
  BY HeldFrames
<1> HIDE DEF t
<1>9. \E n \in 0..Len(Box[c]) :
        /\ c \in Busy => n > 0
        /\ Box'[c] = SubSeq(Box[c], 1, n)
        /\ SubSeq(Box[c], n + 1, Len(Box[c])) = t
  <2>1. CASE Out(c) = {}
    <3>1. Box[c] = t /\ Front(c) = <<>>
      BY <2>1, BoxIs, FrontIs DEF t
    <3>2. c \notin Busy
      <4>1. \A w \in Worker : ~(stage[w] = "exec" /\ hold[w].conn = c)
        BY <2>1, OutElements
      <4>2. QED
        BY <4>1 DEF Busy, Executing
    <3>3. /\ SubSeq(Box[c], 1, 0) = <<>> /\ SubSeq(Box[c], 1, Len(Box[c])) = t
          /\ 0 \in 0..Len(Box[c]) /\ 0 + 1 = 1
      BY <1>8, <3>1, EmptyThenRest
    <3>4. QED
      BY <1>7, <3>1, <3>2, <3>3
  <2>2. ASSUME NEW p \in Caller, Out(c) = {p}, Front(c) = <<p>>
        PROVE  \E n \in 0..Len(Box[c]) :
                 /\ c \in Busy => n > 0
                 /\ Box'[c] = SubSeq(Box[c], 1, n)
                 /\ SubSeq(Box[c], n + 1, Len(Box[c])) = t
    <3>1. Box[c] = <<p>> \o t
      BY <2>2, BoxIs DEF t
    <3>2. /\ SubSeq(Box[c], 1, 1) = <<p>> /\ Len(Box[c]) = Len(t) + 1
          /\ SubSeq(Box[c], 2, Len(t) + 1) = t
      BY <1>8, <3>1, OneThenRest
    <3>3. 1 \in 0..Len(Box[c]) /\ 1 + 1 = 2 /\ 1 > 0
      BY <1>8, <3>2
    <3>4. QED
      BY <1>7, <2>2, <3>2, <3>3
  <2>3. QED
    BY <2>1, <2>2, OneIsOut
<1>10. PICK n \in 0..Len(Box[c]) :
         /\ c \in Busy => n > 0
         /\ Box'[c] = SubSeq(Box[c], 1, n)
         /\ SubSeq(Box[c], n + 1, Len(Box[c])) = t
  BY <1>9
<1>11. Box' = [Box EXCEPT ![c] = SubSeq(Box[c], 1, n)]
  BY <1>5, <1>10 DEF Box
<1>12. Resolve(Mailbox!Calls(SubSeq(Box[c], n + 1, Len(Box[c]))), "dropped")
  BY <1>2, <1>8, <1>10
<1>13. Mailbox!Discard(c, n)
  BY <1>1, <1>2, <1>10, <1>11, <1>12
     DEF Mailbox!Discard, Mailbox!Say, Resolve, Box, Busy, Leaving
<1>14. QED
  BY <1>13

\* The steps of a worker that no mailbox shows: it starts, looks, sleeps, wakes,
\* ends, clears its mark.
LEMMA WorkerStutters ==
  ASSUME SchedInv, NEW w \in Worker,
         \/ Spawn(w) \/ Leave(w) \/ FindNothing(w) \/ FallAsleep(w) \/ WakeUp(w) \/ PanicClear(w)
  PROVE  UNCHANGED Mailbox!vars
<1>1. UNCHANGED <<ready, waiting, closed, reply>>
  BY DEF Spawn, Leave, FindNothing, FallAsleep, WakeUp, PanicClear, PullNone, PullWaits,
         ClearInFlight, queueVars
<1>2. \A v \in Worker \ {w} : stage'[v] = stage[v] /\ hold'[v] = hold[v]
  BY DEF SchedInv, SerialInv, Typed, TypeOK, Spawn, Leave, FindNothing, FallAsleep, WakeUp,
         PanicClear, Become, PutDown
<1>3. \/ stage'[w] = stage[w] /\ hold'[w] = hold[w]
      \/ {stage[w], stage'[w]} \cap {"exec", "answer"} = {}
  BY DEF SchedInv, SerialInv, Typed, TypeOK, Spawn, Leave, FindNothing, FallAsleep, WakeUp,
         PanicClear, Become, PutDown
<1>4. Busy' = Busy /\ Leaving' = Leaving /\ \A d, q : IsExecuted(d, q)' <=> IsExecuted(d, q)
  BY <1>2, <1>3, SameHands
<1>5. Box' = Box
  BY <1>1, <1>4, SameBoxes
<1>6. QED
  BY <1>1, <1>4, <1>5, Stutters

LEMMA DetachDiscards ==
  ASSUME SchedInv, NEW c \in Conn, Detach(c)
  PROVE  \E n \in 0..Len(Box[c]) : Mailbox!Discard(c, n)
BY DropDiscards DEF Detach

LEMMA PanicDropDiscards ==
  ASSUME SchedInv, NEW w \in Worker, PanicDrop(w)
  PROVE  \E c \in Conn : \E n \in 0..Len(Box[c]) : Mailbox!Discard(c, n)
<1>1. stage[w] = "panic" /\ stage' = [stage EXCEPT ![w] = "purge"] /\ UNCHANGED hold
  BY DEF PanicDrop, Become
<1>2. hold[w].conn \in Conn
  BY <1>1, InHands DEF Owning
<1>3. \A v \in Worker : \/ stage'[v] = stage[v] /\ hold'[v] = hold[v]
                        \/ {stage[v], stage'[v]} \cap {"exec", "answer"} = {}
  <2>1. stage'[w] = "purge" /\ \A v \in Worker \ {w} : stage'[v] = stage[v]
    BY <1>1 DEF SchedInv, SerialInv, Typed, TypeOK
  <2>2. QED
    BY <1>1, <2>1
<1>4. PICK c \in Conn : DropConn(c)
  BY <1>2 DEF PanicDrop
<1>5. QED
  BY <1>3, <1>4, DropDiscards

LEMMA ReviveUnshuts ==
  ASSUME SchedInv, Revive
  PROVE  Mailbox!Unshut
<1>1. closed /\ ~closed' /\ UNCHANGED <<ready, waiting, reply, stage, hold>>
  BY DEF Revive, Reopen
<1>2. Busy' = Busy /\ Leaving' = Leaving /\ \A d, q : IsExecuted(d, q)' <=> IsExecuted(d, q)
  BY <1>1, SameHands
<1>3. Box' = Box
  BY <1>1, <1>2, SameBoxes
<1>4. QED
  BY <1>1, <1>2, <1>3 DEF Mailbox!Unshut, Box, Busy, Leaving

-----------------------------------------------------------------------------
(* Every call is in one place: once in one mailbox, or leaving in the hands of *)
(* one worker; and meanwhile it waits for its answer.                          *)

PlacedOnce(box, leaving, answers) ==
  /\ \A c, d \in Conn : \A i \in DOMAIN box[c], j \in DOMAIN box[d] :
       box[c][i] = box[d][j] => c = d /\ i = j
  /\ \A c \in Conn : \A i \in DOMAIN box[c] :
       box[c][i] \notin leaving /\ answers[box[c][i]] = "wait"
  /\ \A p \in leaving : answers[p] = "wait"

LeavingOnce ==
  \A v, w \in Worker :
    stage[v] = "answer" /\ stage[w] = "answer" /\ hold[v].call = hold[w].call => v = w

CallsOnce == PlacedOnce(Box, Leaving, reply) /\ LeavingOnce

LEMMA PostPlaced ==
  ASSUME NEW box \in [Conn -> Seq(Caller)], NEW leaving \in SUBSET Caller, NEW answers,
         PlacedOnce(box, leaving, answers),
         NEW c \in Conn, NEW p \in Caller, answers[p] # "wait", NEW box2, NEW answers2,
         box2 = [box EXCEPT ![c] = Append(box[c], p)],
         answers2 = [q \in Caller |-> IF q \in {p} THEN "wait" ELSE answers[q]]
  PROVE  PlacedOnce(box2, leaving, answers2)
<1> DEFINE n == Len(box[c]) + 1
<1>1. /\ box2[c] = Append(box[c], p) /\ \A d \in Conn \ {c} : box2[d] = box[d]
      /\ \A d \in Conn : \A i \in DOMAIN box[d] : box[d][i] \in Caller
  OBVIOUS
<1>2. /\ DOMAIN box2[c] = DOMAIN box[c] \cup {n} /\ n \notin DOMAIN box[c]
      /\ \A i \in DOMAIN box[c] : box2[c][i] = box[c][i]
      /\ box2[c][n] = p
  BY <1>1, AppendElements
<1> HIDE DEF n
<1>3. /\ \A d \in Conn : \A i \in DOMAIN box[d] : box[d][i] # p
      /\ p \notin leaving
  BY DEF PlacedOnce
<1>4. \A d \in Conn : \A i \in DOMAIN box2[d] :
        \/ i \in DOMAIN box[d] /\ box2[d][i] = box[d][i]
        \/ d = c /\ i = n /\ box2[d][i] = p
  BY <1>1, <1>2
<1>5. \A d, e \in Conn : \A i \in DOMAIN box2[d], j \in DOMAIN box2[e] :
        box2[d][i] = box2[e][j] => d = e /\ i = j
  BY <1>3, <1>4 DEF PlacedOnce
<1>6. \A d \in Conn : \A i \in DOMAIN box2[d] :
        box2[d][i] \notin leaving /\ answers2[box2[d][i]] = "wait"
  BY <1>1, <1>3, <1>4 DEF PlacedOnce
<1>7. \A q \in leaving : answers2[q] = "wait"
  BY DEF PlacedOnce
<1>8. QED
  BY <1>5, <1>6, <1>7 DEF PlacedOnce

LEMMA ElementOfBox ==
  ASSUME NEW box \in [Conn -> Seq(Caller)], NEW c \in Conn, NEW i \in DOMAIN box[c]
  PROVE  box[c][i] \in Caller
<1>1. box[c] \in Seq(Caller)
  OBVIOUS
<1>2. QED
  BY <1>1

\* Calls are taken from the front of the boxes (k of them) and from the back: box2 is
\* what is left.  Those that go are answered.
Shrinks(box, box2, k) ==
  \A c \in Conn : \A i \in DOMAIN box2[c] :
    i \in Nat /\ i + k[c] \in DOMAIN box[c] /\ box2[c][i] = box[c][i + k[c]]

TakesOut(gone, box, box2) ==
  /\ \A p \in gone : \E c \in Conn : \E i \in DOMAIN box[c] : p = box[c][i]
  /\ \A c \in Conn : \A i \in DOMAIN box2[c] : box2[c][i] \notin gone

LEMMA GonePlaced ==
  ASSUME NEW box \in [Conn -> Seq(Caller)], NEW leaving \in SUBSET Caller, NEW answers,
         PlacedOnce(box, leaving, answers),
         NEW box2, NEW k \in [Conn -> Nat], Shrinks(box, box2, k),
         NEW gone, TakesOut(gone, box, box2), NEW answers2, NEW r,
         answers2 = [q \in Caller |-> IF q \in gone THEN r ELSE answers[q]]
  PROVE  PlacedOnce(box2, leaving, answers2)
<1>1. \A c, d \in Conn : \A i \in DOMAIN box2[c], j \in DOMAIN box2[d] :
        box2[c][i] = box2[d][j] => c = d /\ i = j
  <2> SUFFICES ASSUME NEW c \in Conn, NEW d \in Conn,
                      NEW i \in DOMAIN box2[c], NEW j \in DOMAIN box2[d],
                      box2[c][i] = box2[d][j]
               PROVE  c = d /\ i = j
    OBVIOUS
  <2>1. c = d /\ i + k[c] = j + k[d]
    BY DEF PlacedOnce, Shrinks
  <2>2. i \in Nat /\ j \in Nat /\ k[c] \in Nat
    BY DEF Shrinks
  <2>3. QED
    BY <2>1, <2>2
<1>2. \A c \in Conn : \A i \in DOMAIN box2[c] :
        \E j \in DOMAIN box[c] : box2[c][i] = box[c][j]
  BY DEF Shrinks
<1>3. ASSUME NEW c \in Conn, NEW i \in DOMAIN box2[c]
      PROVE  box2[c][i] \notin leaving /\ answers2[box2[c][i]] = "wait"
  <2>1. PICK j \in DOMAIN box[c] : box2[c][i] = box[c][j]
    BY <1>2
  <2>2. box[c][j] \in Caller
    BY ElementOfBox
  <2>3. box[c][j] \notin leaving /\ answers[box[c][j]] = "wait"
    BY DEF PlacedOnce
  <2>4. box2[c][i] \notin gone
    BY DEF TakesOut
  <2>5. QED
    BY <2>1, <2>2, <2>3, <2>4
<1>4. \A q \in leaving : answers2[q] = "wait"
  BY DEF PlacedOnce, TakesOut
<1>5. QED
  BY <1>1, <1>3, <1>4 DEF PlacedOnce

LEMMA BoxType ==
  ASSUME SchedInv
  PROVE  /\ Box \in [Conn -> Seq(Caller)]
         /\ Leaving \in SUBSET Caller
         /\ \A c \in Conn : DOMAIN Box[c] = 1..Len(Box[c]) /\ Len(Box[c]) \in Nat
<1>1. \A c \in Conn : Box[c] \in Seq(Caller)
  BY BoxIs
<1>2. Box \in [Conn -> Seq(Caller)]
  BY <1>1 DEF Box
<1>3. Leaving \in SUBSET Caller
  BY InHands DEF Leaving
<1>4. \A c \in Conn : DOMAIN Box[c] = 1..Len(Box[c]) /\ Len(Box[c]) \in Nat
  BY <1>1, LenProperties
<1>5. QED
  BY <1>2, <1>3, <1>4

\* What the tail and a prefix of a mailbox hold.
LEMMA TailOfBox ==
  ASSUME NEW t \in Seq(Caller), t # <<>>
  PROVE  /\ 1 \in DOMAIN t /\ Head(t) = t[1]
         /\ \A i \in DOMAIN Tail(t) :
              i \in Nat /\ i + 1 \in DOMAIN t /\ Tail(t)[i] = t[i + 1] /\ i + 1 # 1
BY TailElements

LEMMA PrefixOfBox ==
  ASSUME NEW t \in Seq(Caller), NEW n \in 0..Len(t)
  PROVE  /\ \A i \in DOMAIN SubSeq(t, 1, n) :
              i \in Nat /\ i + 0 \in DOMAIN t /\ i <= n /\ SubSeq(t, 1, n)[i] = t[i]
         /\ \A p \in Mailbox!Calls(SubSeq(t, n + 1, Len(t))) :
              \E i \in DOMAIN t : i > n /\ p = t[i]
<1>1. n \in Nat /\ Len(t) \in Nat /\ n <= Len(t) /\ DOMAIN t = 1..Len(t)
      /\ \A i \in 1..Len(t) : t[i] \in Caller
  OBVIOUS
<1>2. /\ SubSeq(t, 1, n) \in Seq(Caller) /\ Len(SubSeq(t, 1, n)) = n
      /\ \A i \in 1..n : SubSeq(t, 1, n)[i] = t[i]
  <2>1. 1 \in Int /\ n \in Int /\ \A i \in 1..n : t[i] \in Caller
    BY <1>1
  <2>2. /\ SubSeq(t, 1, n) \in Seq(Caller)
        /\ Len(SubSeq(t, 1, n)) = IF 1 <= n THEN n - 1 + 1 ELSE 0
        /\ \A i \in 1..(n - 1 + 1) : SubSeq(t, 1, n)[i] = t[1 + i - 1]
    BY <2>1, SubSeqProperties
  <2>3. n - 1 + 1 = n /\ \A i \in 1..n : 1 + i - 1 = i
    BY <1>1
  <2>4. QED
    BY <1>1, <2>2, <2>3
<1>3. DOMAIN SubSeq(t, 1, n) = 1..n
  BY <1>2
<1>4. ASSUME NEW p \in Mailbox!Calls(SubSeq(t, n + 1, Len(t)))
      PROVE  \E i \in DOMAIN t : i > n /\ p = t[i]
  <2> DEFINE u == SubSeq(t, n + 1, Len(t))
  <2>1. n + 1 \in Int /\ Len(t) \in Int /\ \A i \in (n + 1)..Len(t) : t[i] \in Caller
    BY <1>1
  <2>2. /\ u \in Seq(Caller)
        /\ Len(u) = IF n + 1 <= Len(t) THEN Len(t) - (n + 1) + 1 ELSE 0
        /\ \A i \in 1..(Len(t) - (n + 1) + 1) : u[i] = t[(n + 1) + i - 1]
    BY <2>1, SubSeqProperties
  <2>3. PICK j \in DOMAIN u : p = u[j]
    BY <1>4 DEF Mailbox!Calls
  <2> HIDE DEF u
  <2>4. j \in Nat /\ j >= 1 /\ j <= Len(t) - n
    <3>1. DOMAIN u = 1..Len(u) /\ Len(u) \in Nat
      BY <2>2, LenProperties
    <3>2. j \in Nat /\ j >= 1 /\ j <= Len(u)
      BY <2>3, <3>1
    <3>3. Len(u) = 0 \/ Len(u) = Len(t) - (n + 1) + 1
      BY <2>2
    <3>4. PICK x \in Nat, y \in Nat : x = Len(u) /\ y = Len(t)
      BY <1>1, <3>1
    <3>5. n \in Nat /\ (x = 0 \/ x = y - (n + 1) + 1) /\ j <= x
      BY <1>1, <3>2, <3>3, <3>4
    <3>6. j <= y - n
      BY <3>2, <3>5
    <3>7. QED
      BY <3>2, <3>4, <3>6
  <2>5. j + n \in DOMAIN t /\ j + n > n /\ (n + 1) + j - 1 = j + n
        /\ j \in 1..(Len(t) - (n + 1) + 1)
    BY <1>1, <2>4
  <2>6. p = t[j + n]
    BY <2>2, <2>3, <2>5
  <2>7. QED
    BY <2>5, <2>6
<1>5. QED
  BY <1>1, <1>2, <1>3, <1>4

-----------------------------------------------------------------------------
(* A step of the mailboxes keeps every call in one place. *)

LEMMA Offsets ==
  /\ \A c \in Conn : [d \in Conn |-> IF d = c THEN 1 ELSE 0] \in [Conn -> Nat]
  /\ [d \in Conn |-> 0] \in [Conn -> Nat]
OBVIOUS

LEMMA CallsOfBox ==
  ASSUME NEW t, NEW p
  PROVE  p \in Mailbox!Calls(t) <=> \E i \in DOMAIN t : p = t[i]
BY DEF Mailbox!Calls

LEMMA CallsOfOne ==
  ASSUME NEW t \in Seq(Caller), NEW p \in Caller, NEW q
  PROVE  q \in Mailbox!Calls(<<p>> \o t) <=> q \in {p} \/ q \in Mailbox!Calls(t)
<1>1. PICK u : u = <<p>> \o t
  OBVIOUS
<1>2. /\ u \in Seq(Caller) /\ Len(u) = Len(t) + 1 /\ u[1] = p
      /\ \A i \in DOMAIN t : i + 1 \in DOMAIN u /\ u[i + 1] = t[i]
  BY <1>1, OneThenRest
<1>3. DOMAIN t = 1..Len(t) /\ Len(t) \in Nat /\ DOMAIN u = 1..Len(u)
  BY <1>2, LenProperties
<1>4. ASSUME NEW i \in DOMAIN u, i # 1
      PROVE  \E j \in DOMAIN t : i = j + 1
  <2>1. i - 1 \in DOMAIN t /\ i = (i - 1) + 1
    BY <1>2, <1>3, <1>4
  <2>2. QED
    BY <2>1
<1>5. 1 \in DOMAIN u
  BY <1>2, <1>3
<1>6. ASSUME q \in Mailbox!Calls(u)
      PROVE  q = p \/ q \in Mailbox!Calls(t)
  <2>1. PICK i \in DOMAIN u : q = u[i]
    BY <1>6, CallsOfBox
  <2>2. CASE i = 1
    BY <1>2, <2>1, <2>2
  <2>3. CASE i # 1
    <3>1. PICK j \in DOMAIN t : i = j + 1
      BY <1>4, <2>3
    <3>2. q = t[j]
      BY <1>2, <2>1, <3>1
    <3>3. QED
      BY <3>2, CallsOfBox
  <2>4. QED
    BY <2>2, <2>3
<1>7. ASSUME q = p \/ q \in Mailbox!Calls(t)
      PROVE  q \in Mailbox!Calls(u)
  <2>1. CASE q = p
    BY <1>2, <1>5, <2>1, CallsOfBox
  <2>2. CASE q \in Mailbox!Calls(t)
    <3>1. PICK j \in DOMAIN t : q = t[j]
      BY <2>2, CallsOfBox
    <3>2. QED
      BY <1>2, <3>1, CallsOfBox
  <2>3. QED
    BY <1>7, <2>1, <2>2
<1>8. QED
  BY <1>1, <1>6, <1>7

\* The first call of a mailbox is taken out and answered, or held by its worker.
LEMMA FirstGonePlaced ==
  ASSUME SchedInv, PlacedOnce(Box, Leaving, reply), NEW c \in Conn, Box[c] # <<>>,
         Box' = [Box EXCEPT ![c] = Tail(Box[c])]
  PROVE  /\ (UNCHANGED reply /\ Leaving' = Leaving \cup {Head(Box[c])})
              => PlacedOnce(Box', Leaving', reply')
         /\ (Resolve({Head(Box[c])}, "closed") /\ Leaving' = Leaving)
              => PlacedOnce(Box', Leaving', reply')
<1> DEFINE p == Head(Box[c])
<1>1. Box \in [Conn -> Seq(Caller)] /\ Leaving \in SUBSET Caller
  BY BoxType
<1>2. PICK t : t = Box[c]
  OBVIOUS
<1>3. /\ 1 \in DOMAIN t /\ p = t[1]
      /\ \A i \in DOMAIN Tail(t) :
           i \in Nat /\ i + 1 \in DOMAIN t /\ Tail(t)[i] = t[i + 1] /\ i + 1 # 1
  BY <1>1, <1>2, TailOfBox
<1>4. Box'[c] = Tail(t) /\ \A d \in Conn \ {c} : Box'[d] = Box[d]
  BY <1>1, <1>2
<1> HIDE DEF p
<1>5. PICK k \in [Conn -> Nat] : k = [d \in Conn |-> IF d = c THEN 1 ELSE 0]
  BY Offsets
<1>6. ASSUME NEW d \in Conn, NEW i \in DOMAIN Box'[d]
      PROVE  i \in Nat /\ i + k[d] \in DOMAIN Box[d] /\ Box'[d][i] = Box[d][i + k[d]]
  <2>1. CASE d = c
    <3>1. k[d] = 1 /\ Box'[d] = Tail(t) /\ Box[d] = t
      BY <1>2, <1>4, <1>5, <2>1
    <3>2. QED
      BY <1>3, <3>1
  <2>2. CASE d # c
    <3>1. Box'[d] = Box[d] /\ k[d] = 0
      BY <1>4, <1>5, <2>2
    <3>2. i \in Nat
      BY <1>1, <3>1, BoxType
    <3>3. i + k[d] = i
      BY <3>1, <3>2
    <3>4. QED
      BY <3>1, <3>2, <3>3
  <2>3. QED
    BY <2>1, <2>2
<1>7. ASSUME NEW d \in Conn, NEW i \in DOMAIN Box'[d]
      PROVE  Box'[d][i] # p
  <2>1. CASE d = c
    <3>1. i + 1 \in DOMAIN Box[c] /\ 1 \in DOMAIN Box[c] /\ i + 1 # 1
      BY <1>2, <1>3, <1>4, <2>1
    <3>2. Box'[d][i] = Box[c][i + 1] /\ p = Box[c][1]
      BY <1>2, <1>3, <1>4, <2>1
    <3>3. QED
      BY <3>1, <3>2 DEF PlacedOnce
  <2>2. CASE d # c
    BY <1>2, <1>3, <1>4, <2>2 DEF PlacedOnce
  <2>3. QED
    BY <2>1, <2>2
<1>8. Shrinks(Box, Box', k)
  BY <1>6 DEF Shrinks
<1>9. ASSUME Resolve({p}, "closed"), Leaving' = Leaving
      PROVE  PlacedOnce(Box', Leaving', reply')
  <2>1. TakesOut({p}, Box, Box')
    BY <1>2, <1>3, <1>7 DEF TakesOut
  <2>2. reply' = [q \in Caller |-> IF q \in {p} THEN "closed" ELSE reply[q]]
    BY <1>9 DEF Resolve
  <2>3. PlacedOnce(Box', Leaving, reply')
    BY <1>1, <1>8, <2>1, <2>2, GonePlaced
  <2>4. QED
    BY <1>9, <2>3
<1>10. ASSUME UNCHANGED reply, Leaving' = Leaving \cup {p}
      PROVE  PlacedOnce(Box', Leaving', reply')
  <2>1. PICK none : none = {}
    OBVIOUS
  <2>2. PlacedOnce(Box', Leaving, reply')
    <3>1. reply \in [Caller -> {"idle", "wait"} \cup Result]
      BY DEF SchedInv, SerialInv, Typed, TypeOK, QueueTypeOK
    <3>2. reply' = [q \in Caller |-> IF q \in none THEN "closed" ELSE reply[q]]
      BY <1>10, <2>1, <3>1
    <3>3. TakesOut(none, Box, Box')
      BY <2>1 DEF TakesOut
    <3>4. QED
      BY <1>1, <1>8, <3>2, <3>3, GonePlaced
  <2>3. reply'[p] = "wait"
    BY <1>2, <1>3, <1>10 DEF PlacedOnce
  <2>4. QED
    BY <1>7, <1>10, <2>2, <2>3 DEF PlacedOnce
<1>11. QED
  BY <1>9, <1>10 DEF p

LEMMA PrefixPlaced ==
  ASSUME SchedInv, PlacedOnce(Box, Leaving, reply), NEW c \in Conn, NEW n \in 0..Len(Box[c]),
         Box' = [Box EXCEPT ![c] = SubSeq(Box[c], 1, n)],
         Resolve(Mailbox!Calls(SubSeq(Box[c], n + 1, Len(Box[c]))), "dropped"),
         Leaving' = Leaving
  PROVE  PlacedOnce(Box', Leaving', reply')
<1>1. Box \in [Conn -> Seq(Caller)] /\ Leaving \in SUBSET Caller
  BY BoxType
<1>2. PICK t, gone : t = Box[c] /\ gone = Mailbox!Calls(SubSeq(t, n + 1, Len(t)))
  OBVIOUS
<1>3. /\ \A i \in DOMAIN SubSeq(t, 1, n) :
           i \in Nat /\ i + 0 \in DOMAIN t /\ i <= n /\ SubSeq(t, 1, n)[i] = t[i]
      /\ \A p \in gone : \E i \in DOMAIN t : i > n /\ p = t[i]
  BY <1>1, <1>2, PrefixOfBox
<1>4. Box'[c] = SubSeq(t, 1, n) /\ \A d \in Conn \ {c} : Box'[d] = Box[d]
  BY <1>1, <1>2
<1>5. PICK k \in [Conn -> Nat] : k = [d \in Conn |-> 0]
  BY Offsets
<1>6. n \in Nat /\ \A i \in DOMAIN t : i \in Nat
  BY <1>1, <1>2, BoxType
<1>7. ASSUME NEW d \in Conn, NEW i \in DOMAIN Box'[d]
      PROVE  /\ i \in Nat /\ i + k[d] \in DOMAIN Box[d] /\ Box'[d][i] = Box[d][i + k[d]]
             /\ i \in DOMAIN Box[d] /\ Box'[d][i] = Box[d][i]
             /\ d = c => i <= n
  <2>1. CASE d = c
    <3>1. k[d] = 0 /\ i \in Nat /\ i + 0 \in DOMAIN t /\ i <= n /\ Box'[d][i] = t[i]
      BY <1>3, <1>4, <1>5, <2>1
    <3>2. QED
      BY <1>2, <2>1, <3>1
  <2>2. CASE d # c
    <3>1. Box'[d] = Box[d] /\ k[d] = 0
      BY <1>4, <1>5, <2>2
    <3>2. i \in Nat
      BY <1>1, <3>1, BoxType
    <3>3. QED
      BY <2>2, <3>1, <3>2
  <2>3. QED
    BY <2>1, <2>2
<1>8. ASSUME NEW d \in Conn, NEW i \in DOMAIN Box'[d]
      PROVE  Box'[d][i] \notin gone
  <2> SUFFICES ASSUME Box'[d][i] \in gone PROVE FALSE
    OBVIOUS
  <2>1. PICK j \in DOMAIN t : j > n /\ Box'[d][i] = t[j]
    BY <1>3
  <2>2. i \in DOMAIN Box[d] /\ Box[d][i] = Box[c][j] /\ (d = c => i <= n) /\ i \in Nat
    BY <1>2, <1>7, <2>1
  <2>3. d = c /\ i = j
    BY <1>2, <2>1, <2>2 DEF PlacedOnce
  <2>4. QED
    BY <1>6, <2>1, <2>2, <2>3
<1>9. Shrinks(Box, Box', k) /\ TakesOut(gone, Box, Box')
  BY <1>2, <1>3, <1>7, <1>8 DEF Shrinks, TakesOut
<1>10. reply' = [q \in Caller |-> IF q \in gone THEN "dropped" ELSE reply[q]]
  BY <1>2 DEF Resolve
<1>11. PlacedOnce(Box', Leaving, reply')
  BY <1>1, <1>9, <1>10, GonePlaced
<1>12. QED
  BY <1>11

LEMMA ShutPlaced ==
  ASSUME SchedInv, PlacedOnce(Box, Leaving, reply),
         Box' = [c \in Conn |-> IF c \in Busy THEN <<Head(Box[c])>> ELSE <<>>],
         Resolve(UNION {Mailbox!Calls(Box[c]) \ Mailbox!Calls(Box'[c]) : c \in Conn}, "closed"),
         Leaving' = Leaving
  PROVE  PlacedOnce(Box', Leaving', reply')
<1>1. Box \in [Conn -> Seq(Caller)] /\ Leaving \in SUBSET Caller
  BY BoxType
<1>2. PICK gone : gone = UNION {Mailbox!Calls(Box[c]) \ Mailbox!Calls(Box'[c]) : c \in Conn}
  OBVIOUS
<1>3. PICK k \in [Conn -> Nat] : k = [d \in Conn |-> 0]
  BY Offsets
<1>4. ASSUME NEW c \in Conn, NEW i \in DOMAIN Box'[c]
      PROVE  i = 1 /\ 1 \in DOMAIN Box[c] /\ Box'[c][i] = Box[c][1]
  <2>1. CASE c \in Busy
    <3>1. PICK w \in Worker : stage[w] = "exec" /\ hold[w].conn = c
      BY <2>1 DEF Busy, Executing
    <3>2. Box[c] # <<>>
      BY <3>1, FirstOfBox
    <3>3. 1 \in DOMAIN Box[c] /\ Head(Box[c]) = Box[c][1]
      BY <1>1, <3>2, TailOfBox
    <3>4. PICK p : p = Head(Box[c])
      OBVIOUS
    <3>5. Box'[c] = <<p>>
      BY <2>1, <3>4
    <3>6. DOMAIN <<p>> = {1} /\ <<p>>[1] = p
      OBVIOUS
    <3>7. i = 1 /\ Box'[c][i] = p
      BY <3>5, <3>6
    <3>8. QED
      BY <3>3, <3>4, <3>7
  <2>2. CASE c \notin Busy
    <3>1. Box'[c] = <<>> /\ DOMAIN <<>> = {}
      BY <2>2
    <3>2. QED
      BY <3>1
  <2>3. QED
    BY <2>1, <2>2
<1>5. Shrinks(Box, Box', k)
  <2> SUFFICES ASSUME NEW c \in Conn, NEW i \in DOMAIN Box'[c]
               PROVE  i \in Nat /\ i + k[c] \in DOMAIN Box[c] /\ Box'[c][i] = Box[c][i + k[c]]
    BY DEF Shrinks
  <2>1. i = 1 /\ k[c] = 0 /\ i + k[c] = i /\ i \in Nat
    BY <1>3, <1>4
  <2>2. QED
    BY <1>4, <2>1
<1>6. TakesOut(gone, Box, Box')
  <2>1. ASSUME NEW p \in gone
        PROVE  \E c \in Conn : \E i \in DOMAIN Box[c] : p = Box[c][i]
    <3>1. PICK c \in Conn : p \in Mailbox!Calls(Box[c])
      BY <1>2
    <3>2. QED
      BY <3>1, CallsOfBox
  <2>2. ASSUME NEW c \in Conn, NEW i \in DOMAIN Box'[c], Box'[c][i] \in gone
        PROVE  FALSE
    <3>1. PICK p : p = Box'[c][i]
      OBVIOUS
    <3>2. PICK d \in Conn : p \in Mailbox!Calls(Box[d]) /\ p \notin Mailbox!Calls(Box'[d])
      BY <1>2, <2>2, <3>1
    <3>3. PICK j \in DOMAIN Box[d] : p = Box[d][j]
      BY <3>2, CallsOfBox
    <3>4. 1 \in DOMAIN Box[c] /\ p = Box[c][1]
      BY <1>4, <3>1
    <3>5. c = d
      BY <3>3, <3>4 DEF PlacedOnce
    <3>6. p \in Mailbox!Calls(Box'[c])
      BY <3>1, CallsOfBox
    <3>7. QED
      BY <3>2, <3>5, <3>6
  <2>3. QED
    BY <2>1, <2>2 DEF TakesOut
<1>7. reply' = [q \in Caller |-> IF q \in gone THEN "closed" ELSE reply[q]]
  BY <1>2 DEF Resolve
<1>8. PlacedOnce(Box', Leaving, reply')
  BY <1>1, <1>5, <1>6, <1>7, GonePlaced
<1>9. QED
  BY <1>8

\* Calls leave the mailboxes, or give up their places, only with an answer.
LEMMA MailboxPlaced ==
  ASSUME SchedInv, PlacedOnce(Box, Leaving, reply), Mailbox!Next \/ UNCHANGED Mailbox!vars
  PROVE  PlacedOnce(Box', Leaving', reply')
<1>1. Box \in [Conn -> Seq(Caller)] /\ Leaving \in SUBSET Caller
  BY BoxType
<1>2. reply \in [Caller -> {"idle", "wait"} \cup Result]
  BY DEF SchedInv, SerialInv, Typed, TypeOK, QueueTypeOK
<1>3. ASSUME NEW p \in Caller, NEW c \in Conn, Mailbox!Post(p, c)
      PROVE  PlacedOnce(Box', Leaving', reply')
  <2>1. reply[p] = "idle" /\ Leaving' = Leaving
    BY <1>3 DEF Mailbox!Post, Leaving
  <2>2. CASE closed
    <3>1. Box' = Box
      BY <1>3, <2>2 DEF Mailbox!Post, Box
    <3>2. \A q \in Caller : reply[q] = "wait" => reply'[q] = "wait"
      BY <1>3, <2>1, <2>2 DEF Mailbox!Post, Mailbox!Say
    <3>3. QED
      BY <1>1, <2>1, <3>1, <3>2, ElementOfBox DEF PlacedOnce
  <2>3. CASE ~closed
    <3>1. Box' = [Box EXCEPT ![c] = Append(Box[c], p)]
      BY <1>3, <2>3 DEF Mailbox!Post, Box
    <3>2. reply' = [q \in Caller |-> IF q \in {p} THEN "wait" ELSE reply[q]]
      BY <1>3, <2>3 DEF Mailbox!Post, Mailbox!Say
    <3>3. PlacedOnce(Box', Leaving, reply')
      BY <1>1, <2>1, <3>1, <3>2, PostPlaced
    <3>4. QED
      BY <2>1, <3>3
  <2>4. QED
    BY <2>2, <2>3
<1>4. ASSUME NEW p \in Caller, Mailbox!Receive(p)
      PROVE  PlacedOnce(Box', Leaving', reply')
  <2>1. Box' = Box /\ Leaving' = Leaving
    BY <1>4 DEF Mailbox!Receive, Box, Leaving
  <2>2. \A q \in Caller : reply[q] = "wait" => reply'[q] = "wait"
    BY <1>4 DEF Mailbox!Receive, Mailbox!Say, Mailbox!Result
  <2>3. QED
    BY <1>1, <2>1, <2>2, ElementOfBox DEF PlacedOnce
<1>5. ASSUME NEW c \in Conn, Mailbox!Start(c)
      PROVE  PlacedOnce(Box', Leaving', reply')
  <2>1. Box' = Box /\ Leaving' = Leaving /\ reply' = reply
    BY <1>5 DEF Mailbox!Start, Box, Leaving
  <2>2. QED
    BY <2>1
<1>6. ASSUME NEW c \in Conn, c \in Busy
      PROVE  Box[c] # <<>>
  <2>1. PICK w \in Worker : stage[w] = "exec" /\ hold[w].conn = c
    BY <1>6 DEF Busy, Executing
  <2>2. QED
    BY <2>1, FirstOfBox
<1>7. ASSUME NEW c \in Conn, Mailbox!Finish(c)
      PROVE  PlacedOnce(Box', Leaving', reply')
  <2>1. /\ c \in Busy /\ Box' = [Box EXCEPT ![c] = Tail(Box[c])]
        /\ reply' = reply /\ Leaving' = Leaving \cup {Head(Box[c])}
    BY <1>7 DEF Mailbox!Finish, Box, Busy, Leaving
  <2>2. QED
    BY <1>6, <2>1, FirstGonePlaced
<1>8. ASSUME NEW c \in Conn, Mailbox!Crash(c)
      PROVE  PlacedOnce(Box', Leaving', reply')
  <2>1. /\ c \in Busy /\ Box' = [Box EXCEPT ![c] = Tail(Box[c])]
        /\ Resolve({Head(Box[c])}, "closed") /\ Leaving' = Leaving
    BY <1>8 DEF Mailbox!Crash, Mailbox!Say, Resolve, Box, Busy, Leaving
  <2>2. QED
    BY <1>6, <2>1, FirstGonePlaced
<1>9. ASSUME NEW c \in Conn, NEW n \in 0..Len(Box[c]), Mailbox!Discard(c, n)
      PROVE  PlacedOnce(Box', Leaving', reply')
  <2>1. /\ Box' = [Box EXCEPT ![c] = SubSeq(Box[c], 1, n)]
        /\ Resolve(Mailbox!Calls(SubSeq(Box[c], n + 1, Len(Box[c]))), "dropped")
        /\ Leaving' = Leaving
    BY <1>9 DEF Mailbox!Discard, Mailbox!Say, Resolve, Box, Leaving
  <2>2. QED
    BY <2>1, PrefixPlaced
<1>10. ASSUME NEW p \in Caller, NEW r, Mailbox!Answer(p, r)
       PROVE  PlacedOnce(Box', Leaving', reply')
  <2>1. Box' = Box /\ p \in Leaving /\ Leaving' = Leaving \ {p}
    BY <1>10 DEF Mailbox!Answer, Box, Leaving
  <2>2. \A q \in Caller \ {p} : reply'[q] = reply[q]
    BY <1>10 DEF Mailbox!Answer, Mailbox!Say
  <2>3. QED
    BY <1>1, <2>1, <2>2, ElementOfBox DEF PlacedOnce
<1>11. CASE Mailbox!Shut
  <2>1. /\ Box' = [c \in Conn |-> IF c \in Busy THEN <<Head(Box[c])>> ELSE <<>>]
        /\ Leaving' = Leaving
    BY <1>11 DEF Mailbox!Shut, Box, Busy, Leaving
  <2>2. Resolve(UNION {Mailbox!Calls(Box[c]) \ Mailbox!Calls(Box'[c]) : c \in Conn}, "closed")
    BY <1>11 DEF Mailbox!Shut, Mailbox!Say, Resolve, Box
  <2>3. QED
    BY <2>1, <2>2, ShutPlaced
<1>12. CASE Mailbox!Unshut \/ UNCHANGED Mailbox!vars
  <2>1. Box' = Box /\ Leaving' = Leaving /\ reply' = reply
    BY <1>12 DEF Mailbox!Unshut, Mailbox!vars, Box, Leaving
  <2>2. QED
    BY <2>1
<1>13. Mailbox!Next => PlacedOnce(Box', Leaving', reply')
  <2>1. (\E c \in Conn : \E n \in 0..Len(Box[c]) : Mailbox!Discard(c, n))
          => PlacedOnce(Box', Leaving', reply')
    BY <1>9
  <2>2. QED
    BY <1>3, <1>4, <1>5, <1>7, <1>8, <1>10, <1>11, <1>12, <2>1 DEF Mailbox!Next, Box
<1>14. QED
  BY <1>12, <1>13

-----------------------------------------------------------------------------
(* The two actions that need it: an answer goes to one caller, a close answers *)
(* every call but those executed.                                              *)

LEMMA AnswerAnswers ==
  ASSUME SchedInv, LeavingOnce, NEW w \in Worker, AnswerAny(w)
  PROVE  \E p \in Caller, r \in Result : Mailbox!Answer(p, r)
<1>1. PICK r \in Result, next \in {"pull", "off"} : Answer(w, r, next)
  BY DEF AnswerAny, Result
<1>2. PICK p : p = hold[w].call
  OBVIOUS
<1>3. /\ stage[w] = "answer" /\ stage' = [stage EXCEPT ![w] = next]
      /\ hold' = [hold EXCEPT ![w] = NoFrame]
      /\ Resolve({p}, r) /\ UNCHANGED <<ready, waiting, closed>>
  BY <1>1, <1>2 DEF Answer, Become, PutDown, queueVars
<1>4. /\ stage'[w] = next /\ next \notin {"exec", "answer"}
      /\ \A v \in Worker \ {w} : stage'[v] = stage[v] /\ hold'[v] = hold[v]
  BY <1>3 DEF SchedInv, SerialInv, Typed, TypeOK
<1>5. p \in Caller /\ p \in Leaving
  BY <1>2, <1>3, InHands DEF Leaving
<1>6. Leaving' = Leaving \ {p}
  <2>1. \A v \in Worker : stage[v] = "answer" /\ hold[v].call = p => v = w
    BY <1>2, <1>3 DEF LeavingOnce
  <2>2. \A q : q \in Leaving <=> \E v \in Worker : stage[v] = "answer" /\ q = hold[v].call
    BY DEF Leaving
  <2>3. \A q : q \in Leaving' <=> \E v \in Worker : stage'[v] = "answer" /\ q = hold'[v].call
    BY DEF Leaving
  <2>4. \A q : q \in Leaving' <=> q \in Leaving /\ q # p
    <3> SUFFICES ASSUME NEW q PROVE q \in Leaving' <=> q \in Leaving /\ q # p
      OBVIOUS
    <3>1. ASSUME q \in Leaving' PROVE q \in Leaving /\ q # p
      <4>1. PICK v \in Worker : stage'[v] = "answer" /\ q = hold'[v].call
        BY <2>3, <3>1
      <4>2. v # w /\ stage[v] = "answer" /\ q = hold[v].call
        BY <1>4, <4>1
      <4>3. QED
        BY <2>1, <2>2, <4>2
    <3>2. ASSUME q \in Leaving, q # p PROVE q \in Leaving'
      <4>1. PICK v \in Worker : stage[v] = "answer" /\ q = hold[v].call
        BY <2>2, <3>2
      <4>2. v # w
        BY <1>2, <3>2, <4>1
      <4>3. stage'[v] = "answer" /\ q = hold'[v].call
        BY <1>4, <4>1, <4>2
      <4>4. QED
        BY <2>3, <4>3
    <3>3. QED
      BY <3>1, <3>2
  <2>5. QED
    BY <2>4
<1>7. \A v \in Worker : /\ stage'[v] = "exec" <=> stage[v] = "exec"
                        /\ stage[v] = "exec" => hold'[v] = hold[v]
  BY <1>3, <1>4
<1>8. Busy' = Busy
  <2>1. \A c \in Conn : Executing(c)' = Executing(c)
    BY <1>7 DEF Executing
  <2>2. QED
    BY <2>1 DEF Busy
<1>9. Box' = Box
  <2>1. \A c, q : IsExecuted(c, q)' <=> IsExecuted(c, q)
    BY <1>7 DEF IsExecuted
  <2>2. QED
    BY <1>3, <2>1, SameBoxes
<1>10. Mailbox!Answer(p, r)
  BY <1>3, <1>5, <1>6, <1>8, <1>9
     DEF Mailbox!Answer, Mailbox!Say, Resolve, Box, Busy, Leaving
<1>11. QED
  BY <1>5, <1>10

LEMMA RetireShuts ==
  ASSUME SchedInv, PlacedOnce(Box, Leaving, reply), Retire
  PROVE  Mailbox!Shut
<1>1. /\ ~closed /\ closed' /\ UNCHANGED <<stage, hold>>
      /\ ready' = <<>> /\ waiting' = [c \in Conn |-> <<>>]
      /\ Resolve(CallsIn(ready) \cup UNION {CallsIn(waiting[c]) : c \in Conn}, "closed")
  BY DEF Retire, Close
<1>2. Busy' = Busy /\ Leaving' = Leaving /\ \A d, q : IsExecuted(d, q)' <=> IsExecuted(d, q)
  BY <1>1, SameHands
<1>3. \A c, q : ~IsReady(c, q)'
  BY <1>1 DEF IsReady
<1>4. \A c \in Conn : Box'[c] = Front(c)'
  <2> SUFFICES ASSUME NEW c \in Conn PROVE Box'[c] = Front(c)'
    OBVIOUS
  <2>1. waiting'[c] = <<>> /\ CallsOf(<<>>) = <<>>
    BY <1>1 DEF CallsOf
  <2>2. Box'[c] = Front(c)' \o <<>>
    BY <2>1 DEF Box, BoxOf
  <2>3. Front(c)' = <<>> \/ \E p : Front(c)' = <<p>>
    BY DEF Front
  <2>4. <<>> \o <<>> = <<>> /\ \A p : <<p>> \o <<>> = <<p>>
    OBVIOUS
  <2>5. QED
    BY <2>2, <2>3, <2>4
\* A busy mailbox keeps the call that is executed, and gives up those held back.
<1>5. ASSUME NEW c \in Conn, c \in Busy
      PROVE  /\ Box'[c] = <<Head(Box[c])>>
             /\ \A q : q \in Mailbox!Calls(Box[c]) \ Mailbox!Calls(Box'[c])
                         <=> IsReady(c, q) \/ q \in CallsIn(waiting[c])
  <2>1. PICK w \in Worker : stage[w] = "exec" /\ hold[w].conn = c
    BY <1>5 DEF Busy, Executing
  <2>2. PICK p, t : p = hold[w].call /\ t = CallsOf(waiting[c])
    OBVIOUS
  <2>3. /\ p \in Caller /\ Out(c) = {p} /\ Box[c] = <<p>> \o t /\ Head(Box[c]) = p
    <3>1. c = hold[w].conn /\ p = hold[w].call
      BY <2>1, <2>2
    <3>2. /\ p \in Caller /\ Out(c) = {p} /\ Head(Box[c]) = p
          /\ Box[c] = <<p>> \o CallsOf(waiting[c])
      BY <2>1, <3>1, FirstOfBox
    <3>3. QED
      BY <2>2, <3>2
  <2>4. t \in Seq(Caller) /\ Mailbox!Calls(t) = CallsIn(waiting[c])
    BY <2>2, HeldFrames
  <2>5. \A q : ~IsReady(c, q)
    <3>1. Owner(w)
      BY <2>1 DEF Owner, Owning
    <3>2. QED
      BY <2>1, <3>1, OwnersOut DEF NoneReady, IsReady
  <2>6. Out(c)' = {p}
    <3>1. \A q : q \in Out(c)' <=> q \in Out(c)
      BY <1>2, <1>3, <2>5, OutNow
    <3>2. QED
      BY <2>3, <3>1
  <2>7. Box'[c] = <<p>>
    BY <1>4, <2>6, FrontNow
  <2>8. /\ Box[c][1] = p /\ 1 \in DOMAIN Box[c]
        /\ \A i \in DOMAIN t : i + 1 \in DOMAIN Box[c] /\ Box[c][i + 1] = t[i] /\ i + 1 # 1
        /\ \A i \in DOMAIN Box[c] : i = 1 \/ \E j \in DOMAIN t : i = j + 1
    <3>1. /\ Box[c][1] = p /\ Len(Box[c]) = Len(t) + 1 /\ Box[c] \in Seq(Caller)
          /\ \A i \in DOMAIN t : i + 1 \in DOMAIN Box[c] /\ Box[c][i + 1] = t[i]
      BY <2>3, <2>4, OneThenRest
    <3>2. Len(t) \in Nat /\ DOMAIN t = 1..Len(t) /\ DOMAIN Box[c] = 1..Len(Box[c])
      BY <2>4, <3>1, LenProperties
    <3>3. ASSUME NEW i \in DOMAIN Box[c], i # 1
          PROVE  \E j \in DOMAIN t : i = j + 1
      <4>1. i - 1 \in DOMAIN t /\ i = (i - 1) + 1
        BY <3>1, <3>2, <3>3
      <4>2. QED
        BY <4>1
    <3>4. 1 \in DOMAIN Box[c] /\ \A i \in DOMAIN t : i + 1 # 1
      BY <3>1, <3>2
    <3>5. QED
      BY <3>1, <3>3, <3>4
  <2>9. \A q : q \in Mailbox!Calls(Box'[c]) <=> q = p
    <3>1. DOMAIN <<p>> = {1} /\ <<p>>[1] = p
      OBVIOUS
    <3>2. QED
      BY <2>7, <3>1, CallsOfBox
  <2>10. \A q : q \in Mailbox!Calls(Box[c]) /\ q # p <=> q \in Mailbox!Calls(t)
    <3> SUFFICES ASSUME NEW q
                 PROVE  q \in Mailbox!Calls(Box[c]) /\ q # p <=> q \in Mailbox!Calls(t)
      OBVIOUS
    <3>1. ASSUME q \in Mailbox!Calls(Box[c]), q # p PROVE q \in Mailbox!Calls(t)
      <4>1. PICK i \in DOMAIN Box[c] : q = Box[c][i]
        BY <3>1, CallsOfBox
      <4>2. PICK j \in DOMAIN t : i = j + 1
        BY <2>8, <3>1, <4>1
      <4>3. q = t[j]
        BY <2>8, <4>1, <4>2
      <4>4. QED
        BY <4>3, CallsOfBox
    <3>2. ASSUME q \in Mailbox!Calls(t) PROVE q \in Mailbox!Calls(Box[c]) /\ q # p
      <4>1. PICK j \in DOMAIN t : q = t[j]
        BY <3>2, CallsOfBox
      <4>2. PICK i : i = j + 1
        OBVIOUS
      <4>3. i \in DOMAIN Box[c] /\ q = Box[c][i] /\ i # 1
        BY <2>8, <4>1, <4>2
      <4>4. q # p
        BY <2>8, <4>3 DEF PlacedOnce
      <4>5. QED
        BY <4>3, <4>4, CallsOfBox
    <3>3. QED
      BY <3>1, <3>2
  <2>11. QED
    BY <2>3, <2>4, <2>5, <2>7, <2>9, <2>10
\* Any other mailbox gives up all it has.
<1>6. ASSUME NEW c \in Conn, c \notin Busy
      PROVE  /\ Box'[c] = <<>>
             /\ \A q : q \in Mailbox!Calls(Box[c]) \ Mailbox!Calls(Box'[c])
                         <=> IsReady(c, q) \/ q \in CallsIn(waiting[c])
  <2>1. \A q : ~IsExecuted(c, q)
    BY <1>6 DEF Busy, Executing, IsExecuted
  <2>2. Out(c)' = {}
    <3>1. \A q : q \notin Out(c)'
      BY <1>2, <1>3, <2>1, OutNow
    <3>2. QED
      BY <3>1
  <2>3. Box'[c] = <<>>
    BY <1>4, <2>2, FrontNow
  <2>4. \A q : q \notin Mailbox!Calls(Box'[c])
    <3>1. DOMAIN <<>> = {}
      OBVIOUS
    <3>2. QED
      BY <2>3, <3>1, CallsOfBox
  <2>5. PICK t : t = CallsOf(waiting[c])
    OBVIOUS
  <2>6. t \in Seq(Caller) /\ Mailbox!Calls(t) = CallsIn(waiting[c])
    BY <2>5, HeldFrames
  <2>7. \A q : q \in Out(c) <=> IsReady(c, q)
    BY <2>1, OutNow
  <2>8. \A q : q \in Mailbox!Calls(Box[c]) <=> q \in Out(c) \/ q \in Mailbox!Calls(t)
    <3>1. CASE Out(c) = {}
      BY <2>5, <3>1, BoxIs
    <3>2. ASSUME NEW p \in Caller, Out(c) = {p}
          PROVE  \A q : q \in Mailbox!Calls(Box[c]) <=> q \in Out(c) \/ q \in Mailbox!Calls(t)
      <4>1. Box[c] = <<p>> \o t
        BY <2>5, <3>2, BoxIs
      <4>2. QED
        BY <2>6, <3>2, <4>1, CallsOfOne
    <3>3. QED
      BY <3>1, <3>2, OneIsOut
  <2>9. QED
    BY <2>3, <2>4, <2>6, <2>7, <2>8
<1>7. Box' = [c \in Conn |-> IF c \in Busy THEN <<Head(Box[c])>> ELSE <<>>]
  <2>1. \A c \in Conn : Box'[c] = IF c \in Busy THEN <<Head(Box[c])>> ELSE <<>>
    BY <1>5, <1>6
  <2>2. QED
    BY <2>1 DEF Box
<1>8. CallsIn(ready) \cup UNION {CallsIn(waiting[c]) : c \in Conn}
        = UNION {Mailbox!Calls(Box[c]) \ Mailbox!Calls(Box'[c]) : c \in Conn}
  <2>1. \A c \in Conn : \A q :
          q \in Mailbox!Calls(Box[c]) \ Mailbox!Calls(Box'[c])
            <=> IsReady(c, q) \/ q \in CallsIn(waiting[c])
    BY <1>5, <1>6
  <2>2. \A q : q \in CallsIn(ready) <=> \E c \in Conn : IsReady(c, q)
    BY InHands DEF CallsIn, IsReady
  <2>3. \A q : q \in CallsIn(ready) \cup UNION {CallsIn(waiting[c]) : c \in Conn}
                 <=> \E c \in Conn : IsReady(c, q) \/ q \in CallsIn(waiting[c])
    BY <2>2
  <2>4. \A q : q \in UNION {Mailbox!Calls(Box[c]) \ Mailbox!Calls(Box'[c]) : c \in Conn}
                 <=> \E c \in Conn : q \in Mailbox!Calls(Box[c]) \ Mailbox!Calls(Box'[c])
    OBVIOUS
  <2>5. QED
    BY <2>1, <2>3, <2>4
<1>9. Resolve(UNION {Mailbox!Calls(Box[c]) \ Mailbox!Calls(Box'[c]) : c \in Conn}, "closed")
  BY <1>1, <1>8
<1>10. QED
  BY <1>1, <1>2, <1>7, <1>9 DEF Mailbox!Shut, Mailbox!Say, Resolve, Box, Busy, Leaving

-----------------------------------------------------------------------------
(* All together. *)

LEMMA WorkerMaps ==
  ASSUME SchedInv, LeavingOnce, NEW w \in Worker, WorkerNext(w)
  PROVE  Mailbox!Next \/ UNCHANGED Mailbox!vars
<1>1. CASE \/ Spawn(w) \/ Leave(w) \/ FindNothing(w) \/ FallAsleep(w)
           \/ WakeUp(w) \/ PanicClear(w)
  BY <1>1, WorkerStutters
<1>2. CASE Take(w)
  BY <1>2, TakeStarts DEF Mailbox!Next
<1>3. CASE Finish(w)
  BY <1>3, FinishFinishes DEF Mailbox!Next
<1>4. CASE AnswerAny(w)
  <2>1. PICK p \in Caller, r \in Result : Mailbox!Answer(p, r)
    BY <1>4, AnswerAnswers
  <2>2. QED
    BY <2>1 DEF Mailbox!Next, Mailbox!Result, Result
<1>5. CASE Panic(w) \/ PanicUncleared(w)
  BY <1>5, PanicCrashes DEF Mailbox!Next
<1>6. CASE PanicDrop(w)
  <2>1. PICK c \in Conn : \E n \in 0..Len(Box[c]) : Mailbox!Discard(c, n)
    BY <1>6, PanicDropDiscards
  <2>2. QED
    BY <2>1 DEF Mailbox!Next, Box
<1>7. QED
  BY <1>1, <1>2, <1>3, <1>4, <1>5, <1>6 DEF WorkerNext

LEMMA StepMaps ==
  ASSUME SchedInv, CallsOnce, [Next]_vars
  PROVE  Mailbox!Next \/ UNCHANGED Mailbox!vars
<1>1. ASSUME NEW p \in Caller, NEW c \in Conn, Fire(p, c)
      PROVE  Mailbox!Next
  BY <1>1, FirePosts DEF Mailbox!Next
<1>2. ASSUME NEW p \in Caller, Receive(p)
      PROVE  Mailbox!Next
  BY <1>2, ReceiveReceives DEF Mailbox!Next
<1>3. ASSUME NEW c \in Conn, Detach(c)
      PROVE  Mailbox!Next
  <2>1. \E n \in 0..Len(Box[c]) : Mailbox!Discard(c, n)
    BY <1>3, DetachDiscards
  <2>2. QED
    BY <2>1 DEF Mailbox!Next, Box
<1>4. CASE Retire
  BY <1>4, RetireShuts DEF CallsOnce, Mailbox!Next
<1>5. CASE Revive
  BY <1>5, ReviveUnshuts DEF Mailbox!Next
<1>6. CASE UNCHANGED vars
  <2>1. UNCHANGED <<ready, waiting, closed, reply, stage, hold>>
    BY <1>6 DEF vars, queueVars
  <2>2. Busy' = Busy /\ Leaving' = Leaving /\ \A d, q : IsExecuted(d, q)' <=> IsExecuted(d, q)
    BY <2>1, SameHands
  <2>3. QED
    BY <2>1, <2>2, SameBoxes, Stutters
<1>7. QED
  BY <1>1, <1>2, <1>3, <1>4, <1>5, <1>6, WorkerMaps DEF CallsOnce, Next

\* A worker is about to answer only after executing, when the call is still in its
\* mailbox and so in no other worker's hands.
LEMMA NextLeavingOnce ==
  ASSUME SchedInv, CallsOnce, [Next]_vars
  PROVE  LeavingOnce'
<1>1. ASSUME \A w \in Worker : stage'[w] = "answer" => stage[w] = "answer" /\ hold'[w] = hold[w]
      PROVE  LeavingOnce'
  BY <1>1 DEF CallsOnce, LeavingOnce
<1>2. ASSUME NEW w \in Worker, Finish(w)
      PROVE  LeavingOnce'
  <2>1. PICK c, p : c = hold[w].conn /\ p = hold[w].call
    OBVIOUS
  <2>2. stage[w] = "exec" /\ stage' = [stage EXCEPT ![w] = "answer"] /\ UNCHANGED hold
    BY <1>2 DEF Finish, Become
  <2>3. \A v \in Worker \ {w} : stage'[v] = stage[v]
    BY <2>2 DEF SchedInv, SerialInv, Typed, TypeOK
  <2>4. /\ c \in Conn /\ Box[c] # <<>> /\ p = Head(Box[c])
    BY <2>1, <2>2, FirstOfBox
  <2>5. 1 \in DOMAIN Box[c] /\ p = Box[c][1]
    BY <2>4, BoxType, TailOfBox
  <2>6. p \notin Leaving
    BY <2>4, <2>5 DEF CallsOnce, PlacedOnce
  <2>7. \A v \in Worker : stage[v] = "answer" => hold[v].call # p
    BY <2>6 DEF Leaving
  <2>8. QED
    BY <2>1, <2>2, <2>3, <2>7 DEF CallsOnce, LeavingOnce
<1>3. ASSUME NEW w \in Worker, WorkerNext(w), ~Finish(w)
      PROVE  LeavingOnce'
  <2>1. \A v \in Worker \ {w} : stage'[v] = stage[v] /\ hold'[v] = hold[v]
    BY <1>3 DEF SchedInv, SerialInv, Typed, TypeOK, WorkerNext, Spawn, Take, Leave, FindNothing,
                FallAsleep, WakeUp, AnswerAny, Answer, Panic, PanicUncleared, PanicDrop,
                PanicClear, Become, PutDown
  <2>2. stage'[w] # "answer"
    BY <1>3 DEF SchedInv, SerialInv, Typed, TypeOK, WorkerNext, Spawn, Take, Leave, FindNothing,
                FallAsleep, WakeUp, AnswerAny, Answer, Panic, PanicUncleared, PanicDrop,
                PanicClear, Become, PutDown
  <2>3. QED
    BY <1>1, <2>1, <2>2
<1>4. CASE UNCHANGED <<stage, hold>>
  BY <1>1, <1>4
<1>5. QED
  BY <1>2, <1>3, <1>4 DEF Next, Fire, Submits, Receive, Detach, Retire, Revive, vars

MailboxInv == SchedInv /\ CallsOnce

LEMMA NextMailboxInv == MailboxInv /\ [Next]_vars => MailboxInv'
<1> SUFFICES ASSUME MailboxInv, [Next]_vars
             PROVE  MailboxInv'
  OBVIOUS
<1>1. HeldInv'
  BY StepHeeds, NextTyped, NextDrained, NextHeld DEF MailboxInv, SchedInv, HeldInv, DrainedInv
<1>2. SerialInv'
  BY StepHeeds, NextTyped, NextKeyed, NextOneOwner DEF MailboxInv, SchedInv, SerialInv
<1>3. PlacedOnce(Box', Leaving', reply')
  BY StepMaps, MailboxPlaced DEF MailboxInv, CallsOnce
<1>4. LeavingOnce'
  BY NextLeavingOnce DEF MailboxInv
<1>5. CallsOnce'
  BY <1>3, <1>4 DEF CallsOnce
<1>6. QED
  BY <1>1, <1>2, <1>5 DEF MailboxInv, SchedInv

LEMMA InitMaps == Init => MailboxInv /\ Mailbox!Init
<1> SUFFICES ASSUME Init
             PROVE  MailboxInv /\ Mailbox!Init
  OBVIOUS
<1>1. Typed
  BY InitType DEF Typed, HandsFull, Init, Owning
<1>2. ready = <<>> /\ DOMAIN ready = {} /\ \A c \in Conn : waiting[c] = <<>>
  BY DEF Init, QueueInit
<1>3. HeldInv
  BY <1>1, <1>2
     DEF Init, QueueInit, HeldInv, DrainedInv, ClosedIsDrained, PurgedIsEmpty, HeldBackOnlyInFlight
<1>4. SerialInv
  BY <1>1, <1>2 DEF Init, SerialInv, WaitingKeyed, OneOwner, ReadyOnce, ReadyMarked, OwnerMarked,
                    OwnerOnce, OwnerNotReady, Owner, Owning
<1>5. Busy = {} /\ Leaving = {}
  BY DEF Init, Busy, Leaving, Executing
<1>6. ASSUME NEW c \in Conn
      PROVE  Box[c] = <<>>
  <2>1. \A q : q \notin Out(c)
    BY <1>2, OutElements DEF Init
  <2>2. Out(c) = {}
    BY <2>1
  <2>3. QED
    BY <1>2, <1>3, <1>4, <1>6, <2>2, BoxIs, HeldFrames DEF SchedInv
<1>7. Box = [c \in Conn |-> <<>>]
  BY <1>6 DEF Box
<1>8. CallsOnce
  <2>1. \A c \in Conn : DOMAIN Box[c] = {}
    <3>1. DOMAIN <<>> = {}
      OBVIOUS
    <3>2. QED
      BY <1>6, <3>1
  <2>2. QED
    BY <1>5, <2>1 DEF Init, CallsOnce, PlacedOnce, LeavingOnce
<1>9. QED
  BY <1>3, <1>4, <1>5, <1>7, <1>8
     DEF Init, QueueInit, MailboxInv, SchedInv, Mailbox!Init, Box, Busy, Leaving

\* The contract of Scheduler ("per-conn in flight = 1, order kept",
\* docs/modules/03-server-http.md), for any number of connections, callers and workers:
\* the scheduler implements the mailboxes of ConnMailbox, so that frames of a connection
\* are executed one at a time and in the order of their fires, only frames not begun are
\* given up, the newest first, and each caller gets the outcome of its own frame.
THEOREM Mailboxes == Spec => KeepsMailboxes
<1>1. Init => MailboxInv /\ Mailbox!Init
  BY InitMaps
<1>2. MailboxInv /\ [Next]_vars => MailboxInv'
  BY NextMailboxInv
<1>3. MailboxInv /\ [Next]_vars => [Mailbox!Next]_(Mailbox!vars)
  BY StepMaps DEF MailboxInv
<1>4. QED
  BY <1>1, <1>2, <1>3, PTL DEF Spec, KeepsMailboxes, Mailbox!Spec

-----------------------------------------------------------------------------
(***************************************************************************)
(* The connections around the scheduler.                                   *)
(***************************************************************************)
Before == {"new", "seen", "refused", "entered", "failed", "attach"}
Inside == Event \cup {"loop", "detach"}

Holding == {c \in Socket : socket[c].held # {}}
Given(p) == {c \in Socket : socket[c].pool = p /\ socket[c].id # 0}

SocketSound(s) ==
  /\ s.at \in {"new", "seen", "refused"} => s.held = {}
  /\ s.id = 0 <=> s.at \in Before
  /\ s.joined => s.at \in Inside
  /\ s.at \in Inside => s.forwarder = "on"

\* A pool has given each of its connections an id of its own.
IdsSound ==
  /\ \A p \in Pool : ids[p] = Cardinality(Given(p))
  /\ \A c \in Socket : socket[c].id <= ids[socket[c].pool]
  /\ \A c, d \in Socket :
       c # d /\ socket[c].pool = socket[d].pool /\ socket[c].id = socket[d].id =>
         socket[c].id = 0

\* Under an id the room has nobody else than a connection with that id.
RoomSound ==
  /\ \A c \in Socket : \A i \in Ids : members[i] = c => socket[c].id = i /\ Attached(c)
  /\ \A c \in Socket :
       Attached(c) /\ ~Shares(c) => (socket[c].joined <=> members[socket[c].id] = c)

SocketInv ==
  /\ SocketTypeOK /\ SlotsAreExact /\ IdsSound /\ RoomSound
  /\ \A c \in Socket : SocketSound(socket[c])

LEMMA SocketInitially == SocketInit => SocketInv
<1> SUFFICES ASSUME SocketInit PROVE SocketInv
  OBVIOUS
<1>1. ASSUME NEW c \in Socket
      PROVE  /\ socket[c] \in SocketRecord /\ SocketSound(socket[c])
             /\ socket[c].held = {} /\ socket[c].id = 0 /\ socket[c].at = "new"
  <2> DEFINE first(p) ==
        [at |-> "new", seen |-> 0, held |-> {}, pool |-> p, id |-> 0, client |-> "reads",
         inbox |-> 0, out |-> 0, sender |-> FALSE, forwarder |-> "none", writer |-> "none",
         joined |-> FALSE]
  <2>1. PICK p \in Pool : socket[c] = first(p)
    BY DEF SocketInit
  <2>2. 0 \in 0 .. MaxInbox /\ 0 \in 0 .. OutCap
    BY SocketAssumption
  <2>3. first(p) \in SocketRecord
    BY <2>2 DEF SocketRecord
  <2>4. QED
    BY <2>1, <2>3 DEF SocketSound, Before, Inside, Event
<1>2. \A p \in Pool : Given(p) = {}
  BY <1>1 DEF Given
<1>3. Cardinality({}) = 0 /\ Cardinality(Socket) \in Nat
  BY SocketAssumption, FS_EmptySet, FS_CardinalityType
<1>4. SocketTypeOK
  <2>1. socket \in [Socket -> SocketRecord]
    BY <1>1 DEF SocketInit
  <2>2. QED
    BY <2>1, SocketAssumption DEF SocketInit, SocketTypeOK
<1>5. SlotsAreExact
  <2>1. {c \in Socket : socket[c].held # {}} = {}
    BY <1>1
  <2>2. open = 0 /\ limit \in Nat
    BY SocketAssumption DEF SocketInit
  <2>3. QED
    BY <1>3, <2>1, <2>2 DEF SlotsAreExact
<1>6. IdsSound
  BY <1>1, <1>2, <1>3 DEF SocketInit, IdsSound, SocketRecord
<1>7. RoomSound
  BY <1>1, SocketAssumption DEF SocketInit, RoomSound, Attached, Event
<1> QED
  BY <1>1, <1>4, <1>5, <1>6, <1>7 DEF SocketInv

\* Who holds a place, who has an id and who is in the room.
LEMMA SlotsKept ==
  ASSUME SlotsAreExact, UNCHANGED <<limit, open>>,
         \A d \in Socket : (socket'[d].held = {}) <=> (socket[d].held = {})
  PROVE  SlotsAreExact'
<1>1. {d \in Socket : socket[d].held # {}}' = {d \in Socket : socket[d].held # {}}
  OBVIOUS
<1> QED
  BY <1>1 DEF SlotsAreExact

LEMMA IdsKept ==
  ASSUME IdsSound, UNCHANGED ids,
         \A d \in Socket : socket'[d].pool = socket[d].pool /\ socket'[d].id = socket[d].id
  PROVE  IdsSound'
<1>1. \A p \in Pool : Given(p)' = Given(p)
  BY DEF Given
<1> QED
  BY <1>1 DEF IdsSound

LEMMA RoomKept ==
  ASSUME RoomSound, UNCHANGED members,
         \A d \in Socket :
           /\ socket'[d].pool = socket[d].pool /\ socket'[d].id = socket[d].id
           /\ socket'[d].joined = socket[d].joined
           /\ socket'[d].at \in Inside <=> socket[d].at \in Inside
  PROVE  RoomSound'
<1>1. \A d \in Socket : (Attached(d)' <=> Attached(d)) /\ (Shares(d)' <=> Shares(d))
  BY DEF Attached, Shares, Inside
<1> QED
  BY <1>1 DEF RoomSound

LEMMA SocketFacts ==
  ASSUME SocketInv, NEW c \in Socket
  PROVE  /\ socket[c] \in SocketRecord /\ SocketSound(socket[c])
         /\ socket[c].pool \in Pool
         /\ socket \in [Socket -> SocketRecord]
BY DEF SocketInv, SocketTypeOK, SocketRecord

\* A step of one connection that touches neither its place nor its id nor the room.
Quiet(s, r) ==
  /\ s \in SocketRecord /\ SocketSound(s)
  /\ s.pool = r.pool /\ s.id = r.id /\ s.held = r.held /\ s.joined = r.joined
  /\ s.at \in Inside <=> r.at \in Inside

LEMMA QuietKeeps ==
  ASSUME SocketInv, NEW c \in Socket, NEW s, Quiet(s, socket[c]),
         socket' = [socket EXCEPT ![c] = s],
         UNCHANGED <<limit, open, ids, members>>, topic' \subseteq Socket
  PROVE  SocketInv'
<1>1. socket'[c] = s /\ \A d \in Socket : d # c => socket'[d] = socket[d]
  BY SocketFacts
<1>2. SocketTypeOK'
  BY DEF SocketInv, SocketTypeOK, Quiet
<1>3. \A d \in Socket :
        /\ socket'[d].pool = socket[d].pool /\ socket'[d].id = socket[d].id
        /\ socket'[d].joined = socket[d].joined /\ socket'[d].held = socket[d].held
        /\ socket'[d].at \in Inside <=> socket[d].at \in Inside
        /\ SocketSound(socket'[d])
  BY <1>1 DEF Quiet, SocketInv
<1>4. SlotsAreExact' /\ IdsSound' /\ RoomSound'
  BY <1>3, SlotsKept, IdsKept, RoomKept DEF SocketInv
<1> QED
  BY <1>2, <1>3, <1>4 DEF SocketInv

\* What an offer to respChan and the start of a writer leave as they are.
LEMMA OfferedKeeps ==
  ASSUME NEW r \in SocketRecord
  PROVE  /\ Offered(r) \in SocketRecord
         /\ \A f \in {"at", "seen", "held", "pool", "id", "joined", "forwarder", "inbox"} :
              Offered(r)[f] = r[f]
<1> DEFINE s == [r EXCEPT !.out = @ + 1]
<1>1. CASE r.out < OutCap
  <2>1. r.out + 1 \in 0 .. OutCap
    BY <1>1, SocketAssumption DEF SocketRecord
  <2>2. s \in SocketRecord
    BY <2>1 DEF SocketRecord
  <2>3. QED
    BY <2>2 DEF Offered, SocketRecord
<1>2. CASE ~(r.out < OutCap)
  BY <1>2 DEF Offered
<1> QED
  BY <1>1, <1>2

LEMMA WriterStartsKeeps ==
  ASSUME NEW r \in SocketRecord
  PROVE  /\ WriterStarts(r) \in SocketRecord
         /\ \A f \in {"at", "seen", "held", "pool", "id", "joined", "forwarder", "inbox"} :
              WriterStarts(r)[f] = r[f]
BY DEF WriterStarts, SocketRecord

LEMMA ReadsCountKeeps == ASSUME SocketInv, NEW c \in Socket, ReadsCount(c) PROVE SocketInv'
<1>1. PICK r \in SocketRecord : r = socket[c]
  BY SocketFacts
<1> DEFINE s == [r EXCEPT !.at = "seen", !.seen = open]
<1>2. r.at = "new" /\ socket' = [socket EXCEPT ![c] = s]
  BY <1>1 DEF ReadsCount, Moves
<1>3. s \in SocketRecord
  BY DEF SocketInv, SocketTypeOK, SocketRecord
<1>4. Quiet(s, r)
  BY <1>1, <1>2, <1>3, SocketFacts DEF Quiet, SocketSound, Before, Inside, Event, SocketRecord
<1>5. UNCHANGED <<limit, open, ids, members>> /\ topic' \subseteq Socket
  BY DEF ReadsCount, Gate, Room, SocketInv, SocketTypeOK
<1> HIDE DEF s
<1> QED
  BY <1>1, <1>2, <1>4, <1>5, QuietKeeps

LEMMA IsRefusedKeeps == ASSUME SocketInv, NEW c \in Socket, IsRefused(c) PROVE SocketInv'
<1>1. PICK r \in SocketRecord : r = socket[c]
  BY SocketFacts
<1> DEFINE s == [r EXCEPT !.at = "refused"]
<1>2. r.at = "seen" /\ socket' = [socket EXCEPT ![c] = s]
  BY <1>1 DEF IsRefused, Moves
<1>3. s \in SocketRecord
  BY DEF SocketRecord
<1>4. Quiet(s, r)
  BY <1>1, <1>2, <1>3, SocketFacts DEF Quiet, SocketSound, Before, Inside, Event, SocketRecord
<1>5. UNCHANGED <<limit, open, ids, members>> /\ topic' \subseteq Socket
  BY DEF IsRefused, Gate, Room, SocketInv, SocketTypeOK
<1> HIDE DEF s
<1> QED
  BY <1>1, <1>2, <1>4, <1>5, QuietKeeps

LEMMA UpgradesKeeps == ASSUME SocketInv, NEW c \in Socket, Upgrades(c) PROVE SocketInv'
<1>1. PICK r \in SocketRecord : r = socket[c]
  BY SocketFacts
<1>2. PICK to \in {"failed", "attach"} :
        r.at = "entered" /\ socket' = [socket EXCEPT ![c] = [r EXCEPT !.at = to]]
  BY <1>1 DEF Upgrades, Moves
<1> DEFINE s == [r EXCEPT !.at = to]
<1>3. s \in SocketRecord
  BY DEF SocketRecord
<1>4. Quiet(s, r)
  BY <1>1, <1>2, <1>3, SocketFacts DEF Quiet, SocketSound, Before, Inside, Event, SocketRecord
<1>5. UNCHANGED <<limit, open, ids, members>> /\ topic' \subseteq Socket
  BY DEF Upgrades, Gate, Room, SocketInv, SocketTypeOK
<1> QED
  BY <1>1, <1>2, <1>4, <1>5, QuietKeeps

\* Between the first frame and detach the loop moves within.
LEMMA WithinKeeps ==
  ASSUME SocketInv, NEW c \in Socket, NEW s \in SocketRecord, NEW to \in Inside,
         socket[c].at \in Inside, s.pool = socket[c].pool, s.id = socket[c].id,
         s.held = socket[c].held, s.joined = socket[c].joined,
         s.forwarder = socket[c].forwarder,
         socket' = [socket EXCEPT ![c] = [s EXCEPT !.at = to]],
         UNCHANGED <<limit, open, ids, members, topic>>
  PROVE  SocketInv'
<1> DEFINE d == [s EXCEPT !.at = to]
<1>1. d \in SocketRecord /\ d.at = to
  BY DEF SocketRecord, Inside
<1>2. /\ d.pool = s.pool /\ d.id = s.id /\ d.held = s.held /\ d.joined = s.joined
      /\ d.forwarder = s.forwarder
  BY DEF SocketRecord
<1> HIDE DEF d
<1>3. SocketSound(d)
  BY <1>1, <1>2, SocketFacts DEF SocketSound, Before, Inside, Event
<1>4. Quiet(d, socket[c])
  BY <1>1, <1>2, <1>3 DEF Quiet
<1>5. socket' = [socket EXCEPT ![c] = d] /\ topic' \subseteq Socket
  BY DEF d, SocketInv, SocketTypeOK
<1> QED
  BY <1>4, <1>5, QuietKeeps

LEMMA AnsweredKeeps == ASSUME SocketInv, NEW c \in Socket, Answered(c) PROVE SocketInv'
<1>1. PICK r \in SocketRecord : r = socket[c]
  BY SocketFacts
<1>2. UNCHANGED <<limit, open, ids, members, topic>>
  BY DEF Answered, Gate, Room
<1>3. \E s \in {r, Offered(r), WriterStarts(r), WriterStarts(Offered(r))}, to \in Inside :
        socket' = [socket EXCEPT ![c] = [s EXCEPT !.at = to]]
  BY <1>1 DEF Answered, Moves, Inside, Event
<1>4. PICK s \in {r, Offered(r), WriterStarts(r), WriterStarts(Offered(r))}, to \in Inside :
        socket' = [socket EXCEPT ![c] = [s EXCEPT !.at = to]]
  BY <1>3
<1>5. s \in SocketRecord
  BY OfferedKeeps, WriterStartsKeeps
<1>6. /\ s.pool = r.pool /\ s.id = r.id /\ s.held = r.held /\ s.joined = r.joined
      /\ s.forwarder = r.forwarder
  BY OfferedKeeps, WriterStartsKeeps
<1>7. r.at \in Inside
  BY <1>1 DEF Answered, Moves, Inside, Event
<1> QED
  BY <1>1, <1>2, <1>4, <1>5, <1>6, <1>7, WithinKeeps

LEMMA HearsKeeps == ASSUME SocketInv, NEW c \in Socket, Hears(c) PROVE SocketInv'
<1>1. PICK to \in Inside : socket' = [socket EXCEPT ![c] = [socket[c] EXCEPT !.at = to]]
  BY DEF Hears, Moves, Inside, Event
<1>2. socket[c].at \in Inside /\ UNCHANGED <<limit, open, ids, members, topic>>
  BY DEF Hears, Moves, Inside, Gate, Room
<1> QED
  BY <1>1, <1>2, SocketFacts, WithinKeeps

\* Past detach, and beside the loop: only the forwarder of a connection whose loop is
\* over can end.
LEMMA BesideKeeps ==
  ASSUME SocketInv, NEW c \in Socket, NEW s \in SocketRecord,
         s.at = socket[c].at \/ {s.at, socket[c].at} \subseteq {"drop", "join", "over"},
         s.pool = socket[c].pool, s.id = socket[c].id,
         s.held = socket[c].held, s.joined = socket[c].joined,
         s.forwarder = socket[c].forwarder \/ socket[c].at \notin Inside,
         socket' = [socket EXCEPT ![c] = s],
         UNCHANGED <<limit, open, ids, members>>, topic' \subseteq Socket
  PROVE  SocketInv'
<1>1. \A x \in {"drop", "join", "over"} : x \notin Inside \cup Before \cup {"new", "seen", "refused"}
  BY DEF Inside, Before, Event
<1>2. s.at \in Inside <=> socket[c].at \in Inside
  BY <1>1
<1>3. SocketSound(s)
  BY <1>1, <1>2, SocketFacts DEF SocketSound
<1>4. Quiet(s, socket[c])
  BY <1>2, <1>3 DEF Quiet
<1> QED
  BY <1>4, QuietKeeps

LEMMA LeavesKeeps == ASSUME SocketInv, NEW c \in Socket, Leaves(c) PROVE SocketInv'
<1>1. PICK r \in SocketRecord : r = socket[c]
  BY SocketFacts
<1> DEFINE s == [r EXCEPT !.at = "join", !.sender = FALSE,
                          !.forwarder = IF @ = "on" THEN "aborted" ELSE @]
<1>2. s \in SocketRecord
  BY DEF SocketRecord
<1>3. /\ s.at = "join" /\ s.pool = r.pool /\ s.id = r.id /\ s.held = r.held
      /\ s.joined = r.joined
  BY DEF SocketRecord
<1>4. r.at = "drop" /\ socket' = [socket EXCEPT ![c] = s]
  BY <1>1 DEF Leaves, Moves
<1> HIDE DEF s
<1>5. UNCHANGED <<limit, open, ids, members>> /\ topic' \subseteq Socket
  BY DEF Leaves, Gate, Room, SocketInv, SocketTypeOK
<1>6. r.at \notin Inside
  BY <1>4 DEF Inside, Event
<1> QED
  BY <1>1, <1>2, <1>3, <1>4, <1>5, <1>6, BesideKeeps

LEMMA ReturnsKeeps == ASSUME SocketInv, NEW c \in Socket, Returns(c) PROVE SocketInv'
<1>1. PICK r \in SocketRecord : r = socket[c]
  BY SocketFacts
<1> DEFINE s == [r EXCEPT !.at = "over"]
<1>2. s \in SocketRecord
  BY DEF SocketRecord
<1>3. /\ s.at = "over" /\ s.pool = r.pool /\ s.id = r.id /\ s.held = r.held
      /\ s.joined = r.joined /\ s.forwarder = r.forwarder
  BY DEF SocketRecord
<1>4. r.at = "join" /\ socket' = [socket EXCEPT ![c] = s]
  BY <1>1 DEF Returns, Moves
<1> HIDE DEF s
<1>5. UNCHANGED <<limit, open, ids, members>> /\ topic' \subseteq Socket
  BY DEF Returns, Gate, Room, SocketInv, SocketTypeOK
<1> QED
  BY <1>1, <1>2, <1>3, <1>4, <1>5, BesideKeeps

LEMMA SideKeeps ==
  ASSUME SocketInv, NEW c \in Socket, NEW s \in SocketRecord, Side(c, s),
         \A f \in {"at", "held", "pool", "id", "joined"} : s[f] = socket[c][f],
         s.forwarder = socket[c].forwarder \/ socket[c].at \notin Inside
  PROVE  SocketInv'
<1>1. /\ s.at = socket[c].at /\ s.held = socket[c].held /\ s.pool = socket[c].pool
      /\ s.id = socket[c].id /\ s.joined = socket[c].joined
  OBVIOUS
<1>2. socket' = [socket EXCEPT ![c] = s] /\ UNCHANGED <<limit, open, ids, members, topic>>
  BY DEF Side, Gate, Room
<1>3. topic' \subseteq Socket
  BY <1>2 DEF SocketInv, SocketTypeOK
<1> QED
  BY <1>1, <1>2, <1>3, BesideKeeps

LEMMA ForwardsKeeps == ASSUME SocketInv, NEW c \in Socket, Forwards(c) PROVE SocketInv'
<1>1. PICK r \in SocketRecord : r = socket[c]
  BY SocketFacts
<1>2. PICK o \in SocketRecord : o = Offered(r)
  BY OfferedKeeps
<1>3. \A f \in {"at", "held", "pool", "id", "joined", "forwarder", "inbox"} : o[f] = r[f]
  BY <1>2, OfferedKeeps
<1> DEFINE s == [o EXCEPT !.inbox = @ - 1]
<1>4. Side(c, s) /\ r.inbox > 0
  BY <1>1, <1>2 DEF Forwards
<1>5. o.inbox - 1 \in 0 .. MaxInbox
  <2>1. o.inbox = r.inbox /\ r.inbox \in 0 .. MaxInbox
    BY <1>3 DEF SocketRecord
  <2>2. QED
    BY <1>4, <2>1, SocketAssumption
<1>6. s \in SocketRecord
  BY <1>5 DEF SocketRecord
<1>7. \A f \in {"at", "held", "pool", "id", "joined", "forwarder"} : s[f] = o[f]
  BY DEF SocketRecord
<1> HIDE DEF s
<1>8. \A f \in {"at", "held", "pool", "id", "joined"} : s[f] = socket[c][f]
  BY <1>1, <1>3, <1>7
<1>9. s.forwarder = socket[c].forwarder
  BY <1>1, <1>3, <1>7
<1> QED
  BY <1>4, <1>6, <1>8, <1>9, SideKeeps

LEMMA ForwarderEndsKeeps == ASSUME SocketInv, NEW c \in Socket, ForwarderEnds(c) PROVE SocketInv'
<1>1. PICK r \in SocketRecord : r = socket[c]
  BY SocketFacts
<1> DEFINE s == [r EXCEPT !.forwarder = "over", !.inbox = 0]
<1>2. Side(c, s)
  BY <1>1 DEF ForwarderEnds, MayEndForwarding
<1>3. s \in SocketRecord
  <2>1. 0 \in 0 .. MaxInbox
    BY SocketAssumption
  <2>2. QED
    BY <2>1 DEF SocketRecord
<1>4. \A f \in {"at", "held", "pool", "id", "joined"} : s[f] = r[f]
  BY DEF SocketRecord
<1> HIDE DEF s
<1>5. r.at \notin Inside
  <2>1. r.forwarder = "aborted" \/ r.at \in {"drop", "join", "over"}
    BY <1>1 DEF ForwarderEnds, MayEndForwarding
  <2>2. r.at \in Inside => r.forwarder = "on"
    BY <1>1, SocketFacts DEF SocketSound
  <2>3. QED
    BY <2>1, <2>2 DEF Inside, Event
<1> QED
  BY <1>1, <1>2, <1>3, <1>4, <1>5, SideKeeps

LEMMA WritingKeeps == ASSUME SocketInv, NEW c \in Socket, Writing(c) PROVE SocketInv'
<1>1. PICK r \in SocketRecord : r = socket[c]
  BY SocketFacts
<1>2. \E w \in {"on", "closes", "over"}, n \in {0, r.out, r.out - 1} :
        n \in 0 .. OutCap /\ Side(c, [r EXCEPT !.writer = w, !.out = n])
  <2>1. r.out \in 0 .. OutCap /\ 0 \in 0 .. OutCap
    BY SocketAssumption DEF SocketRecord
  <2>2. CASE WriterSends(c)
    <3>1. r.out - 1 \in 0 .. OutCap /\ r.writer = "on"
      BY <1>1, <2>1, <2>2, SocketAssumption DEF WriterSends, MaySend
    <3>2. [r EXCEPT !.out = r.out - 1] = [r EXCEPT !.writer = "on", !.out = r.out - 1]
      BY <3>1 DEF SocketRecord
    <3>3. \/ Side(c, [r EXCEPT !.writer = "over", !.out = 0])
          \/ Side(c, [r EXCEPT !.out = r.out - 1])
      BY <1>1, <2>2 DEF WriterSends
    <3>4. QED
      BY <2>1, <3>1, <3>2, <3>3
  <2>3. CASE WriterEnds(c)
    <3>1. [r EXCEPT !.writer = "closes"] = [r EXCEPT !.writer = "closes", !.out = r.out]
      BY DEF SocketRecord
    <3>2. QED
      BY <1>1, <2>1, <2>3, <3>1 DEF WriterEnds
  <2>4. CASE WriterCloses(c)
    <3>1. [r EXCEPT !.writer = "over"] = [r EXCEPT !.writer = "over", !.out = r.out]
      BY DEF SocketRecord
    <3>2. QED
      BY <1>1, <2>1, <2>4, <3>1 DEF WriterCloses
  <2>5. QED
    BY <2>2, <2>3, <2>4 DEF Writing
<1>3. PICK w \in {"on", "closes", "over"}, n \in 0 .. OutCap :
        Side(c, [r EXCEPT !.writer = w, !.out = n])
  BY <1>2
<1> DEFINE s == [r EXCEPT !.writer = w, !.out = n]
<1>4. s \in SocketRecord
  BY DEF SocketRecord
<1>5. \A f \in {"at", "held", "pool", "id", "joined", "forwarder"} : s[f] = r[f]
  BY DEF SocketRecord
<1> HIDE DEF s
<1> QED
  BY <1>1, <1>3, <1>4, <1>5, SideKeeps DEF s

LEMMA SocketClientKeeps == ASSUME SocketInv, NEW c \in Socket, SocketClient(c) PROVE SocketInv'
<1>1. PICK r \in SocketRecord : r = socket[c]
  BY SocketFacts
<1>2. PICK to \in {"reads", "stalls", "closed", "gone"} : Side(c, [r EXCEPT !.client = to])
  BY <1>1 DEF SocketClient
<1> DEFINE s == [r EXCEPT !.client = to]
<1>3. s \in SocketRecord
  BY DEF SocketRecord
<1>4. \A f \in {"at", "held", "pool", "id", "joined", "forwarder"} : s[f] = r[f]
  BY DEF SocketRecord
<1> HIDE DEF s
<1> QED
  BY <1>1, <1>2, <1>3, <1>4, SideKeeps DEF s

LEMMA SubscribesKeeps == ASSUME SocketInv, NEW c \in Socket, Subscribes(c) PROVE SocketInv'
<1>1. UNCHANGED <<limit, open, ids, socket, members>> /\ topic' = topic \cup {c}
  BY DEF Subscribes, Gate
<1>2. SocketTypeOK'
  BY <1>1 DEF SocketInv, SocketTypeOK
<1>3. SlotsAreExact' /\ IdsSound' /\ RoomSound'
  BY <1>1, SlotsKept, IdsKept, RoomKept DEF SocketInv
<1> QED
  BY <1>1, <1>2, <1>3 DEF SocketInv

\* A step of one connection that takes a place or gives one back.
LEMMA PlaceKeeps ==
  ASSUME SocketInv, NEW c \in Socket, NEW s \in SocketRecord, SocketSound(s),
         s.pool = socket[c].pool, s.id = socket[c].id, s.joined = socket[c].joined,
         s.at \in Inside <=> socket[c].at \in Inside,
         socket' = [socket EXCEPT ![c] = s],
         UNCHANGED <<limit, ids, members, topic>>, open' \in Nat, SlotsAreExact'
  PROVE  SocketInv'
<1>1. socket'[c] = s /\ \A d \in Socket : d # c => socket'[d] = socket[d]
  BY SocketFacts
<1>2. SocketTypeOK'
  BY DEF SocketInv, SocketTypeOK
<1>3. \A d \in Socket :
        /\ socket'[d].pool = socket[d].pool /\ socket'[d].id = socket[d].id
        /\ socket'[d].joined = socket[d].joined
        /\ socket'[d].at \in Inside <=> socket[d].at \in Inside
        /\ SocketSound(socket'[d])
  BY <1>1 DEF SocketInv
<1>4. IdsSound' /\ RoomSound'
  BY <1>3, IdsKept, RoomKept DEF SocketInv
<1> QED
  BY <1>2, <1>3, <1>4 DEF SocketInv

LEMMA HoldingFinite ==
  IsFiniteSet(Holding) /\ Cardinality(Holding) \in Nat
<1>1. IsFiniteSet(Holding)
  BY SocketAssumption, FS_Subset DEF Holding
<1> QED
  BY <1>1, FS_CardinalityType

LEMMA CountsKeeps == ASSUME SocketInv, NEW c \in Socket, Counts(c) PROVE SocketInv'
<1>1. PICK r \in SocketRecord : r = socket[c]
  BY SocketFacts
<1>2. UNCHANGED <<limit, ids, members, topic>>
  BY DEF Counts, Room
<1>3. r.at = "seen" /\ r.held = {} /\ r.id = 0 /\ ~r.joined
  <2>1. r.at = "seen"
    BY <1>1 DEF Counts, Moves
  <2>2. QED
    BY <1>1, <2>1, SocketFacts DEF SocketSound, Before, Inside, Event
<1>4. limit \in Nat /\ open \in Nat /\ r.seen \in Nat
  BY SocketAssumption DEF SocketInv, SocketTypeOK, SocketRecord
<1>5. "seen" \notin Inside /\ "new" \notin Inside /\ "entered" \notin Inside
      /\ "new" \in Before /\ "entered" \in Before
  BY DEF Inside, Event, Before
<1>6. CASE open = r.seen
  <2> DEFINE s == [r EXCEPT !.at = "entered", !.seen = 0, !.held = {"failed", "loop"}]
  <2>1. socket' = [socket EXCEPT ![c] = s] /\ open' = open + 1
    BY <1>1, <1>6 DEF Counts, Moves
  <2>2. s \in SocketRecord
    BY DEF SocketRecord
  <2>3. /\ s.at = "entered" /\ s.pool = r.pool /\ s.id = r.id /\ s.joined = r.joined
        /\ s.held = {"failed", "loop"}
    BY DEF SocketRecord
  <2> HIDE DEF s
  <2>4. SocketSound(s)
    BY <1>3, <1>5, <2>3 DEF SocketSound
  <2>5. socket'[c] = s /\ \A d \in Socket : d # c => socket'[d] = socket[d]
    BY <2>1, SocketFacts
  <2>6. Holding' = Holding \cup {c} /\ c \notin Holding
    BY <1>1, <1>3, <2>3, <2>5 DEF Holding
  <2>7. Cardinality(Holding') = Cardinality(Holding) + 1
    BY <2>6, HoldingFinite, FS_AddElement
  <2>8. open = Cardinality(Holding)
    BY DEF SocketInv, SlotsAreExact, Holding
  <2>9. limit # 0 => open + 1 <= limit
    <3>1. limit = 0 \/ r.seen < limit
      BY <1>1 DEF Counts
    <3>2. QED
      BY <1>4, <1>6, <3>1
  <2>10. SlotsAreExact'
    BY <1>2, <2>1, <2>7, <2>8, <2>9 DEF SlotsAreExact, Holding
  <2>11. open' \in Nat
    BY <1>4, <2>1
  <2>12. s.at \notin Inside /\ r.at \notin Inside
    BY <1>3, <1>5, <2>3
  <2>13. QED
    BY <1>1, <1>2, <2>1, <2>2, <2>3, <2>4, <2>10, <2>11, <2>12, PlaceKeeps
<1>7. CASE open # r.seen
  <2> DEFINE s == [r EXCEPT !.at = "new", !.seen = 0]
  <2>1. socket' = [socket EXCEPT ![c] = s] /\ UNCHANGED open
    BY <1>1, <1>7 DEF Counts, Moves
  <2>2. s \in SocketRecord
    BY DEF SocketRecord
  <2>3. /\ s.at = "new" /\ s.pool = r.pool /\ s.id = r.id /\ s.joined = r.joined
        /\ s.held = r.held
    BY DEF SocketRecord
  <2> HIDE DEF s
  <2>4. SocketSound(s)
    BY <1>3, <1>5, <2>3 DEF SocketSound
  <2>5. Quiet(s, r)
    BY <1>3, <1>5, <2>2, <2>3, <2>4 DEF Quiet
  <2>6. topic' \subseteq Socket
    BY <1>2 DEF SocketInv, SocketTypeOK
  <2>7. QED
    BY <1>1, <1>2, <2>1, <2>5, <2>6, QuietKeeps
<1> QED
  BY <1>6, <1>7

LEMMA DropsKeeps ==
  ASSUME SocketInv, NEW c \in Socket, NEW h \in {"failed", "loop"}, Drops(c, h)
  PROVE  SocketInv'
<1>1. PICK r \in SocketRecord : r = socket[c]
  BY SocketFacts
<1> DEFINE s == [r EXCEPT !.held = @ \ {h}]
<1>2. /\ h \in r.held /\ UNCHANGED <<limit, ids, members, topic>>
      /\ open' = IF r.held = {h} THEN open - 1 ELSE open
  BY <1>1 DEF Drops, MayDrop, Room
<1>3. socket' = [socket EXCEPT ![c] = s]
  BY <1>1 DEF Drops, SocketInv, SocketTypeOK
<1>4. s \in SocketRecord
  BY DEF SocketRecord
<1>5. /\ s.at = r.at /\ s.pool = r.pool /\ s.id = r.id /\ s.joined = r.joined
      /\ s.forwarder = r.forwarder /\ s.held = r.held \ {h}
  BY DEF SocketRecord
<1> HIDE DEF s
<1>6. SocketSound(s)
  BY <1>1, <1>5, SocketFacts DEF SocketSound
<1>7. socket'[c] = s /\ \A d \in Socket : d # c => socket'[d] = socket[d]
  BY <1>3, SocketFacts
<1>8. open = Cardinality(Holding) /\ (limit # 0 => open <= limit)
  BY DEF SocketInv, SlotsAreExact, Holding
<1>9. limit \in Nat /\ open \in Nat
  BY SocketAssumption DEF SocketInv, SocketTypeOK
<1>10. SlotsAreExact' /\ open' \in Nat
  <2>1. CASE r.held = {h}
    <3>1. Holding' = Holding \ {c} /\ c \in Holding
      BY <1>1, <1>5, <1>7, <2>1 DEF Holding
    <3>2. Cardinality(Holding') = Cardinality(Holding) - 1
      BY <3>1, HoldingFinite, FS_RemoveElement
    <3>3. Holding # {}
      BY <3>1
    <3>4. Cardinality(Holding) # 0
      BY <3>3, HoldingFinite, FS_EmptySet
    <3>5. open' = open - 1 /\ open' \in Nat
      BY <1>2, <1>8, <1>9, <2>1, <3>4
    <3>6. open' = Cardinality(Holding')
      BY <1>8, <3>2, <3>5
    <3>7. limit' # 0 => open' <= limit'
      BY <1>2, <1>8, <1>9, <3>5
    <3>8. QED
      BY <3>5, <3>6, <3>7 DEF SlotsAreExact, Holding
  <2>2. CASE r.held # {h}
    <3>1. \A d \in Socket : (socket'[d].held = {}) <=> (socket[d].held = {})
      BY <1>1, <1>2, <1>5, <1>7, <2>2
    <3>2. UNCHANGED <<limit, open>>
      BY <1>2, <2>2
    <3>3. QED
      BY <1>9, <3>1, <3>2, SlotsKept DEF SocketInv
  <2>3. QED
    BY <2>1, <2>2
<1> QED
  BY <1>1, <1>2, <1>3, <1>4, <1>5, <1>6, <1>10, PlaceKeeps

LEMMA AttachesKeeps == ASSUME SocketInv, NEW c \in Socket, Attaches(c) PROVE SocketInv'
<1>1. PICK r \in SocketRecord : r = socket[c]
  BY SocketFacts
<1>2. PICK p \in Pool : p = r.pool
  BY DEF SocketRecord
<1>3. PICK k \in {0} \cup Ids : k = ids[p]
  BY DEF SocketInv, SocketTypeOK
<1> DEFINE s == [r EXCEPT !.at = "connection", !.id = k + 1, !.sender = TRUE, !.forwarder = "on"]
<1>4. /\ r.at = "attach" /\ socket' = [socket EXCEPT ![c] = s]
      /\ UNCHANGED <<limit, open, members, topic>>
  BY <1>1, <1>2, <1>3 DEF Attaches, Moves, Gate, Room
<1>5. ids' = [ids EXCEPT ![p] = k + 1]
  BY <1>1, <1>2, <1>3 DEF Attaches, SocketInv, SocketTypeOK
<1>6. r.id = 0 /\ ~r.joined
  BY <1>1, <1>4, SocketFacts DEF SocketSound, Before, Inside, Event
<1>7. k = Cardinality(Given(p)) /\ Given(p) \subseteq Socket \ {c}
  BY <1>1, <1>3, <1>6 DEF SocketInv, IdsSound, Given
<1>8. k \in Nat /\ k + 1 \in Ids
  <2>1. /\ IsFiniteSet(Socket \ {c}) /\ Cardinality(Socket \ {c}) = Cardinality(Socket) - 1
        /\ Cardinality(Socket) \in Nat
    BY SocketAssumption, FS_RemoveElement, FS_CardinalityType
  <2>2. Cardinality(Given(p)) <= Cardinality(Socket \ {c})
    BY <1>7, <2>1, FS_Subset
  <2>3. Cardinality(Socket \ {c}) \in Nat /\ k \in Nat
    BY <1>3, <2>1, FS_CardinalityType DEF Ids
  <2>4. QED
    BY <1>7, <2>1, <2>2, <2>3 DEF Ids
<1>9. s \in SocketRecord
  BY <1>8 DEF SocketRecord, Event
<1>10. /\ s.at = "connection" /\ s.id = k + 1 /\ s.forwarder = "on" /\ s.pool = r.pool
       /\ s.joined = r.joined /\ s.held = r.held
  BY DEF SocketRecord
<1> HIDE DEF s
<1>11. socket'[c] = s /\ \A d \in Socket : d # c => socket'[d] = socket[d]
  BY <1>4, SocketFacts
<1>12. SocketSound(s) /\ "connection" \in Inside
  BY <1>8, <1>10 DEF SocketSound, Before, Inside, Event
<1>13. SocketTypeOK'
  BY <1>4, <1>5, <1>8, <1>9 DEF SocketInv, SocketTypeOK
<1>14. SlotsAreExact'
  BY <1>1, <1>4, <1>10, <1>11, SlotsKept DEF SocketInv
<1>15. \A d \in Socket : socket[d].id \in Nat /\ socket[d].pool \in Pool
  BY SocketFacts DEF SocketRecord, Ids
<1>16. IdsSound'
  <2>1. ids'[p] = k + 1 /\ \A q \in Pool : q # p => ids'[q] = ids[q]
    BY <1>5 DEF SocketInv, SocketTypeOK
  <2>2. ASSUME NEW q \in Pool PROVE ids'[q] = Cardinality(Given(q)')
    <3>1. CASE q = p
      <4>1. Given(p)' = Given(p) \cup {c} /\ c \notin Given(p)
        BY <1>1, <1>2, <1>7, <1>8, <1>10, <1>11 DEF Given
      <4>2. IsFiniteSet(Given(p))
        BY SocketAssumption, FS_Subset DEF Given
      <4>3. Cardinality(Given(p)') = k + 1
        BY <1>7, <4>1, <4>2, FS_AddElement
      <4>4. QED
        BY <2>1, <3>1, <4>3
    <3>2. CASE q # p
      <4>1. Given(q)' = Given(q)
        BY <1>1, <1>2, <1>10, <1>11, <3>2 DEF Given
      <4>2. QED
        BY <2>1, <3>2, <4>1 DEF SocketInv, IdsSound
    <3>3. QED
      BY <3>1, <3>2
  <2>3. \A d \in Socket : socket[d].pool = p => socket[d].id <= k
    BY <1>3 DEF SocketInv, IdsSound
  <2>4. ASSUME NEW d \in Socket PROVE socket'[d].id <= ids'[socket'[d].pool]
    <3>1. CASE d = c
      BY <1>2, <1>8, <1>10, <1>11, <2>1, <3>1
    <3>2. CASE d # c /\ socket[d].pool = p
      BY <1>8, <1>11, <1>15, <2>1, <2>3, <3>2
    <3>3. CASE d # c /\ socket[d].pool # p
      BY <1>11, <1>15, <2>1, <3>3 DEF SocketInv, IdsSound
    <3>4. QED
      BY <3>1, <3>2, <3>3
  <2>5. \A d \in Socket : d # c /\ socket[d].pool = p => socket[d].id # k + 1
    BY <1>8, <1>15, <2>3
  <2>6. ASSUME NEW d \in Socket, NEW e \in Socket, d # e,
               socket'[d].pool = socket'[e].pool, socket'[d].id = socket'[e].id
        PROVE  socket'[d].id = 0
    <3>1. CASE d = c
      BY <1>2, <1>10, <1>11, <2>5, <2>6, <3>1
    <3>2. CASE e = c
      BY <1>2, <1>10, <1>11, <2>5, <2>6, <3>2
    <3>3. CASE d # c /\ e # c
      BY <1>11, <2>6, <3>3 DEF SocketInv, IdsSound
    <3>4. QED
      BY <3>1, <3>2, <3>3
  <2>7. \A q \in Pool : ids'[q] = Cardinality(Given(q)')
    BY <2>2
  <2>8. \A d \in Socket : socket'[d].id <= ids'[socket'[d].pool]
    BY <2>4
  <2>9. \A d, e \in Socket :
          d # e /\ socket'[d].pool = socket'[e].pool /\ socket'[d].id = socket'[e].id =>
            socket'[d].id = 0
    BY <2>6
  <2>10. QED
    BY <2>7, <2>8, <2>9 DEF IdsSound
<1>17. RoomSound'
  <2>1. \A i \in Ids : members[i] # c
    BY <1>1, <1>4 DEF SocketInv, RoomSound, Attached, Event
  <2>2. \A d \in Socket : d # c => (Attached(d)' <=> Attached(d))
    BY <1>11 DEF Attached
  <2>3. \A d \in Socket : \A i \in Ids :
          members'[i] = d => socket'[d].id = i /\ Attached(d)'
    BY <1>4, <1>11, <2>1, <2>2 DEF SocketInv, RoomSound
  <2>4. ASSUME NEW d \in Socket, Attached(d)', ~Shares(d)'
        PROVE  socket'[d].joined <=> members'[socket'[d].id] = d
    <3>1. CASE d = c
      BY <1>4, <1>6, <1>8, <1>10, <1>11, <2>1, <3>1
    <3>2. CASE d # c
      <4>1. Attached(d) /\ socket[d].id # 0
        BY <2>2, <2>4, <3>2, SocketFacts DEF Attached, SocketSound, Before, Event
      <4>2. ~Shares(d)
        BY <1>1, <1>6, <1>11, <2>4, <3>2, <4>1 DEF Shares
      <4>3. QED
        BY <1>4, <1>11, <3>2, <4>1, <4>2 DEF SocketInv, RoomSound
    <3>3. QED
      BY <3>1, <3>2
  <2>5. QED
    BY <2>3, <2>4 DEF RoomSound
<1>18. \A d \in Socket : SocketSound(socket'[d])
  BY <1>11, <1>12 DEF SocketInv
<1> QED
  BY <1>13, <1>14, <1>16, <1>17, <1>18 DEF SocketInv

\* One connection's entry in the room changes with what it knows of it.
LEMMA MemberKeeps ==
  ASSUME SocketInv, NEW c \in Socket, socket[c].at \in Inside, NEW s \in SocketRecord,
         SocketSound(s), s.pool = socket[c].pool, s.id = socket[c].id,
         s.held = socket[c].held, NEW x \in {c, NoSocket}, s.joined <=> x = c,
         socket' = [socket EXCEPT ![c] = s],
         members' = [members EXCEPT ![socket[c].id] = x],
         UNCHANGED <<limit, open, ids, topic>>
  PROVE  SocketInv'
<1>1. PICK n \in Ids : n = socket[c].id
  BY SocketFacts DEF SocketSound, SocketRecord, Inside, Before, Event
<1>2. socket'[c] = s /\ \A d \in Socket : d # c => socket'[d] = socket[d]
  BY SocketFacts
<1>3. members'[n] = x /\ \A i \in Ids : i # n => members'[i] = members[i]
  BY <1>1 DEF SocketInv, SocketTypeOK
<1>4. SocketTypeOK'
  BY DEF SocketInv, SocketTypeOK
<1>5. SlotsAreExact'
  BY <1>2, SlotsKept DEF SocketInv
<1>6. IdsSound'
  BY <1>2, IdsKept DEF SocketInv
<1>7. \A d \in Socket : d # c => (Attached(d)' <=> Attached(d))
  BY <1>2 DEF Attached
<1>8. x = c => Attached(c)'
  BY <1>2 DEF Attached, SocketSound, Inside
<1>9. \A d \in Socket : Shares(d)' <=> Shares(d)
  BY <1>2 DEF Shares
<1>10. \A d \in Socket : Attached(d) => socket[d].id \in Ids
  BY SocketFacts DEF Attached, SocketSound, SocketRecord, Before, Event
<1>11. \A d \in Socket : \A i \in Ids :
         members'[i] = d => socket'[d].id = i /\ Attached(d)'
  <2>1. SUFFICES ASSUME NEW d \in Socket, NEW i \in Ids, members'[i] = d
                 PROVE  socket'[d].id = i /\ Attached(d)'
    OBVIOUS
  <2>2. CASE i = n
    BY <1>1, <1>2, <1>3, <1>8, <2>1, <2>2, SocketAssumption
  <2>3. CASE i # n
    <3>1. members[i] = d
      BY <1>3, <2>1, <2>3
    <3>2. socket[d].id = i /\ Attached(d)
      BY <3>1 DEF SocketInv, RoomSound
    <3>3. d # c
      BY <1>1, <2>3, <3>2
    <3>4. QED
      BY <1>2, <1>7, <3>2, <3>3
  <2>4. QED
    BY <2>2, <2>3
<1>12. ASSUME NEW d \in Socket, Attached(d)', ~Shares(d)'
       PROVE  socket'[d].joined <=> members'[socket'[d].id] = d
  <2>1. CASE d = c
    <3>1. (members'[n] = c) <=> (x = c)
      BY <1>3, SocketAssumption
    <3>2. QED
      BY <1>1, <1>2, <2>1, <3>1
  <2>2. CASE d # c
    <3>1. Attached(d) /\ ~Shares(d) /\ socket[d].id \in Ids
      BY <1>7, <1>9, <1>10, <1>12, <2>2
    <3>2. socket[d].id # n
      <4>1. SUFFICES ASSUME socket[d].id = n PROVE FALSE
        OBVIOUS
      <4>2. socket[c].pool = socket[d].pool
        BY <1>1, <3>1, <4>1 DEF Shares
      <4>3. n = 0
        BY <1>1, <2>2, <4>1, <4>2 DEF SocketInv, IdsSound
      <4>4. QED
        BY <1>1, <4>3 DEF Ids
    <3>3. members'[socket[d].id] = members[socket[d].id]
      BY <1>3, <3>1, <3>2
    <3>4. socket[d].joined <=> members[socket[d].id] = d
      BY <3>1 DEF SocketInv, RoomSound
    <3>5. QED
      BY <1>2, <2>2, <3>3, <3>4
  <2>3. QED
    BY <2>1, <2>2
<1>13. RoomSound'
  BY <1>11, <1>12 DEF RoomSound
<1>14. \A d \in Socket : SocketSound(socket'[d])
  BY <1>2 DEF SocketInv
<1> QED
  BY <1>4, <1>5, <1>6, <1>13, <1>14 DEF SocketInv

LEMMA DetachesKeeps == ASSUME SocketInv, NEW c \in Socket, Detaches(c) PROVE SocketInv'
<1>1. PICK r \in SocketRecord : r = socket[c]
  BY SocketFacts
<1> DEFINE s == IF r.writer = "none"
                THEN [r EXCEPT !.at = "over", !.sender = FALSE, !.joined = FALSE]
                ELSE [r EXCEPT !.at = "drop", !.joined = FALSE]
<1>2. /\ r.at = "detach" /\ socket' = [socket EXCEPT ![c] = s]
      /\ members' = [members EXCEPT ![r.id] = NoSocket]
      /\ UNCHANGED <<limit, open, ids, topic>>
  BY <1>1 DEF Detaches, Moves, Gate
<1>3. s \in SocketRecord
  BY DEF SocketRecord
<1>4. /\ s.at \in {"over", "drop"} /\ s.pool = r.pool /\ s.id = r.id /\ s.held = r.held
      /\ s.joined = FALSE
  BY DEF SocketRecord
<1> HIDE DEF s
<1>5. SocketSound(s) /\ r.at \in Inside
  BY <1>1, <1>2, <1>4, SocketFacts DEF SocketSound, Inside, Before, Event
<1>6. NoSocket # c
  BY SocketAssumption
<1> QED
  BY <1>1, <1>2, <1>3, <1>4, <1>5, <1>6, MemberKeeps

\* A handler of a connection that the loop waits for joins the room or leaves it.
LEMMA UsesRoom ==
  ASSUME SocketInv, NEW c \in Socket, Handles(c), NEW j \in BOOLEAN, NEW x,
         x = (IF j THEN c ELSE NoSocket),
         socket' = [socket EXCEPT ![c] = [socket[c] EXCEPT !.joined = j]],
         members' = [members EXCEPT ![socket[c].id] = x],
         UNCHANGED <<limit, open, ids, topic>>
  PROVE  SocketInv'
<1>1. PICK r \in SocketRecord : r = socket[c]
  BY SocketFacts
<1> DEFINE s == [r EXCEPT !.joined = j]
<1>2. s \in SocketRecord
  BY DEF SocketRecord
<1>3. /\ s.at = r.at /\ s.pool = r.pool /\ s.id = r.id /\ s.held = r.held
      /\ s.forwarder = r.forwarder /\ s.joined = j
  BY DEF SocketRecord
<1>4. socket' = [socket EXCEPT ![c] = s]
  BY <1>1
<1> HIDE DEF s
<1>5. r.at \in Inside
  BY <1>1 DEF Handles, Inside
<1>6. SocketSound(s)
  BY <1>1, <1>3, <1>5, SocketFacts DEF SocketSound
<1>7. x \in {c, NoSocket} /\ (s.joined <=> x = c)
  BY <1>3, SocketAssumption
<1> QED
  BY <1>1, <1>2, <1>3, <1>4, <1>5, <1>6, <1>7, MemberKeeps

LEMMA JoinsKeeps == ASSUME SocketInv, NEW c \in Socket, Joins(c) PROVE SocketInv'
<1>1. socket' = [socket EXCEPT ![c] = [socket[c] EXCEPT !.joined = TRUE]]
  BY DEF Joins, SocketInv, SocketTypeOK
<1>2. /\ Handles(c) /\ members' = [members EXCEPT ![socket[c].id] = c]
      /\ UNCHANGED <<limit, open, ids, topic>>
  BY DEF Joins, Gate
<1> QED
  BY <1>1, <1>2, UsesRoom

LEMMA PartsKeeps == ASSUME SocketInv, NEW c \in Socket, Parts(c) PROVE SocketInv'
<1>1. socket' = [socket EXCEPT ![c] = [socket[c] EXCEPT !.joined = FALSE]]
  BY DEF Parts, SocketInv, SocketTypeOK
<1>2. /\ Handles(c) /\ members' = [members EXCEPT ![socket[c].id] = NoSocket]
      /\ UNCHANGED <<limit, open, ids, topic>>
  BY DEF Parts, Gate
<1> QED
  BY <1>1, <1>2, UsesRoom

\* A frame to many: of the room only senders that fail are taken out.
LEMMA FansKeeps ==
  ASSUME SocketInv, NEW to \in SUBSET Socket, Fans(to), topic' \subseteq Socket,
         members' \in [Ids -> Socket \cup {NoSocket}],
         \A i \in Ids : members'[i] # members[i] =>
           members'[i] = NoSocket /\ members[i] \notin Hearing
  PROVE  SocketInv'
<1>1. /\ \A d \in to : socket[d].inbox < MaxInbox
      /\ socket' = [d \in Socket |-> IF d \in to THEN [socket[d] EXCEPT !.inbox = @ + 1]
                                                ELSE socket[d]]
      /\ UNCHANGED <<limit, open, ids>>
  BY DEF Fans, Gate
<1>2. ASSUME NEW d \in Socket
      PROVE  /\ socket'[d] \in SocketRecord
             /\ socket'[d].at = socket[d].at /\ socket'[d].held = socket[d].held
             /\ socket'[d].pool = socket[d].pool /\ socket'[d].id = socket[d].id
             /\ socket'[d].joined = socket[d].joined
             /\ socket'[d].forwarder = socket[d].forwarder
  <2>1. PICK r \in SocketRecord : r = socket[d]
    BY SocketFacts
  <2>2. CASE d \in to
    <3>1. r.inbox + 1 \in 0 .. MaxInbox
      BY <1>1, <2>1, <2>2, SocketAssumption DEF SocketRecord
    <3>2. socket'[d] = [r EXCEPT !.inbox = r.inbox + 1]
      BY <1>1, <2>1, <2>2 DEF SocketRecord
    <3>3. QED
      BY <2>1, <3>1, <3>2 DEF SocketRecord
  <2>3. CASE d \notin to
    BY <1>1, <2>1, <2>3
  <2>4. QED
    BY <2>2, <2>3
<1>3. SocketTypeOK'
  <2>1. socket' \in [Socket -> SocketRecord]
    BY <1>1, <1>2
  <2>2. QED
    BY <1>1, <2>1 DEF SocketInv, SocketTypeOK
<1>4. SlotsAreExact' /\ IdsSound'
  BY <1>1, <1>2, SlotsKept, IdsKept DEF SocketInv
<1>5. \A d \in Socket : (Attached(d)' <=> Attached(d)) /\ (Shares(d)' <=> Shares(d))
  BY <1>2 DEF Attached, Shares
<1>6. \A d \in Socket : Attached(d) => d \in Hearing /\ socket[d].id \in Ids
  BY SocketFacts DEF Attached, SocketSound, SocketRecord, Hearing, Inside, Before, Event
<1>7. ASSUME NEW d \in Socket, NEW i \in Ids, members'[i] = d
      PROVE  socket'[d].id = i /\ Attached(d)'
  <2>1. members[i] = d
    BY <1>7, SocketAssumption
  <2>2. QED
    BY <1>2, <1>5, <2>1 DEF SocketInv, RoomSound
<1>8. ASSUME NEW d \in Socket, Attached(d)', ~Shares(d)'
      PROVE  socket'[d].joined <=> members'[socket'[d].id] = d
  <2>1. Attached(d) /\ ~Shares(d) /\ d \in Hearing
    BY <1>5, <1>6, <1>8
  <2>2. PICK n \in Ids : n = socket[d].id
    BY <1>6, <2>1
  <2>3. socket[d].joined <=> members[n] = d
    BY <2>1, <2>2 DEF SocketInv, RoomSound
  <2>4. (members'[n] = d) <=> (members[n] = d)
    BY <2>1, SocketAssumption
  <2>5. QED
    BY <1>2, <2>2, <2>3, <2>4
<1>9. RoomSound'
  BY <1>7, <1>8 DEF RoomSound
<1>10. ASSUME NEW d \in Socket PROVE SocketSound(socket'[d])
  BY <1>2, SocketFacts DEF SocketSound
<1> QED
  BY <1>3, <1>4, <1>9, <1>10 DEF SocketInv

LEMMA BroadcastsKeeps == ASSUME SocketInv, NEW from, Broadcasts(from) PROVE SocketInv'
<1> DEFINE called == {i \in Ids : members[i] # NoSocket /\ i # from}
           to == {members[i] : i \in called} \cap Hearing
<1>1. Fans(to) /\ UNCHANGED topic
  BY DEF Broadcasts
<1>2. members' = [i \in Ids |->
        IF i \in called /\ members[i] \notin Hearing THEN NoSocket ELSE members[i]]
  BY DEF Broadcasts
<1>3. to \in SUBSET Socket
  BY DEF Hearing
<1> HIDE DEF called, to
<1>4. members' \in [Ids -> Socket \cup {NoSocket}]
  BY <1>2 DEF SocketInv, SocketTypeOK
<1>5. \A i \in Ids : members'[i] # members[i] =>
        members'[i] = NoSocket /\ members[i] \notin Hearing
  BY <1>2
<1>6. topic' \subseteq Socket
  BY <1>1 DEF SocketInv, SocketTypeOK
<1> QED
  BY <1>1, <1>3, <1>4, <1>5, <1>6, FansKeeps

LEMMA PublishesKeeps == ASSUME SocketInv, Publishes PROVE SocketInv'
<1>1. Fans(topic \cap Hearing) /\ topic' = topic \cap Hearing /\ UNCHANGED members
  BY DEF Publishes
<1>2. topic \cap Hearing \in SUBSET Socket
  BY DEF Hearing
<1>3. members' \in [Ids -> Socket \cup {NoSocket}] /\ topic' \subseteq Socket
  BY <1>1, <1>2 DEF SocketInv, SocketTypeOK
<1> QED
  BY <1>1, <1>2, <1>3, FansKeeps

LEMMA SocketKeeps == SocketInv /\ [SocketNext]_socketVars => SocketInv'
<1> SUFFICES ASSUME SocketInv, [SocketNext]_socketVars PROVE SocketInv'
  OBVIOUS
<1>1. CASE UNCHANGED socketVars
  <2>1. UNCHANGED <<limit, open, socket, ids, members, topic>>
    BY <1>1 DEF socketVars
  <2>2. SocketTypeOK'
    BY <2>1 DEF SocketInv, SocketTypeOK
  <2>3. QED
    BY <2>1, <2>2, SlotsKept, IdsKept, RoomKept DEF SocketInv
<1>2. CASE \E c \in Socket : Loop(c)
  BY <1>2, ReadsCountKeeps, IsRefusedKeeps, CountsKeeps, UpgradesKeeps, AttachesKeeps,
     AnsweredKeeps, DetachesKeeps, LeavesKeeps, ReturnsKeeps DEF Loop
<1>3. CASE \E c \in Socket : Hears(c) \/ Dropping(c) \/ Forwarding(c) \/ Writing(c)
  BY <1>3, HearsKeeps, DropsKeeps, ForwardsKeeps, ForwarderEndsKeeps, WritingKeeps
     DEF Dropping, Forwarding
<1>4. CASE \E c \in Socket : Uses(c) \/ SocketClient(c)
  BY <1>4, JoinsKeeps, PartsKeeps, SubscribesKeeps, SocketClientKeeps DEF Uses
<1>5. CASE Others
  BY <1>5, BroadcastsKeeps DEF Others
<1>6. CASE Publishes
  BY <1>6, PublishesKeeps
<1> QED
  BY <1>1, <1>2, <1>3, <1>4, <1>5, <1>6 DEF SocketNext

LEMMA SocketsTell == SocketInv => SocketsAreTrue
<1> SUFFICES ASSUME SocketInv PROVE SocketsAreTrue
  OBVIOUS
<1>1. \A c \in Socket : socket[c].at \in {"drop", "join", "over"} => ~Attached(c)
  BY DEF Attached, Event
<1> QED
  BY <1>1 DEF SocketInv, RoomSound, SocketsAreTrue

LEMMA MCKeepsSockets == SocketInv /\ [Scheduling(Next) \/ Connected(SocketNext)]_all => SocketInv'
<1> SUFFICES ASSUME SocketInv, [Scheduling(Next) \/ Connected(SocketNext)]_all
             PROVE  SocketInv'
  OBVIOUS
<1>1. [SocketNext]_socketVars
  BY DEF Scheduling, Connected, all
<1> QED
  BY <1>1, SocketKeeps

\* However upgrades, frames, handlers, ends and clients interleave, WS_LIVE counts the
\* connections that hold a place and keeps below ws.max_connections (gate_enter,
\* GateGuard), one that has gone is in no room and one that joined is in it unless it
\* shares its id with a connection of another pool (frame_loop, WsHub).
THEOREM SocketsTrue == MCSpec => []SocketsAreTrue
<1>1. MCInit => SocketInv
  BY SocketInitially DEF MCInit
<1> QED
  BY <1>1, MCKeepsSockets, SocketsTell, PTL DEF MCSpec

-----------------------------------------------------------------------------
(***************************************************************************)
(* What a connection that ends waits for.                                  *)
(***************************************************************************)

\* A loop that waits for its writer has one, and nobody else keeps a sender to it.
EndSound(s) ==
  /\ s.at \in {"drop", "join"} => s.writer # "none" /\ s.forwarder # "none"
  /\ s.at = "join" => ~s.sender /\ s.forwarder # "on"

EndInv == SocketInv /\ \A c \in Socket : EndSound(socket[c])

LEMMA OneEnds ==
  ASSUME EndInv, NEW c \in Socket, NEW s, EndSound(s), socket' = [socket EXCEPT ![c] = s]
  PROVE  \A d \in Socket : EndSound(socket'[d])
<1>1. socket'[c] = s /\ \A d \in Socket : d # c => socket'[d] = socket[d]
  BY SocketFacts DEF EndInv
<1> QED
  BY <1>1 DEF EndInv

LEMMA ElsewhereEnds ==
  ASSUME EndInv, NEW c \in Socket, NEW s, s.at \notin {"drop", "join"},
         socket' = [socket EXCEPT ![c] = s]
  PROVE  \A d \in Socket : EndSound(socket'[d])
<1>1. EndSound(s)
  BY DEF EndSound
<1> QED
  BY <1>1, OneEnds

\* A step beside the loop: a writer that is there stays, and so does a forwarder.
LEMMA BesideEnds ==
  ASSUME EndInv, NEW c \in Socket, NEW s, s.at = socket[c].at, s.sender = socket[c].sender,
         s.writer = socket[c].writer \/ s.writer \in {"on", "closes", "over"},
         s.forwarder = socket[c].forwarder \/ s.forwarder = "over",
         socket' = [socket EXCEPT ![c] = s]
  PROVE  \A d \in Socket : EndSound(socket'[d])
<1>1. EndSound(s)
  BY DEF EndInv, EndSound
<1> QED
  BY <1>1, OneEnds

LEMMA LoopEnds ==
  ASSUME EndInv, NEW c \in Socket, Loop(c)
  PROVE  \A d \in Socket : EndSound(socket'[d])
<1>1. PICK r \in SocketRecord : r = socket[c]
  BY SocketFacts DEF EndInv
<1>2. CASE ReadsCount(c)
  <2> DEFINE s == [r EXCEPT !.at = "seen", !.seen = open]
  <2>1. s.at = "seen" /\ socket' = [socket EXCEPT ![c] = s]
    BY <1>1, <1>2 DEF ReadsCount, Moves, SocketRecord
  <2>2. QED
    BY <2>1, ElsewhereEnds
<1>3. CASE IsRefused(c)
  <2> DEFINE s == [r EXCEPT !.at = "refused"]
  <2>1. s.at = "refused" /\ socket' = [socket EXCEPT ![c] = s]
    BY <1>1, <1>3 DEF IsRefused, Moves, SocketRecord
  <2>2. QED
    BY <2>1, ElsewhereEnds
<1>4. CASE Counts(c)
  <2> DEFINE s == [r EXCEPT !.at = "entered", !.seen = 0, !.held = {"failed", "loop"}]
             t == [r EXCEPT !.at = "new", !.seen = 0]
  <2>1. s.at = "entered" /\ t.at = "new"
    BY DEF SocketRecord
  <2>2. socket' = [socket EXCEPT ![c] = s] \/ socket' = [socket EXCEPT ![c] = t]
    BY <1>1, <1>4 DEF Counts, Moves
  <2>3. QED
    BY <2>1, <2>2, ElsewhereEnds
<1>5. CASE Upgrades(c)
  <2>1. PICK to \in {"failed", "attach"} : socket' = [socket EXCEPT ![c] = [r EXCEPT !.at = to]]
    BY <1>1, <1>5 DEF Upgrades, Moves
  <2>2. [r EXCEPT !.at = to].at \notin {"drop", "join"}
    BY DEF SocketRecord
  <2>3. QED
    BY <2>1, <2>2, ElsewhereEnds
<1>6. CASE Attaches(c)
  <2> DEFINE s == [r EXCEPT !.at = "connection", !.id = ids[r.pool] + 1,
                            !.sender = TRUE, !.forwarder = "on"]
  <2>1. s.at = "connection" /\ socket' = [socket EXCEPT ![c] = s]
    BY <1>1, <1>6 DEF Attaches, Moves, SocketRecord
  <2>2. QED
    BY <2>1, ElsewhereEnds
<1>7. CASE Answered(c)
  <2>1. \E s \in {r, Offered(r), WriterStarts(r), WriterStarts(Offered(r))}, to \in Inside :
          socket' = [socket EXCEPT ![c] = [s EXCEPT !.at = to]]
    BY <1>1, <1>7 DEF Answered, Moves, Inside, Event
  <2>2. PICK s \in {r, Offered(r), WriterStarts(r), WriterStarts(Offered(r))}, to \in Inside :
          socket' = [socket EXCEPT ![c] = [s EXCEPT !.at = to]]
    BY <2>1
  <2>3. s \in SocketRecord
    BY OfferedKeeps, WriterStartsKeeps
  <2>4. [s EXCEPT !.at = to].at \notin {"drop", "join"}
    BY <2>3 DEF SocketRecord, Inside, Event
  <2>5. QED
    BY <2>2, <2>4, ElsewhereEnds
<1>8. CASE Detaches(c)
  <2> DEFINE s == [r EXCEPT !.at = "over", !.sender = FALSE, !.joined = FALSE]
             t == [r EXCEPT !.at = "drop", !.joined = FALSE]
  <2>1. s.at = "over" /\ t.at = "drop" /\ t.writer = r.writer /\ t.forwarder = r.forwarder
    BY DEF SocketRecord
  <2>2. r.forwarder = "on"
    BY <1>1, <1>8, SocketFacts DEF EndInv, SocketSound, Detaches, Moves, Inside
  <2>3. \/ socket' = [socket EXCEPT ![c] = s]
        \/ r.writer # "none" /\ socket' = [socket EXCEPT ![c] = t]
    BY <1>1, <1>8 DEF Detaches, Moves
  <2> HIDE DEF s, t
  <2>4. r.writer # "none" => EndSound(t)
    BY <2>1, <2>2 DEF EndSound
  <2>5. QED
    BY <2>1, <2>3, <2>4, ElsewhereEnds, OneEnds
<1>9. CASE Leaves(c)
  <2> DEFINE s == [r EXCEPT !.at = "join", !.sender = FALSE,
                            !.forwarder = IF @ = "on" THEN "aborted" ELSE @]
  <2>1. /\ s.at = "join" /\ s.writer = r.writer /\ ~s.sender
        /\ s.forwarder = IF r.forwarder = "on" THEN "aborted" ELSE r.forwarder
    BY DEF SocketRecord
  <2>2. r.at = "drop" /\ socket' = [socket EXCEPT ![c] = s]
    BY <1>1, <1>9 DEF Leaves, Moves
  <2> HIDE DEF s
  <2>3. EndSound(s)
    BY <1>1, <2>1, <2>2 DEF EndInv, EndSound
  <2>4. QED
    BY <2>2, <2>3, OneEnds
<1>10. CASE Returns(c)
  <2> DEFINE s == [r EXCEPT !.at = "over"]
  <2>1. s.at = "over" /\ socket' = [socket EXCEPT ![c] = s]
    BY <1>1, <1>10 DEF Returns, Moves, SocketRecord
  <2>2. QED
    BY <2>1, ElsewhereEnds
<1> QED
  BY <1>2, <1>3, <1>4, <1>5, <1>6, <1>7, <1>8, <1>9, <1>10 DEF Loop

LEMMA SidesEnd ==
  ASSUME EndInv, NEW c \in Socket,
         Hears(c) \/ Dropping(c) \/ Forwarding(c) \/ Writing(c) \/ SocketClient(c)
  PROVE  \A d \in Socket : EndSound(socket'[d])
<1>1. PICK r \in SocketRecord : r = socket[c]
  BY SocketFacts DEF EndInv
<1>2. CASE Hears(c)
  <2>1. PICK to \in {"message", "close"} : socket' = [socket EXCEPT ![c] = [r EXCEPT !.at = to]]
    BY <1>1, <1>2 DEF Hears, Moves
  <2>2. [r EXCEPT !.at = to].at \notin {"drop", "join"}
    BY DEF SocketRecord
  <2>3. QED
    BY <2>1, <2>2, ElsewhereEnds
<1>3. CASE Dropping(c)
  <2>1. PICK h \in {"failed", "loop"} : socket' = [socket EXCEPT ![c].held = @ \ {h}]
    BY <1>3 DEF Dropping, Drops
  <2> DEFINE s == [r EXCEPT !.held = r.held \ {h}]
  <2>2. /\ socket' = [socket EXCEPT ![c] = s]
        /\ s.at = r.at /\ s.sender = r.sender /\ s.writer = r.writer /\ s.forwarder = r.forwarder
    BY <1>1, <2>1 DEF SocketRecord
  <2>3. QED
    BY <1>1, <2>2, BesideEnds
<1>4. CASE Forwards(c)
  <2>1. PICK o \in SocketRecord : o = Offered(r)
    BY OfferedKeeps
  <2>2. o.sender = r.sender /\ o.writer = r.writer /\ o.at = r.at /\ o.forwarder = r.forwarder
    BY <2>1 DEF Offered, SocketRecord
  <2> DEFINE s == [o EXCEPT !.inbox = @ - 1]
  <2>3. /\ socket' = [socket EXCEPT ![c] = s]
        /\ s.at = o.at /\ s.sender = o.sender /\ s.writer = o.writer /\ s.forwarder = o.forwarder
    BY <1>1, <1>4, <2>1 DEF Forwards, Side, SocketRecord
  <2>4. QED
    BY <1>1, <2>2, <2>3, BesideEnds
<1>5. CASE ForwarderEnds(c)
  <2> DEFINE s == [r EXCEPT !.forwarder = "over", !.inbox = 0]
  <2>1. /\ socket' = [socket EXCEPT ![c] = s]
        /\ s.at = r.at /\ s.sender = r.sender /\ s.writer = r.writer /\ s.forwarder = "over"
    BY <1>1, <1>5 DEF ForwarderEnds, Side, SocketRecord
  <2>2. QED
    BY <1>1, <2>1, BesideEnds
<1>6. CASE Writing(c)
  <2>1. \E w \in {r.writer, "on", "closes", "over"}, n \in {0, r.out, r.out - 1} :
          socket' = [socket EXCEPT ![c] = [r EXCEPT !.writer = w, !.out = n]]
    <3>1. [r EXCEPT !.out = r.out - 1] = [r EXCEPT !.writer = r.writer, !.out = r.out - 1]
      BY DEF SocketRecord
    <3>2. \A w \in {"closes", "over"} :
            [r EXCEPT !.writer = w] = [r EXCEPT !.writer = w, !.out = r.out]
      BY DEF SocketRecord
    <3>3. \/ socket' = [socket EXCEPT ![c] = [r EXCEPT !.writer = "over", !.out = 0]]
          \/ socket' = [socket EXCEPT ![c] = [r EXCEPT !.out = r.out - 1]]
          \/ \E w \in {"closes", "over"} : socket' = [socket EXCEPT ![c] = [r EXCEPT !.writer = w]]
      BY <1>1, <1>6 DEF Writing, WriterSends, WriterEnds, WriterCloses, Side
    <3>4. QED
      BY <3>1, <3>2, <3>3
  <2>2. PICK w \in {r.writer, "on", "closes", "over"}, n \in {0, r.out, r.out - 1} :
          socket' = [socket EXCEPT ![c] = [r EXCEPT !.writer = w, !.out = n]]
    BY <2>1
  <2> DEFINE s == [r EXCEPT !.writer = w, !.out = n]
  <2>3. s.at = r.at /\ s.sender = r.sender /\ s.writer = w /\ s.forwarder = r.forwarder
    BY DEF SocketRecord
  <2> HIDE DEF s
  <2>4. QED
    BY <1>1, <2>2, <2>3, BesideEnds DEF s
<1>7. CASE SocketClient(c)
  <2>1. PICK to \in {"reads", "stalls", "closed", "gone"} :
          socket' = [socket EXCEPT ![c] = [r EXCEPT !.client = to]]
    BY <1>1, <1>7 DEF SocketClient, Side
  <2> DEFINE s == [r EXCEPT !.client = to]
  <2>2. s.at = r.at /\ s.sender = r.sender /\ s.writer = r.writer /\ s.forwarder = r.forwarder
    BY DEF SocketRecord
  <2>3. QED
    BY <1>1, <2>1, <2>2, BesideEnds
<1> QED
  BY <1>2, <1>3, <1>4, <1>5, <1>6, <1>7 DEF Forwarding

LEMMA UsesEnd ==
  ASSUME EndInv, NEW c \in Socket, Uses(c)
  PROVE  \A d \in Socket : EndSound(socket'[d])
<1>1. PICK r \in SocketRecord : r = socket[c]
  BY SocketFacts DEF EndInv
<1>2. CASE Subscribes(c)
  BY <1>2 DEF Subscribes, EndInv
<1>3. CASE Joins(c) \/ Parts(c)
  <2>1. PICK j \in BOOLEAN : socket' = [socket EXCEPT ![c].joined = j]
    BY <1>3 DEF Joins, Parts
  <2> DEFINE s == [r EXCEPT !.joined = j]
  <2>2. /\ socket' = [socket EXCEPT ![c] = s]
        /\ s.at = r.at /\ s.sender = r.sender /\ s.writer = r.writer /\ s.forwarder = r.forwarder
    BY <1>1, <2>1 DEF SocketRecord
  <2>3. QED
    BY <1>1, <2>2, BesideEnds
<1> QED
  BY <1>2, <1>3 DEF Uses

LEMMA FansEnd ==
  ASSUME EndInv, NEW to \in SUBSET Socket, Fans(to)
  PROVE  \A d \in Socket : EndSound(socket'[d])
<1> SUFFICES ASSUME NEW d \in Socket PROVE EndSound(socket'[d])
  OBVIOUS
<1>1. PICK r \in SocketRecord : r = socket[d]
  BY SocketFacts DEF EndInv
<1>2. socket'[d] = r \/ socket'[d] = [r EXCEPT !.inbox = r.inbox + 1]
  BY <1>1 DEF Fans, SocketRecord
<1> DEFINE s == [r EXCEPT !.inbox = r.inbox + 1]
<1>3. s.at = r.at /\ s.sender = r.sender /\ s.writer = r.writer /\ s.forwarder = r.forwarder
  BY DEF SocketRecord
<1> HIDE DEF s
<1>4. EndSound(r)
  BY <1>1 DEF EndInv
<1>5. EndSound(s)
  BY <1>3, <1>4 DEF EndSound
<1> QED
  BY <1>2, <1>4, <1>5 DEF s

LEMMA NextEnds == EndInv /\ [SocketNext]_socketVars => EndInv'
<1> SUFFICES ASSUME EndInv, [SocketNext]_socketVars PROVE EndInv'
  OBVIOUS
<1>1. SocketInv'
  BY SocketKeeps DEF EndInv
<1>2. \A d \in Socket : EndSound(socket'[d])
  <2>1. CASE UNCHANGED socketVars
    BY <2>1 DEF socketVars, EndInv
  <2>2. CASE \E c \in Socket : Loop(c)
    BY <2>2, LoopEnds
  <2>3. CASE \E c \in Socket :
               Hears(c) \/ Dropping(c) \/ Forwarding(c) \/ Writing(c) \/ SocketClient(c)
    BY <2>3, SidesEnd
  <2>4. CASE \E c \in Socket : Uses(c)
    BY <2>4, UsesEnd
  <2>5. CASE Others
    <3>1. PICK to : to \subseteq Hearing /\ Fans(to)
      BY <2>5 DEF Others, Broadcasts
    <3>2. QED
      BY <3>1, FansEnd DEF Hearing
  <2>6. CASE Publishes
    <3>1. topic \cap Hearing \in SUBSET Socket /\ Fans(topic \cap Hearing)
      BY <2>6 DEF Publishes, Hearing
    <3>2. QED
      BY <3>1, FansEnd
  <2>7. QED
    BY <2>1, <2>2, <2>3, <2>4, <2>5, <2>6 DEF SocketNext
<1> QED
  BY <1>1, <1>2 DEF EndInv

\* The step itself: a writer that is still there has a frame to send, a close frame to
\* send, or a forwarder that has been aborted before it.
LEMMA EndGoesOn == EndInv => EndIsNotHeldUp
<1> SUFFICES ASSUME EndInv, NEW c \in Socket,
                    socket[c].at \in {"failed", "detach", "drop", "join", "over"},
                    socket[c].held # {}, socket[c].client # "stalls"
             PROVE  GoesOn(c)
  BY DEF EndIsNotHeldUp
<1>1. PICK r \in SocketRecord : r = socket[c]
  BY SocketFacts DEF EndInv
<1>2. CASE r.at \in {"detach", "drop"}
  BY <1>1, <1>2 DEF GoesOn
<1>3. CASE r.at \in {"failed", "over"}
  <2>1. PICK h \in {"failed", "loop"} : h \in r.held
    BY <1>1 DEF SocketRecord
  <2>2. MayDrop(c, h)
    BY <1>1, <1>3, <2>1 DEF MayDrop
  <2>3. QED
    BY <2>2 DEF GoesOn
<1>4. CASE r.at = "join"
  <2>1. r.writer \in {"on", "closes", "over"} /\ ~r.sender /\ r.forwarder \in {"aborted", "over"}
    BY <1>1, <1>4 DEF EndInv, EndSound, SocketRecord
  <2>2. CASE r.writer = "over"
    BY <1>1, <1>4, <2>2 DEF GoesOn, MayReturn
  <2>3. CASE r.writer = "closes"
    BY <1>1, <2>3 DEF GoesOn, MayClose
  <2>4. CASE r.writer = "on" /\ r.forwarder = "aborted"
    BY <1>1, <2>4 DEF GoesOn, MayEndForwarding
  <2>5. CASE r.writer = "on" /\ r.forwarder = "over"
    <3>1. r.out \in Nat
      BY SocketAssumption DEF SocketRecord
    <3>2. CASE r.out > 0
      BY <1>1, <2>5, <3>2 DEF GoesOn, MaySend
    <3>3. CASE r.out = 0
      BY <1>1, <2>1, <2>5, <3>3 DEF GoesOn, HasSentAll
    <3>4. QED
      BY <3>1, <3>2, <3>3
  <2>6. QED
    BY <2>1, <2>2, <2>3, <2>4, <2>5
<1> QED
  BY <1>1, <1>2, <1>3, <1>4

\* However frames, broadcasts and clients interleave, a connection whose loop is over has
\* a next step to its end unless its client stays and reads no more: frame_loop aborts
\* the forwarder before it waits for the writer, so neither a room nor the bus that keeps
\* a sender to the forwarder keeps the writer from running dry.
THEOREM EndsByItself == MCSpec => []EndIsNotHeldUp
<1>1. MCInit => EndInv
  <2>1. MCInit => SocketInv
    BY SocketInitially DEF MCInit
  <2> SUFFICES ASSUME MCInit, NEW c \in Socket PROVE EndSound(socket[c])
    BY <2>1 DEF EndInv
  <2>2. PICK p \in Pool :
          socket[c] = [at |-> "new", seen |-> 0, held |-> {}, pool |-> p, id |-> 0,
                       client |-> "reads", inbox |-> 0, out |-> 0, sender |-> FALSE,
                       forwarder |-> "none", writer |-> "none", joined |-> FALSE]
    BY DEF MCInit, SocketInit
  <2>3. QED
    BY <2>2 DEF EndSound
<1>2. EndInv /\ [Scheduling(Next) \/ Connected(SocketNext)]_all => EndInv'
  <2> SUFFICES ASSUME EndInv, [Scheduling(Next) \/ Connected(SocketNext)]_all PROVE EndInv'
    OBVIOUS
  <2>1. [SocketNext]_socketVars
    BY DEF Scheduling, Connected, all
  <2>2. QED
    BY <2>1, NextEnds
<1> QED
  BY <1>1, <1>2, EndGoesOn, PTL DEF MCSpec
=============================================================================
