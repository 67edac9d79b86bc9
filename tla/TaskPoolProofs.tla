--------------------------- MODULE TaskPoolProofs ---------------------------
(***************************************************************************)
(* Proofs of the invariants of TaskPool, for any tasks, numbers of workers *)
(* and bounds.  The argument:                                              *)
(*   - the tasks of two worker ids are disjoint, and an id belongs to one  *)
(*     thread until that thread has hired its replacement; a thread has    *)
(*     sessions for tasks of its id alone, so no task has two;             *)
(*   - a thread reports "stopped" of such a task only when its own session *)
(*     is gone, for what it read as "not connected" stays true, and it     *)
(*     begins no session before the report is written;                     *)
(*   - live counts the threads that can still work, so at zero all that    *)
(*     begin later see the shutdown first.                                 *)
(***************************************************************************)
EXTENDS TaskPool, FiniteSetTheorems, TLAPS

\* The tasks of a worker id.
Share(w) == {Mine(w)[k] : k \in DOMAIN Mine(w)}

\* The list of a worker takes every Workers-th task, from its own place on.
LEMMA MineIsSeq ==
  ASSUME NEW w \in 0 .. (Workers - 1)
  PROVE  /\ Mine(w) \in Seq(LongTask)
         /\ \A n \in Share(w) : \E i \in DOMAIN Long, k \in Int :
              n = Long[i] /\ i = w + 1 + k * Workers
<1> DEFINE a == Len(Long) - w + Workers - 1
           share == a \div Workers
<1>0. Len(Long) \in Nat /\ DOMAIN Long = 1 .. Len(Long) /\ Workers \in Nat \ {0}
  BY TasksAssumption, CountsAssumption
<1>1. a \in Nat /\ share \in Nat /\ share * Workers <= a
  BY <1>0
<1>2. ASSUME NEW k \in 1 .. share
      PROVE  w + 1 + (k - 1) * Workers \in DOMAIN Long
  <2>1. k * Workers <= share * Workers
    BY <1>0, <1>1
  <2>2. (k - 1) * Workers = k * Workers - Workers /\ (k - 1) * Workers >= 0
    BY <1>0, <1>1
  <2> QED
    BY <2>1, <2>2, <1>0, <1>1
<1>3. Mine(w) = [k \in 1 .. share |-> Long[w + 1 + (k - 1) * Workers]]
  BY DEF Mine
<1> HIDE DEF share
<1>4. \A k \in 1 .. share : Long[w + 1 + (k - 1) * Workers] \in LongTask
  BY <1>2 DEF LongTask
<1>5. Mine(w) \in Seq(LongTask)
  BY <1>1, <1>3, <1>4
<1>6. ASSUME NEW n \in Share(w)
      PROVE  \E i \in DOMAIN Long, k \in Int : n = Long[i] /\ i = w + 1 + k * Workers
  <2>1. PICK k \in 1 .. share : n = Long[w + 1 + (k - 1) * Workers]
    BY <1>3 DEF Share
  <2> QED
    BY <2>1, <1>2, <1>1
<1> QED
  BY <1>5, <1>6

\* The names are unique, so two lists have none in common.
LEMMA SharesAreApart ==
  ASSUME NEW v \in 0 .. (Workers - 1), NEW w \in 0 .. (Workers - 1), v # w
  PROVE  Share(v) \cap Share(w) = {}
<1> SUFFICES ASSUME NEW n \in Share(v), n \in Share(w) PROVE FALSE
  OBVIOUS
<1>1. PICK i \in DOMAIN Long, j \in Int : n = Long[i] /\ i = v + 1 + j * Workers
  BY MineIsSeq
<1>2. PICK h \in DOMAIN Long, k \in Int : n = Long[h] /\ h = w + 1 + k * Workers
  BY MineIsSeq
<1>3. v + j * Workers = w + k * Workers
  <2>1. i = h
    BY <1>1, <1>2, TasksAssumption
  <2>2. j * Workers \in Int /\ k * Workers \in Int /\ v \in Int /\ w \in Int
    BY CountsAssumption
  <2> QED
    BY <1>1, <1>2, <2>1, <2>2
<1>4. (j - k) * Workers = w - v
  BY <1>3, CountsAssumption
<1>5. j - k > 0 => (j - k) * Workers >= Workers
  BY CountsAssumption
<1>6. j - k < 0 => (j - k) * Workers <= 0 - Workers
  BY CountsAssumption
<1>7. j - k = 0 => (j - k) * Workers = 0
  BY CountsAssumption
<1> QED
  BY <1>4, <1>5, <1>6, <1>7, CountsAssumption

-----------------------------------------------------------------------------
Placed == ThreadPc \ {"off", "pushing", "done"}
Walking == {"align", "restart", "act"}
OnWalk == {"walk"} \cup Walking
Working == {"drain", "picked", "run", "walk"} \cup Walking
Sitting == {"top", "closing", "dying"} \cup Working
Counted == {"gate", "boot"} \cup Sitting

\* A worker id is that of one thread, until the thread has hired its replacement.
OwnIds ==
  \A t, u \in Thread :
    t # u /\ pc[t] \in Placed /\ pc[u] \in Placed => wid[t] # wid[u]

\* The elements of a sequence.
Items(s) == {s[i] : i \in DOMAIN s}

\* A thread deals with the tasks of its worker id alone, and has sessions while it
\* walks or may walk again.
OwnTasks ==
  \A t \in Thread :
    /\ pc[t] \in OnWalk => Items(todo[t]) \subseteq Share(wid[t])
    /\ sess[t] \subseteq Share(wid[t])
    /\ sess[t] # {} => pc[t] \in Sitting
    /\ pc[t] \in Walking => todo[t] # <<>>
    /\ pc[t] \in {"picked", "run"} => job[t] # <<>>
    /\ pc[t] = "pushing" => child[t] # 0

\* What a thread has read of a task stays true where the status depends on it.
ReadsTrue ==
  \A t \in Thread :
    pc[t] \in Walking /\ ~seen[t].connected => Head(todo[t]) \notin sess[t]

\* A thread that has yet to set a status is in its loop, the task is one of its
\* own or a job's, and if it is to be shown as stopped its session is gone.
ReportsTrue ==
  \A t \in Thread : report[t] # <<>> =>
    /\ pc[t] \in Sitting
    /\ report[t][1].task \in Share(wid[t]) \cup Cron
    /\ report[t][1].status = "stopped" => report[t][1].task \notin sess[t]

CountedThreads == {t \in Thread : pc[t] \in Counted}
LiveIsExact == live = Cardinality(CountedThreads)

\* After the join threads may still begin, but they look at shutdown first.
OnlyLeaving ==
  /\ (\E s \in Stopper : stop[s] # "idle") => shutdown
  /\ (\E s \in Stopper : stop[s] = "returned") =>
       \A t \in Thread : sess[t] = {} /\ pc[t] \notin Working

IInv ==
  /\ TypeOK /\ OwnIds /\ OwnTasks /\ ReadsTrue /\ ReportsTrue
  /\ StoppedIsTornDown /\ LiveIsExact /\ OnlyLeaving

\* One session per task follows from the ownership of ids and tasks.
LEMMA ApartIfOwn == ASSUME TypeOK, OwnIds, OwnTasks PROVE OneSessionPerTask
<1> SUFFICES ASSUME NEW t \in Thread, NEW u \in Thread, t # u
             PROVE  sess[t] \cap sess[u] = {}
  BY DEF OneSessionPerTask
<1>1. CASE sess[t] = {} \/ sess[u] = {}
  BY <1>1
<1>2. CASE sess[t] # {} /\ sess[u] # {}
  <2>1. pc[t] \in Placed /\ pc[u] \in Placed
    BY <1>2 DEF OwnTasks, Placed, Sitting, Working, Walking, ThreadPc
  <2>2. wid[t] # wid[u] /\ wid[t] \in 0 .. (Workers - 1) /\ wid[u] \in 0 .. (Workers - 1)
    BY <2>1 DEF OwnIds, TypeOK
  <2>3. Share(wid[t]) \cap Share(wid[u]) = {}
    BY <2>2, SharesAreApart
  <2> QED
    BY <2>3 DEF OwnTasks
<1> QED
  BY <1>1, <1>2

\* Counting threads.
LEMMA FiniteThreads == IsFiniteSet(Thread)
  BY FS_Interval, CountsAssumption DEF Thread

\* The live counter through a step that moves no thread in or out of the count.
LEMMA SameCount ==
  ASSUME LiveIsExact, live' = live,
         \A t \in Thread : pc'[t] \in Counted <=> pc[t] \in Counted
  PROVE  LiveIsExact'
<1>1. CountedThreads' = CountedThreads
  BY DEF CountedThreads
<1> QED
  BY <1>1 DEF LiveIsExact

\* One thread leaves the count.
LEMMA OneLess ==
  ASSUME TypeOK, LiveIsExact, NEW t \in Thread, NEW p,
         pc[t] \in Counted, p \notin Counted,
         pc' = [pc EXCEPT ![t] = p], live' = live - 1
  PROVE  LiveIsExact' /\ live' \in Nat
<1>1. CountedThreads' = CountedThreads \ {t} /\ t \in CountedThreads
  BY DEF CountedThreads, TypeOK
<1>2. IsFiniteSet(CountedThreads) /\ IsFiniteSet(CountedThreads')
  BY FiniteThreads, FS_Subset DEF CountedThreads
<1>3. Cardinality(CountedThreads') = Cardinality(CountedThreads) - 1
  BY <1>1, <1>2, FS_RemoveElement
<1>4. Cardinality(CountedThreads') \in Nat
  BY <1>2, FS_CardinalityType
<1> QED
  BY <1>3, <1>4 DEF LiveIsExact

\* A replacement joins the count.
LEMMA OneMore ==
  ASSUME TypeOK, LiveIsExact, NEW t \in Thread, NEW u \in Thread,
         pc[t] \notin Counted, pc[u] \notin Counted,
         pc' = [pc EXCEPT ![t] = "pushing", ![u] = "gate"], t # u, live' = live + 1
  PROVE  LiveIsExact'
<1>1. CountedThreads' = CountedThreads \cup {u} /\ u \notin CountedThreads
  BY DEF CountedThreads, TypeOK, Counted, Sitting, Working, Walking
<1>2. IsFiniteSet(CountedThreads)
  BY FiniteThreads, FS_Subset DEF CountedThreads
<1>3. Cardinality(CountedThreads') = Cardinality(CountedThreads) + 1
  BY <1>1, <1>2, FS_AddElement
<1> QED
  BY <1>3 DEF LiveIsExact

-----------------------------------------------------------------------------
\* The pool as spawn leaves it.
LEMMA Initially == Init => IInv
<1> SUFFICES ASSUME Init PROVE IInv
  OBVIOUS
<1>1. TypeOK
  <2>1. pc \in [Thread -> ThreadPc] /\ wid \in [Thread -> 0 .. (Workers - 1)]
    BY CountsAssumption DEF Init, Thread, ThreadPc
  <2>2. handles \in SUBSET Thread /\ live \in Nat /\ Workers \in Nat
    BY CountsAssumption DEF Init, Thread
  <2>3. registered \in SUBSET Task /\ status \in [Task -> Status] /\ jobs \in Seq(Cron)
    BY DEF Init, Status
  <2>4. seen \in [Thread -> [want : BOOLEAN, status : Status, connected : BOOLEAN]]
    BY DEF Init, Nothing, Status
  <2>5. shutdown \in BOOLEAN /\ resume \in BOOLEAN
    BY DEF Init
  <2>6. /\ enabled \in [Task -> BOOLEAN] /\ reload \in [Task -> BOOLEAN]
        /\ todo \in [Thread -> Seq(LongTask)] /\ job \in [Thread -> Seq(Cron)]
        /\ sess \in [Thread -> SUBSET LongTask] /\ child \in [Thread -> Thread \cup {0}]
        /\ report \in [Thread -> Seq([task : Task, status : Status])]
    BY DEF Init
  <2>7. /\ asks \in [Trigger -> {"idle", "done"} \cup Cron]
        /\ stop \in [Stopper -> {"idle", "take", "join", "check", "returned"}]
        /\ joining \in [Stopper -> SUBSET Thread]
        /\ panics \in 0 .. MaxPanics
    BY CountsAssumption DEF Init
  <2> QED
    BY <2>1, <2>2, <2>3, <2>4, <2>5, <2>6, <2>7 DEF TypeOK
<1>2. OwnIds
  BY CountsAssumption DEF Init, OwnIds, Thread, Placed, ThreadPc
<1>3. OwnTasks /\ ReadsTrue /\ ReportsTrue /\ StoppedIsTornDown /\ OnlyLeaving
  BY DEF Init, OwnTasks, Items, ReadsTrue, ReportsTrue, Walking, StoppedIsTornDown, OnlyLeaving, Thread
<1>4. LiveIsExact
  <2>1. CountedThreads = 1 .. Workers
    BY CountsAssumption DEF CountedThreads, Init, Thread, Counted, Sitting, Working, Walking
  <2> QED
    BY <2>1, FS_Interval, CountsAssumption DEF LiveIsExact, Init
<1> QED
  BY <1>1, <1>2, <1>3, <1>4 DEF IInv

\* Requests leave the threads alone.
LEMMA ApiKeeps == ASSUME IInv, Api PROVE IInv'
<1> USE DEF Api
<1>1. TypeOK'
  <2> USE DEF IInv, poolVars, threadVars, callerVars, registryVars
  <2>1. ASSUME NEW n \in LongTask, StartTask(n) PROVE TypeOK'
    BY <2>1 DEF TypeOK, StartTask, Task, Status
  <2>2. ASSUME NEW n \in LongTask, StopTask(n) PROVE TypeOK'
    BY <2>2 DEF TypeOK, StopTask
  <2>6. ASSUME NEW n \in LongTask, ReloadTask(n) PROVE TypeOK'
    <3>1. panics' \in 0 .. MaxPanics /\ reload' \in [Task -> BOOLEAN]
      BY <2>6, CountsAssumption DEF TypeOK, ReloadTask
    <3> QED
      BY <2>6, <3>1 DEF TypeOK, ReloadTask
  <2>3. ASSUME NEW n \in Task, DeleteTask(n) PROVE TypeOK'
    BY <2>3 DEF TypeOK, DeleteTask
  <2>4. ASSUME NEW k \in Trigger, NEW c \in Cron, RunOnceCheck(k, c) \/ SubmitOnce(k, c)
        PROVE  TypeOK'
    <3>1. asks' \in [Trigger -> {"idle", "done"} \cup Cron] /\ jobs' \in Seq(Cron)
      <4>1. CASE RunOnceCheck(k, c)
        BY <4>1 DEF TypeOK, RunOnceCheck
      <4>2. CASE SubmitOnce(k, c)
        BY <4>2 DEF TypeOK, SubmitOnce
      <4> QED
        BY <2>4, <4>1, <4>2
    <3>2. UNCHANGED <<registryVars, poolVars, threadVars, stop, joining, panics>>
      BY <2>4 DEF RunOnceCheck, SubmitOnce
    <3> QED
      BY <3>1, <3>2 DEF TypeOK
  <2>5. CASE OpenGate
    <3>1. resume' \in BOOLEAN /\ UNCHANGED <<registryVars, jobs, shutdown, live, handles, threadVars, callerVars, panics>>
      BY <2>5 DEF OpenGate
    <3> QED
      BY <2>5, <3>1 DEF TypeOK, OpenGate
  <2> QED
    BY <2>1, <2>2, <2>3, <2>4, <2>5, <2>6 DEF Task
<1>2. UNCHANGED <<threadVars, live, shutdown, stop>>
  BY DEF StartTask, StopTask, ReloadTask, DeleteTask, RunOnceCheck, SubmitOnce,
         OpenGate, poolVars, callerVars, registryVars
<1>3. OwnIds' /\ OwnTasks' /\ ReadsTrue' /\ ReportsTrue' /\ OnlyLeaving'
  BY <1>2 DEF threadVars, IInv, OwnIds, OwnTasks, ReadsTrue, ReportsTrue, OnlyLeaving
<1>4. LiveIsExact'
  BY <1>2 DEF threadVars, IInv, LiveIsExact, CountedThreads
<1>5. \A n \in registered' : n \in registered /\ (status'[n] = "stopped" => status[n] = "stopped")
  BY DEF IInv, TypeOK, StartTask, StopTask, ReloadTask, DeleteTask, RunOnceCheck, SubmitOnce,
         OpenGate, poolVars, threadVars, callerVars, registryVars
<1>6. StoppedIsTornDown'
  BY <1>2, <1>5 DEF threadVars, IInv, StoppedIsTornDown
<1> QED
  BY <1>1, <1>3, <1>4, <1>6 DEF IInv

\* Callers of shutdown_and_join: one that returns has seen the counter at zero.
LEMMA StopKeeps == ASSUME IInv, NEW s \in Stopper, StopStep(s) PROVE IInv'
<1> USE DEF StopStep
<1>1. TypeOK'
  BY DEF IInv, TypeOK, RequestStop, TakeHandles, Join, CheckLive,
         poolVars, threadVars, registryVars
<1>2. UNCHANGED <<threadVars, live, registered, status>>
  BY DEF RequestStop, TakeHandles, Join, CheckLive, poolVars, registryVars
<1>3. OwnIds' /\ OwnTasks' /\ ReadsTrue' /\ ReportsTrue'
  BY <1>2 DEF threadVars, IInv, OwnIds, OwnTasks, ReadsTrue, ReportsTrue
<1>4. LiveIsExact' /\ StoppedIsTornDown'
  BY <1>2 DEF threadVars, IInv, LiveIsExact, CountedThreads, StoppedIsTornDown
<1>5. OnlyLeaving'
  <2>1. ASSUME live = 0, NEW t \in Thread PROVE sess[t] = {} /\ pc[t] \notin Working
    <3>1. CountedThreads = {}
      <4>1. IsFiniteSet(CountedThreads)
        BY FiniteThreads, FS_Subset DEF CountedThreads
      <4> QED
        BY <4>1, <2>1, FS_EmptySet DEF IInv, LiveIsExact
    <3> QED
      BY <3>1 DEF CountedThreads, Counted, Sitting, IInv, OwnTasks
  <2>2. CASE RequestStop(s)
    BY <2>2, <1>2 DEF RequestStop, IInv, TypeOK, OnlyLeaving, threadVars
  <2>3. CASE TakeHandles(s) \/ Join(s)
    BY <2>3, <1>2 DEF TakeHandles, Join, IInv, TypeOK, OnlyLeaving, threadVars, poolVars
  <2>4. CASE CheckLive(s)
    BY <2>4, <2>1, <1>2 DEF CheckLive, IInv, TypeOK, OnlyLeaving, threadVars, poolVars
  <2> QED
    BY <2>2, <2>3, <2>4
<1> QED
  BY <1>1, <1>3, <1>4, <1>5 DEF IInv

-----------------------------------------------------------------------------
\* A step of one thread needs to be looked at on that thread alone.
LEMMA OneThread ==
  ASSUME IInv, NEW t \in Thread, NEW p, report[t] = <<>>,
         pc' = [pc EXCEPT ![t] = p], p \in Placed => pc[t] \in Placed,
         p # "pushing", \A u \in Thread \ {t} : UNCHANGED child[u],
         UNCHANGED <<wid, shutdown, stop>>,
         \A u \in Thread \ {t} :
           UNCHANGED <<todo[u], seen[u], sess[u], job[u], report[u]>>,
         report'[t] # <<>> =>
           /\ p \in Sitting /\ report'[t][1].task \in Share(wid[t]) \cup Cron
           /\ report'[t][1].status = "stopped" => report'[t][1].task \notin sess'[t],
         p \in OnWalk => Items(todo'[t]) \subseteq Share(wid[t]), sess'[t] \subseteq Share(wid[t]),
         sess'[t] # {} => p \in Sitting,
         p \in Walking => todo'[t] # <<>>,
         p \in {"picked", "run"} => job'[t] # <<>>,
         p \in Walking /\ ~seen'[t].connected => Head(todo'[t]) \notin sess'[t],
         p \in Working => pc[t] \in Working \/ ~shutdown,
         sess'[t] \subseteq sess[t] \/ pc[t] \in Working
  PROVE  OwnIds' /\ OwnTasks' /\ ReadsTrue' /\ ReportsTrue' /\ OnlyLeaving'
<1>1. pc'[t] = p /\ \A u \in Thread \ {t} : pc'[u] = pc[u]
  BY DEF IInv, TypeOK
<1>2. OwnIds'
  BY <1>1 DEF IInv, OwnIds
<1>3. OwnTasks'
  <2> SUFFICES ASSUME NEW u \in Thread
               PROVE  /\ pc'[u] \in OnWalk => Items(todo'[u]) \subseteq Share(wid'[u])
                      /\ sess'[u] \subseteq Share(wid'[u])
                      /\ sess'[u] # {} => pc'[u] \in Sitting
                      /\ pc'[u] \in Walking => todo'[u] # <<>>
                      /\ pc'[u] \in {"picked", "run"} => job'[u] # <<>>
                      /\ pc'[u] = "pushing" => child'[u] # 0
    BY DEF OwnTasks, Items, Share, Mine
  <2>1. CASE u = t
    BY <2>1, <1>1
  <2>2. CASE u # t
    <3>1. /\ pc'[u] = pc[u] /\ wid'[u] = wid[u] /\ todo'[u] = todo[u] /\ sess'[u] = sess[u]
          /\ job'[u] = job[u] /\ child'[u] = child[u]
      BY <2>2, <1>1
    <3>2. Items(todo'[u]) = Items(todo[u]) /\ Share(wid'[u]) = Share(wid[u])
      BY <3>1
    <3>3. /\ pc[u] \in OnWalk => Items(todo[u]) \subseteq Share(wid[u])
          /\ sess[u] \subseteq Share(wid[u])
          /\ sess[u] # {} => pc[u] \in Sitting
          /\ pc[u] \in Walking => todo[u] # <<>>
          /\ pc[u] \in {"picked", "run"} => job[u] # <<>>
          /\ pc[u] = "pushing" => child[u] # 0
      BY DEF IInv, OwnTasks
    <3> HIDE DEF OnWalk, Sitting, Walking
    <3> QED
      BY <3>1, <3>2, <3>3
  <2> QED
    BY <2>1, <2>2
<1>4. ReadsTrue'
  BY <1>1 DEF IInv, ReadsTrue
<1>5. OnlyLeaving'
  BY <1>1 DEF IInv, OnlyLeaving
<1>6. ReportsTrue'
  <2> SUFFICES ASSUME NEW u \in Thread, report'[u] # <<>>
               PROVE  /\ pc'[u] \in Sitting
                      /\ report'[u][1].task \in Share(wid'[u]) \cup Cron
                      /\ report'[u][1].status = "stopped" => report'[u][1].task \notin sess'[u]
    BY DEF ReportsTrue, Share, Mine
  <2>1. Share(wid'[u]) = Share(wid[u])
    OBVIOUS
  <2>2. CASE u = t
    BY <2>1, <2>2, <1>1
  <2>3. CASE u # t
    BY <2>1, <2>3, <1>1 DEF IInv, ReportsTrue
  <2> QED
    BY <2>2, <2>3
<1> QED
  BY <1>2, <1>3, <1>4, <1>5, <1>6

\* A step of one thread leaves the status behind the teardown if it shows no task
\* as stopped and reports every session it begins.
LEMMA StopFollows ==
  ASSUME IInv, NEW t \in Thread, report[t] = <<>>, registered' = registered,
         \A n \in LongTask : status'[n] = status[n],
         \A u \in Thread \ {t} : UNCHANGED <<sess[u], report[u]>>,
         \A n \in sess'[t] :
           n \in sess[t] \/ report'[t] = <<[task |-> n, status |-> "running"]>>
  PROVE  StoppedIsTornDown'
<1> SUFFICES ASSUME NEW n \in registered \cap LongTask, NEW u \in Thread,
                    status'[n] = "stopped", n \in sess'[u]
             PROVE  report'[u] = <<[task |-> n, status |-> "running"]>>
  BY DEF StoppedIsTornDown
<1>1. n \in sess[u] => report[u] = <<[task |-> n, status |-> "running"]>>
  BY DEF IInv, StoppedIsTornDown
<1>2. CASE u # t
  BY <1>1, <1>2
<1>3. CASE u = t
  <2>1. n \notin sess[t]
    BY <1>1, <1>3
  <2> QED
    BY <2>1, <1>3
<1> QED
  BY <1>2, <1>3

-----------------------------------------------------------------------------
\* Steps that only move the thread.
LEMMA MoveKeeps ==
  ASSUME IInv, NEW t \in Thread, report[t] = <<>>,
         PassGate(t) \/ Boot(t) \/ TestShutdown(t) \/ EndWalk(t) \/ Replace(t)
  PROVE  IInv'
<1>1. PICK p \in ThreadPc :
        /\ pc' = [pc EXCEPT ![t] = p]
        /\ \/ pc[t] = "gate" /\ p = "boot"
           \/ pc[t] = "boot" /\ p \in {"top", "dying"}
           \/ pc[t] = "top" /\ (p = "closing" \/ (p = "drain" /\ ~shutdown))
           \/ pc[t] = "walk" /\ p = "top"
           \/ pc[t] = "unwound" /\ p \in {"done", "hiring"}
  <2>1. CASE PassGate(t)
    BY <2>1 DEF PassGate, Goto, ThreadPc
  <2>2. CASE Boot(t)
    BY <2>2 DEF Boot, Goto, ThreadPc
  <2>3. CASE TestShutdown(t)
    <3>1. CASE shutdown
      <4>1. pc[t] = "top" /\ pc' = [pc EXCEPT ![t] = "closing"]
        BY <2>3, <3>1, Zenon DEF TestShutdown, Goto
      <4> QED
        BY <4>1 DEF ThreadPc
    <3>2. CASE ~shutdown
      <4>1. pc[t] = "top" /\ pc' = [pc EXCEPT ![t] = "drain"]
        BY <2>3, <3>2, Zenon DEF TestShutdown, Goto
      <4> QED
        BY <3>2, <4>1 DEF ThreadPc
    <3> QED
      BY <3>1, <3>2
  <2>4. CASE EndWalk(t)
    BY <2>4 DEF EndWalk, Goto, ThreadPc
  <2>5. CASE Replace(t)
    <3>1. CASE shutdown
      BY <2>5, <3>1 DEF Replace, Goto, ThreadPc
    <3>2. CASE ~shutdown
      BY <2>5, <3>2 DEF Replace, Goto, ThreadPc
    <3> QED
      BY <3>1, <3>2
  <2> QED
    BY <2>1, <2>2, <2>3, <2>4, <2>5
<1>2. UNCHANGED <<registryVars, jobs, poolVars, wid, todo, seen, sess, job, child,
                  report, callerVars>>
  BY DEF PassGate, Boot, TestShutdown, EndWalk, Replace
<1>3. panics' \in 0 .. MaxPanics
  BY CountsAssumption DEF IInv, TypeOK, PassGate, Boot, TestShutdown, EndWalk, Replace
<1>4. TypeOK'
  BY <1>1, <1>2, <1>3 DEF IInv, TypeOK, registryVars, poolVars, callerVars
<1>5. OwnIds' /\ OwnTasks' /\ ReadsTrue' /\ ReportsTrue' /\ OnlyLeaving'
  <2>1. sess[t] \subseteq Share(wid[t]) /\ (sess[t] # {} => pc[t] \in Sitting)
    BY DEF IInv, OwnTasks
  <2>2. /\ p \in Placed => pc[t] \in Placed
        /\ p \notin OnWalk /\ p \notin Walking /\ p \notin {"picked", "run", "pushing"}
        /\ pc[t] \in Sitting => p \in Sitting
        /\ p \in Working => ~shutdown
    BY <1>1 DEF Placed, ThreadPc, Walking, OnWalk, Working, Sitting
  <2>3. UNCHANGED <<wid, shutdown, stop, todo, seen, sess, job, child, report>>
    BY <1>2 DEF poolVars, callerVars
  <2> QED
    BY <1>1, <2>1, <2>2, <2>3, OneThread
<1>6. StoppedIsTornDown'
  BY <1>2, StopFollows DEF registryVars
<1>7. LiveIsExact'
  <2>1. \A u \in Thread : pc'[u] \in Counted <=> pc[u] \in Counted
    BY <1>1 DEF IInv, TypeOK, Counted, Sitting, Working, Walking
  <2> QED
    BY <2>1, <1>2, SameCount DEF poolVars, IInv
<1> QED
  BY <1>4, <1>5, <1>6, <1>7 DEF IInv

\* A thread leaves the live counter.
LEMMA ExitKeeps ==
  ASSUME IInv, NEW t \in Thread, report[t] = <<>>, QuitGate(t) \/ Finish(t) \/ Unwind(t)
  PROVE  IInv'
<1>1. PICK p \in {"done", "unwound"} :
        /\ pc' = [pc EXCEPT ![t] = p]
        /\ pc[t] \in {"gate", "closing", "dying"}
  BY DEF QuitGate, Finish, Unwind, Goto
<1>2. UNCHANGED <<registryVars, jobs, shutdown, resume, handles, wid, todo, seen, job, child,
                  report, callerVars, panics>>
  BY DEF QuitGate, Finish, Unwind
<1>3. sess' = [sess EXCEPT ![t] = {}] /\ live' = live - 1
  <2>1. CASE QuitGate(t)
    BY <2>1 DEF QuitGate, IInv, TypeOK, OwnTasks, Sitting, Working, Walking
  <2>2. CASE Finish(t)
    BY <2>2 DEF Finish, IInv, TypeOK
  <2>3. CASE Unwind(t)
    BY <2>3 DEF Unwind
  <2> QED
    BY <2>1, <2>2, <2>3
<1>4. LiveIsExact' /\ live' \in Nat
  <2>1. pc[t] \in Counted /\ p \notin Counted
    BY <1>1 DEF Counted, Sitting, Working, Walking
  <2> QED
    BY <2>1, <1>1, <1>3, OneLess DEF IInv
<1>5. TypeOK'
  <2>1. sess' \in [Thread -> SUBSET LongTask] /\ pc' \in [Thread -> ThreadPc]
    BY <1>1, <1>3 DEF IInv, TypeOK, ThreadPc
  <2> QED
    BY <1>2, <1>4, <2>1 DEF IInv, TypeOK, registryVars, callerVars
<1>6. OwnIds' /\ OwnTasks' /\ ReadsTrue' /\ ReportsTrue' /\ OnlyLeaving'
  <2>1. sess'[t] = {} /\ \A u \in Thread \ {t} : sess'[u] = sess[u]
    BY <1>3 DEF IInv, TypeOK
  <2>2. /\ pc[t] \in Placed /\ p \notin OnWalk /\ p \notin Walking
        /\ p \notin {"picked", "run", "pushing"} /\ p \notin Working
    BY <1>1 DEF Placed, ThreadPc, Walking, OnWalk, Working
  <2>3. UNCHANGED <<wid, shutdown, stop, todo, seen, job, child, report>>
    BY <1>2 DEF callerVars
  <2> QED
    BY <1>1, <2>1, <2>2, <2>3, OneThread
<1>7. StoppedIsTornDown'
  <2>1. sess'[t] = {} /\ \A u \in Thread \ {t} : sess'[u] = sess[u]
    BY <1>3 DEF IInv, TypeOK
  <2> QED
    BY <2>1, <1>2, StopFollows DEF registryVars
<1> QED
  BY <1>4, <1>5, <1>6, <1>7 DEF IInv

\* A thread hires its replacement, which takes over the worker id.
LEMMA HireKeeps ==
  ASSUME IInv, NEW t \in Thread, report[t] = <<>>, Hire(t) PROVE IInv'
<1>1. PICK u \in Thread :
        /\ pc[t] = "hiring" /\ pc[u] = "off"
        /\ pc' = [pc EXCEPT ![t] = "pushing", ![u] = "gate"]
        /\ wid' = [wid EXCEPT ![u] = wid[t]]
        /\ child' = [child EXCEPT ![t] = u]
  BY DEF Hire
<1>2. /\ live' = live + 1
      /\ UNCHANGED <<registryVars, jobs, shutdown, resume, handles, todo, seen, sess, job,
                     report, callerVars, panics>>
  BY DEF Hire
<1>3. t # u
  BY <1>1
<1>4. TypeOK'
  <2>1. /\ pc' \in [Thread -> ThreadPc] /\ wid' \in [Thread -> 0 .. (Workers - 1)]
        /\ child' \in [Thread -> Thread \cup {0}] /\ live' \in Nat
    <3>1. pc' \in [Thread -> ThreadPc]
      BY <1>1 DEF IInv, TypeOK, ThreadPc
    <3>2. wid' \in [Thread -> 0 .. (Workers - 1)]
      BY <1>1 DEF IInv, TypeOK
    <3>3. child' \in [Thread -> Thread \cup {0}] /\ live' \in Nat
      BY <1>1, <1>2 DEF IInv, TypeOK
    <3> QED
      BY <3>1, <3>2, <3>3
  <2> QED
    BY <1>2, <2>1 DEF IInv, TypeOK, registryVars, callerVars
<1>5. /\ pc'[t] = "pushing" /\ pc'[u] = "gate" /\ wid'[u] = wid[t]
      /\ child'[t] = u /\ \A v \in Thread \ {t} : child'[v] = child[v]
      /\ \A v \in Thread \ {t, u} : pc'[v] = pc[v]
      /\ \A v \in Thread \ {u} : wid'[v] = wid[v]
  BY <1>1, <1>3 DEF IInv, TypeOK
<1>6. OwnIds'
  BY <1>1, <1>5 DEF IInv, OwnIds, Placed, ThreadPc
<1>7. OwnTasks'
  <2>1. sess[u] = {} /\ sess[t] = {} /\ u # 0
    BY <1>1, CountsAssumption DEF IInv, OwnTasks, Sitting, Working, Walking, Thread
  <2> SUFFICES ASSUME NEW v \in Thread
               PROVE  /\ pc'[v] \in OnWalk => Items(todo'[v]) \subseteq Share(wid'[v])
                      /\ sess'[v] \subseteq Share(wid'[v])
                      /\ sess'[v] # {} => pc'[v] \in Sitting
                      /\ pc'[v] \in Walking => todo'[v] # <<>>
                      /\ pc'[v] \in {"picked", "run"} => job'[v] # <<>>
                      /\ pc'[v] = "pushing" => child'[v] # 0
    BY DEF OwnTasks, Items, Share, Mine
  <2>2. CASE v \in {t, u}
    BY <2>1, <2>2, <1>2, <1>5 DEF OnWalk, Walking
  <2>3. CASE v \notin {t, u}
    BY <2>3, <1>2, <1>5 DEF IInv, OwnTasks
  <2> QED
    BY <2>2, <2>3
<1>8. ReadsTrue'
  BY <1>2, <1>5 DEF IInv, ReadsTrue, Walking
<1>9. OnlyLeaving'
  BY <1>2, <1>5 DEF IInv, OnlyLeaving, Working, Walking, callerVars
<1>10. StoppedIsTornDown'
  BY <1>2, StopFollows DEF registryVars
<1>12. ReportsTrue'
  <2>1. report[u] = <<>>
    BY <1>1 DEF IInv, ReportsTrue, Sitting, Working, Walking
  <2> SUFFICES ASSUME NEW v \in Thread, report[v] # <<>>
               PROVE  /\ pc'[v] \in Sitting
                      /\ report[v][1].task \in Share(wid'[v]) \cup Cron
                      /\ report[v][1].status = "stopped" => report[v][1].task \notin sess[v]
    BY <1>2 DEF ReportsTrue, Share, Mine
  <2>2. pc'[v] = pc[v] /\ wid'[v] = wid[v]
    BY <2>1, <1>5
  <2>3. Share(wid'[v]) = Share(wid[v])
    BY <2>2
  <2> QED
    BY <2>2, <2>3 DEF IInv, ReportsTrue
<1>11. LiveIsExact'
  BY <1>1, <1>2, <1>3, OneMore DEF IInv, Counted, Sitting, Working, Walking
<1> QED
  BY <1>4, <1>6, <1>7, <1>8, <1>9, <1>10, <1>11, <1>12 DEF IInv

\* The handle of the replacement is registered, and its maker ends.
LEMMA PushKeeps ==
  ASSUME IInv, NEW t \in Thread, report[t] = <<>>, Push(t) PROVE IInv'
<1>1. /\ pc[t] = "pushing" /\ pc' = [pc EXCEPT ![t] = "done"]
      /\ handles' = handles \cup {child[t]} /\ child' = [child EXCEPT ![t] = 0]
  BY DEF Push, Goto
<1>2. UNCHANGED <<registryVars, jobs, shutdown, resume, live, wid, todo, seen, sess, job,
                  report, callerVars, panics>>
  BY DEF Push
<1>3. TypeOK'
  <2>1. handles' \subseteq Thread
    BY <1>1 DEF IInv, TypeOK, OwnTasks
  <2>2. pc' \in [Thread -> ThreadPc] /\ child' \in [Thread -> Thread \cup {0}]
    BY <1>1 DEF IInv, TypeOK, ThreadPc
  <2> QED
    BY <1>2, <2>1, <2>2 DEF IInv, TypeOK, registryVars, callerVars
<1>4. OwnIds' /\ OwnTasks' /\ ReadsTrue' /\ ReportsTrue' /\ OnlyLeaving'
  <2>1. sess[t] = {} /\ \A u \in Thread \ {t} : child'[u] = child[u]
    BY <1>1 DEF IInv, TypeOK, OwnTasks, Sitting, Working, Walking
  <2>2. UNCHANGED <<wid, shutdown, stop, todo, seen, job, sess, report>>
    BY <1>2 DEF callerVars
  <2> QED
    BY <1>1, <2>1, <2>2, OneThread DEF Placed, OnWalk, Walking, Working
<1>5. StoppedIsTornDown'
  BY <1>2, StopFollows DEF registryVars
<1>6. LiveIsExact'
  <2>1. \A u \in Thread : pc'[u] \in Counted <=> pc[u] \in Counted
    BY <1>1 DEF IInv, TypeOK, Counted, Sitting, Working, Walking
  <2> QED
    BY <2>1, <1>2, SameCount DEF IInv
<1> QED
  BY <1>3, <1>4, <1>5, <1>6 DEF IInv

-----------------------------------------------------------------------------
\* A step on the way through jobs and tasks: what all of them have in common.
LEMMA InLoop ==
  ASSUME IInv, NEW t \in Thread, NEW p \in Sitting, pc[t] \in Sitting, report[t] = <<>>,
         pc' = [pc EXCEPT ![t] = p],
         UNCHANGED <<registered, enabled, poolVars, wid, child, callerVars, panics>>,
         TypeOK', \A n \in LongTask : status'[n] = status[n],
         \A u \in Thread \ {t} : UNCHANGED <<todo[u], seen[u], sess[u], job[u]>>,
         \/ UNCHANGED report
         \/ \E n \in Share(wid[t]) \cup Cron, st \in Status :
              Tell(t, n, st) /\ (st = "stopped" => n \notin sess'[t]),
         \A n \in sess'[t] : n \in sess[t] \/ Tell(t, n, "running"),
         p \in OnWalk => Items(todo'[t]) \subseteq Share(wid[t]),
         sess'[t] \subseteq Share(wid[t]),
         p \in Walking => todo'[t] # <<>>,
         p \in {"picked", "run"} => job'[t] # <<>>,
         p \in Walking /\ ~seen'[t].connected => Head(todo'[t]) \notin sess'[t],
         p \in Working => pc[t] \in Working,
         sess'[t] \subseteq sess[t] \/ pc[t] \in Working
  PROVE  IInv'
<1>1. p \in Placed /\ pc[t] \in Placed /\ p # "pushing" /\ UNCHANGED <<wid, shutdown, stop, child>>
  BY DEF Placed, ThreadPc, Sitting, Working, Walking, poolVars, callerVars
<1>2. \A u \in Thread \ {t} : report'[u] = report[u]
  BY DEF IInv, TypeOK, Tell
<1>3. \A n, st : Tell(t, n, st) => report'[t] = <<[task |-> n, status |-> st]>>
  BY DEF IInv, TypeOK, Tell
<1>4. report'[t] # <<>> =>
        /\ report'[t][1].task \in Share(wid[t]) \cup Cron
        /\ report'[t][1].status = "stopped" => report'[t][1].task \notin sess'[t]
  <2>1. CASE UNCHANGED report
    BY <2>1
  <2>2. ASSUME NEW n \in Share(wid[t]) \cup Cron, NEW st \in Status,
               Tell(t, n, st), st = "stopped" => n \notin sess'[t]
        PROVE  /\ report'[t][1].task \in Share(wid[t]) \cup Cron
               /\ report'[t][1].status = "stopped" => report'[t][1].task \notin sess'[t]
    <3>1. report'[t] = <<[task |-> n, status |-> st]>>
      BY <2>2, <1>3
    <3>2. report'[t][1].task = n /\ report'[t][1].status = st
      BY <3>1
    <3> QED
      BY <2>2, <3>2
  <2> QED
    BY <2>1, <2>2
<1>5. OwnIds' /\ OwnTasks' /\ ReadsTrue' /\ ReportsTrue' /\ OnlyLeaving'
  BY <1>1, <1>2, <1>4, OneThread
<1>6. StoppedIsTornDown'
  BY <1>2, <1>3, StopFollows
<1>7. LiveIsExact'
  <2>1. \A u \in Thread : pc'[u] \in Counted <=> pc[u] \in Counted
    BY DEF IInv, TypeOK, Counted
  <2> QED
    BY <2>1, SameCount DEF poolVars, IInv
<1> QED
  BY <1>5, <1>6, <1>7 DEF IInv

\* set_status touches one entry.
LEMMA StatusMoves ==
  ASSUME TypeOK, NEW n \in Task, NEW st \in Status, SetStatus(n, st)
  PROVE  /\ status' \in [Task -> Status]
         /\ \A m \in Task : m # n => status'[m] = status[m]
         /\ n \in registered => status'[n] = st
<1>1. CASE n \in registered
  BY <1>1 DEF SetStatus, TypeOK
<1>2. CASE n \notin registered
  BY <1>2 DEF SetStatus, TypeOK
<1> QED
  BY <1>1, <1>2

\* A thread has something to report, and nothing else changes.
LEMMA ReportIsTyped ==
  ASSUME TypeOK, NEW t \in Thread,
         UNCHANGED report \/ \E n \in Task, st \in Status : Tell(t, n, st)
  PROVE  report' \in [Thread -> Seq([task : Task, status : Status])]
<1>1. CASE UNCHANGED report
  BY <1>1 DEF TypeOK
<1>2. ASSUME NEW n \in Task, NEW st \in Status, Tell(t, n, st)
      PROVE  report' \in [Thread -> Seq([task : Task, status : Status])]
  <2> DEFINE e == <<[task |-> n, status |-> st]>>
  <2>1. e \in Seq([task : Task, status : Status])
    OBVIOUS
  <2>2. report' = [report EXCEPT ![t] = e]
    BY <1>2 DEF Tell
  <2> HIDE DEF e
  <2> QED
    BY <2>1, <2>2 DEF TypeOK
<1> QED
  BY <1>1, <1>2

\* A report is written: of a task shown as stopped the session is gone, and no
\* other thread has one.
LEMMA ReportKeeps == ASSUME IInv, NEW t \in Thread, Report(t) PROVE IInv'
<1> DEFINE n == report[t][1].task
           st == report[t][1].status
<1>1. /\ report[t] # <<>> /\ SetStatus(n, st) /\ report' = [report EXCEPT ![t] = <<>>]
      /\ UNCHANGED <<registered, enabled, reload, jobs, poolVars, pc, wid, todo, seen, sess,
                     job, child, callerVars, panics>>
  BY DEF Report
<1>2. n \in Task /\ st \in Status
  <2>1. report[t] \in Seq([task : Task, status : Status]) /\ report[t] # <<>>
    BY <1>1 DEF IInv, TypeOK
  <2> DEFINE E == [task : Task, status : Status]
  <2>2. report[t] \in Seq(E) /\ report[t] # <<>>
    BY <2>1
  <2> HIDE DEF E
  <2>3. report[t][1] \in E
    BY <2>2
  <2> QED
    BY <2>3 DEF E
<1>3. /\ pc[t] \in Placed /\ n \in Share(wid[t]) \cup Cron
      /\ st = "stopped" => n \notin sess[t]
  <2>1. pc[t] \in Sitting /\ n \in Share(wid[t]) \cup Cron /\ (st = "stopped" => n \notin sess[t])
    BY <1>1 DEF IInv, ReportsTrue
  <2>2. Sitting \subseteq Placed
    BY DEF Placed, Sitting, Working, Walking, ThreadPc
  <2> HIDE DEF n, st
  <2> QED
    BY <2>1, <2>2
<1>4. report'[t] = <<>> /\ \A u \in Thread \ {t} : report'[u] = report[u]
  BY <1>1 DEF IInv, TypeOK
<1>5. /\ status' \in [Task -> Status] /\ \A m \in Task : m # n => status'[m] = status[m]
      /\ n \in registered => status'[n] = st
  <2>1. SetStatus(n, st) /\ TypeOK
    BY <1>1 DEF IInv
  <2> HIDE DEF n, st
  <2> QED
    BY <2>1, <1>2, StatusMoves
<1>6. TypeOK'
  <2>1. report' \in [Thread -> Seq([task : Task, status : Status])]
    <3> DEFINE E == [task : Task, status : Status]
    <3>1. report \in [Thread -> Seq(E)]
      BY DEF IInv, TypeOK
    <3>2. report' = [report EXCEPT ![t] = <<>>]
      BY <1>1
    <3>3. report' \in [Thread -> Seq(E)]
      <4> HIDE DEF E
      <4> QED
        BY <3>1, <3>2
    <3> QED
      BY <3>3
  <2> QED
    BY <2>1, <1>1, <1>5 DEF IInv, TypeOK, poolVars, callerVars
<1>7. OwnIds' /\ OwnTasks' /\ ReadsTrue' /\ ReportsTrue' /\ OnlyLeaving' /\ LiveIsExact'
  <2>1. UNCHANGED <<pc, wid, todo, seen, sess, job, child, live, shutdown, stop>>
    BY <1>1 DEF poolVars, callerVars
  <2>2. OwnIds' /\ OwnTasks' /\ ReadsTrue' /\ OnlyLeaving'
    BY <2>1 DEF IInv, OwnIds, OwnTasks, ReadsTrue, OnlyLeaving
  <2>3. ReportsTrue'
    BY <2>1, <1>4 DEF IInv, ReportsTrue
  <2>4. LiveIsExact'
    BY <2>1 DEF IInv, LiveIsExact, CountedThreads
  <2> QED
    BY <2>2, <2>3, <2>4
<1>8. StoppedIsTornDown'
  <2> SUFFICES ASSUME NEW m \in registered \cap LongTask, NEW u \in Thread,
                      status'[m] = "stopped", m \in sess[u]
               PROVE  report'[u] = <<[task |-> m, status |-> "running"]>>
    BY <1>1 DEF StoppedIsTornDown
  <2>1. CASE m # n
    <3>1. status[m] = "stopped"
      BY <2>1, <1>5 DEF Task
    <3>2. report[u] = <<[task |-> m, status |-> "running"]>>
      BY <3>1 DEF IInv, StoppedIsTornDown
    <3>3. u # t
      BY <3>2, <2>1
    <3> QED
      BY <3>2, <3>3, <1>4
  <2>2. CASE m = n
    <3>1. st = "stopped" /\ n \in Share(wid[t]) /\ u # t
      BY <2>2, <1>3, <1>5, TasksAssumption DEF LongTask
    <3>2. pc[u] \in Placed /\ n \in Share(wid[u])
      BY <2>2 DEF IInv, OwnTasks, Placed, Sitting, Working, Walking, ThreadPc
    <3>3. wid[u] # wid[t] /\ wid[u] \in 0 .. (Workers - 1) /\ wid[t] \in 0 .. (Workers - 1)
      BY <3>1, <3>2, <1>3 DEF IInv, OwnIds, TypeOK
    <3> QED
      BY <3>1, <3>2, <3>3, SharesAreApart
  <2> QED
    BY <2>1, <2>2
<1> QED
  BY <1>6, <1>7, <1>8 DEF IInv

\* Steps of the job queue: scheduled tasks have no sessions.
LEMMA JobKeeps ==
  ASSUME IInv, NEW t \in Thread, report[t] = <<>>, TakeJob(t) \/ StartJob(t) \/ EndJob(t)
  PROVE  IInv'
<1>1. PICK p \in {"picked", "walk", "drain", "run"} : pc' = [pc EXCEPT ![t] = p]
  BY DEF TakeJob, StartJob, EndJob, Goto
<1>2. /\ pc[t] \in {"drain", "picked", "run"}
      /\ UNCHANGED <<registered, enabled, reload, poolVars, wid, child, callerVars, panics,
                     seen, sess>>
  BY DEF TakeJob, StartJob, EndJob, registryVars
<1>3. /\ jobs' \in Seq(Cron)
      /\ job' \in [Thread -> Seq(Cron)]
      /\ \A u \in Thread \ {t} : job'[u] = job[u]
      /\ p \in {"picked", "run"} => job'[t] # <<>>
  <2>1. CASE TakeJob(t)
    <3>1. CASE jobs # <<>> /\ job' = [job EXCEPT ![t] = <<Head(jobs)>>] /\ jobs' = Tail(jobs)
      BY <3>1 DEF IInv, TypeOK
    <3>2. CASE UNCHANGED <<jobs, job>> /\ Goto(t, "walk")
      BY <3>2, <1>1 DEF IInv, TypeOK, Goto
    <3> QED
      BY <2>1, <3>1, <3>2 DEF TakeJob
  <2>2. CASE StartJob(t)
    <3>1. jobs' = jobs
      BY <2>2 DEF StartJob
    <3>2. CASE job' = [job EXCEPT ![t] = <<>>] /\ Goto(t, "drain")
      BY <3>1, <3>2, <1>1 DEF IInv, TypeOK, Goto
    <3>3. CASE job' = job
      BY <2>2, <3>1, <3>3 DEF StartJob, IInv, TypeOK, OwnTasks
    <3> QED
      BY <2>2, <3>2, <3>3 DEF StartJob
  <2>3. CASE EndJob(t)
    <3>1. jobs' = jobs /\ job' = [job EXCEPT ![t] = <<>>] /\ Goto(t, "drain")
      BY <2>3 DEF EndJob
    <3> QED
      BY <3>1, <1>1 DEF IInv, TypeOK, Goto
  <2> QED
    BY <2>1, <2>2, <2>3
<1>4. /\ todo' \in [Thread -> Seq(LongTask)]
      /\ \A u \in Thread \ {t} : todo'[u] = todo[u]
      /\ p = "walk" => Items(todo'[t]) = Share(wid[t])
  <2>1. CASE TakeJob(t) /\ jobs = <<>>
    <3>1. todo' = [todo EXCEPT ![t] = Mine(wid[t])] /\ Mine(wid[t]) \in Seq(LongTask)
      BY <2>1, MineIsSeq DEF TakeJob, IInv, TypeOK
    <3> QED
      BY <3>1 DEF IInv, TypeOK, Items, Share
  <2>2. CASE UNCHANGED todo /\ ~(TakeJob(t) /\ jobs = <<>>)
    BY <2>2, <1>1 DEF IInv, TypeOK, TakeJob, StartJob, EndJob, Goto
  <2> QED
    BY <2>1, <2>2 DEF TakeJob, StartJob, EndJob
<1>5. /\ status' \in [Task -> Status]
      /\ \A n \in LongTask : status'[n] = status[n]
  <2>1. CASE TakeJob(t) \/ StartJob(t)
    BY <2>1 DEF TakeJob, StartJob, registryVars, IInv, TypeOK
  <2>2. CASE EndJob(t)
    <3>1. job[t][1] \in Cron
      BY <2>2 DEF IInv, TypeOK, OwnTasks, EndJob
    <3>2. job[t][1] \notin LongTask
      BY <3>1, TasksAssumption DEF LongTask
    <3>4. ASSUME NEW st \in Status, SetStatus(job[t][1], st)
          PROVE  /\ status' \in [Task -> Status]
                 /\ \A n \in LongTask : status'[n] = status[n]
      BY <3>1, <3>2, <3>4, StatusMoves DEF IInv, Task
    <3>5. \E st \in Status : SetStatus(job[t][1], st)
      BY <2>2 DEF EndJob, Status
    <3> QED
      BY <3>4, <3>5
  <2> QED
    BY <2>1, <2>2
<1>6. UNCHANGED report \/ \E n \in Cron, st \in Status : Tell(t, n, st)
  <2>1. CASE TakeJob(t) \/ EndJob(t)
    BY <2>1 DEF TakeJob, EndJob
  <2>2. CASE StartJob(t)
    <3>1. job[t][1] \in Cron
      BY <2>2 DEF IInv, TypeOK, OwnTasks, StartJob
    <3> QED
      BY <2>2, <3>1 DEF StartJob, Status
  <2> QED
    BY <2>1, <2>2
<1>7. TypeOK'
  <2>1. pc' \in [Thread -> ThreadPc]
    BY <1>1 DEF IInv, TypeOK, ThreadPc
  <2>2. report' \in [Thread -> Seq([task : Task, status : Status])]
    BY <1>6, ReportIsTyped DEF IInv, Task
  <2> QED
    BY <1>2, <1>3, <1>4, <1>5, <2>1, <2>2 DEF IInv, TypeOK, poolVars, callerVars
<1>8. \A n \in Cron : n \notin sess'[t]
  BY <1>2, TasksAssumption DEF IInv, TypeOK, LongTask
<1>9. /\ p \in Sitting /\ pc[t] \in Sitting /\ pc[t] \in Working /\ p \notin Walking
      /\ p \in OnWalk => p = "walk"
      /\ sess'[t] \subseteq Share(wid[t])
  BY <1>2 DEF Sitting, Working, OnWalk, Walking, IInv, OwnTasks
<1> QED
  BY <1>1, <1>2, <1>3, <1>4, <1>5, <1>6, <1>7, <1>8, <1>9, InLoop
-----------------------------------------------------------------------------
\* The task at the head of a walk is one of the thread's own.
LEMMA HeadIsOwn ==
  ASSUME IInv, NEW t \in Thread, pc[t] \in OnWalk, todo[t] # <<>>
  PROVE  /\ Head(todo[t]) \in LongTask /\ Head(todo[t]) \in Share(wid[t])
         /\ Tail(todo[t]) \in Seq(LongTask)
         /\ Items(Tail(todo[t])) \subseteq Share(wid[t])
<1>1. todo[t] \in Seq(LongTask) /\ Items(todo[t]) \subseteq Share(wid[t])
  BY DEF IInv, TypeOK, OwnTasks
<1>2. Head(todo[t]) = todo[t][1] /\ 1 \in DOMAIN todo[t]
  BY <1>1
<1>3. \A i \in DOMAIN Tail(todo[t]) : Tail(todo[t])[i] = todo[t][i + 1] /\ i + 1 \in DOMAIN todo[t]
  BY <1>1
<1> QED
  BY <1>1, <1>2, <1>3 DEF Items

\* The thread reads the entry of the next task, or skips a deleted one.
LEMMA LookKeeps ==
  ASSUME IInv, NEW t \in Thread, report[t] = <<>>, Look(t) PROVE IInv'
<1> DEFINE n == Head(todo[t])
<1>1. /\ pc[t] = "walk" /\ todo[t] # <<>>
      /\ UNCHANGED <<registryVars, jobs, poolVars, wid, sess, job, child, report, callerVars, panics>>
  BY DEF Look
<1>2. /\ n \in LongTask /\ n \in Share(wid[t])
      /\ Tail(todo[t]) \in Seq(LongTask) /\ Items(Tail(todo[t])) \subseteq Share(wid[t])
  BY <1>1, HeadIsOwn DEF OnWalk
<1>3. PICK p \in {"walk", "align"} :
        /\ pc' = [pc EXCEPT ![t] = p]
        /\ \/ /\ p = "walk" /\ todo' = [todo EXCEPT ![t] = Tail(@)] /\ seen' = seen
           \/ /\ p = "align" /\ todo' = todo
              /\ seen' = [seen EXCEPT ![t] = [want |-> Wanted(n), status |-> status[n],
                                             connected |-> n \in sess[t]]]
  <2>1. CASE todo' = [todo EXCEPT ![t] = Tail(@)] /\ UNCHANGED <<pc, seen>>
    <3>1. pc' = [pc EXCEPT ![t] = "walk"]
      BY <2>1, <1>1 DEF IInv, TypeOK
    <3> QED
      BY <2>1, <3>1
  <2>2. CASE ~UNCHANGED <<pc, seen>>
    BY <2>2 DEF Look, Goto
  <2> QED
    BY <2>1, <2>2 DEF Look, Goto
<1>4. /\ todo' \in [Thread -> Seq(LongTask)] /\ \A u \in Thread \ {t} : todo'[u] = todo[u]
      /\ Items(todo'[t]) \subseteq Share(wid[t])
      /\ p = "align" => todo'[t] = todo[t]
  <2>1. Items(todo[t]) \subseteq Share(wid[t])
    BY <1>1 DEF IInv, OwnTasks, OnWalk
  <2> QED
    BY <1>2, <1>3, <2>1 DEF IInv, TypeOK
<1>5. /\ seen' \in [Thread -> [want : BOOLEAN, status : Status, connected : BOOLEAN]]
      /\ \A u \in Thread \ {t} : seen'[u] = seen[u]
      /\ p = "align" => (seen'[t].connected <=> n \in sess[t])
  <2>1. Wanted(n) \in BOOLEAN /\ status[n] \in Status /\ (n \in sess[t]) \in BOOLEAN
    BY <1>2 DEF IInv, TypeOK, Wanted, Task
  <2>2. [want |-> Wanted(n), status |-> status[n], connected |-> n \in sess[t]]
          \in [want : BOOLEAN, status : Status, connected : BOOLEAN]
    BY <2>1
  <2> DEFINE r == [want |-> Wanted(n), status |-> status[n], connected |-> n \in sess[t]]
  <2>3. r.connected <=> n \in sess[t]
    OBVIOUS
  <2>4. seen' = seen \/ seen' = [seen EXCEPT ![t] = r]
    BY <1>3
  <2>5. p = "align" => seen' = [seen EXCEPT ![t] = r]
    BY <1>3
  <2> DEFINE R == [want : BOOLEAN, status : Status, connected : BOOLEAN]
  <2>6. r \in R
    BY <2>2
  <2>9. seen \in [Thread -> R]
    BY DEF IInv, TypeOK
  <2> HIDE DEF r, R
  <2>7. seen' \in [Thread -> R] /\ \A u \in Thread \ {t} : seen'[u] = seen[u]
    BY <2>4, <2>6, <2>9
  <2>8. p = "align" => seen'[t] = r
    BY <2>5, <2>9
  <2> QED
    BY <2>3, <2>7, <2>8 DEF R
<1>6. TypeOK'
  <2>1. pc' \in [Thread -> ThreadPc]
    BY <1>3 DEF IInv, TypeOK, ThreadPc
  <2> QED
    BY <1>1, <1>4, <1>5, <2>1 DEF IInv, TypeOK, registryVars, poolVars, callerVars
<1>7. /\ p \in Sitting /\ pc[t] \in Sitting /\ pc[t] \in Working
      /\ p \in Walking => p = "align"
      /\ p \notin {"picked", "run"}
      /\ sess'[t] \subseteq Share(wid[t])
  BY <1>1, <1>3 DEF Sitting, Working, Walking, IInv, OwnTasks
<1> QED
  BY <1>1, <1>3, <1>4, <1>5, <1>6, <1>7, InLoop DEF registryVars

\* A reload that was asked for is taken off the registry.
LEMMA TakeReloadKeeps ==
  ASSUME IInv, NEW t \in Thread, report[t] = <<>>, TakeReload(t) PROVE IInv'
<1> DEFINE n == Head(todo[t])
<1>1. /\ pc[t] = "align"
      /\ UNCHANGED <<registered, enabled, status, jobs, poolVars, wid, todo, seen, sess, job, child,
                     report, callerVars, panics>>
  BY DEF TakeReload
<1>2. PICK p \in {"restart", "act"} : pc' = [pc EXCEPT ![t] = p]
  BY DEF TakeReload, Goto
<1>3. todo[t] # <<>> /\ pc[t] \in OnWalk /\ pc[t] \in Walking
  BY <1>1 DEF IInv, OwnTasks, OnWalk, Walking
<1>4. reload' \in [Task -> BOOLEAN]
  <2>1. n \in Task
    BY <1>3, HeadIsOwn DEF Task
  <2>2. CASE reload' = reload
    BY <2>2 DEF IInv, TypeOK
  <2>3. CASE reload' = [reload EXCEPT ![n] = FALSE]
    BY <2>1, <2>3 DEF IInv, TypeOK
  <2> QED
    BY <2>2, <2>3 DEF TakeReload
<1>5. TypeOK'
  <2>1. pc' \in [Thread -> ThreadPc]
    BY <1>2 DEF IInv, TypeOK, ThreadPc
  <2> QED
    BY <1>1, <1>4, <2>1 DEF IInv, TypeOK, poolVars, callerVars
<1>6. /\ p \in Sitting /\ pc[t] \in Sitting /\ pc[t] \in Working
      /\ p \notin {"picked", "run"}
      /\ Items(todo'[t]) \subseteq Share(wid[t])
      /\ sess'[t] \subseteq Share(wid[t])
      /\ ~seen'[t].connected => Head(todo'[t]) \notin sess'[t]
  <2>1. p \in Sitting /\ pc[t] \in Sitting /\ pc[t] \in Working
    BY <1>1 DEF Sitting, Working, Walking
  <2>2. Items(todo[t]) \subseteq Share(wid[t]) /\ sess[t] \subseteq Share(wid[t])
    BY <1>3 DEF IInv, OwnTasks
  <2>3. ~seen[t].connected => Head(todo[t]) \notin sess[t]
    BY <1>3 DEF IInv, ReadsTrue
  <2> QED
    BY <2>1, <2>2, <2>3, <1>1 DEF Items
<1> QED
  BY <1>1, <1>2, <1>3, <1>5, <1>6, InLoop

\* The session of a task that is reloaded ends.
LEMMA RestartKeeps ==
  ASSUME IInv, NEW t \in Thread, report[t] = <<>>, Restart(t) PROVE IInv'
<1> DEFINE n == Head(todo[t])
<1>1. /\ pc[t] = "restart" /\ pc' = [pc EXCEPT ![t] = "act"]
      /\ Close(t, n) /\ Tell(t, n, "stopped")
      /\ UNCHANGED <<registryVars, jobs, poolVars, wid, todo, seen, job, child, callerVars, panics>>
  BY DEF Restart, Goto
<1>2. todo[t] # <<>> /\ pc[t] \in OnWalk /\ pc[t] \in Walking
  BY <1>1 DEF IInv, OwnTasks, OnWalk, Walking
<1>3. n \in Share(wid[t]) /\ n \in Task
  BY <1>2, HeadIsOwn DEF Task
<1>4. /\ sess' \in [Thread -> SUBSET LongTask] /\ sess'[t] = sess[t] \ {n}
      /\ \A u \in Thread \ {t} : sess'[u] = sess[u]
  BY <1>1 DEF Close, IInv, TypeOK
<1>5. TypeOK'
  <2>1. pc' \in [Thread -> ThreadPc]
    BY <1>1 DEF IInv, TypeOK, ThreadPc
  <2>2. report' \in [Thread -> Seq([task : Task, status : Status])]
    BY <1>1, <1>3, ReportIsTyped DEF IInv, Status
  <2> QED
    BY <1>1, <1>4, <2>1, <2>2 DEF IInv, TypeOK, registryVars, poolVars, callerVars
<1>6. /\ "act" \in Sitting /\ pc[t] \in Sitting /\ pc[t] \in Working
      /\ Items(todo'[t]) \subseteq Share(wid[t])
      /\ sess'[t] \subseteq Share(wid[t])
      /\ Head(todo'[t]) \notin sess'[t]
  <2>1. "act" \in Sitting /\ pc[t] \in Sitting /\ pc[t] \in Working
    BY <1>1 DEF Sitting, Working, Walking
  <2>2. Items(todo[t]) \subseteq Share(wid[t]) /\ sess[t] \subseteq Share(wid[t])
    BY <1>2 DEF IInv, OwnTasks
  <2> QED
    BY <2>1, <2>2, <1>1, <1>4 DEF Items
<1>7. "stopped" \in Status
  BY DEF Status
<1> QED
  BY <1>1, <1>2, <1>3, <1>4, <1>5, <1>6, <1>7, InLoop DEF registryVars

\* The four ways to deal with a task, and the panic on a session that is gone.
LEMMA AlignKeeps ==
  ASSUME IInv, NEW t \in Thread, report[t] = <<>>, Align(t) \/ ExpectConnected(t) PROVE IInv'
<1> DEFINE n == Head(todo[t])
<1>1. /\ pc[t] = "act" /\ seen' = [seen EXCEPT ![t] = Nothing]
      /\ UNCHANGED <<registryVars, jobs, poolVars, wid, job, child, callerVars, panics>>
  BY DEF Align, ExpectConnected
<1>2. PICK p \in {"walk", "dying"} : pc' = [pc EXCEPT ![t] = p]
  BY DEF Align, ExpectConnected, Goto
<1>3. todo[t] # <<>> /\ pc[t] \in OnWalk /\ pc[t] \in Walking
  BY <1>1 DEF IInv, OwnTasks, OnWalk, Walking
<1>4. /\ n \in LongTask /\ n \in Share(wid[t]) /\ n \in Task
      /\ Tail(todo[t]) \in Seq(LongTask) /\ Items(Tail(todo[t])) \subseteq Share(wid[t])
  BY <1>3, HeadIsOwn DEF Task
<1>5. /\ todo' \in [Thread -> Seq(LongTask)] /\ \A u \in Thread \ {t} : todo'[u] = todo[u]
      /\ Items(todo'[t]) \subseteq Share(wid[t])
  <2>1. CASE todo' = [todo EXCEPT ![t] = Tail(@)]
    BY <2>1, <1>4 DEF IInv, TypeOK
  <2>2. CASE todo' = [todo EXCEPT ![t] = <<>>]
    BY <2>2 DEF IInv, TypeOK, Items
  <2> QED
    BY <2>1, <2>2 DEF Align, ExpectConnected
<1>6. seen' \in [Thread -> [want : BOOLEAN, status : Status, connected : BOOLEAN]]
      /\ \A u \in Thread \ {t} : seen'[u] = seen[u]
  BY <1>1 DEF IInv, TypeOK, Nothing, Status
<1>7. /\ \/ UNCHANGED report
         \/ \E st \in Status : Tell(t, n, st) /\ (st = "stopped" => n \notin sess'[t])
      /\ \/ sess' = sess \/ sess' = [sess EXCEPT ![t] = @ \ {n}]
         \/ sess' = [sess EXCEPT ![t] = @ \cup {n}] /\ Tell(t, n, "running")
  <2>1. CASE ExpectConnected(t)
    BY <2>1 DEF ExpectConnected
  <2>2. CASE Connect(t, n)
    BY <2>2 DEF Connect, Status
  <2>3. CASE Halt(t, n)
    <3>1. n \notin sess'[t]
      BY <2>3 DEF Halt, Close, IInv, TypeOK
    <3> QED
      BY <2>3, <3>1 DEF Halt, Close, Status
  <2>4. CASE Settle(t, n)
    BY <2>4, <1>3 DEF Settle, Status, IInv, ReadsTrue
  <2>5. CASE Round(t, n)
    BY <2>5 DEF Round, Close, Status
  <2> QED
    BY <2>1, <2>2, <2>3, <2>4, <2>5 DEF Align
<1>8. /\ sess' \in [Thread -> SUBSET LongTask] /\ \A u \in Thread \ {t} : sess'[u] = sess[u]
      /\ sess'[t] \subseteq sess[t] \cup {n}
      /\ n \in sess'[t] => n \in sess[t] \/ Tell(t, n, "running")
  <2>1. sess \in [Thread -> SUBSET LongTask] /\ n \in LongTask
    BY <1>4 DEF IInv, TypeOK
  <2> HIDE DEF n
  <2> QED
    BY <2>1, <1>7
<1>9. TypeOK'
  <2>1. pc' \in [Thread -> ThreadPc]
    BY <1>2 DEF IInv, TypeOK, ThreadPc
  <2>2. report' \in [Thread -> Seq([task : Task, status : Status])]
    BY <1>4, <1>7, ReportIsTyped DEF IInv
  <2> QED
    BY <1>1, <1>5, <1>6, <1>8, <2>1, <2>2 DEF IInv, TypeOK, registryVars, poolVars, callerVars
<1>10. /\ p \in Sitting /\ pc[t] \in Sitting /\ pc[t] \in Working
       /\ p \notin Walking /\ p \notin {"picked", "run"}
       /\ sess'[t] \subseteq Share(wid[t])
  <2>1. sess[t] \subseteq Share(wid[t])
    BY DEF IInv, OwnTasks
  <2> QED
    BY <2>1, <1>1, <1>4, <1>8 DEF Sitting, Working, Walking
<1> QED
  BY <1>1, <1>2, <1>4, <1>5, <1>6, <1>7, <1>8, <1>9, <1>10, InLoop DEF registryVars

\* A thread on its way out ends its sessions one by one.
LEMMA TearDownKeeps ==
  ASSUME IInv, NEW t \in Thread, report[t] = <<>>, TearDown(t) PROVE IInv'
<1>1. PICK n \in sess[t] : Close(t, n) /\ Tell(t, n, "stopped")
  BY DEF TearDown
<1>2. /\ pc[t] = "closing"
      /\ UNCHANGED <<registryVars, jobs, poolVars, pc, wid, todo, seen, job, child,
                     callerVars, panics>>
  BY DEF TearDown
<1>3. n \in Task /\ n \in Share(wid[t]) /\ sess[t] \subseteq Share(wid[t])
  BY DEF IInv, TypeOK, OwnTasks, Task
<1>4. /\ sess' \in [Thread -> SUBSET LongTask] /\ sess'[t] = sess[t] \ {n}
      /\ \A u \in Thread \ {t} : sess'[u] = sess[u]
  BY <1>1 DEF Close, IInv, TypeOK
<1>5. "stopped" \in Status
  BY DEF Status
<1>6. TypeOK'
  <2>1. report' \in [Thread -> Seq([task : Task, status : Status])]
    BY <1>1, <1>3, <1>5, ReportIsTyped DEF IInv
  <2> QED
    BY <1>2, <1>4, <2>1 DEF IInv, TypeOK, registryVars, poolVars, callerVars
<1>7. pc' = [pc EXCEPT ![t] = "closing"]
  BY <1>2 DEF IInv, TypeOK
<1>8. /\ "closing" \in Sitting /\ pc[t] \in Sitting /\ "closing" \notin OnWalk
      /\ "closing" \notin Walking /\ "closing" \notin Working
      /\ sess'[t] \subseteq Share(wid[t])
  BY <1>2, <1>3, <1>4 DEF Sitting, Working, Walking, OnWalk
<1> QED
  BY <1>1, <1>2, <1>3, <1>4, <1>5, <1>6, <1>7, <1>8, InLoop DEF registryVars

-----------------------------------------------------------------------------
\* Every step keeps the invariant.
LEMMA Step == IInv /\ [Next]_vars => IInv'
<1> SUFFICES ASSUME IInv, [Next]_vars PROVE IInv'
  OBVIOUS
<1>1. CASE Api
  BY <1>1, ApiKeeps
<1>2. ASSUME NEW t \in Thread, report[t] = <<>>, Act(t) \/ EndJob(t) PROVE IInv'
  <2>1. CASE PassGate(t) \/ Boot(t) \/ TestShutdown(t) \/ EndWalk(t) \/ Replace(t)
    BY <1>2, <2>1, MoveKeeps
  <2>2. CASE QuitGate(t) \/ Finish(t) \/ Unwind(t)
    BY <1>2, <2>2, ExitKeeps
  <2>3. CASE Hire(t) \/ Push(t)
    BY <1>2, <2>3, HireKeeps, PushKeeps
  <2>4. CASE TakeJob(t) \/ StartJob(t) \/ EndJob(t)
    BY <1>2, <2>4, JobKeeps
  <2>5. CASE Look(t) \/ TakeReload(t) \/ Restart(t) \/ TearDown(t)
    BY <1>2, <2>5, LookKeeps, TakeReloadKeeps, RestartKeeps, TearDownKeeps
  <2>6. CASE Align(t) \/ ExpectConnected(t)
    BY <1>2, <2>6, AlignKeeps
  <2> QED
    BY <1>2, <2>1, <2>2, <2>3, <2>4, <2>5, <2>6 DEF Act
<1>3. ASSUME NEW t \in Thread, Proceed(t) \/ EndJob(t) PROVE IInv'
  BY <1>2, <1>3, ReportKeeps DEF Proceed, EndJob
<1>4. ASSUME NEW s \in Stopper, StopStep(s) PROVE IInv'
  BY <1>4, StopKeeps
<1>5. CASE UNCHANGED vars
  <2>1. UNCHANGED <<registryVars, jobs, poolVars, threadVars, callerVars, panics>>
    BY <1>5 DEF vars
  <2> USE <2>1 DEF registryVars, poolVars, threadVars, callerVars, IInv
  <2>2. TypeOK'
    BY DEF TypeOK
  <2>3. OwnIds' /\ ReadsTrue' /\ OnlyLeaving'
    BY DEF OwnIds, ReadsTrue, OnlyLeaving
  <2>6. ReportsTrue'
    BY DEF ReportsTrue, Share, Mine
  <2>4. OwnTasks'
    <3>1. UNCHANGED <<pc, todo, sess, wid, job, child>>
      OBVIOUS
    <3>2. ASSUME NEW t \in Thread
          PROVE  Items(todo'[t]) = Items(todo[t]) /\ Share(wid'[t]) = Share(wid[t])
      BY <3>1
    <3> QED
      BY <3>1, <3>2 DEF OwnTasks
  <2>5. StoppedIsTornDown' /\ LiveIsExact'
    <3>1. UNCHANGED <<registered, status, sess, report, live, pc>>
      OBVIOUS
    <3>2. CountedThreads' = CountedThreads
      BY <3>1 DEF CountedThreads
    <3> QED
      BY <3>1, <3>2 DEF StoppedIsTornDown, LiveIsExact
  <2> QED
    BY <2>2, <2>3, <2>4, <2>5, <2>6
<1> QED
  BY <1>1, <1>3, <1>4, <1>5 DEF Next

LEMMA Inductive == Spec => []IInv
BY Initially, Step, PTL DEF Spec

\* The registry, the pool and its threads keep their types.
THEOREM TypeCorrect == Spec => []TypeOK
<1>1. IInv => TypeOK
  BY DEF IInv
<1> QED
  BY <1>1, Inductive, PTL

\* However workers die and are replaced, a resident task has its session on at
\* most one thread (task_pool.rs, spawn_worker and worker_loop).
THEOREM OneSession == Spec => []OneSessionPerTask
<1>1. IInv => OneSessionPerTask
  BY ApartIfOwn DEF IInv
<1> QED
  BY <1>1, Inductive, PTL

\* A task shown as stopped has no session anywhere, but for one set up a moment
\* ago whose thread is about to report it running (task_pool.rs, set_enabled and
\* the status moves of worker_main).
THEOREM TornDown == Spec => []StoppedIsTornDown
<1>1. IInv => StoppedIsTornDown
  BY DEF IInv
<1> QED
  BY <1>1, Inductive, PTL

\* What shutdown_and_join promises its caller: no session, no job, for good.
THEOREM JoinIsFinal == Spec => []NoWorkAfterJoin
<1>1. IInv => NoWorkAfterJoin
  BY DEF IInv, OnlyLeaving, NoWorkAfterJoin, Working
<1> QED
  BY <1>1, Inductive, PTL
=============================================================================
