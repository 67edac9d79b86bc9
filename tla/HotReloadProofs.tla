-------------------------- MODULE HotReloadProofs ---------------------------
(***************************************************************************)
(* Proofs about HotReload: whatever is requested, edited, refused, timed   *)
(* out or signalled, no two generations of tasks ever work at once, and a  *)
(* reload that is over leaves one generation in charge.                    *)
(*                                                                         *)
(* The argument: a thread works only behind an open gate, and a gate is    *)
(* opened only once.  A generation whose gate is open and that is neither  *)
(* in ctx.tasking nor being put there has ended.  The gate of the next one *)
(* is opened only when the one in ctx.tasking has ended as well: its pool, *)
(* because stop_old joins it each time; its supervisor, because stop_old   *)
(* joins it or an earlier stop_old took it, and no reload ends before its  *)
(* stop_old does.                                                          *)
(***************************************************************************)
EXTENDS HotReload, TLAPS

Ended(g) == tla[g] = "gone" /\ pool[g] = "gone"

Waiting == {"wait", "abort", "drop"}
Closed == {"handoff", "open"} \cup Waiting
Opened == {"commit", "record"}

\* The lock, the program counter and main agree on whether a reload is going on.
Serial ==
  /\ asker = NoOne <=> pc = "idle"
  /\ pc # "idle" => main \in {"up", "draining"}
  /\ stopping # "idle" => pc \in Waiting
  /\ pc \in {"assemble"} \cup Closed \cup Opened => cfg \notin Refused

\* The generations: assembled ones up to made, the next one closed until opened.
Generations ==
  /\ tasking <= made /\ taskFlag <= made
  /\ \A g \in Gen : g > made => ~gate[g] /\ tla[g] = "none"
  /\ pc \in Closed => ~gate[made]
  /\ pc \in Closed \cup Opened => tasking # made

\* Only what is in charge, or about to be, may have threads behind an open gate.
Replaced ==
  /\ \A g \in Gen : Works(g) => gate[g]
  /\ \A g \in Gen : gate[g] => g = tasking \/ (g = made /\ pc \in Opened) \/ Ended(g)
  /\ pc \in Opened \cup {"open"} => Ended(tasking)

\* A supervisor that was taken has ended or is in the hands of stop_old.
Taken ==
  /\ pc \in Waiting => ~hasSup
  /\ ~hasSup /\ main \in {"up", "draining"} /\ tla[tasking] # "gone" =>
       stopping # "idle" /\ stopsSup
  /\ pc \in Waiting /\ stopping # "pool" => pool[tasking] = "gone"

\* Every other generation has no thread, but the one that is being put in place.
Cleared ==
  \A g \in Gen : \/ g = tasking
                 \/ g = made /\ pc \in (Closed \ {"drop"}) \cup Opened
                 \/ tla[g] \in {"none", "gone"} /\ pool[g] \in {"none", "gone"}
                 \/ Orphan(g)

\* What router, flag and tasks point at, during a reload too.
Pointers ==
  /\ router = IF pc = "record" THEN made ELSE tasking
  /\ IF pc = "point" THEN tasking = made ELSE taskFlag = tasking
  /\ gate[tasking] /\ (pc \in Opened => gate[made])

\* Who has been told to stop: nobody new, and nobody with a supervisor.
Told ==
  /\ \A g \in Gen : g > made => ~flag[g] /\ ~told[g]
  /\ pc \in {"handoff", "wait", "open"} \cup Opened => ~flag[made] /\ ~told[made]
  /\ main = "up" /\ hasSup => ~flag[tasking] /\ ~told[tasking]
  /\ asker # NoOne => answer[asker] = "none"
  /\ main = "up" /\ ~hasSup =>
       \/ pc \in {"open"} \cup Waiting \cup Opened
       \/ \E r \in Request : answer[r] = "timeout"

IInv == /\ TypeOK /\ Serial /\ Generations /\ Replaced /\ Taken
        /\ Cleared /\ Pointers /\ Told

-----------------------------------------------------------------------------
LEMMA InitHolds == Init => IInv
<1> SUFFICES ASSUME Init PROVE IInv
  OBVIOUS
<1>1. 0 \in Gen /\ 0 \in 0 .. MaxEdits
  BY BoundsAssumption DEF Gen
<1>2. flag \in [Gen -> BOOLEAN] /\ gate \in [Gen -> BOOLEAN] /\ told \in [Gen -> BOOLEAN]
  BY DEF Init
<1>3. tla \in [Gen -> Life] /\ pool \in [Gen -> Life]
  BY DEF Init, Life
<1>4. answer \in [Request -> Answer]
  BY DEF Init, Answer
<1>5. TypeOK
  BY <1>1, <1>2, <1>3, <1>4 DEF Init, TypeOK
<1>6. ASSUME NEW g \in Gen
      PROVE  /\ g # 0 => ~gate[g] /\ tla[g] = "none" /\ pool[g] = "none"
             /\ ~Works(g) /\ ~flag[g] /\ ~told[g]
  BY DEF Init, Works
<1>7. Serial /\ Generations
  <2>1. \A g \in Gen : g > made => ~gate[g] /\ tla[g] = "none"
    BY <1>1, <1>6 DEF Init, Gen
  <2> QED
    BY <1>1, <2>1 DEF Init, Serial, Generations, Waiting, Closed, Opened
<1>8. Replaced /\ Taken /\ Cleared
  <2>1. tasking = 0 /\ hasSup = TRUE /\ pc = "idle"
    BY DEF Init
  <2>2. Replaced
    BY <1>6, <2>1 DEF Replaced, Opened
  <2>3. Taken
    BY <2>1, Zenon DEF Taken, Waiting
  <2>4. Cleared
    BY <1>6, <2>1 DEF Cleared
  <2> QED
    BY <2>2, <2>3, <2>4
<1>9. Pointers /\ Told
  BY <1>1, <1>6 DEF Init, Pointers, Told, Opened
<1> QED
  BY <1>5, <1>7, <1>8, <1>9 DEF IInv

-----------------------------------------------------------------------------
\* The steps of a reload before there are new threads.
LEMMA PrepareStep ==
  ASSUME IInv, \/ LoadCfg \/ Digest \/ Compare \/ Build
               \/ \E r \in Request : Trigger(r)
  PROVE  IInv'
<1> USE DEF IInv, Serial, Generations, Replaced, Taken, Cleared, Pointers, Told,
            TypeOK, Works, Ended, Orphan, Waiting,
            Closed, Opened, Goto, Reply, Answer, diskVars, threadVars, stopVars,
            servedVars, taskVars
<1>1. CASE LoadCfg
  BY <1>1 DEF LoadCfg
<1>2. CASE Digest
  BY <1>2 DEF Digest
<1>3. CASE Compare
  BY <1>3, NoOneAssumption DEF Compare
<1>4. CASE Build
  BY <1>4, NoOneAssumption DEF Build
<1>5. ASSUME NEW r \in Request, Trigger(r) PROVE IInv'
  BY <1>5, NoOneAssumption DEF Trigger
<1> QED
  BY <1>1, <1>2, <1>3, <1>4, <1>5

LEMMA AssembleStep ==
  ASSUME IInv, Assemble
  PROVE  IInv'
<1> USE DEF IInv, Serial, Generations, Replaced, Taken, Cleared, Pointers, Told,
            TypeOK, Works, Ended, Orphan, Waiting,
            Closed, Opened, Goto, Reply, Answer, Life, Gen, stopVars, servedVars, taskVars,
            diskVars
<1>1. CASE Reply("bad") /\ UNCHANGED <<made, tla, pool>>
  BY <1>1, NoOneAssumption DEF Assemble
<1>2. CASE /\ made < MaxGen /\ made' = made + 1
           /\ tla' = [tla EXCEPT ![made + 1] = "held"]
           /\ pool' = [pool EXCEPT ![made + 1] = "held"]
           /\ Goto("handoff") /\ UNCHANGED <<answer, asker>>
  <2>1. made + 1 \in Gen /\ tasking # made + 1 /\ ~gate[made + 1]
    BY <1>2, BoundsAssumption
  <2>2. TypeOK'
    BY <1>2, <2>1, BoundsAssumption DEF Assemble
  <2>3. Serial' /\ Generations' /\ Taken'
    BY <1>2, <2>1, BoundsAssumption DEF Assemble
  <2>4. Replaced'
    BY <1>2, <2>1, BoundsAssumption DEF Assemble
  <2>5. Cleared'
    BY <1>2, <2>1, BoundsAssumption DEF Assemble
  <2>6. Pointers' /\ Told'
    BY <1>2, <2>1, BoundsAssumption DEF Assemble
  <2> QED
    BY <2>2, <2>3, <2>4, <2>5, <2>6
<1>3. CASE /\ made < MaxGen /\ made' = made + 1
           /\ pool' = [pool EXCEPT ![made + 1] = "held"]
           /\ Reply("bad") /\ UNCHANGED tla
  <2>1. made + 1 \in Gen /\ tasking # made + 1 /\ ~gate[made + 1]
    BY <1>3, BoundsAssumption
  <2>2. TypeOK'
    BY <1>3, <2>1, BoundsAssumption DEF Assemble
  <2>3. Serial' /\ Generations' /\ Taken'
    BY <1>3, <2>1, BoundsAssumption, NoOneAssumption DEF Assemble
  <2>4. Replaced'
    BY <1>3, <2>1, BoundsAssumption DEF Assemble
  <2>5. Cleared'
    BY <1>3, <2>1, BoundsAssumption DEF Assemble
  <2>6. Pointers' /\ Told'
    BY <1>3, <2>1, BoundsAssumption, NoOneAssumption DEF Assemble
  <2> QED
    BY <2>2, <2>3, <2>4, <2>5, <2>6
<1> QED
  BY <1>1, <1>2, <1>3 DEF Assemble

\* The old generation is told and waited for, the new one wound up.
LEMMA WaitStep ==
  ASSUME IInv, Handoff \/ StopOld \/ OldStopped \/ TimeOut \/ Aborted \/ DropRuntime
  PROVE  IInv'
<1> USE DEF IInv, Serial, Generations, Replaced, Taken, Cleared, Pointers, Told,
            TypeOK, Works, Ended, Orphan, Waiting,
            Closed, Opened, Goto, Reply, Answer, diskVars, threadVars, stopVars,
            servedVars, taskVars, reloadVars
<1>1. CASE Handoff
  <2>1. TypeOK'
    BY <1>1 DEF Handoff
  <2>2. Serial' /\ Generations'
    BY <1>1 DEF Handoff
  <2>3. Replaced' /\ Taken'
    BY <1>1 DEF Handoff
  <2>4. Cleared' /\ Pointers'
    BY <1>1 DEF Handoff
  <2>5. Told'
    BY <1>1 DEF Handoff
  <2> QED
    BY <2>1, <2>2, <2>3, <2>4, <2>5
<1>2. CASE StopOldPool
  BY <1>2 DEF StopOldPool
<1>3. CASE StopOldSup
  BY <1>3 DEF StopOldSup
<1>4. CASE OldStopped
  BY <1>4 DEF OldStopped
<1>5. CASE TimeOut
  <2>1. TypeOK'
    BY <1>5 DEF TimeOut
  <2>2. Serial' /\ Generations'
    BY <1>5 DEF TimeOut
  <2>3. Replaced' /\ Taken'
    BY <1>5 DEF TimeOut
  <2>4. Cleared' /\ Pointers'
    BY <1>5 DEF TimeOut
  <2>5. Told'
    BY <1>5 DEF TimeOut, Gen
  <2> QED
    BY <2>1, <2>2, <2>3, <2>4, <2>5
<1>6. CASE Aborted
  BY <1>6 DEF Aborted
<1>7. CASE DropRuntime
  BY <1>7, NoOneAssumption DEF DropRuntime
<1> QED
  BY <1>1, <1>2, <1>3, <1>4, <1>5, <1>6, <1>7 DEF StopOld

\* The new generation is put in charge.
LEMMA CommitStep ==
  ASSUME IInv, OpenGate \/ Commit \/ Record \/ PointFlag
  PROVE  IInv'
<1> USE DEF IInv, Serial, Generations, Replaced, Taken, Cleared, Pointers, Told,
            TypeOK, Works, Ended, Orphan, Waiting,
            Closed, Opened, Goto, Reply, Answer, diskVars, threadVars, stopVars,
            servedVars, taskVars, reloadVars
<1>1. CASE OpenGate
  BY <1>1, BoundsAssumption DEF OpenGate, Gen
<1>2. CASE Commit
  BY <1>2 DEF Commit
<1>3. CASE Record
  <2>1. TypeOK'
    BY <1>3, BoundsAssumption DEF Record, Gen
  <2>2. Serial' /\ Generations'
    BY <1>3, BoundsAssumption DEF Record, Gen
  <2>3. Replaced' /\ Taken'
    BY <1>3, BoundsAssumption DEF Record, Gen
  <2>4. Cleared' /\ Pointers'
    BY <1>3, BoundsAssumption DEF Record, Gen
  <2>5. Told'
    BY <1>3, BoundsAssumption DEF Record, Gen
  <2> QED
    BY <2>1, <2>2, <2>3, <2>4, <2>5
<1>4. CASE PointFlag
  BY <1>4, NoOneAssumption DEF PointFlag
<1> QED
  BY <1>1, <1>2, <1>3, <1>4

\* The task threads: to work needs an open gate, and what has ended stays so.
LEMMA ThreadStep ==
  ASSUME IInv, NEW g \in Gen, TlaThread(g) \/ PoolThread(g)
  PROVE  IInv'
<1> USE DEF IInv, Serial, Generations, Replaced, Taken, Cleared, Pointers, Told,
            TypeOK, Works, Ended, Orphan, Waiting,
            Closed, Opened, Life, diskVars, stopVars, servedVars, taskVars, reloadVars
<1>1. CASE TlaThread(g)
  BY <1>1 DEF TlaThread
<1>2. CASE PoolThread(g)
  BY <1>2 DEF PoolThread
<1> QED
  BY <1>1, <1>2

LEMMA OtherStep ==
  ASSUME IInv, Edit \/ Signal \/ Main \/ UNCHANGED vars
  PROVE  IInv'
<1> USE DEF IInv, Serial, Generations, Replaced, Taken, Cleared, Pointers, Told,
            TypeOK, Works, Ended, Orphan, Waiting,
            Closed, Opened, diskVars, threadVars, stopVars, servedVars, taskVars, reloadVars
<1>1. CASE Edit
  BY <1>1, BoundsAssumption DEF Edit
<1>2. CASE Signal
  <2>1. TypeOK'
    BY <1>2 DEF Signal
  <2>2. Serial' /\ Generations'
    BY <1>2 DEF Signal
  <2>3. Replaced' /\ Taken'
    BY <1>2 DEF Signal
  <2>4. Cleared' /\ Pointers'
    BY <1>2 DEF Signal
  <2>5. Told'
    BY <1>2 DEF Signal, Gen
  <2> QED
    BY <2>1, <2>2, <2>3, <2>4, <2>5
<1>3. CASE Drained
  <2>1. TypeOK'
    BY <1>3 DEF Drained
  <2>2. Serial' /\ Generations'
    BY <1>3 DEF Drained
  <2>3. Replaced'
    BY <1>3 DEF Drained
  <2>4. Taken'
    BY <1>3 DEF Drained
  <2>5. Cleared'
    BY <1>3 DEF Drained
  <2>6. Pointers'
    BY <1>3 DEF Drained
  <2>7. Told'
    BY <1>3 DEF Drained, Gen
  <2> QED
    BY <2>1, <2>2, <2>3, <2>4, <2>5, <2>6, <2>7
<1>4. CASE JoinTla
  <2>1. TypeOK' /\ Serial' /\ Generations'
    BY <1>4 DEF JoinTla
  <2>2. Replaced' /\ Taken'
    BY <1>4 DEF JoinTla
  <2>3. Cleared' /\ Pointers'
    BY <1>4 DEF JoinTla
  <2>4. Told'
    BY <1>4 DEF JoinTla, Gen
  <2> QED
    BY <2>1, <2>2, <2>3, <2>4
<1>5. CASE JoinPool
  <2>1. TypeOK' /\ Serial' /\ Generations'
    BY <1>5 DEF JoinPool
  <2>2. Replaced' /\ Taken'
    BY <1>5 DEF JoinPool
  <2>3. Cleared' /\ Pointers'
    BY <1>5 DEF JoinPool
  <2>4. Told'
    BY <1>5 DEF JoinPool
  <2> QED
    BY <2>1, <2>2, <2>3, <2>4
<1>6. CASE UNCHANGED vars
  BY <1>6 DEF vars
<1> QED
  BY <1>1, <1>2, <1>3, <1>4, <1>5, <1>6 DEF Main

LEMMA NextHolds == IInv /\ [Next]_vars => IInv'
BY PrepareStep, AssembleStep, WaitStep, CommitStep, ThreadStep, OtherStep
DEF Next, Reload

-----------------------------------------------------------------------------
\* The types, for every number of requests, contents and generations.
THEOREM TypeCorrect == Spec => []TypeOK
<1>1. IInv => TypeOK
  BY DEF IInv
<1> QED
  BY InitHolds, NextHolds, <1>1, PTL DEF Spec

\* The gate of do_reload leaves no moment in which two generations work.
THEOREM OneAtATime == Spec => []NoTwoGenerationsWork
<1>1. IInv => NoTwoGenerationsWork
  BY DEF IInv, Replaced, Generations, Opened, Closed, Ended, Works, NoTwoGenerationsWork
<1> QED
  BY InitHolds, NextHolds, <1>1, PTL DEF Spec

\* A reload leaves no thread of another generation, however it ended
\* (abort_tasking, and the drop of the reload's runtime).
THEOREM LeavesNoThread == Spec => []NoThreadLeftBehind
<1>1. IInv => NoThreadLeftBehind
  BY DEF IInv, Cleared, Orphan, Serial, Closed, Opened, Waiting, NoThreadLeftBehind
<1> QED
  BY InitHolds, NextHolds, <1>1, PTL DEF Spec

\* A reload moves router, tasks and flag together or not at all (do_reload).
THEOREM MovesTogether == Spec => []OneGeneration
<1>1. IInv => OneGeneration
  BY DEF IInv, Pointers, Told, Serial, Opened, Waiting, OneGeneration
<1> QED
  BY InitHolds, NextHolds, <1>1, PTL DEF Spec

-----------------------------------------------------------------------------
(* The digest on record.  A reload that has read config.yaml twice without *)
(* an edit between runs what it digests; between the swap of the router    *)
(* and the record of the digest the two differ.                            *)

HasRead == {"compare", "build", "assemble"} \cup Closed \cup Opened

Digests ==
  ~torn =>
    /\ running = IF pc = "record" THEN cfg ELSE current
    /\ pc \in HasRead => doc = cfg

LEMMA NextDigests == ASSUME IInv, Digests, [Next]_vars PROVE Digests'
<1> USE DEF Digests, HasRead, Closed, Waiting, Opened
<1>1. ASSUME UNCHANGED <<servedVars, cfg, doc, pc, torn>>
      PROVE  Digests'
  BY <1>1 DEF servedVars
<1>2. ASSUME NEW p, UNCHANGED <<servedVars, cfg, doc, torn>>, pc' = p,
             p # "record", pc # "record", p \in HasRead => pc \in HasRead
      PROVE  Digests'
  BY <1>2 DEF servedVars
<1>3. ASSUME NEW r \in Request, Trigger(r)
      PROVE  Digests'
  BY <1>1, <1>2, <1>3 DEF Trigger, Goto, IInv, Serial
<1>4. CASE Reload
  <2>1. CASE LoadCfg
    BY <2>1, <1>2 DEF LoadCfg, Goto, servedVars
  <2>2. CASE Digest
    BY <2>2 DEF Digest, Goto, servedVars
  <2>3. CASE Compare \/ Build
    BY <1>2, <2>3 DEF Compare, Build, Goto, Reply
  <2>4. CASE Assemble \/ Handoff \/ OldStopped \/ TimeOut \/ Aborted \/ DropRuntime \/ OpenGate
    BY <1>2, <2>4
       DEF Assemble, Handoff, OldStopped, TimeOut, Aborted, DropRuntime, OpenGate, Goto, Reply
  <2>5. CASE Commit
    BY <2>5 DEF Commit, Goto
  <2>6. CASE Record
    BY <2>6 DEF Record, Goto
  <2>7. CASE PointFlag
    BY <1>2, <2>7 DEF PointFlag, Goto, Reply
  <2>8. QED
    BY <1>4, <2>1, <2>2, <2>3, <2>4, <2>5, <2>6, <2>7 DEF Reload
<1>5. QED
  BY <1>1, <1>3, <1>4
     DEF Next, Edit, Signal, StopOld, StopOldPool, StopOldSup, Main, Drained, JoinTla, JoinPool,
         TlaThread, PoolThread, reloadVars, vars

\* The digest current_sha stands for is that of the configuration that runs, so
\* "unchanged" is true when it is answered (do_reload records the digest of its second
\* reading after commit, and no refusal records anything).
THEOREM TellsTheTruth == Spec => []UnchangedIsTrue
<1>1. Init => IInv /\ Digests
  BY InitHolds DEF Init, Digests, HasRead, Closed, Waiting, Opened
<1>2. IInv /\ Digests /\ [Next]_vars => (IInv /\ Digests)'
  BY NextHolds, NextDigests
<1>3. IInv /\ Digests => UnchangedIsTrue
  BY DEF IInv, Serial, Digests, UnchangedIsTrue
<1>4. QED
  BY <1>1, <1>2, <1>3, PTL DEF Spec
=============================================================================
