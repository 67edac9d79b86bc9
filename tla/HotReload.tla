----------------------------- MODULE HotReload ------------------------------
(***************************************************************************)
(* Replacing the running configuration: POST _system/config and its lock   *)
(* (src/serve/src/reload.rs), do_reload and the shutdown of a server with  *)
(* hot reload (src/oj/src/serve_cmd.rs), and the gates and stop flags of   *)
(* the task threads (src/oj/src/tasks.rs).                                 *)
(*   - A reload reads config.yaml, assembles a generation of task threads  *)
(*     held behind a gate, stops the threads of the one before, opens the  *)
(*     gate, and puts the new router in place.                             *)
(*   - It waits ten seconds for the old threads.  If they are still there  *)
(*     it winds up the generation it assembled and is refused.  Its        *)
(*     runtime, when dropped, waits for the old threads all the same.      *)
(*   - SIGTERM raises the stop flag the context points at.  When the HTTP  *)
(*     side has drained, main waits for the threads of the last generation.*)
(* A generation's task supervisor (one thread per resident task) and its   *)
(* TaskPool count as one thread each.  Left out: the manifests lock files  *)
(* (a second part of the digest), certificates, the three lists of the     *)
(* answer, the cron driver (module CronDriver; it holds no work itself).   *)
(* An operator named after another with a suffix is a mutated form of it,  *)
(* used by no specification.                                               *)
(***************************************************************************)
EXTENDS Naturals

CONSTANTS Request,   \* the POST requests
          Config,    \* the contents config.yaml may have
          Refused,   \* those from which no App can be built
          MaxGen,    \* bound on the generations assembled
          MaxEdits,  \* bound on edits of config.yaml
          NoOne      \* nobody holds reload_lock

ASSUME ConfigAssumption == Refused \subseteq Config /\ Config \ Refused # {}
ASSUME BoundsAssumption == MaxGen \in Nat /\ MaxEdits \in Nat
ASSUME NoOneAssumption == NoOne \notin Request

Gen == 0 .. MaxGen

VARIABLES disk, edits,  \* config.yaml, and the edits made so far
          answer,       \* per request, what it was answered
          asker,        \* the request that holds reload_lock
          pc,           \* where do_reload is
          cfg, doc,     \* what it read, to run and to digest
          made,         \* the generation assembled last
          flag,         \* per generation, the stop flag of its task threads
          gate,         \* per generation, resume
          told,         \* per generation, TaskPool.shutdown
          tla, pool,    \* per generation, its supervisor's threads, its pool's
          stopping,     \* where stop_old is
          stopsSup,     \* stop_old was given the supervisor
          router,       \* the generation whose router is in place
          running,      \* the configuration that router was built from
          current,      \* current_doc and current_sha
          tasking,      \* the generation in ctx.tasking
          hasSup,       \* ctx.tasking still holds the supervisor
          taskFlag,     \* the generation current_task_flag points at
          main,         \* where the main task is
          torn          \* ghost: an edit came between the two reads of a reload

diskVars == <<disk, edits>>
reloadVars == <<answer, asker, pc, cfg, doc, made>>
threadVars == <<flag, gate, told, tla, pool>>
stopVars == <<stopping, stopsSup>>
servedVars == <<router, running, current>>
taskVars == <<tasking, hasSup, taskFlag>>
vars == <<diskVars, reloadVars, threadVars, stopVars, servedVars, taskVars, main, torn>>

Life == {"none", "held", "working", "gone"}
Answer == {"none", "busy", "bad", "unchanged", "ok", "timeout"}

TypeOK ==
  /\ disk \in Config /\ edits \in 0 .. MaxEdits
  /\ answer \in [Request -> Answer]
  /\ asker \in Request \cup {NoOne}
  /\ pc \in {"idle", "load", "digest", "compare", "build", "assemble", "handoff",
             "wait", "abort", "drop", "open", "commit", "record", "point"}
  /\ cfg \in Config /\ doc \in Config
  /\ made \in Gen
  /\ flag \in [Gen -> BOOLEAN] /\ gate \in [Gen -> BOOLEAN] /\ told \in [Gen -> BOOLEAN]
  /\ tla \in [Gen -> Life] /\ pool \in [Gen -> Life]
  /\ stopping \in {"idle", "pool", "sup"} /\ stopsSup \in BOOLEAN
  /\ router \in Gen /\ running \in Config \ Refused /\ current \in Config
  /\ tasking \in Gen /\ hasSup \in BOOLEAN /\ taskFlag \in Gen
  /\ main \in {"up", "draining", "tla", "pool", "exited"}
  /\ torn \in BOOLEAN

\* serve has assembled the first generation behind an open gate, and the context.
Init ==
  /\ disk \in Config \ Refused /\ edits = 0
  /\ answer = [r \in Request |-> "none"] /\ asker = NoOne
  /\ pc = "idle" /\ cfg = disk /\ doc = disk /\ made = 0
  /\ flag = [g \in Gen |-> FALSE] /\ told = [g \in Gen |-> FALSE]
  /\ gate = [g \in Gen |-> g = 0]
  /\ tla = [g \in Gen |-> IF g = 0 THEN "held" ELSE "none"]
  /\ pool = [g \in Gen |-> IF g = 0 THEN "held" ELSE "none"]
  /\ stopping = "idle" /\ stopsSup = FALSE
  /\ router = 0 /\ running = disk /\ current = disk
  /\ tasking = 0 /\ hasSup = TRUE /\ taskFlag = 0
  /\ main = "up" /\ torn = FALSE

Edit ==
  /\ edits < MaxEdits
  /\ edits' = edits + 1
  /\ disk' \in Config \ {disk}
  /\ UNCHANGED <<reloadVars, threadVars, stopVars, servedVars, taskVars, main, torn>>

-----------------------------------------------------------------------------
(* A reload. *)

Goto(p) == pc' = p

\* do_reload returns: the thread ends, the handler answers and drops the lock.
Reply(a) ==
  /\ answer' = [answer EXCEPT ![asker] = a]
  /\ asker' = NoOne
  /\ Goto("idle")

\* trigger.  A request that arrived before SIGTERM may still get here after it.
Trigger(r) ==
  /\ answer[r] = "none" /\ asker # r
  /\ main \in {"up", "draining"}
  /\ \/ /\ asker = NoOne
        /\ asker' = r
        /\ Goto("load")
        /\ UNCHANGED answer
     \/ /\ asker # NoOne
        /\ answer' = [answer EXCEPT ![r] = "busy"]
        /\ UNCHANGED <<asker, pc>>
  /\ UNCHANGED <<diskVars, cfg, doc, made, threadVars, stopVars, servedVars, taskVars, main, torn>>

LoadCfg ==
  /\ pc = "load"
  /\ cfg' = disk
  /\ Goto("digest")
  /\ UNCHANGED <<diskVars, answer, asker, doc, made,
                 threadVars, stopVars, servedVars, taskVars, main, torn>>

\* The file is read a second time, for its digest.
Digest ==
  /\ pc = "digest"
  /\ doc' = disk
  /\ torn' = (torn \/ disk # cfg)
  /\ Goto("compare")
  /\ UNCHANGED <<diskVars, answer, asker, cfg, made,
                 threadVars, stopVars, servedVars, taskVars, main>>

\* The force parameter of the request skips the comparison.
Compare ==
  /\ pc = "compare"
  /\ \/ doc = current /\ Reply("unchanged")
     \/ Goto("build") /\ UNCHANGED <<answer, asker>>
  /\ UNCHANGED <<diskVars, cfg, doc, made, threadVars, stopVars, servedVars, taskVars, main, torn>>

\* App::from_config.
Build ==
  /\ pc = "build"
  /\ \/ cfg \in Refused /\ Reply("bad")
     \/ cfg \notin Refused /\ Goto("assemble") /\ UNCHANGED <<answer, asker>>
  /\ UNCHANGED <<diskVars, cfg, doc, made, threadVars, stopVars, servedVars, taskVars, main, torn>>

\* assemble_tasking: the threads of the new generation, held; or an error before
\* any has started; or one after the pool has, when a thread of the cron driver
\* or the supervisor cannot be started: the pool is dropped and stays at its gate
\* (what becomes of its flag nobody is left to see).
Assemble ==
  /\ pc = "assemble"
  /\ \/ /\ made < MaxGen
        /\ made' = made + 1
        /\ pool' = [pool EXCEPT ![made + 1] = "held"]
        /\ \/ /\ tla' = [tla EXCEPT ![made + 1] = "held"]
              /\ Goto("handoff")
              /\ UNCHANGED <<answer, asker>>
           \/ Reply("bad") /\ UNCHANGED tla
     \/ Reply("bad") /\ UNCHANGED <<made, tla, pool>>
  /\ UNCHANGED <<diskVars, cfg, doc, flag, gate, told, stopVars, servedVars, taskVars, main, torn>>

\* The old flag is raised, the old pool is told and stop_old waits for both.
Handoff_flagless ==
  /\ pc = "handoff"
  /\ told' = [told EXCEPT ![tasking] = TRUE]
  /\ stopping' = "pool" /\ stopsSup' = hasSup
  /\ hasSup' = FALSE
  /\ Goto("wait")
  /\ UNCHANGED <<diskVars, answer, asker, cfg, doc, made, flag, gate, tla, pool,
                 servedVars, tasking, taskFlag, main, torn>>

Handoff ==
  /\ pc = "handoff"
  /\ flag' = [flag EXCEPT ![taskFlag] = TRUE]
  /\ told' = [told EXCEPT ![tasking] = TRUE]
  /\ stopping' = "pool" /\ stopsSup' = hasSup
  /\ hasSup' = FALSE
  /\ Goto("wait")
  /\ UNCHANGED <<diskVars, answer, asker, cfg, doc, made, gate, tla, pool,
                 servedVars, tasking, taskFlag, main, torn>>

\* The steps of stop_old, on a blocking thread of the reload's runtime.
StopOldPool ==
  /\ stopping = "pool" /\ pool[tasking] = "gone"
  /\ stopping' = IF stopsSup THEN "sup" ELSE "idle"
  /\ UNCHANGED <<diskVars, reloadVars, threadVars, stopsSup, servedVars, taskVars, main, torn>>

StopOldSup ==
  /\ stopping = "sup" /\ tla[tasking] = "gone"
  /\ stopping' = "idle"
  /\ UNCHANGED <<diskVars, reloadVars, threadVars, stopsSup, servedVars, taskVars, main, torn>>

OldStopped ==
  /\ pc = "wait" /\ stopping = "idle"
  /\ Goto("open")
  /\ UNCHANGED <<diskVars, answer, asker, cfg, doc, made,
                 threadVars, stopVars, servedVars, taskVars, main, torn>>

\* Ten seconds have passed: abort_tasking winds up the new generation.
TimeOut ==
  /\ pc = "wait" /\ stopping # "idle"
  /\ flag' = [flag EXCEPT ![made] = TRUE]
  /\ told' = [told EXCEPT ![made] = TRUE]
  /\ Goto("abort")
  /\ UNCHANGED <<diskVars, answer, asker, cfg, doc, made, gate, tla, pool,
                 stopVars, servedVars, taskVars, main, torn>>

Aborted_detached ==
  /\ pc = "abort"
  /\ Goto("drop")
  /\ UNCHANGED <<diskVars, answer, asker, cfg, doc, made,
                 threadVars, stopVars, servedVars, taskVars, main, torn>>

Aborted ==
  /\ pc = "abort" /\ pool[made] = "gone" /\ tla[made] = "gone"
  /\ Goto("drop")
  /\ UNCHANGED <<diskVars, answer, asker, cfg, doc, made,
                 threadVars, stopVars, servedVars, taskVars, main, torn>>

\* The runtime is dropped, which waits for stop_old.
DropRuntime_background ==
  /\ pc = "drop"
  /\ Reply("timeout")
  /\ UNCHANGED <<diskVars, cfg, doc, made, threadVars, stopVars, servedVars, taskVars, main, torn>>

DropRuntime ==
  /\ pc = "drop" /\ stopping = "idle"
  /\ Reply("timeout")
  /\ UNCHANGED <<diskVars, cfg, doc, made, threadVars, stopVars, servedVars, taskVars, main, torn>>

OpenGate ==
  /\ pc = "open"
  /\ gate' = [gate EXCEPT ![made] = TRUE]
  /\ Goto("commit")
  /\ UNCHANGED <<diskVars, answer, asker, cfg, doc, made, flag, told, tla, pool,
                 stopVars, servedVars, taskVars, main, torn>>

\* Committer::commit, the swap of the router.
Commit ==
  /\ pc = "commit"
  /\ router' = made /\ running' = cfg
  /\ Goto("record")
  /\ UNCHANGED <<diskVars, answer, asker, cfg, doc, made,
                 threadVars, stopVars, current, taskVars, main, torn>>

Record_undigested ==
  /\ pc = "record"
  /\ tasking' = made /\ hasSup' = TRUE
  /\ Goto("point")
  /\ UNCHANGED <<diskVars, answer, asker, cfg, doc, made,
                 threadVars, stopVars, servedVars, taskFlag, main, torn>>

Record ==
  /\ pc = "record"
  /\ current' = doc
  /\ tasking' = made /\ hasSup' = TRUE
  /\ Goto("point")
  /\ UNCHANGED <<diskVars, answer, asker, cfg, doc, made,
                 threadVars, stopVars, router, running, taskFlag, main, torn>>

\* current_task_flag is pointed at the new generation's flag.
PointFlag_never ==
  /\ pc = "point"
  /\ Reply("ok")
  /\ UNCHANGED <<diskVars, cfg, doc, made, threadVars, stopVars, servedVars, taskVars, main, torn>>

PointFlag ==
  /\ pc = "point"
  /\ taskFlag' = made
  /\ Reply("ok")
  /\ UNCHANGED <<diskVars, cfg, doc, made, threadVars, stopVars, servedVars,
                 tasking, hasSup, main, torn>>

Reload == LoadCfg \/ Digest \/ Compare \/ Build \/ Assemble \/ Handoff \/ OldStopped
          \/ TimeOut \/ Aborted \/ DropRuntime \/ OpenGate \/ Commit \/ Record \/ PointFlag
StopOld == StopOldPool \/ StopOldSup

-----------------------------------------------------------------------------
(* The task threads. *)

\* hold_for_gate, then task_loop until the flag is up (run_task bounds its grace).
TlaThread(g) ==
  /\ \/ /\ tla[g] = "held"
        /\ \/ gate[g] /\ tla' = [tla EXCEPT ![g] = "working"]
           \/ ~gate[g] /\ flag[g] /\ tla' = [tla EXCEPT ![g] = "gone"]
     \/ /\ tla[g] = "working" /\ flag[g]
        /\ tla' = [tla EXCEPT ![g] = "gone"]
  /\ UNCHANGED <<diskVars, reloadVars, flag, gate, told, pool,
                 stopVars, servedVars, taskVars, main, torn>>

\* The gate of spawn_worker, then worker_main until the pool is shut down.
PoolThread(g) ==
  /\ \/ /\ pool[g] = "held"
        /\ \/ gate[g] /\ pool' = [pool EXCEPT ![g] = "working"]
           \/ ~gate[g] /\ told[g] /\ pool' = [pool EXCEPT ![g] = "gone"]
     \/ /\ pool[g] = "working" /\ told[g]
        /\ pool' = [pool EXCEPT ![g] = "gone"]
  /\ UNCHANGED <<diskVars, reloadVars, flag, gate, told, tla,
                 stopVars, servedVars, taskVars, main, torn>>

-----------------------------------------------------------------------------
(* Shutdown. *)

\* shutdown_signal: the flag current_task_flag points at.
Signal ==
  /\ main = "up"
  /\ flag' = [flag EXCEPT ![taskFlag] = TRUE]
  /\ main' = "draining"
  /\ UNCHANGED <<diskVars, reloadVars, gate, told, tla, pool, stopVars, servedVars, taskVars, torn>>

\* The requests in flight have been answered; main takes the supervisor.
Drained ==
  /\ main = "draining" /\ asker = NoOne
  /\ hasSup' = FALSE
  /\ main' = IF hasSup THEN "tla" ELSE "pool"
  /\ told' = IF hasSup THEN told ELSE [told EXCEPT ![tasking] = TRUE]
  /\ UNCHANGED <<diskVars, reloadVars, flag, gate, tla, pool, stopVars, servedVars,
                 tasking, taskFlag, torn>>

JoinTla ==
  /\ main = "tla" /\ tla[tasking] = "gone"
  /\ told' = [told EXCEPT ![tasking] = TRUE]
  /\ main' = "pool"
  /\ UNCHANGED <<diskVars, reloadVars, flag, gate, tla, pool, stopVars, servedVars, taskVars, torn>>

JoinPool ==
  /\ main = "pool" /\ pool[tasking] = "gone"
  /\ main' = "exited"
  /\ UNCHANGED <<diskVars, reloadVars, threadVars, stopVars, servedVars, taskVars, torn>>

Main == Drained \/ JoinTla \/ JoinPool

Next ==
  \/ Edit \/ Signal
  \/ \E r \in Request : Trigger(r)
  \/ Reload \/ StopOld \/ Main
  \/ \E g \in Gen : TlaThread(g) \/ PoolThread(g)

Spec == Init /\ [][Next]_vars

\* Every thread that can run does; a reload that waits sees the old threads gone
\* or the ten seconds pass.
FairSpec ==
  /\ Spec
  /\ WF_vars(Reload) /\ WF_vars(StopOld) /\ WF_vars(Main)
  /\ \A g \in Gen : WF_vars(TlaThread(g)) /\ WF_vars(PoolThread(g))
-----------------------------------------------------------------------------
Works(g) == tla[g] = "working" \/ pool[g] = "working"

\* Resident tasks and jobs run in one generation at a time, through refused and
\* repeated reloads ("no window in which the old and the new pool both run",
\* comment on the gate in do_reload).
NoTwoGenerationsWork == \A g, h \in Gen : Works(g) /\ Works(h) => g = h

\* The pool of a generation whose assembly failed, held for ever.
Orphan(g) == tla[g] = "none" /\ pool[g] = "held"

\* Between two reloads no other generation has a thread left, neither held nor
\* working, whichever way the last ones ended (comment on abort_tasking), but
\* for the pools that a failed assembly leaves at their gates.
NoThreadLeftBehind ==
  asker = NoOne =>
    \A g \in Gen : {tla[g], pool[g]} \cap {"held", "working"} # {} =>
      g = tasking \/ Orphan(g)

\* Between two reloads router, tasks and SIGTERM's flag are of one generation,
\* and one whose supervisor has not been taken has not been told to stop: a
\* refusal moves no pointer (comment on commit), a success moves all.
OneGeneration ==
  asker = NoOne =>
    /\ router = tasking /\ taskFlag = tasking /\ gate[tasking]
    /\ main = "up" /\ hasSup => ~flag[tasking] /\ ~told[tasking]
    /\ (\A r \in Request : answer[r] # "timeout") /\ main = "up" => hasSup

\* The digest on record is that of the configuration that runs, so "unchanged"
\* is true when it is answered; an edit in the middle of a reload set aside.
UnchangedIsTrue == asker = NoOne /\ ~torn => running = current

-----------------------------------------------------------------------------
\* Every reload is answered, timed out or not, as long as the old tasks do stop
\* when told: reload_lock is not held for ever.
ReloadAnswered == \A r \in Request : asker = r ~> asker # r

\* SIGTERM stops the generation that runs, always (comment on shutdown_signal).
SigtermStops == main = "draining" ~> main = "exited"
=============================================================================
