----------------------------- MODULE CronDriver -----------------------------
(***************************************************************************)
(* The thread that turns crontab entries into jobs (spawn_cron_driver of   *)
(* src/oj/src/tasks.rs) and the API requests that change the entries under *)
(* it (src/serve/src/tasks.rs).  The driver picks the entry with the       *)
(* earliest next_run, sleeps until then, reads the entry again, moves its  *)
(* next_run on and only then submits the job.                              *)
(*                                                                         *)
(* Time is counted in minutes.  An expression is the set of minutes it     *)
(* matches (how it comes by them is module Cron), up to the horizon        *)
(* MaxTime; Never is the None of next_after.  Jobs are only counted by the *)
(* ghost last; what the pool does with them is module TaskPool.            *)
(* An operator named after another with a suffix is a mutated form of it,  *)
(* used by no specification.                                               *)
(***************************************************************************)
EXTENDS Naturals

CONSTANTS Entry,    \* names of the crontab entries
          Expr,     \* the expressions that occur, sets of minutes
          MaxTime   \* bound on the clock

\* The driver is started only if there is an entry.
ASSUME EntryAssumption == Entry # {}
ASSUME MaxTimeAssumption == MaxTime \in Nat
ASSUME ExprAssumption == Expr \subseteq SUBSET (1 .. MaxTime)

Never == MaxTime + 1
Minute == 0 .. MaxTime

VARIABLES now,        \* the system clock
          registered, \* the entries in the registry
          enabled,    \* TaskEntry.enabled
          expr,       \* TaskKind::Cron.expr
          nextRun,    \* TaskKind::Cron.next_run
          flag,       \* the stop flag of this generation
          resume,     \* the gate of this generation
          pc,         \* where the driver is
          entry,      \* the entry it chose
          wake,       \* the minute it sleeps to
          newNext,    \* what it will write back
          last        \* ghost: per entry, the minute of its last job

registryVars == <<registered, enabled, expr, nextRun>>
gateVars == <<flag, resume>>
driverVars == <<pc, entry, wake, newNext>>
vars == <<now, registryVars, gateVars, driverVars, last>>

TypeOK ==
  /\ now \in Minute
  /\ registered \in SUBSET Entry
  /\ enabled \in [Entry -> BOOLEAN]
  /\ expr \in [Entry -> Expr]
  /\ nextRun \in [Entry -> 1 .. Never]
  /\ flag \in BOOLEAN /\ resume \in BOOLEAN
  /\ pc \in {"top", "gate", "pick", "idle", "sleep", "due", "write", "submit", "gone"}
  /\ entry \in Entry
  /\ wake \in Minute
  /\ newNext \in 1 .. Never
  /\ last \in [Entry -> Minute]

\* next_after: the first match strictly later than t.
IsNext_inclusive(e, t, x) == x >= t /\ \A y \in e : y >= t => x <= y
IsNext(e, t, x) == x > t /\ \A y \in e : y > t => x <= y

NextAfter(e, t) ==
  IF \E x \in e : IsNext(e, t, x) THEN CHOOSE x \in e : IsNext(e, t, x) ELSE Never

\* assemble_tasking has registered the entries and starts the driver.
Init ==
  /\ now = 0
  /\ registered = Entry
  /\ enabled = [c \in Entry |-> TRUE]
  /\ expr \in [Entry -> Expr]
  /\ nextRun = [c \in Entry |-> NextAfter(expr[c], 0)]
  /\ flag = FALSE
  /\ resume \in BOOLEAN
  /\ pc = "top"
  /\ entry = CHOOSE c \in Entry : TRUE
  /\ wake = 0
  /\ newNext = Never
  /\ last = [c \in Entry |-> 0]

Tick ==
  /\ now < MaxTime
  /\ now' = now + 1
  /\ UNCHANGED <<registryVars, gateVars, driverVars, last>>

-----------------------------------------------------------------------------
(* Requests. *)

SetEnabled(c, on) ==
  /\ c \in registered
  /\ enabled' = [enabled EXCEPT ![c] = on]
  /\ UNCHANGED <<now, registered, expr, nextRun, gateVars, driverVars, last>>

\* PATCH cron: set_cron_expr.
SetCronExpr(c, e) ==
  /\ c \in registered
  /\ expr' = [expr EXCEPT ![c] = e]
  /\ nextRun' = [nextRun EXCEPT ![c] = NextAfter(e, now)]
  /\ UNCHANGED <<now, registered, enabled, gateVars, driverVars, last>>

Delete(c) ==
  /\ c \in registered
  /\ registered' = registered \ {c}
  /\ UNCHANGED <<now, enabled, expr, nextRun, gateVars, driverVars, last>>

OpenGate ==
  /\ ~resume
  /\ resume' = TRUE
  /\ UNCHANGED <<now, registryVars, flag, driverVars, last>>

RaiseFlag ==
  /\ ~flag
  /\ flag' = TRUE
  /\ UNCHANGED <<now, registryVars, resume, driverVars, last>>

-----------------------------------------------------------------------------
(* The driver. *)

Goto(p) == pc' = p

\* The top of the loop, and wait_gate.
Top ==
  /\ pc = "top"
  /\ Goto(IF flag THEN "gone" ELSE IF resume THEN "pick" ELSE "gate")
  /\ UNCHANGED <<now, registryVars, gateVars, entry, wake, newNext, last>>

LeaveGate ==
  /\ pc = "gate"
  /\ resume \/ flag
  /\ Goto(IF flag THEN "gone" ELSE "pick")
  /\ UNCHANGED <<now, registryVars, gateVars, entry, wake, newNext, last>>

\* The entries the driver chooses from.
Scheduled == {c \in registered : enabled[c] /\ nextRun[c] # Never}

Pick ==
  /\ pc = "pick"
  /\ \/ /\ Scheduled = {}
        /\ Goto("idle")
        /\ UNCHANGED <<entry, wake>>
     \/ \E c \in Scheduled :
          /\ \A d \in Scheduled : nextRun[c] <= nextRun[d]
          /\ entry' = c
          /\ wake' = nextRun[c]
          /\ Goto("sleep")
  /\ UNCHANGED <<now, registryVars, gateVars, newNext, last>>

\* The second-long sleep when nothing is scheduled, or the flag.
LeaveIdle ==
  /\ pc = "idle"
  /\ \/ Goto("top")
     \/ flag /\ Goto("gone")
  /\ UNCHANGED <<now, registryVars, gateVars, entry, wake, newNext, last>>

WakeUp_exact ==
  /\ pc = "sleep"
  /\ \/ now = wake /\ Goto("due")
     \/ flag /\ Goto("gone")
  /\ UNCHANGED <<now, registryVars, gateVars, entry, wake, newNext, last>>

WakeUp ==
  /\ pc = "sleep"
  /\ \/ now >= wake /\ Goto("due")
     \/ flag /\ Goto("gone")
  /\ UNCHANGED <<now, registryVars, gateVars, entry, wake, newNext, last>>

\* The entry is read again: gone or switched off, there is nothing to do.
Reread ==
  /\ pc = "due"
  /\ \/ /\ entry \in registered /\ enabled[entry]
        /\ newNext' = NextAfter(expr[entry], now)
        /\ Goto("write")
     \/ /\ ~(entry \in registered /\ enabled[entry])
        /\ Goto("top")
        /\ UNCHANGED newNext
  /\ UNCHANGED <<now, registryVars, gateVars, entry, wake, last>>

\* set_next_run, before the job is submitted.
WriteBack ==
  /\ pc = "write"
  /\ nextRun' = IF entry \in registered
                THEN [nextRun EXCEPT ![entry] = newNext] ELSE nextRun
  /\ Goto("submit")
  /\ UNCHANGED <<now, registered, enabled, expr, gateVars, entry, wake, newNext, last>>

Submit ==
  /\ pc = "submit"
  /\ last' = [last EXCEPT ![entry] = wake]
  /\ Goto("top")
  /\ UNCHANGED <<now, registryVars, gateVars, entry, wake, newNext>>

Driver == Top \/ LeaveGate \/ Pick \/ LeaveIdle \/ WakeUp \/ Reread \/ WriteBack \/ Submit

Request ==
  \/ \E c \in Entry : Delete(c) \/ (\E on \in BOOLEAN : SetEnabled(c, on))
                      \/ (\E e \in Expr : SetCronExpr(c, e))
  \/ OpenGate \/ RaiseFlag

Next == Tick \/ Request \/ Driver

Spec == Init /\ [][Next]_vars

\* The clock goes on and the driver thread runs.
FairSpec == Spec /\ WF_vars(Tick) /\ WF_vars(Driver)

-----------------------------------------------------------------------------
\* No minute of an entry is turned into a job twice, however late the driver is
\* and whatever happens to the entry meanwhile ("next_run is moved on first,
\* against triggering twice", comment on spawn_cron_driver).
NoDoubleTrigger == pc = "submit" => last[entry] < wake

\* Once the driver has decided on a minute, an entry it left in the registry is
\* scheduled for later: the job that follows cannot be overtaken by its repeat.
MovedOnFirst == pc = "submit" /\ entry \in registered => nextRun[entry] > wake
=============================================================================
