---------------------------- MODULE ExecRegistry ----------------------------
(***************************************************************************)
(* What all executions of the pool path share: the process-wide table that *)
(* db.cancel and a client's hang-up find them in (bridge/db_exec.rs), and  *)
(* the connections of the database's pool (sqlx, external: a connection    *)
(* that is closed makes room for a new one).                               *)
(*                                                                         *)
(* Abstracted: ids are random and owned, so the id of an execution is the  *)
(* execution, and whoever asks for one that is not theirs is told what a   *)
(* caller of an unknown id is told; audit.                                 *)
(***************************************************************************)
EXTENDS Naturals, FiniteSets

CONSTANTS
  Call,     \* calls of db.query and db.exec
  Stream,   \* streams of db.stream
  Conns     \* size of the pool

ASSUME RegistryAssumption ==
  /\ Call \cap Stream = {} /\ IsFiniteSet(Call \cup Stream)
  /\ Conns \in Nat \ {0}

VARIABLES
  table,    \* ids with an entry
  aged,     \* ids whose entry is, or was, older than EXEC_TTL
  done,     \* ids whose handle says done
  idle      \* connections nobody holds

registry == <<table, aged, done>>

Id == Call \cup Stream

RegistryTypeOK ==
  /\ table \subseteq Id /\ aged \subseteq Id /\ done \subseteq Id
  /\ idle \in 0..Conns

RegistryInit == table = {} /\ aged = {} /\ done = {} /\ idle = Conns

-----------------------------------------------------------------------------
\* insert: every registration sweeps what is done or too old.
Insert_finished(i) == table' = {j \in table \ aged : j \in done} \cup {i}
Insert(i) == table' = {j \in table \ aged : j \notin done} \cup {i}

Remove(i) == table' = table \ {i}

\* EXEC_TTL passes (bound: once).
DayPasses == aged = {} /\ aged' = table /\ UNCHANGED <<table, done, idle>>

\* The connection pool: acquire, and a connection that is given back or closed.
Take == idle > 0 /\ idle' = idle - 1
Give == idle' = idle + 1
=============================================================================
