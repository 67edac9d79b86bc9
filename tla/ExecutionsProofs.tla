-------------------------- MODULE ExecutionsProofs --------------------------
(***************************************************************************)
(* Type correctness and safety of Executions for any finite sets of calls  *)
(* and streams, any size of the pool and any row cap.                      *)
(***************************************************************************)
EXTENDS Executions, FiniteSetTheorems, TLAPS

-----------------------------------------------------------------------------
(* The inductive invariant.                                                *)
(*                                                                         *)
(* What is said of a call rests on the order of its life: it has not begun *)
(* while its caller is idle, its caller does not wait before it has, its   *)
(* handle says done only once its task is over, and its caller has no      *)
(* answer before it is answered (InOrder).  A sweep therefore takes        *)
(* nobody's entry but that of a task that is over, or a day old.           *)
(* A query is not sent before it has looked at the flag with its           *)
(* connection in hand (Looked).  Of a stream, rows delivered and pulls in  *)
(* flight are bounded together (Capped), which bounds the former.          *)

InOrder(e) ==
  /\ x[e].caller = "idle" => x[e].body = "off"
  /\ x[e].body = "off" => x[e].caller \in {"idle", "gone"}
  /\ e \in done => x[e].body = "over"
  /\ x[e].caller # "answered" => x[e].answer = "none"

OwnHangUp(e) ==
  x[e].mode = "spawned" /\ x[e].flag # "no" => x[e].link = "swept" \/ x[e].answer = "timeout"

Looked(e) ==
  x[e].kind = "query" =>
    /\ x[e].flag = "early" => ~x[e].sent
    /\ x[e].body \in {"off", "new", "line"} => ~x[e].sent
    /\ x[e].body = "gap" => x[e].flag # "early"

Capped(s) ==
  /\ y[s].delivered + y[s].pulls <= RowCap + Pulls
  /\ s \notin done => y[s].delivered <= RowCap

StreamSound(s) == Capped(s) /\ (y[s].user = "idle" => y[s].pump = "off")

CallSound(e) == InOrder(e) /\ CallEntry(e) /\ OwnHangUp(e) /\ Looked(e)
CallsSound == \A e \in Call : CallSound(e)
StreamsSound == \A s \in Stream : StreamSound(s) /\ StreamEntry(s)

Inv == TypeOK /\ ConnsAreCounted /\ CallsSound /\ StreamsSound

-----------------------------------------------------------------------------
(* Records keep their type. *)

LEMMA FiredType ==
  ASSUME NEW c \in CallRecord
  PROVE  /\ Fired(c) \in CallRecord
         /\ Fired(c).body = c.body /\ Fired(c).caller = c.caller
         /\ Fired(c).answer = c.answer /\ Fired(c).link = c.link /\ Fired(c).mode = c.mode
         /\ Fired(c).kind = c.kind /\ Fired(c).sent = c.sent
         /\ Fired(c).flag = "early" => c.flag = "early" \/ c.body \in {"new", "line"}
<1> DEFINE flag == IF c.flag # "no" THEN c.flag
                   ELSE IF c.body \in {"new", "line"} THEN "early" ELSE "late"
           heard == c.body \in {"fetch", "exec"}
<1>0. heard \in BOOLEAN
  <2>1. CASE c.body \in {"fetch", "exec"}
    BY <2>1
  <2>2. CASE c.body \notin {"fetch", "exec"}
    BY <2>2
  <2>3. QED
    BY <2>1, <2>2
<1>1. flag \in {"no", "early", "late"}
  BY DEF CallRecord
<1> HIDE DEF flag, heard
<1>2. [c EXCEPT !.flag = flag, !.heard = heard] \in CallRecord
  BY <1>0, <1>1 DEF CallRecord
<1>3. Fired(c) = IF c.body = "over" THEN c ELSE [c EXCEPT !.flag = flag, !.heard = heard]
  BY DEF Fired, flag, heard, CallRecord
<1>4. flag = "early" => c.flag = "early" \/ c.body \in {"new", "line"}
  BY DEF flag
<1>5. CASE c.body = "over"
  BY <1>3, <1>5
<1>6. CASE c.body # "over"
  <2>1. Fired(c) = [c EXCEPT !.flag = flag, !.heard = heard]
    BY <1>3, <1>6
  <2> DEFINE r == [c EXCEPT !.flag = flag, !.heard = heard]
  <2>2. /\ r.flag = flag /\ r.body = c.body /\ r.caller = c.caller /\ r.answer = c.answer
        /\ r.link = c.link /\ r.mode = c.mode /\ r.kind = c.kind /\ r.sent = c.sent
    BY DEF CallRecord
  <2> HIDE DEF r
  <2>3. Fired(c) = r /\ r \in CallRecord
    BY <1>2, <2>1 DEF r
  <2>4. QED
    BY <1>4, <2>2, <2>3
<1>7. QED
  BY <1>5, <1>6

LEMMA SettledType ==
  ASSUME NEW c \in CallRecord, NEW o \in Outcome
  PROVE  /\ Settled(c, o) \in CallRecord
         /\ Settled(c, o).body = "over" /\ Settled(c, o).caller = c.caller
         /\ Settled(c, o).answer = c.answer /\ Settled(c, o).link = c.link
         /\ Settled(c, o).mode = c.mode /\ Settled(c, o).kind = c.kind
         /\ Settled(c, o).sent = c.sent /\ Settled(c, o).flag = c.flag
<1> DEFINE out == IF o = "cancelled" /\ c.late /\ c.mode = "begin" THEN "timeout" ELSE o
<1>1. out \in Outcome /\ "over" \in Body
  BY DEF Outcome, Body
<1> HIDE DEF out
<1>2. Settled(c, o) = [c EXCEPT !.body = "over", !.heard = FALSE, !.late = FALSE, !.outcome = out]
  BY DEF Settled, out
<1>3. QED
  BY <1>1, <1>2 DEF CallRecord

LEMMA AnsweredType ==
  ASSUME NEW c \in CallRecord, NEW a \in Outcome \cup {"not found"}
  PROVE  /\ Answered(c, a) \in CallRecord
         /\ Answered(c, a).caller = "answered" /\ Answered(c, a).answer = a
         /\ Answered(c, a).body = c.body /\ Answered(c, a).link = c.link
         /\ Answered(c, a).mode = c.mode /\ Answered(c, a).kind = c.kind
         /\ Answered(c, a).sent = c.sent /\ Answered(c, a).flag = c.flag
BY DEF Answered, CallRecord, Outcome

-----------------------------------------------------------------------------
(* A step of a call changes its own record, and the pool by the connection *)
(* that it takes or gives back.                                            *)

Passes(before, after) ==
  \/ (before <=> after) /\ idle' = idle
  \/ ~before /\ after /\ idle > 0 /\ idle' = idle - 1
  \/ before /\ ~after /\ idle' = idle + 1

CallMoves(e) ==
  /\ x' \in [Call -> CallRecord]
  /\ \A f \in Call \ {e} : x'[f] = x[f]
  /\ Passes(x[e].body \in Holding, x'[e].body \in Holding)

Becomes(e, r) == x' = [x EXCEPT ![e] = r]

LEMMA MoveCall ==
  ASSUME CallTypeOK, NEW e \in Call, NEW r \in CallRecord, Becomes(e, r)
  PROVE  /\ x' \in [Call -> CallRecord]
         /\ \A f \in Call \ {e} : x'[f] = x[f]
         /\ x'[e] = r
BY DEF CallTypeOK, Becomes

\* A task that settles.
LEMMA SettleMoves ==
  ASSUME CallTypeOK, NEW e \in Call, NEW o \in Outcome, Settle(e, o)
  PROVE  /\ x' \in [Call -> CallRecord]
         /\ \A f \in Call \ {e} : x'[f] = x[f]
         /\ x'[e].body = "over" /\ x'[e].link = x[e].link /\ x'[e].mode = x[e].mode
         /\ x'[e].kind = x[e].kind /\ x'[e].sent = x[e].sent /\ x'[e].flag = x[e].flag
         /\ \/ x'[e].caller = x[e].caller /\ x'[e].answer = x[e].answer /\ table' = table
            \/ x'[e].caller = "answered" /\ x'[e].mode = "direct" /\ table' = table \ {e}
         /\ done' = done \cup {e} /\ aged' = aged
<1>1. x[e] \in CallRecord
  BY DEF CallTypeOK
<1>2. CASE x[e].mode = "direct"
  <2> DEFINE c == Settled(x[e], o)
  <2>1. /\ c \in CallRecord /\ c.body = "over" /\ c.link = x[e].link /\ c.mode = x[e].mode
        /\ c.kind = x[e].kind /\ c.sent = x[e].sent /\ c.flag = x[e].flag
    BY <1>1, SettledType
  <2>2. Settle(e, o) => x' = [x EXCEPT ![e] = Answered(c, o)]
    BY <1>2 DEF Settle, CallTypeOK
  <2> HIDE DEF c
  <2> DEFINE r == Answered(c, o)
  <2>3. /\ r \in CallRecord /\ r.caller = "answered"
        /\ r.body = c.body /\ r.link = c.link /\ r.mode = c.mode
        /\ r.kind = c.kind /\ r.sent = c.sent /\ r.flag = c.flag
    BY <2>1, AnsweredType
  <2>4. Becomes(e, r)
    BY <2>2 DEF Becomes
  <2> HIDE DEF r
  <2>5. /\ x' \in [Call -> CallRecord]
        /\ \A f \in Call \ {e} : x'[f] = x[f]
        /\ x'[e] = r
    BY <2>3, <2>4, MoveCall
  <2>6. done' = done \cup {e} /\ aged' = aged /\ table' = table \ {e}
    BY <1>2 DEF Settle, Remove
  <2>7. QED
    BY <1>2, <2>1, <2>3, <2>5, <2>6
<1>3. CASE x[e].mode # "direct"
  <2>1. Settled(x[e], o) \in CallRecord
    BY <1>1, SettledType
  <2>2. Becomes(e, Settled(x[e], o))
    BY <1>3 DEF Settle, Becomes, CallTypeOK
  <2>3. done' = done \cup {e} /\ aged' = aged /\ table' = table
    BY <1>3 DEF Settle
  <2>4. QED
    BY <1>1, <2>1, <2>2, <2>3, MoveCall, SettledType
<1>4. QED
  BY <1>2, <1>3

-----------------------------------------------------------------------------
(* What a step leaves of an entry that is not its own. *)

Spared(i) ==
  /\ i \in done' <=> i \in done
  /\ i \in table' => i \in table
  /\ i \in table /\ i \notin table' => i \in aged \cup done
  /\ aged' = aged

LEMMA SparedSound ==
  ASSUME NEW e \in Call, CallSound(e), Spared(e), x'[e] = x[e]
  PROVE  CallSound(e)'
<1>1. InOrder(e)'
  BY DEF CallSound, InOrder, Spared
<1>2. CallEntry(e)'
  BY DEF CallSound, InOrder, CallEntry, Begun, InFlight, Abandoned, Spared
<1>3. OwnHangUp(e)' /\ Looked(e)'
  BY DEF CallSound, OwnHangUp, Looked
<1>4. QED
  BY <1>1, <1>2, <1>3 DEF CallSound

LEMMA InsertSpares ==
  ASSUME NEW i, Insert(i), UNCHANGED <<aged, done>>
  PROVE  \A j \in Id \ {i} : Spared(j)
BY DEF Insert, Spared

LEMMA RegistrySpares ==
  ASSUME UNCHANGED registry
  PROVE  \A j \in Id : Spared(j)
BY DEF registry, Spared

LEMMA RemoveSpares ==
  ASSUME NEW i, table' \in {table, table \ {i}}, done' \in {done, done \cup {i}}, aged' = aged
  PROVE  \A j \in Id \ {i} : Spared(j)
BY DEF Spared

-----------------------------------------------------------------------------
(* A step of a call keeps what is said of it. *)

CallKeeps(e) ==
  /\ CallMoves(e)
  /\ CallSound(e)'
  /\ \A i \in Id \ {e} : Spared(i)

LEMMA SettleKeeps ==
  ASSUME CallTypeOK, NEW e \in Call, CallSound(e), NEW o \in Outcome, Settle(e, o),
         x[e].body \notin {"off", "over"},
         IF x[e].body \in Holding THEN idle' = idle + 1 ELSE idle' = idle
  PROVE  CallKeeps(e)
<1>1. /\ x' \in [Call -> CallRecord]
      /\ \A f \in Call \ {e} : x'[f] = x[f]
      /\ x'[e].body = "over" /\ x'[e].link = x[e].link /\ x'[e].mode = x[e].mode
      /\ x'[e].kind = x[e].kind /\ x'[e].sent = x[e].sent /\ x'[e].flag = x[e].flag
      /\ \/ x'[e].caller = x[e].caller /\ x'[e].answer = x[e].answer /\ table' = table
         \/ x'[e].caller = "answered" /\ x'[e].mode = "direct" /\ table' = table \ {e}
      /\ done' = done \cup {e} /\ aged' = aged
  BY SettleMoves
<1>2. CallMoves(e)
  BY <1>1 DEF CallMoves, Passes, Holding
<1>3. InOrder(e)' /\ CallEntry(e)'
  BY <1>1 DEF CallSound, InOrder, CallEntry, Begun, InFlight, Abandoned
<1>4. OwnHangUp(e)' /\ Looked(e)'
  BY <1>1 DEF CallSound, OwnHangUp, Looked
<1>5. \A i \in Id \ {e} : Spared(i)
  BY <1>1, RemoveSpares
<1>6. QED
  BY <1>2, <1>3, <1>4, <1>5 DEF CallKeeps, CallSound

\* A step to the record r that leaves the registry alone.
LEMMA RecordKeeps ==
  ASSUME CallTypeOK, NEW e \in Call, CallSound(e), NEW r \in CallRecord, Becomes(e, r),
         UNCHANGED registry,
         Passes(x[e].body \in Holding, r.body \in Holding),
         x[e].body = "over" => r.body = "over",
         x[e].body = "off" <=> r.body = "off",
         r.body = "over" => x[e].body = "over" \/ (r.mode = "direct" /\ r.caller = "gone"),
         r.answer = x[e].answer,
         r.caller = x[e].caller \/ (x[e].caller \in {"wait", "poll"} /\ r.caller = "gone"),
         r.mode = x[e].mode, r.kind = x[e].kind,
         r.flag = x[e].flag \/ r.mode # "spawned" \/ r.link = "swept",
         x[e].link = "swept" => r.link = "swept",
         r.kind = "query" =>
           /\ r.flag = "early" => ~r.sent
           /\ r.body \in {"off", "new", "line"} => ~r.sent
           /\ r.body = "gap" => r.flag # "early"
  PROVE  CallKeeps(e)
<1>1. /\ x' \in [Call -> CallRecord]
      /\ \A f \in Call \ {e} : x'[f] = x[f]
      /\ x'[e] = r
  BY MoveCall
<1>2. CallMoves(e)
  BY <1>1 DEF CallMoves
<1>3. InOrder(e)'
  BY <1>1 DEF CallSound, InOrder, registry
<1>4. CallEntry(e)'
  BY <1>1 DEF CallSound, InOrder, CallEntry, Begun, InFlight, Abandoned, registry
<1>5. OwnHangUp(e)' /\ Looked(e)'
  BY <1>1 DEF CallSound, OwnHangUp, Looked
<1>6. \A i \in Id \ {e} : Spared(i)
  BY RegistrySpares
<1>7. QED
  BY <1>2, <1>3, <1>4, <1>5, <1>6 DEF CallKeeps, CallSound

\* A caller is answered: its entry leaves, or has been swept.
LEMMA AnswerKeeps ==
  ASSUME CallTypeOK, NEW e \in Call, CallSound(e), NEW c \in {x[e], Fired(x[e])},
         NEW a \in Outcome \cup {"not found"}, Becomes(e, Answered(c, a)),
         x[e].caller \in {"wait", "poll"},
         table' = table \ {e}, UNCHANGED <<aged, done, idle>>,
         a = "timeout" \/ (c = x[e] /\ (e \in done \/ e \notin table))
  PROVE  CallKeeps(e)
<1>1. x[e] \in CallRecord
  BY DEF CallTypeOK
<1>2. /\ c \in CallRecord /\ c.body = x[e].body /\ c.link = x[e].link /\ c.mode = x[e].mode
      /\ c.kind = x[e].kind /\ c.sent = x[e].sent
      /\ c.flag = "early" => x[e].flag = "early" \/ x[e].body \in {"new", "line"}
  BY <1>1, FiredType
<1> DEFINE r == Answered(c, a)
<1>3. /\ r \in CallRecord /\ r.caller = "answered" /\ r.answer = a
      /\ r.body = c.body /\ r.link = c.link /\ r.mode = c.mode
      /\ r.kind = c.kind /\ r.sent = c.sent /\ r.flag = c.flag
  BY <1>2, AnsweredType
<1>4. Becomes(e, r)
  OBVIOUS
<1> HIDE DEF r
<1>5. /\ x' \in [Call -> CallRecord]
      /\ \A f \in Call \ {e} : x'[f] = x[f]
      /\ x'[e] = r
  BY <1>3, <1>4, MoveCall
<1>6. CallMoves(e)
  BY <1>2, <1>3, <1>5 DEF CallMoves, Passes
<1>7. InOrder(e)'
  BY <1>2, <1>3, <1>5 DEF CallSound, InOrder
<1>8. CallEntry(e)'
  <2>1. CASE a = "timeout"
    BY <2>1, <1>3, <1>5 DEF CallEntry
  <2>2. CASE e \in done
    BY <2>2, <1>2, <1>3, <1>5 DEF CallSound, InOrder, CallEntry, InFlight
  <2>3. CASE e \notin table /\ c = x[e]
    BY <2>3, <1>2, <1>3, <1>5 DEF CallSound, InOrder, CallEntry, InFlight
  <2>4. QED
    BY <2>1, <2>2, <2>3
<1>9. OwnHangUp(e)'
  BY <1>2, <1>3, <1>5 DEF CallSound, InOrder, OwnHangUp
<1>10. Looked(e)'
  <2>1. Looked(e)
    BY DEF CallSound
  <2>2. /\ x'[e].kind = x[e].kind /\ x'[e].sent = x[e].sent /\ x'[e].body = x[e].body
        /\ x'[e].flag = "early" => x[e].flag = "early" \/ x[e].body \in {"new", "line"}
    BY <1>2, <1>3, <1>5
  <2>3. QED
    BY <2>1, <2>2 DEF Looked
<1>11. \A i \in Id \ {e} : Spared(i)
  BY DEF Spared
<1>12. QED
  BY <1>6, <1>7, <1>8, <1>9, <1>10, <1>11 DEF CallKeeps, CallSound

-----------------------------------------------------------------------------
(* The steps. *)

LEMMA StatementKeeps ==
  ASSUME CallTypeOK, NEW e \in Call, CallSound(e), Statement(e)
  PROVE  CallKeeps(e)
<1>0. x[e] \in CallRecord
  BY DEF CallTypeOK
<1>1. CASE Row(e)
  <2> DEFINE r == [x[e] EXCEPT !.body = "head"]
  <2>1. r \in CallRecord
    BY <1>0 DEF CallRecord, Body, Holding
  <2>2. /\ r.body = "head" /\ r.caller = x[e].caller /\ r.answer = x[e].answer
        /\ r.mode = x[e].mode /\ r.kind = x[e].kind /\ r.flag = x[e].flag
        /\ r.link = x[e].link /\ r.sent = x[e].sent
    BY <1>0 DEF CallRecord
  <2>3. x[e].body = "fetch" /\ Becomes(e, r) /\ UNCHANGED <<registry, idle>>
    BY <1>1 DEF Row, Becomes
  <2> HIDE DEF r
  <2>4. Passes(x[e].body \in Holding, r.body \in Holding)
    BY <2>2, <2>3 DEF Passes, Holding
  <2>5. Looked(e)
    BY DEF CallSound
  <2>6. QED
    BY <2>1, <2>2, <2>3, <2>4, <2>5, RecordKeeps DEF Looked
<1>2. CASE LastRow(e)
  BY <1>2, SettleKeeps DEF LastRow, Give, Holding, Outcome
<1>3. CASE Executed(e)
  BY <1>3, SettleKeeps DEF Executed, Give, Holding, Outcome
<1>4. CASE DeafEnds(e)
  BY <1>4, SettleKeeps DEF DeafEnds, Holding, Outcome
<1>5. CASE StatementFails(e)
  BY <1>5, SettleKeeps DEF StatementFails, Give, Holding, Outcome
<1>6. QED
  BY <1>1, <1>2, <1>3, <1>4, <1>5 DEF Statement

LEMMA TaskKeeps ==
  ASSUME CallTypeOK, NEW e \in Call, CallSound(e), Task(e)
  PROVE  CallKeeps(e)
<1>0. x[e] \in CallRecord /\ Looked(e)
  BY DEF CallTypeOK, CallSound
<1> DEFINE Same(r) == /\ r.caller = x[e].caller /\ r.answer = x[e].answer
                      /\ r.mode = x[e].mode /\ r.kind = x[e].kind /\ r.flag = x[e].flag
                      /\ r.link = x[e].link
<1>1. CASE Enter(e)
  <2>1. CASE x[e].kind = "deaf"
    <3> DEFINE r == [x[e] EXCEPT !.body = "deaf", !.sent = TRUE]
    <3>1. r \in CallRecord
      BY <1>0 DEF CallRecord, Body, AtAwait
    <3>2. r.body = "deaf" /\ Same(r)
      BY <1>0 DEF CallRecord
    <3>3. x[e].body = "new" /\ Becomes(e, r) /\ UNCHANGED <<registry, idle>>
      BY <1>1, <2>1 DEF Enter, Becomes, CallTypeOK
    <3> HIDE DEF r
    <3>4. Passes(x[e].body \in Holding, r.body \in Holding)
      BY <3>2, <3>3 DEF Passes, Holding
    <3>5. QED
      BY <2>1, <3>1, <3>2, <3>3, <3>4, RecordKeeps
  <2>2. CASE x[e].kind # "deaf" /\ x[e].flag # "no"
    BY <1>1, <2>2, SettleKeeps DEF Enter, Holding, Outcome
  <2>3. CASE x[e].kind # "deaf" /\ x[e].flag = "no"
    <3> DEFINE r == [x[e] EXCEPT !.body = "line"]
    <3>1. r \in CallRecord
      BY <1>0 DEF CallRecord, Body, AtAwait
    <3>2. r.body = "line" /\ r.sent = x[e].sent /\ Same(r)
      BY <1>0 DEF CallRecord
    <3>3. x[e].body = "new" /\ Becomes(e, r) /\ UNCHANGED <<registry, idle>>
      BY <1>1, <2>3 DEF Enter, Becomes
    <3> HIDE DEF r
    <3>4. Passes(x[e].body \in Holding, r.body \in Holding)
      BY <3>2, <3>3 DEF Passes, Holding
    <3>5. QED
      BY <1>0, <3>1, <3>2, <3>3, <3>4, RecordKeeps DEF Looked
  <2>4. QED
    BY <2>1, <2>2, <2>3
<1>2. CASE Acquire(e)
  <2>1. CASE x[e].kind = "query"
    <3> DEFINE r == [x[e] EXCEPT !.body = "head"]
    <3>1. r \in CallRecord
      BY <1>0 DEF CallRecord, Body, Holding
    <3>2. r.body = "head" /\ r.sent = x[e].sent /\ Same(r)
      BY <1>0 DEF CallRecord
    <3>3. x[e].body = "line" /\ Becomes(e, r) /\ UNCHANGED registry /\ Take
      BY <1>2, <2>1 DEF Acquire, Becomes, CallTypeOK
    <3> HIDE DEF r
    <3>4. Passes(x[e].body \in Holding, r.body \in Holding)
      BY <3>2, <3>3 DEF Passes, Holding, Take
    <3>5. QED
      BY <1>0, <3>1, <3>2, <3>3, <3>4, RecordKeeps DEF Looked
  <2>2. CASE x[e].kind # "query"
    <3> DEFINE r == [x[e] EXCEPT !.body = "exec", !.heard = FALSE, !.sent = TRUE]
    <3>1. r \in CallRecord
      BY <1>0 DEF CallRecord, Body, Holding
    <3>2. r.body = "exec" /\ Same(r)
      BY <1>0 DEF CallRecord
    <3>3. x[e].body = "line" /\ Becomes(e, r) /\ UNCHANGED registry /\ Take
      BY <1>2, <2>2 DEF Acquire, Becomes, CallTypeOK
    <3> HIDE DEF r
    <3>4. Passes(x[e].body \in Holding, r.body \in Holding)
      BY <3>2, <3>3 DEF Passes, Holding, Take
    <3>5. QED
      BY <2>2, <3>1, <3>2, <3>3, <3>4, RecordKeeps
  <2>3. QED
    BY <2>1, <2>2
<1>3. CASE AcquireFails(e)
  BY <1>3, SettleKeeps DEF AcquireFails, Holding, Outcome
<1>4. CASE Head(e)
  <2>1. CASE x[e].flag # "no"
    BY <1>4, <2>1, SettleKeeps DEF Head, Give, Holding, Outcome
  <2>2. CASE x[e].flag = "no"
    <3> DEFINE r == [x[e] EXCEPT !.body = "gap"]
    <3>1. r \in CallRecord
      BY <1>0 DEF CallRecord, Body, Holding
    <3>2. r.body = "gap" /\ r.sent = x[e].sent /\ Same(r)
      BY <1>0 DEF CallRecord
    <3>3. x[e].body = "head" /\ Becomes(e, r) /\ UNCHANGED <<registry, idle>>
      BY <1>4, <2>2 DEF Head, Becomes
    <3> HIDE DEF r
    <3>4. Passes(x[e].body \in Holding, r.body \in Holding)
      BY <3>2, <3>3 DEF Passes, Holding
    <3>5. QED
      BY <2>2, <3>1, <3>2, <3>3, <3>4, RecordKeeps
  <2>3. QED
    BY <2>1, <2>2
<1>5. CASE Listen(e)
  <2> DEFINE r == [x[e] EXCEPT !.body = "fetch", !.heard = FALSE, !.sent = TRUE]
  <2>1. r \in CallRecord
    BY <1>0 DEF CallRecord, Body, Holding
  <2>2. r.body = "fetch" /\ Same(r)
    BY <1>0 DEF CallRecord
  <2>3. x[e].body = "gap" /\ Becomes(e, r) /\ UNCHANGED <<registry, idle>>
    BY <1>5 DEF Listen, Becomes, CallTypeOK
  <2> HIDE DEF r
  <2>4. Passes(x[e].body \in Holding, r.body \in Holding)
    BY <2>2, <2>3 DEF Passes, Holding
  <2>5. QED
    BY <1>0, <2>1, <2>2, <2>3, <2>4, RecordKeeps DEF Looked
<1>6. CASE Woken(e)
  BY <1>6, SettleKeeps DEF Woken, Give, Holding, Outcome
<1>7. QED
  BY <1>1, <1>2, <1>3, <1>4, <1>5, <1>6 DEF Task

LEMMA CallerKeeps ==
  ASSUME CallTypeOK, table \subseteq Id, NEW e \in Call, CallSound(e), Caller(e)
  PROVE  CallKeeps(e)
<1>0. x[e].outcome \in Outcome
  BY DEF CallTypeOK, CallRecord
<1>1. CASE Await(e)
  BY <1>0, <1>1, AnswerKeeps DEF Await, Remove, Becomes
<1>2. CASE NotFound(e)
  <2>1. table' = table \ {e}
    BY <1>2 DEF NotFound, registry
  <2>2. QED
    BY <1>2, <2>1, AnswerKeeps DEF NotFound, Becomes, registry
<1>3. CASE TakeResult(e)
  BY <1>0, <1>3, AnswerKeeps DEF TakeResult, Remove, Becomes
<1>4. QED
  BY <1>1, <1>2, <1>3 DEF Caller

LEMMA BeginKeeps ==
  ASSUME CallTypeOK, NEW e \in Call, CallSound(e), Begin(e)
  PROVE  CallKeeps(e)
<1>0. x[e] \in CallRecord /\ InOrder(e) /\ Looked(e) /\ OwnHangUp(e)
  BY DEF CallTypeOK, CallSound
<1> DEFINE to == IF x[e].mode = "begin" THEN "poll" ELSE "wait"
           r == [x[e] EXCEPT !.body = "new", !.caller = to]
<1>1. to \in {"poll", "wait"}
  OBVIOUS
<1>2. Becomes(e, r) /\ x[e].caller = "idle" /\ Insert(e) /\ UNCHANGED <<aged, done, idle>>
  BY DEF Begin, Becomes, CallTypeOK
<1> HIDE DEF to
<1>3. /\ r.body = "new" /\ r.caller = to /\ r.answer = x[e].answer
      /\ r.mode = x[e].mode /\ r.kind = x[e].kind /\ r.flag = x[e].flag
      /\ r.link = x[e].link /\ r.sent = x[e].sent
  BY <1>0 DEF CallRecord
<1>4. r \in CallRecord
  BY <1>0, <1>1 DEF CallRecord, Body
<1> HIDE DEF r
<1>5. /\ x' \in [Call -> CallRecord]
      /\ \A f \in Call \ {e} : x'[f] = x[f]
      /\ x'[e] = r
  BY <1>2, <1>4, MoveCall
<1>6. e \in table' /\ x[e].body = "off"
  BY <1>0, <1>2 DEF Insert, InOrder
<1>7. CallMoves(e)
  BY <1>2, <1>3, <1>5, <1>6 DEF CallMoves, Passes, Holding
<1>8. InOrder(e)' /\ CallEntry(e)'
  BY <1>0, <1>1, <1>2, <1>3, <1>5, <1>6 DEF InOrder, CallEntry, Begun, InFlight
<1>9. OwnHangUp(e)' /\ Looked(e)'
  BY <1>0, <1>3, <1>5, <1>6 DEF OwnHangUp, Looked
<1>10. \A i \in Id \ {e} : Spared(i)
  BY <1>2, InsertSpares
<1>11. QED
  BY <1>7, <1>8, <1>9, <1>10 DEF CallKeeps, CallSound

\* fire_cancel on a call that begin made, or by its own client's guard.
LEMMA FireKeeps ==
  ASSUME CallTypeOK, NEW e \in Call, CallSound(e), NEW c \in {x[e], Fired(x[e])},
         NEW r \in CallRecord, Becomes(e, r), UNCHANGED <<registry, idle>>,
         r.body = c.body, r.caller = c.caller, r.answer = c.answer, r.mode = c.mode,
         r.kind = c.kind, r.flag = c.flag, r.sent = c.sent,
         c = x[e] \/ r.mode # "spawned" \/ r.link = "swept",
         x[e].link = "swept" => r.link = "swept"
  PROVE  CallKeeps(e)
<1>0. x[e] \in CallRecord /\ Looked(e)
  BY DEF CallTypeOK, CallSound
<1>1. /\ c.body = x[e].body /\ c.caller = x[e].caller /\ c.answer = x[e].answer
      /\ c.mode = x[e].mode /\ c.kind = x[e].kind /\ c.sent = x[e].sent
      /\ c.flag = "early" => x[e].flag = "early" \/ x[e].body \in {"new", "line"}
  BY <1>0, FiredType
<1>2. Passes(x[e].body \in Holding, r.body \in Holding)
  BY <1>1 DEF Passes
<1>3. r.kind = "query" =>
        /\ r.flag = "early" => ~r.sent
        /\ r.body \in {"off", "new", "line"} => ~r.sent
        /\ r.body = "gap" => r.flag # "early"
  BY <1>0, <1>1 DEF Looked
<1>4. /\ r.body = x[e].body /\ r.caller = x[e].caller /\ r.answer = x[e].answer
      /\ r.mode = x[e].mode /\ r.kind = x[e].kind
      /\ r.flag = x[e].flag \/ r.mode # "spawned" \/ r.link = "swept"
  BY <1>1
<1>5. QED
  BY <1>2, <1>3, <1>4, RecordKeeps

LEMMA TimeOutKeeps ==
  ASSUME CallTypeOK, table \subseteq Id, NEW e \in Call, CallSound(e), TimeOut(e)
  PROVE  CallKeeps(e)
<1>0. x[e] \in CallRecord
  BY DEF CallTypeOK
<1>1. CASE DirectTimeOut(e)
  BY <1>1, SettleKeeps DEF DirectTimeOut, Give, AtAwait, Outcome
<1>2. CASE SpawnedTimeOut(e)
  BY <1>2, AnswerKeeps DEF SpawnedTimeOut, Remove, Becomes, CallTypeOK, Outcome
<1>3. CASE BeginTimeOut(e)
  <2> DEFINE c == Fired(x[e])
             r == [c EXCEPT !.late = TRUE]
  <2>1. Becomes(e, r) /\ UNCHANGED <<registry, idle>> /\ x[e].mode = "begin"
    BY <1>3 DEF BeginTimeOut, Becomes, CallTypeOK
  <2>2. c \in CallRecord /\ c.mode = x[e].mode /\ c.link = x[e].link
    BY <1>0, FiredType
  <2> HIDE DEF c
  <2>3. /\ r.body = c.body /\ r.caller = c.caller /\ r.answer = c.answer /\ r.mode = c.mode
        /\ r.kind = c.kind /\ r.flag = c.flag /\ r.sent = c.sent /\ r.link = c.link
    BY <2>2 DEF CallRecord
  <2>4. r \in CallRecord
    BY <2>2 DEF CallRecord
  <2>5. c \in {x[e], Fired(x[e])}
    BY DEF c
  <2> HIDE DEF r
  <2>6. QED
    BY <2>1, <2>2, <2>3, <2>4, <2>5, FireKeeps
<1>4. QED
  BY <1>1, <1>2, <1>3 DEF TimeOut

LEMMA AbandonKeeps ==
  ASSUME CallTypeOK, NEW e \in Call, CallSound(e), Abandon(e)
  PROVE  CallKeeps(e)
<1>0. x[e] \in CallRecord /\ Looked(e)
  BY DEF CallTypeOK, CallSound
<1> DEFINE Same(r) == /\ r.caller = "gone" /\ r.answer = x[e].answer
                      /\ r.mode = x[e].mode /\ r.kind = x[e].kind /\ r.flag = x[e].flag
                      /\ r.link = x[e].link /\ r.sent = x[e].sent
<1>1. CASE x[e].mode = "direct"
  <2> DEFINE r == [x[e] EXCEPT !.caller = "gone", !.body = "over"]
  <2>1. r \in CallRecord
    BY <1>0 DEF CallRecord, Body
  <2>2. r.body = "over" /\ Same(r)
    BY <1>0 DEF CallRecord
  <2>3. /\ x[e].caller \in {"wait", "poll"} /\ Becomes(e, r) /\ UNCHANGED registry
        /\ IF x[e].body \in Holding THEN Give ELSE UNCHANGED idle
    BY <1>1 DEF Abandon, Becomes, CallTypeOK
  <2> HIDE DEF r
  <2>4. Passes(x[e].body \in Holding, r.body \in Holding)
    BY <2>2, <2>3 DEF Passes, Holding, Give
  <2>5. x[e].body # "off"
    BY <2>3 DEF CallSound, InOrder
  <2>6. QED
    BY <1>0, <1>1, <2>1, <2>2, <2>3, <2>4, <2>5, RecordKeeps DEF Looked
<1>2. CASE x[e].mode # "direct"
  <2> DEFINE r == [x[e] EXCEPT !.caller = "gone"]
  <2>1. r \in CallRecord
    BY <1>0 DEF CallRecord
  <2>2. r.body = x[e].body /\ Same(r)
    BY <1>0 DEF CallRecord
  <2>3. /\ x[e].caller \in {"wait", "poll"} /\ Becomes(e, r) /\ UNCHANGED <<registry, idle>>
    BY <1>2 DEF Abandon, Becomes
  <2> HIDE DEF r
  <2>4. Passes(x[e].body \in Holding, r.body \in Holding)
    BY <2>2, <2>3 DEF Passes
  <2>5. QED
    BY <1>0, <2>1, <2>2, <2>3, <2>4, RecordKeeps DEF Looked
<1>3. QED
  BY <1>1, <1>2

LEMMA LinkKeeps ==
  ASSUME CallTypeOK, NEW e \in Call, CallSound(e), HangUp(e) \/ SweepToken(e)
  PROVE  CallKeeps(e)
<1>1. PICK c \in {x[e], Fired(x[e])}, to \in {"down", "swept"} :
        /\ Becomes(e, [c EXCEPT !.link = to])
        /\ c = x[e] \/ to = "swept"
        /\ x[e].link \in {"up", "down"}
  <2>1. CASE HangUp(e)
    <3>1. Becomes(e, [x[e] EXCEPT !.link = "down"]) /\ x[e].link = "up"
      BY <2>1 DEF HangUp, Becomes
    <3>2. QED
      BY <3>1
  <2>2. CASE SweepToken(e)
    <3>1. x[e].link = "down"
      BY <2>2 DEF SweepToken
    <3>2. CASE e \in table \ done
      <4>1. Becomes(e, [Fired(x[e]) EXCEPT !.link = "swept"])
        BY <2>2, <3>2 DEF SweepToken, Becomes, CallTypeOK
      <4>2. QED
        BY <3>1, <4>1
    <3>3. CASE e \notin table \ done
      <4>1. Becomes(e, [x[e] EXCEPT !.link = "swept"])
        BY <2>2, <3>3 DEF SweepToken, Becomes, CallTypeOK
      <4>2. QED
        BY <3>1, <4>1
    <3>4. QED
      BY <3>2, <3>3
  <2>3. QED
    BY <2>1, <2>2
<1>2. UNCHANGED <<registry, idle>>
  BY DEF HangUp, SweepToken
<1>3. c \in CallRecord /\ c.link = x[e].link
  BY FiredType DEF CallTypeOK
<1> DEFINE r == [c EXCEPT !.link = to]
<1>4. r \in CallRecord
  BY <1>3 DEF CallRecord
<1>5. /\ r.body = c.body /\ r.caller = c.caller /\ r.answer = c.answer /\ r.mode = c.mode
      /\ r.kind = c.kind /\ r.flag = c.flag /\ r.sent = c.sent /\ r.link = to
  BY <1>3 DEF CallRecord
<1>6. Becomes(e, r)
  BY <1>1
<1> HIDE DEF r
<1>7. QED
  BY <1>1, <1>2, <1>4, <1>5, <1>6, FireKeeps

LEMMA WorldKeeps ==
  ASSUME CallTypeOK, table \subseteq Id, NEW e \in Call, CallSound(e), World(e)
  PROVE  CallKeeps(e)
<1>1. CASE Cancel(e)
  <2> DEFINE c == Fired(x[e])
  <2>1. Becomes(e, c) /\ UNCHANGED <<registry, idle>> /\ x[e].mode = "begin"
    BY <1>1 DEF Cancel, Becomes
  <2>2. c \in CallRecord /\ c.mode = x[e].mode /\ c.link = x[e].link
    BY FiredType DEF CallTypeOK
  <2>3. c \in {x[e], Fired(x[e])}
    OBVIOUS
  <2> HIDE DEF c
  <2>4. QED
    BY <2>1, <2>2, <2>3, FireKeeps
<1>2. QED
  BY <1>1, BeginKeeps, TimeOutKeeps, AbandonKeeps, LinkKeeps DEF World

LEMMA CallNextKeeps ==
  ASSUME CallTypeOK, table \subseteq Id, NEW e \in Call, CallSound(e),
         Statement(e) \/ Task(e) \/ Caller(e) \/ World(e)
  PROVE  CallKeeps(e)
BY StatementKeeps, TaskKeeps, CallerKeeps, WorldKeeps

-----------------------------------------------------------------------------
(* A step of a stream keeps what is said of it. *)

StreamKeeps(s) ==
  /\ y' \in [Stream -> StreamRecord]
  /\ \A t \in Stream \ {s} : y'[t] = y[t]
  /\ Passes(y[s].pump \in Connected, y'[s].pump \in Connected)
  /\ StreamSound(s)'
  /\ \A i \in Id \ {s} : Spared(i)

Turns(s, r) == y' = [y EXCEPT ![s] = r]

LEMMA TurnKeeps ==
  ASSUME StreamTypeOK, NEW s \in Stream, NEW r \in StreamRecord, Turns(s, r),
         Passes(y[s].pump \in Connected, r.pump \in Connected),
         r.delivered + r.pulls <= RowCap + Pulls,
         s \notin done' => r.delivered <= RowCap,
         r.user = "idle" => r.pump = "off",
         \A i \in Id \ {s} : Spared(i)
  PROVE  StreamKeeps(s)
<1>1. /\ y' \in [Stream -> StreamRecord]
      /\ \A t \in Stream \ {s} : y'[t] = y[t]
      /\ y'[s] = r
  BY DEF StreamTypeOK, Turns
<1>2. QED
  BY <1>1 DEF StreamKeeps, StreamSound, Capped

\* A step that neither delivers a row nor takes a pull, with or without its entry.
LEMMA PumpTurns ==
  ASSUME StreamTypeOK, NEW s \in Stream, StreamSound(s), NEW r \in StreamRecord, Turns(s, r),
         Passes(y[s].pump \in Connected, r.pump \in Connected),
         r.delivered = y[s].delivered, r.pulls <= y[s].pulls,
         r.user = y[s].user \/ r.user # "idle", r.pump = y[s].pump \/ y[s].pump # "off",
         done' = done, aged' = aged, \A j \in Id \ {s} : j \in table' <=> j \in table
  PROVE  StreamKeeps(s)
<1>1. \A i \in Id \ {s} : Spared(i)
  BY DEF Spared
<1>2. y[s].delivered \in Nat /\ y[s].pulls \in Nat /\ r.pulls \in Nat
  BY StreamAssumption DEF StreamTypeOK, StreamRecord
<1>3. /\ r.delivered + r.pulls <= RowCap + Pulls
      /\ s \notin done' => r.delivered <= RowCap
  BY <1>2, StreamAssumption DEF StreamSound, Capped
<1>4. r.user = "idle" => r.pump = "off"
  BY DEF StreamSound
<1>5. QED
  BY <1>1, <1>3, <1>4, TurnKeeps

LEMMA BackendKeeps ==
  ASSUME StreamTypeOK, NEW s \in Stream, StreamSound(s), Backend(s)
  PROVE  StreamKeeps(s)
<1>0. y[s] \in StreamRecord
  BY DEF StreamTypeOK
<1>1. PICK to \in {"send", "error"} :
        \/ Turns(s, [y[s] EXCEPT !.pump = to]) /\ UNCHANGED <<registry, idle>>
        \/ Turns(s, [y[s] EXCEPT !.pump = "over", !.whole = TRUE]) /\ UNCHANGED registry /\ Give
  BY DEF Backend, RowComes, ErrorComes, RowsEnd, Turns, StreamTypeOK
<1>2. y[s].pump = "select"
  BY DEF Backend, RowComes, ErrorComes, RowsEnd
<1>3. CASE Turns(s, [y[s] EXCEPT !.pump = to]) /\ UNCHANGED <<registry, idle>>
  <2> DEFINE r == [y[s] EXCEPT !.pump = to]
  <2>1. /\ r \in StreamRecord /\ r.pump = to
        /\ r.delivered = y[s].delivered /\ r.pulls = y[s].pulls /\ r.user = y[s].user
    BY <1>0 DEF StreamRecord
  <2>2. Turns(s, r) /\ UNCHANGED <<registry, idle>>
    BY <1>3
  <2> HIDE DEF r
  <2>3. Passes(y[s].pump \in Connected, r.pump \in Connected)
    BY <1>2, <2>1, <2>2 DEF Passes, Connected
  <2>4. y[s].pulls \in Nat
    BY <1>0 DEF StreamRecord
  <2>5. QED
    BY <1>2, <2>1, <2>2, <2>3, <2>4, PumpTurns DEF registry
<1>4. CASE Turns(s, [y[s] EXCEPT !.pump = "over", !.whole = TRUE]) /\ UNCHANGED registry /\ Give
  <2> DEFINE r == [y[s] EXCEPT !.pump = "over", !.whole = TRUE]
  <2>1. /\ r \in StreamRecord /\ r.pump = "over"
        /\ r.delivered = y[s].delivered /\ r.pulls = y[s].pulls /\ r.user = y[s].user
    BY <1>0 DEF StreamRecord
  <2>2. Turns(s, r) /\ UNCHANGED registry /\ Give
    BY <1>4
  <2> HIDE DEF r
  <2>3. Passes(y[s].pump \in Connected, r.pump \in Connected)
    BY <1>2, <2>1, <2>2 DEF Passes, Connected, Give
  <2>4. y[s].pulls \in Nat
    BY <1>0 DEF StreamRecord
  <2>5. QED
    BY <1>2, <2>1, <2>2, <2>3, <2>4, PumpTurns DEF registry
<1>5. QED
  BY <1>1, <1>3, <1>4

LEMMA PumpKeeps ==
  ASSUME StreamTypeOK, NEW s \in Stream, StreamSound(s), Pump(s)
  PROVE  StreamKeeps(s)
<1>0. y[s] \in StreamRecord /\ y[s].pulls \in Nat
  BY DEF StreamTypeOK, StreamRecord
<1>1. CASE Stop(s) /\ y[s].pump = "line"
  <2> DEFINE r == [y[s] EXCEPT !.pump = "over", !.permit = FALSE, !.woken = FALSE]
  <2>1. y[s].pump = "line" /\ Turns(s, r) /\ UNCHANGED registry /\ idle' = idle
    BY <1>1 DEF Stop, Turns, StreamTypeOK
  <2>2. /\ r \in StreamRecord /\ r.pump = "over"
        /\ r.delivered = y[s].delivered /\ r.pulls = y[s].pulls /\ r.user = y[s].user
    BY <1>0, <2>1 DEF StreamRecord
  <2> HIDE DEF r
  <2>3. Passes(y[s].pump \in Connected, r.pump \in Connected)
    BY <2>1, <2>2 DEF Passes, Connected
  <2>4. QED
    BY <1>0, <2>1, <2>2, <2>3, PumpTurns DEF registry
<1>2. CASE Stop(s) /\ y[s].pump = "select"
  <2> DEFINE r == [y[s] EXCEPT !.pump = "over", !.permit = FALSE, !.woken = FALSE]
  <2>1. y[s].pump = "select" /\ Turns(s, r) /\ UNCHANGED registry /\ Give
    BY <1>2 DEF Stop, Turns, StreamTypeOK
  <2>2. /\ r \in StreamRecord /\ r.pump = "over"
        /\ r.delivered = y[s].delivered /\ r.pulls = y[s].pulls /\ r.user = y[s].user
    BY <1>0, <2>1 DEF StreamRecord
  <2> HIDE DEF r
  <2>3. Passes(y[s].pump \in Connected, r.pump \in Connected)
    BY <2>1, <2>2 DEF Passes, Connected, Give
  <2>4. QED
    BY <1>0, <2>1, <2>2, <2>3, PumpTurns DEF registry
<1>3. CASE Connect(s)
  <2> DEFINE r == [y[s] EXCEPT !.pump = "select"]
  <2>1. y[s].pump = "line" /\ Turns(s, r) /\ UNCHANGED registry /\ Take
    BY <1>3 DEF Connect, Turns, StreamTypeOK
  <2>2. /\ r \in StreamRecord /\ r.pump = "select"
        /\ r.delivered = y[s].delivered /\ r.pulls = y[s].pulls /\ r.user = y[s].user
    BY <1>0, <2>1 DEF StreamRecord
  <2> HIDE DEF r
  <2>3. Passes(y[s].pump \in Connected, r.pump \in Connected)
    BY <2>1, <2>2 DEF Passes, Connected, Take
  <2>4. QED
    BY <1>0, <2>1, <2>2, <2>3, PumpTurns DEF registry
<1>4. CASE ConnectFails(s)
  <2> DEFINE r == [y[s] EXCEPT !.pump = "over", !.fault = TRUE]
  <2>1. y[s].pump = "line" /\ Turns(s, r) /\ UNCHANGED registry /\ idle' = idle
    BY <1>4 DEF ConnectFails, Turns, StreamTypeOK
  <2>2. /\ r \in StreamRecord /\ r.pump = "over"
        /\ r.delivered = y[s].delivered /\ r.pulls = y[s].pulls /\ r.user = y[s].user
    BY <1>0, <2>1 DEF StreamRecord
  <2> HIDE DEF r
  <2>3. Passes(y[s].pump \in Connected, r.pump \in Connected)
    BY <2>1, <2>2 DEF Passes, Connected
  <2>4. QED
    BY <1>0, <2>1, <2>2, <2>3, PumpTurns DEF registry
<1>5. CASE Send(s)
  <2> DEFINE r == [y[s] EXCEPT !.rows = @ + 1, !.pump = "select"]
  <2>1. y[s].pump = "send" /\ y[s].rows < Room /\ Turns(s, r) /\ UNCHANGED registry /\ idle' = idle
    BY <1>5 DEF Send, Turns, StreamTypeOK
  <2>2. /\ r \in StreamRecord /\ r.pump = "select"
        /\ r.delivered = y[s].delivered /\ r.pulls = y[s].pulls /\ r.user = y[s].user
    <3>1. y[s].rows + 1 \in 0 .. Room
      BY <1>0, <2>1, StreamAssumption DEF StreamRecord
    <3>2. QED
      BY <1>0, <3>1 DEF StreamRecord
  <2> HIDE DEF r
  <2>3. Passes(y[s].pump \in Connected, r.pump \in Connected)
    BY <2>1, <2>2 DEF Passes, Connected
  <2>4. QED
    BY <1>0, <2>1, <2>2, <2>3, PumpTurns DEF registry
<1>6. CASE SendError(s)
  <2> DEFINE r == [y[s] EXCEPT !.fault = TRUE, !.pump = "over"]
  <2>1. y[s].pump = "error" /\ Turns(s, r) /\ UNCHANGED registry /\ Give
    BY <1>6 DEF SendError, Turns, StreamTypeOK
  <2>2. /\ r \in StreamRecord /\ r.pump = "over"
        /\ r.delivered = y[s].delivered /\ r.pulls = y[s].pulls /\ r.user = y[s].user
    BY <1>0, <2>1 DEF StreamRecord
  <2> HIDE DEF r
  <2>3. Passes(y[s].pump \in Connected, r.pump \in Connected)
    BY <2>1, <2>2 DEF Passes, Connected, Give
  <2>4. QED
    BY <1>0, <2>1, <2>2, <2>3, PumpTurns DEF registry
<1>7. QED
  BY <1>1, <1>2, <1>3, <1>4, <1>5, <1>6 DEF Pump, Stop

LEMMA StoppedType ==
  ASSUME NEW t \in StreamRecord
  PROVE  /\ Stopped(t) \in StreamRecord
         /\ Stopped(t).pump = t.pump /\ Stopped(t).delivered = t.delivered
         /\ Stopped(t).pulls = t.pulls /\ Stopped(t).user = t.user
<1>1. PICK b \in BOOLEAN : Stopped(t) = [t EXCEPT !.permit = b]
  <2>1. CASE t.pump # "over"
    BY <2>1 DEF Stopped
  <2>2. CASE t.pump = "over"
    BY <2>2 DEF Stopped
  <2>3. QED
    BY <2>1, <2>2
<1>2. QED
  BY <1>1 DEF StreamRecord

LEMMA LastType ==
  ASSUME NEW t \in StreamRecord, NEW word \in {"end", "error", "cancelled"}
  PROVE  /\ Last(t, word) \in StreamRecord
         /\ Last(t, word).pump = t.pump /\ Last(t, word).delivered = t.delivered
         /\ Last(t, word).pulls = t.pulls
         /\ Last(t, word).user = t.user \/ Last(t, word).user = "closing"
<1> DEFINE u == IF t.user = "reads" THEN "closing" ELSE t.user
<1>1. u \in {"idle", "reads", "closing", "closed", "left"} /\ (u = t.user \/ u = "closing")
  BY DEF StreamRecord
<1>2. Last(t, word) = [t EXCEPT !.told = word, !.user = u]
  BY DEF Last, StreamRecord
<1> HIDE DEF u
<1>3. QED
  BY <1>1, <1>2 DEF StreamRecord

\* A step of the caller that touches neither the pump nor the pool.
LEMMA CallerTurns ==
  ASSUME StreamTypeOK, NEW s \in Stream, StreamSound(s), NEW r \in StreamRecord, Turns(s, r),
         r.pump = y[s].pump, r.delivered = y[s].delivered, r.pulls = y[s].pulls,
         r.user = y[s].user \/ r.user # "idle",
         table' \in {table, table \ {s}}, UNCHANGED <<aged, done, idle>>
  PROVE  StreamKeeps(s)
<1>1. Passes(y[s].pump \in Connected, r.pump \in Connected)
  BY DEF Passes
<1>2. y[s].pulls \in Nat
  BY DEF StreamTypeOK, StreamRecord
<1>3. QED
  BY <1>1, <1>2, PumpTurns

LEMMA UserKeeps ==
  ASSUME StreamTypeOK, NEW s \in Stream, StreamSound(s),
         Leave(s) \/ Abort(s) \/ StreamCancel(s) \/ Close(s)
  PROVE  StreamKeeps(s)
<1>0. y[s] \in StreamRecord
  BY DEF StreamTypeOK
<1> DEFINE c == Stopped(y[s])
<1>1. /\ c \in StreamRecord /\ c.pump = y[s].pump /\ c.delivered = y[s].delivered
      /\ c.pulls = y[s].pulls /\ c.user = y[s].user
  BY <1>0, StoppedType
<1>2. \E r \in {[y[s] EXCEPT !.user = "left"], c, [c EXCEPT !.cancelled = TRUE],
                [c EXCEPT !.user = "closed"]} : Turns(s, r)
  <2>1. CASE Leave(s)
    BY <2>1 DEF Leave, Turns
  <2>2. CASE Abort(s)
    BY <2>2 DEF Abort, Turns
  <2>3. CASE StreamCancel(s)
    BY <2>3 DEF StreamCancel, Turns
  <2>4. CASE Close(s)
    BY <2>4 DEF Close, Turns
  <2>5. QED
    BY <2>1, <2>2, <2>3, <2>4
<1>3. table' \in {table, table \ {s}} /\ UNCHANGED <<aged, done, idle>>
  BY DEF Leave, Abort, StreamCancel, Close, registry, Remove
<1> HIDE DEF c
<1>4. PICK r \in {[y[s] EXCEPT !.user = "left"], c, [c EXCEPT !.cancelled = TRUE],
                  [c EXCEPT !.user = "closed"]} : Turns(s, r)
  BY <1>2
<1>5. /\ r \in StreamRecord /\ r.pump = y[s].pump /\ r.delivered = y[s].delivered
      /\ r.pulls = y[s].pulls /\ (r.user = y[s].user \/ r.user # "idle")
  <2>1. CASE r = [y[s] EXCEPT !.user = "left"]
    BY <1>0, <2>1 DEF StreamRecord
  <2>2. CASE r = c
    BY <1>1, <2>2
  <2>3. CASE r = [c EXCEPT !.cancelled = TRUE]
    BY <1>1, <2>3 DEF StreamRecord
  <2>4. CASE r = [c EXCEPT !.user = "closed"]
    BY <1>1, <2>4 DEF StreamRecord
  <2>5. QED
    BY <2>1, <2>2, <2>3, <2>4
<1>6. QED
  BY <1>3, <1>4, <1>5, CallerTurns

LEMMA OpenKeeps ==
  ASSUME StreamTypeOK, NEW s \in Stream, StreamSound(s), Open(s) \/ StreamTimeOut(s)
  PROVE  StreamKeeps(s)
<1>0. y[s] \in StreamRecord /\ y[s].pulls \in Nat
  BY DEF StreamTypeOK, StreamRecord
<1>1. CASE Open(s)
  <2> DEFINE r == [y[s] EXCEPT !.pump = "line", !.user = "reads"]
  <2>1. y[s].user = "idle" /\ Turns(s, r) /\ Insert(s) /\ UNCHANGED <<aged, done, idle>>
    BY <1>1 DEF Open, Turns, StreamTypeOK
  <2>2. /\ r \in StreamRecord /\ r.pump = "line" /\ r.user = "reads"
        /\ r.delivered = y[s].delivered /\ r.pulls = y[s].pulls
    BY <1>0 DEF StreamRecord
  <2> HIDE DEF r
  <2>3. y[s].pump = "off"
    BY <2>1 DEF StreamSound
  <2>4. Passes(y[s].pump \in Connected, r.pump \in Connected)
    BY <2>1, <2>2, <2>3 DEF Passes, Connected
  <2>5. \A i \in Id \ {s} : Spared(i)
    BY <2>1, InsertSpares
  <2>6. /\ r.delivered + r.pulls <= RowCap + Pulls
        /\ s \notin done' => r.delivered <= RowCap
    BY <2>1, <2>2 DEF StreamSound, Capped
  <2>7. QED
    BY <2>1, <2>2, <2>4, <2>5, <2>6, TurnKeeps
<1>2. CASE StreamTimeOut(s)
  <2> DEFINE r == [y[s] EXCEPT !.pump = "error"]
  <2>1. y[s].pump \in {"select", "send"} /\ Turns(s, r) /\ UNCHANGED <<registry, idle>>
    BY <1>2 DEF StreamTimeOut, Turns
  <2>2. /\ r \in StreamRecord /\ r.pump = "error"
        /\ r.delivered = y[s].delivered /\ r.pulls = y[s].pulls /\ r.user = y[s].user
    BY <1>0 DEF StreamRecord
  <2> HIDE DEF r
  <2>3. Passes(y[s].pump \in Connected, r.pump \in Connected)
    BY <2>1, <2>2 DEF Passes, Connected
  <2>4. QED
    BY <1>0, <2>1, <2>2, <2>3, PumpTurns DEF registry
<1>3. QED
  BY <1>1, <1>2

LEMMA PullKeeps ==
  ASSUME StreamTypeOK, NEW s \in Stream, StreamSound(s), Pull(s)
  PROVE  StreamKeeps(s)
<1>0. /\ y[s] \in StreamRecord /\ y[s].user = "reads" /\ y[s].pulls < Pulls
      /\ y[s].pulls \in Nat /\ y[s].delivered \in Nat
      /\ UNCHANGED <<table, aged, done, idle>>
  BY StreamAssumption DEF StreamTypeOK, StreamRecord, Pull, registry
<1>1. CASE s \in done \/ y[s].cancelled
  <2> DEFINE word == IF s \in done THEN "end" ELSE "cancelled"
             r == Last(y[s], word)
  <2>1. Turns(s, r)
    BY <1>1 DEF Pull, Turns
  <2>2. /\ r \in StreamRecord /\ r.pump = y[s].pump /\ r.delivered = y[s].delivered
        /\ r.pulls = y[s].pulls /\ (r.user = y[s].user \/ r.user # "idle")
    BY <1>0, LastType
  <2> HIDE DEF r
  <2>3. QED
    BY <1>0, <2>1, <2>2, CallerTurns
<1>2. CASE s \notin done /\ ~y[s].cancelled
  <2> DEFINE r == [y[s] EXCEPT !.pulls = @ + 1]
  <2>1. Turns(s, r)
    BY <1>2 DEF Pull, Turns, StreamTypeOK
  <2>2. y[s].pulls + 1 \in 0 .. Pulls
    BY <1>0, StreamAssumption
  <2>3. /\ r \in StreamRecord /\ r.pump = y[s].pump /\ r.delivered = y[s].delivered
        /\ r.pulls = y[s].pulls + 1 /\ r.user = y[s].user
    BY <1>0, <2>2 DEF StreamRecord
  <2> HIDE DEF r
  <2>4. Passes(y[s].pump \in Connected, r.pump \in Connected)
    BY <1>0, <2>3 DEF Passes
  <2>5. /\ r.delivered + r.pulls <= RowCap + Pulls
        /\ s \notin done' => r.delivered <= RowCap
    BY <1>0, <1>2, <2>3, StreamAssumption DEF StreamSound, Capped
  <2>6. \A i \in Id \ {s} : Spared(i)
    BY <1>0 DEF Spared
  <2>7. QED
    BY <1>0, <2>1, <2>3, <2>4, <2>5, <2>6, TurnKeeps
<1>3. QED
  BY <1>1, <1>2

LEMMA DeliverKeeps ==
  ASSUME StreamTypeOK, NEW s \in Stream, StreamSound(s), Deliver(s)
  PROVE  StreamKeeps(s)
<1> DEFINE n == IF RowCap = 0 THEN 0 ELSE y[s].delivered + 1
           full == RowCap > 0 /\ n >= RowCap
<1>0. /\ y[s] \in StreamRecord /\ y[s].pulls > 0 /\ y[s].rows > 0
      /\ y[s].pulls \in 0 .. Pulls /\ y[s].delivered \in Nat /\ y[s].rows \in 0 .. Room
  BY StreamAssumption DEF StreamTypeOK, StreamRecord, Deliver
<1>1. PICK b \in BOOLEAN :
        Turns(s, [y[s] EXCEPT !.rows = @ - 1, !.pulls = @ - 1, !.delivered = n, !.woken = b])
  <2>1. CASE y[s].woken \/ (full /\ y[s].pump \in {"line", "select"})
    <3>1. Turns(s, [y[s] EXCEPT !.rows = @ - 1, !.pulls = @ - 1, !.delivered = n, !.woken = TRUE])
      BY <2>1, <1>0 DEF Deliver, Turns, StreamTypeOK, StreamRecord
    <3>2. QED
      BY <3>1
  <2>2. CASE ~(y[s].woken \/ (full /\ y[s].pump \in {"line", "select"}))
    <3>1. Turns(s, [y[s] EXCEPT !.rows = @ - 1, !.pulls = @ - 1, !.delivered = n, !.woken = FALSE])
      BY <2>2, <1>0 DEF Deliver, Turns, StreamTypeOK, StreamRecord
    <3>2. QED
      BY <3>1
  <2>3. QED
    BY <2>1, <2>2
<1>2. /\ n \in Nat /\ n + (y[s].pulls - 1) <= RowCap + Pulls
      /\ ~full => n <= RowCap
  BY <1>0, StreamAssumption DEF StreamSound, Capped
<1>3. n \in 0 .. (RowCap + Pulls) /\ y[s].pulls - 1 \in 0 .. Pulls /\ y[s].rows - 1 \in 0 .. Room
  BY <1>0, <1>2, StreamAssumption
<1>4. done' = (IF full THEN done \cup {s} ELSE done) /\ UNCHANGED <<table, aged, idle>>
  BY DEF Deliver
<1> HIDE DEF n, full
<1> DEFINE r == [y[s] EXCEPT !.rows = @ - 1, !.pulls = @ - 1, !.delivered = n, !.woken = b]
<1>5. /\ r \in StreamRecord /\ r.pump = y[s].pump /\ r.delivered = n
      /\ r.pulls = y[s].pulls - 1 /\ r.user = y[s].user
  BY <1>0, <1>3 DEF StreamRecord
<1>6. Turns(s, r)
  BY <1>1
<1> HIDE DEF r
<1>7. Passes(y[s].pump \in Connected, r.pump \in Connected)
  BY <1>4, <1>5 DEF Passes
<1>8. s \notin done' => n <= RowCap
  BY <1>2, <1>4
<1>9. \A i \in Id \ {s} : Spared(i)
  BY <1>4 DEF Spared
<1>10. r.user = "idle" => r.pump = "off"
  BY <1>5 DEF StreamSound
<1>11. QED
  BY <1>2, <1>5, <1>6, <1>7, <1>8, <1>9, <1>10, TurnKeeps

LEMMA DeliverLastKeeps ==
  ASSUME StreamTypeOK, NEW s \in Stream, StreamSound(s), DeliverLast(s)
  PROVE  StreamKeeps(s)
<1>0. /\ y[s] \in StreamRecord /\ y[s].pulls > 0 /\ y[s].pulls \in 0 .. Pulls
      /\ UNCHANGED <<table, aged, done, idle>>
  BY DEF StreamTypeOK, StreamRecord, DeliverLast, registry
<1> DEFINE word == IF y[s].fault THEN "error" ELSE "end"
           c == Last(y[s], word)
           r == [c EXCEPT !.pulls = @ - 1, !.fault = FALSE]
<1>1. /\ c \in StreamRecord /\ c.pump = y[s].pump /\ c.delivered = y[s].delivered
      /\ c.pulls = y[s].pulls /\ (c.user = y[s].user \/ c.user = "closing")
  BY <1>0, LastType
<1>2. Turns(s, r)
  BY DEF DeliverLast, Turns, StreamTypeOK
<1> HIDE DEF c
<1>3. y[s].pulls - 1 \in 0 .. Pulls
  BY <1>0, StreamAssumption
<1>4. /\ r \in StreamRecord /\ r.pump = y[s].pump /\ r.delivered = y[s].delivered
      /\ r.pulls = y[s].pulls - 1 /\ (r.user = y[s].user \/ r.user # "idle")
  BY <1>1, <1>3 DEF StreamRecord
<1> HIDE DEF r
<1>5. Passes(y[s].pump \in Connected, r.pump \in Connected)
  BY <1>0, <1>4 DEF Passes
<1>6. r.pulls <= y[s].pulls
  BY <1>0, <1>4
<1>7. QED
  BY <1>0, <1>2, <1>4, <1>5, <1>6, PumpTurns

LEMMA StreamNextKeeps ==
  ASSUME StreamTypeOK, NEW s \in Stream, StreamSound(s),
         Backend(s) \/ Pump(s) \/ Reader(s) \/ User(s)
  PROVE  StreamKeeps(s)
BY BackendKeeps, PumpKeeps, UserKeeps, OpenKeeps, PullKeeps, DeliverKeeps, DeliverLastKeeps
   DEF Reader, User

\* What a step of a stream leaves of its own entry: it is made as the stream is
\* opened and removed as it is closed; no other step concerns it, but the row cap.
StreamStays(s) ==
  /\ table' = table /\ aged' = aged /\ done \subseteq done'
  /\ y'[s].pump = "off" <=> y[s].pump = "off"
  /\ y'[s].user = "idle" <=> y[s].user = "idle"
  /\ y'[s].user = "closed" <=> y[s].user = "closed"

LEMMA StreamEntryKeeps ==
  ASSUME StreamTypeOK, NEW s \in Stream, StreamEntry(s),
         Backend(s) \/ Pump(s) \/ Reader(s) \/ User(s)
  PROVE  StreamEntry(s)'
<1>0. /\ y[s] \in StreamRecord
      /\ \A r : Turns(s, r) => y'[s] = r
  BY DEF StreamTypeOK, Turns
<1>1. CASE Open(s)
  <2>1. Turns(s, [y[s] EXCEPT !.pump = "line", !.user = "reads"]) /\ s \in table'
    BY <1>1 DEF Open, Insert, Turns, StreamTypeOK
  <2>2. y'[s] = [y[s] EXCEPT !.pump = "line", !.user = "reads"]
    BY <1>0, <2>1
  <2>3. y'[s].pump = "line" /\ y'[s].user = "reads"
    BY <1>0, <2>2 DEF StreamRecord
  <2>4. QED
    BY <2>1, <2>3 DEF StreamEntry, Opened
<1>2. CASE Close(s)
  <2> DEFINE c == Stopped(y[s])
  <2>1. Turns(s, [c EXCEPT !.user = "closed"]) /\ s \notin table'
    BY <1>2 DEF Close, Remove, Turns
  <2>2. c \in StreamRecord
    BY <1>0, StoppedType
  <2>3. y'[s] = [c EXCEPT !.user = "closed"]
    BY <1>0, <2>1
  <2> HIDE DEF c
  <2>4. y'[s].user = "closed"
    BY <2>2, <2>3 DEF StreamRecord
  <2>5. QED
    BY <2>1, <2>4 DEF StreamEntry
<1>3. CASE Backend(s) \/ Pump(s) \/ StreamTimeOut(s)
  <2>1. /\ y[s].pump # "off" /\ y'[s].pump # "off" /\ y'[s].user = y[s].user
        /\ UNCHANGED registry
    BY <1>0, <1>3 DEF StreamTypeOK, StreamRecord, Backend, RowComes, ErrorComes, RowsEnd,
       Pump, Stop, Connect, ConnectFails, Send, SendError, StreamTimeOut
  <2>2. StreamStays(s)
    BY <2>1 DEF StreamStays, registry
  <2>3. QED
    BY <2>2 DEF StreamStays, StreamEntry, Opened
<1>4. CASE Leave(s) \/ Abort(s) \/ StreamCancel(s)
  <2>1. /\ Stopped(y[s]) \in StreamRecord
        /\ Stopped(y[s]).pump = y[s].pump /\ Stopped(y[s]).user = y[s].user
    BY <1>0, StoppedType
  <2>2. /\ y'[s].pump = y[s].pump
        /\ y'[s].user = y[s].user \/ (y[s].user = "reads" /\ y'[s].user = "left")
        /\ UNCHANGED registry
    BY <1>0, <1>4, <2>1 DEF StreamTypeOK, StreamRecord, Leave, Abort, StreamCancel
  <2>3. StreamStays(s)
    BY <2>2 DEF StreamStays, registry
  <2>4. QED
    BY <2>3 DEF StreamStays, StreamEntry, Opened
<1>5. CASE Pull(s)
  <2>1. \A word \in {"end", "cancelled"} : 
          /\ Last(y[s], word).pump = y[s].pump
          /\ Last(y[s], word).user = y[s].user \/ Last(y[s], word).user = "closing"
    BY <1>0, LastType
  <2>2. /\ y'[s].pump = y[s].pump /\ y[s].user = "reads"
        /\ y'[s].user \in {"reads", "closing"} /\ UNCHANGED registry
    BY <1>0, <1>5, <2>1 DEF Pull, StreamTypeOK, StreamRecord
  <2>3. StreamStays(s)
    BY <2>2 DEF StreamStays, registry
  <2>4. QED
    BY <2>3 DEF StreamStays, StreamEntry, Opened
<1>6. CASE Deliver(s)
  <2>1. /\ y'[s].pump = y[s].pump /\ y'[s].user = y[s].user
        /\ UNCHANGED <<table, aged>> /\ done \subseteq done'
    BY <1>0, <1>6 DEF Deliver, StreamTypeOK, StreamRecord
  <2>2. StreamStays(s)
    BY <2>1 DEF StreamStays
  <2>3. QED
    BY <2>2 DEF StreamStays, StreamEntry, Opened
<1>7. CASE DeliverLast(s)
  <2> DEFINE c == Last(y[s], IF y[s].fault THEN "error" ELSE "end")
  <2>1. /\ c \in StreamRecord /\ c.pump = y[s].pump
        /\ c.user = IF y[s].user = "reads" THEN "closing" ELSE y[s].user
    <3> DEFINE word == IF y[s].fault THEN "error" ELSE "end"
               u == IF y[s].user = "reads" THEN "closing" ELSE y[s].user
    <3>1. word \in {"end", "error", "cancelled"}
      OBVIOUS
    <3> HIDE DEF word
    <3>2. Last(y[s], word) \in StreamRecord /\ Last(y[s], word).pump = y[s].pump
      BY <1>0, <3>1, LastType
    <3>3. Last(y[s], word) = [y[s] EXCEPT !.told = word, !.user = u]
      BY <1>0 DEF Last, StreamRecord
    <3> HIDE DEF u
    <3>4. Last(y[s], word).user = u
      BY <1>0, <3>3 DEF StreamRecord
    <3>5. QED
      BY <3>2, <3>4 DEF word, u
  <2>2. y'[s] = [c EXCEPT !.pulls = @ - 1, !.fault = FALSE] /\ UNCHANGED registry
    BY <1>7 DEF DeliverLast, StreamTypeOK
  <2> HIDE DEF c
  <2>3. y'[s].pump = c.pump /\ y'[s].user = c.user
    BY <2>1, <2>2 DEF StreamRecord
  <2>4. StreamStays(s)
    BY <2>1, <2>2, <2>3 DEF StreamStays, registry
  <2>5. QED
    BY <2>4 DEF StreamStays, StreamEntry, Opened
<1>8. QED
  BY <1>1, <1>2, <1>3, <1>4, <1>5, <1>6, <1>7 DEF Reader, User

LEMMA SparedEntry ==
  ASSUME NEW s \in Stream, StreamEntry(s), Spared(s), y'[s] = y[s]
  PROVE  StreamEntry(s)'
BY DEF StreamEntry, Opened, Spared

-----------------------------------------------------------------------------
(* The connections. *)

LEMMA CountMoves ==
  ASSUME NEW S, NEW T, NEW i, IsFiniteSet(S), T \ {i} = S \ {i}, idle \in Nat,
         Passes(i \in S, i \in T)
  PROVE  idle' \in Nat /\ idle' + Cardinality(T) = idle + Cardinality(S)
<1>1. Cardinality(S) \in Nat
  BY FS_CardinalityType
<1>2. CASE (i \in S <=> i \in T) /\ idle' = idle
  <2>1. S = T
    BY <1>2
  <2>2. QED
    BY <1>1, <1>2, <2>1
<1>3. CASE i \notin S /\ i \in T /\ idle > 0 /\ idle' = idle - 1
  <2>1. T = S \cup {i}
    BY <1>3
  <2>2. Cardinality(T) = Cardinality(S) + 1
    BY <1>3, <2>1, FS_AddElement
  <2>3. QED
    BY <1>1, <1>3, <2>2
<1>4. CASE i \in S /\ i \notin T /\ idle' = idle + 1
  <2>1. T = S \ {i}
    BY <1>4
  <2>2. Cardinality(T) = Cardinality(S) - 1
    BY <1>4, <2>1, FS_RemoveElement
  <2>3. QED
    BY <1>1, <1>4, <2>2
<1>5. QED
  BY <1>2, <1>3, <1>4 DEF Passes

LEMMA HoldersFinite == IsFiniteSet(Holders) /\ Cardinality(Holders) \in Nat
<1>1. Holders \subseteq Call \cup Stream
  BY DEF Holders
<1>2. IsFiniteSet(Holders)
  BY <1>1, RegistryAssumption, FS_Subset
<1>3. QED
  BY <1>2, FS_CardinalityType

LEMMA CallCounts ==
  ASSUME ConnsAreCounted, idle \in 0 .. Conns, NEW e \in Call, CallKeeps(e), UNCHANGED y
  PROVE  ConnsAreCounted' /\ idle' \in 0 .. Conns
<1>1. /\ e \in Holders <=> x[e].body \in Holding
      /\ e \in Holders' <=> x'[e].body \in Holding
  BY RegistryAssumption DEF Holders
<1>2. Holders' \ {e} = Holders \ {e}
  BY DEF Holders, CallKeeps, CallMoves
<1>3. Passes(e \in Holders, e \in Holders')
  BY <1>1 DEF CallKeeps, CallMoves, Passes
<1>4. idle \in Nat /\ Conns \in Nat
  BY RegistryAssumption
<1>5. idle' \in Nat /\ idle' + Cardinality(Holders') = idle + Cardinality(Holders)
  BY <1>2, <1>3, <1>4, HoldersFinite, CountMoves
<1>6. IsFiniteSet(Holders') /\ Cardinality(Holders') \in Nat
  <2>1. Holders' \subseteq Call \cup Stream
    BY DEF Holders
  <2>2. IsFiniteSet(Holders')
    BY <2>1, RegistryAssumption, FS_Subset
  <2>3. QED
    BY <2>2, FS_CardinalityType
<1>7. QED
  BY <1>4, <1>5, <1>6, HoldersFinite DEF ConnsAreCounted

LEMMA StreamCounts ==
  ASSUME ConnsAreCounted, idle \in 0 .. Conns, NEW s \in Stream, StreamKeeps(s), UNCHANGED x
  PROVE  ConnsAreCounted' /\ idle' \in 0 .. Conns
<1>1. /\ s \in Holders <=> y[s].pump \in Connected
      /\ s \in Holders' <=> y'[s].pump \in Connected
  BY RegistryAssumption DEF Holders
<1>2. Holders' \ {s} = Holders \ {s}
  BY DEF Holders, StreamKeeps
<1>3. Passes(s \in Holders, s \in Holders')
  BY <1>1 DEF StreamKeeps, Passes
<1>4. idle \in Nat /\ Conns \in Nat
  BY RegistryAssumption
<1>5. idle' \in Nat /\ idle' + Cardinality(Holders') = idle + Cardinality(Holders)
  BY <1>2, <1>3, <1>4, HoldersFinite, CountMoves
<1>6. IsFiniteSet(Holders') /\ Cardinality(Holders') \in Nat
  <2>1. Holders' \subseteq Call \cup Stream
    BY DEF Holders
  <2>2. IsFiniteSet(Holders')
    BY <2>1, RegistryAssumption, FS_Subset
  <2>3. QED
    BY <2>2, FS_CardinalityType
<1>7. QED
  BY <1>4, <1>5, <1>6, HoldersFinite DEF ConnsAreCounted

-----------------------------------------------------------------------------
(* The registry. *)

Enters(i) == table' \subseteq table \cup {i} /\ done' \subseteq done \cup {i} /\ aged' = aged

LEMMA CallEnters ==
  ASSUME NEW e \in Call, Statement(e) \/ Task(e) \/ Caller(e) \/ World(e)
  PROVE  Enters(e)
<1>1. CASE UNCHANGED registry
  BY <1>1 DEF registry, Enters
<1>2. ASSUME NEW o, Settle(e, o) PROVE Enters(e)
  BY <1>2 DEF Settle, Remove, Enters
<1>3. CASE Insert(e) /\ UNCHANGED <<aged, done>>
  BY <1>3 DEF Insert, Enters
<1>4. CASE Remove(e) /\ UNCHANGED <<aged, done>>
  BY <1>4 DEF Remove, Enters
<1>5. CASE Statement(e)
  BY <1>1, <1>2, <1>5 DEF Statement, Row, LastRow, Executed, DeafEnds, StatementFails
<1>6. CASE Task(e)
  BY <1>1, <1>2, <1>6 DEF Task, Enter, Acquire, AcquireFails, Head, Listen, Woken
<1>7. CASE Caller(e)
  BY <1>1, <1>4, <1>7 DEF Caller, Await, NotFound, TakeResult
<1>8. CASE World(e)
  BY <1>1, <1>2, <1>3, <1>4, <1>8 DEF World, Begin, TimeOut, DirectTimeOut, SpawnedTimeOut,
       BeginTimeOut, Abandon, Cancel, HangUp, SweepToken
<1>9. QED
  BY <1>5, <1>6, <1>7, <1>8

LEMMA StreamEnters ==
  ASSUME NEW s \in Stream, Backend(s) \/ Pump(s) \/ Reader(s) \/ User(s)
  PROVE  Enters(s)
<1>1. CASE UNCHANGED registry
  BY <1>1 DEF registry, Enters
<1>2. CASE Backend(s) \/ Pump(s)
  BY <1>1, <1>2 DEF Backend, RowComes, ErrorComes, RowsEnd,
       Pump, Stop, Connect, ConnectFails, Send, SendError
<1>3. CASE Reader(s)
  BY <1>1, <1>3 DEF Reader, Deliver, DeliverLast, Close, Remove, Enters
<1>4. CASE User(s)
  BY <1>1, <1>4 DEF User, Open, Insert, Pull, Leave, Abort, StreamCancel, StreamTimeOut, Enters
<1>5. QED
  BY <1>2, <1>3, <1>4

-----------------------------------------------------------------------------
(* The invariant. *)

LEMMA InitInv == Init => Inv
<1> SUFFICES ASSUME Init
             PROVE  Inv
  OBVIOUS
<1> USE DEF Init, RegistryInit
<1>1. /\ x \in [Call -> CallRecord]
      /\ \A e \in Call : /\ x[e].body = "off" /\ x[e].flag = "no" /\ ~x[e].sent
                         /\ x[e].caller \in {"idle", "gone"} /\ x[e].answer = "none"
  <2> DEFINE R == [mode : Mode, kind : Kind, limited : BOOLEAN,
                   body : {"off"}, flag : {"no"}, heard : {FALSE}, late : {FALSE},
                   sent : {FALSE}, outcome : {"none"},
                   caller : {"idle", "gone"}, answer : {"none"}, link : {"none", "up"}]
  <2>1. x \in [Call -> R]
    BY DEF CallInit
  <2>2. "off" \in Body /\ "none" \in Outcome
    BY DEF Body, Outcome
  <2>3. ASSUME NEW c \in R
        PROVE  /\ c \in CallRecord /\ c.body = "off" /\ c.flag = "no" /\ ~c.sent
               /\ c.caller \in {"idle", "gone"} /\ c.answer = "none"
    BY <2>2 DEF CallRecord
  <2> HIDE DEF R
  <2>4. QED
    BY <2>1, <2>3
<1>2. /\ y \in [Stream -> StreamRecord]
      /\ \A s \in Stream : y[s].pump = "off" /\ y[s].delivered = 0 /\ y[s].pulls = 0
  <2> DEFINE r(u) == [pump |-> "off", whole |-> FALSE, rows |-> 0, fault |-> FALSE,
                      permit |-> FALSE, woken |-> FALSE, cancelled |-> FALSE,
                      delivered |-> 0, pulls |-> 0, user |-> u, told |-> "nothing"]
  <2>1. \A u \in {"idle", "left"} :
          r(u) \in StreamRecord /\ r(u).pump = "off" /\ r(u).delivered = 0 /\ r(u).pulls = 0
    BY StreamAssumption DEF StreamRecord
  <2>2. y \in [Stream -> {r(u) : u \in {"idle", "left"}}]
    BY DEF StreamInit
  <2> HIDE DEF r
  <2>3. QED
    BY <2>1, <2>2
<1>3. TypeOK
  BY <1>1, <1>2, RegistryAssumption DEF TypeOK, RegistryTypeOK, CallTypeOK, StreamTypeOK
<1>4. ConnsAreCounted
  <2>1. Holders = {}
    BY <1>1, <1>2 DEF Holders, Holding, Connected
  <2>2. QED
    BY <2>1, FS_EmptySet, RegistryAssumption DEF ConnsAreCounted
<1>5. CallsSound
  BY <1>1 DEF CallsSound, CallSound, InOrder, CallEntry, Begun, InFlight, OwnHangUp, Looked
<1>6. StreamsSound
  BY <1>2, StreamAssumption DEF StreamsSound, StreamSound, Capped, StreamEntry, Opened
<1>7. QED
  BY <1>3, <1>4, <1>5, <1>6 DEF Inv

LEMMA StepInv == Inv /\ [Next]_vars => Inv'
<1> SUFFICES ASSUME Inv, [Next]_vars
             PROVE  Inv'
  OBVIOUS
<1>0. /\ CallTypeOK /\ StreamTypeOK /\ ConnsAreCounted
      /\ table \subseteq Id /\ aged \subseteq Id /\ done \subseteq Id /\ idle \in 0 .. Conns
      /\ \A e \in Call : CallSound(e)
      /\ \A s \in Stream : StreamSound(s) /\ StreamEntry(s)
  BY DEF Inv, TypeOK, RegistryTypeOK, CallsSound, StreamsSound
<1>1. ASSUME NEW e \in Call, Statement(e) \/ Task(e) \/ Caller(e) \/ World(e), UNCHANGED y
      PROVE  Inv'
  <2>1. CallKeeps(e)
    BY <1>0, <1>1, CallNextKeeps
  <2>2. CallsSound'
    <3>1. CallSound(e)'
      BY <2>1 DEF CallKeeps
    <3>2. ASSUME NEW f \in Call \ {e} PROVE CallSound(f)'
      <4>1. f \in Call /\ f \in Id \ {e}
        BY DEF Id
      <4>2. CallSound(f) /\ Spared(f) /\ x'[f] = x[f]
        BY <1>0, <2>1, <4>1 DEF CallKeeps, CallMoves
      <4>3. QED
        BY <4>1, <4>2, SparedSound
    <3>3. QED
      BY <3>1, <3>2 DEF CallsSound
  <2>3. StreamsSound'
    <3>1. \A s \in Stream : s \in Id \ {e}
      BY RegistryAssumption DEF Id
    <3>2. \A s \in Stream : StreamSound(s)'
      BY <1>0, <1>1, <2>1, <3>1 DEF CallKeeps, Spared, StreamSound, Capped
    <3>3. \A s \in Stream : StreamEntry(s)'
      BY <1>0, <1>1, <2>1, <3>1, SparedEntry DEF CallKeeps
    <3>4. QED
      BY <3>2, <3>3 DEF StreamsSound
  <2>4. ConnsAreCounted' /\ idle' \in 0 .. Conns
    BY <1>0, <1>1, <2>1, CallCounts
  <2>5. /\ table' \subseteq Id /\ aged' \subseteq Id /\ done' \subseteq Id
    BY <1>0, <1>1, CallEnters DEF Enters, Id
  <2>6. TypeOK'
    BY <1>0, <1>1, <2>1, <2>4, <2>5
       DEF TypeOK, RegistryTypeOK, CallTypeOK, StreamTypeOK, CallKeeps, CallMoves
  <2>7. QED
    BY <2>2, <2>3, <2>4, <2>6 DEF Inv
<1>2. ASSUME NEW s \in Stream, Backend(s) \/ Pump(s) \/ Reader(s) \/ User(s), UNCHANGED x
      PROVE  Inv'
  <2>1. StreamKeeps(s)
    BY <1>0, <1>2, StreamNextKeeps
  <2>2. CallsSound'
    <3>1. ASSUME NEW e \in Call PROVE CallSound(e)'
      <4>1. e \in Id \ {s}
        BY RegistryAssumption DEF Id
      <4>2. CallSound(e) /\ Spared(e) /\ x'[e] = x[e]
        BY <1>0, <1>2, <2>1, <4>1 DEF StreamKeeps
      <4>3. QED
        BY <4>2, SparedSound
    <3>2. QED
      BY <3>1 DEF CallsSound
  <2>3. StreamsSound'
    <3>1. ASSUME NEW t \in Stream PROVE StreamSound(t)'
      <4>1. CASE t = s
        BY <2>1, <4>1 DEF StreamKeeps
      <4>2. CASE t # s
        <5>1. y'[t] = y[t] /\ (t \in done' <=> t \in done)
          BY <2>1, <4>2 DEF StreamKeeps, Spared, Id
        <5>2. QED
          BY <1>0, <5>1 DEF StreamSound, Capped
      <4>3. QED
        BY <4>1, <4>2
    <3>2. ASSUME NEW t \in Stream PROVE StreamEntry(t)'
      <4>1. CASE t = s
        BY <1>0, <1>2, <4>1, StreamEntryKeeps
      <4>2. CASE t # s
        <5>1. y'[t] = y[t] /\ Spared(t)
          BY <2>1, <4>2 DEF StreamKeeps, Id
        <5>2. QED
          BY <1>0, <5>1, SparedEntry
      <4>3. QED
        BY <4>1, <4>2
    <3>3. QED
      BY <3>1, <3>2 DEF StreamsSound
  <2>4. ConnsAreCounted' /\ idle' \in 0 .. Conns
    BY <1>0, <1>2, <2>1, StreamCounts
  <2>5. /\ table' \subseteq Id /\ aged' \subseteq Id /\ done' \subseteq Id
    BY <1>0, <1>2, StreamEnters DEF Enters, Id
  <2>6. TypeOK'
    BY <1>0, <1>2, <2>1, <2>4, <2>5
       DEF TypeOK, RegistryTypeOK, CallTypeOK, StreamTypeOK, StreamKeeps
  <2>7. QED
    BY <2>2, <2>3, <2>4, <2>6 DEF Inv
<1>3. CASE DayPasses /\ UNCHANGED <<x, y>>
  <2>1. UNCHANGED <<x, y, table, done, idle>> /\ aged = {} /\ aged' = table
    BY <1>3 DEF DayPasses
  <2>2. ASSUME NEW e \in Call PROVE CallSound(e)'
    <3>1. InOrder(e) /\ CallEntry(e) /\ OwnHangUp(e) /\ Looked(e)
      BY <1>0 DEF CallSound
    <3>2. InOrder(e)' /\ OwnHangUp(e)' /\ Looked(e)'
      BY <2>1, <3>1 DEF InOrder, OwnHangUp, Looked
    <3>3. CallEntry(e)'
      BY <2>1, <3>1 DEF CallEntry, Begun, InFlight, Abandoned
    <3>4. QED
      BY <3>2, <3>3 DEF CallSound
  <2>3. StreamsSound'
    BY <1>0, <2>1 DEF StreamsSound, StreamSound, Capped, StreamEntry, Opened
  <2>4. ConnsAreCounted'
    BY <1>0, <2>1 DEF ConnsAreCounted, Holders
  <2>5. TypeOK'
    BY <1>0, <2>1 DEF TypeOK, RegistryTypeOK, CallTypeOK, StreamTypeOK
  <2>6. QED
    BY <2>2, <2>3, <2>4, <2>5 DEF Inv, CallsSound
<1>4. CASE UNCHANGED vars
  <2>1. UNCHANGED <<x, y, table, aged, done, idle>>
    BY <1>4 DEF vars, registry
  <2>2. TypeOK' /\ ConnsAreCounted'
    BY <1>0, <2>1
       DEF TypeOK, RegistryTypeOK, CallTypeOK, StreamTypeOK, ConnsAreCounted, Holders
  <2>3. CallsSound' /\ StreamsSound'
    BY <1>0, <2>1 DEF CallsSound, CallSound, InOrder, CallEntry, Begun, InFlight, Abandoned,
                      OwnHangUp, Looked, StreamsSound, StreamSound, Capped, StreamEntry, Opened
  <2>4. QED
    BY <2>2, <2>3 DEF Inv
<1>5. QED
  BY <1>1, <1>2, <1>3, <1>4 DEF Next, CallNext, StreamNext

-----------------------------------------------------------------------------
(* The theorems. *)

\* Type correctness: the pool never hands out a connection it has not, nor takes one
\* too many; and calls of next that overlap may pass the row cap (apply_row_cap), but
\* by no more than there were of them at a time.
THEOREM TypeCorrect == Spec => []TypeOK
<1>1. Inv => TypeOK
  BY DEF Inv
<1>2. QED
  BY InitInv, StepInv, <1>1, PTL DEF Spec

\* No connection leaks and none is given back twice, whichever of the ways a
\* statement or a pump ends (query_cancelable, execute_cancelable, op_db_stream_open).
THEOREM NoConnIsLost == Spec => []ConnsAreCounted
<1>1. Inv => ConnsAreCounted
  BY DEF Inv
<1>2. QED
  BY InitInv, StepInv, <1>1, PTL DEF Spec

\* Every execution that is in flight, and every open stream, is found in the table
\* but for those that were answered or swept, and the table keeps nothing that is over
\* but results that were not fetched and direct calls that were abandoned (insert,
\* remove): both directions, of calls and of streams.
THEOREM TableMatches == Spec => []TableMatchesLives
<1>1. Inv => TableMatchesLives
  BY DEF Inv, CallsSound, CallSound, StreamsSound, TableMatchesLives
<1>2. QED
  BY InitInv, StepInv, <1>1, PTL DEF Spec

\* A hang-up cancels the client's own statements and nobody else's (cancel_by_token).
THEOREM HangsUpOnItsOwn == Spec => []OnlyOwnHangUp
<1>1. Inv => OnlyOwnHangUp
  BY DEF Inv, CallsSound, CallSound, OwnHangUp, OnlyOwnHangUp
<1>2. QED
  BY InitInv, StepInv, <1>1, PTL DEF Spec

\* A query cancelled in line for a connection is never sent (query_cancelable).
THEOREM NotSentFromLine == Spec => []CancelledInLine
<1>1. Inv => CancelledInLine
  BY DEF Inv, CallsSound, CallSound, Looked, CancelledInLine
<1>2. QED
  BY InitInv, StepInv, <1>1, PTL DEF Spec
=============================================================================
