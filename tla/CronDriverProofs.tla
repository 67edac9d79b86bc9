-------------------------- MODULE CronDriverProofs --------------------------
(***************************************************************************)
(* Proofs about the crontab: the driver never turns the same minute of an  *)
(* entry into a job twice, for any entries, expressions, requests and      *)
(* delays; and the minutes are those the notation names, for every value   *)
(* and step, on every day after the epoch.                                 *)
(*                                                                         *)
(* The first argument follows a minute from the schedule to the ghost      *)
(* last.  What is scheduled for an entry is later than its last job; while *)
(* the driver has the entry in hand, the minute it woke up for has passed, *)
(* so whatever is scheduled from then on, by the driver's write-back or by *)
(* a request that overtakes it, is later than the job about to be          *)
(* submitted.                                                              *)
(*                                                                         *)
(* The second finds what the loop of Field::parse sets, by the smallest    *)
(* value for which it would be wrong, and carries along the calendar which *)
(* eras, centuries, spans of four years and years have gone by: these are  *)
(* what the divisions of civil find, as a leap day ends the longer spans.  *)
(***************************************************************************)
EXTENDS MCCron, WellFoundedInduction, TLAPS

-----------------------------------------------------------------------------
\* next_after is strictly later than the time it is asked for.
LEMMA NextAfterIsLater ==
  ASSUME NEW e \in Expr, NEW t \in Minute
  PROVE  NextAfter(e, t) \in 1 .. Never /\ NextAfter(e, t) > t
<1>1. e \subseteq 1 .. MaxTime
  BY ExprAssumption
<1>2. CASE \E x \in e : IsNext(e, t, x)
  <2>1. NextAfter(e, t) \in e /\ IsNext(e, t, NextAfter(e, t))
    BY <1>2 DEF NextAfter
  <2>2. \A x \in 1 .. MaxTime : x \in 1 .. Never
    BY MaxTimeAssumption DEF Never
  <2> QED
    BY <1>1, <2>1, <2>2 DEF IsNext
<1>3. CASE ~ \E x \in e : IsNext(e, t, x)
  BY <1>3, MaxTimeAssumption DEF NextAfter, Never, Minute
<1> QED
  BY <1>2, <1>3

-----------------------------------------------------------------------------
InHand == {"sleep", "due", "write", "submit"}

\* The inductive invariant: the minutes of an entry only move forward.
Forward ==
  /\ \A c \in Entry : last[c] <= now
  /\ \A c \in registered : last[c] < nextRun[c]
  /\ pc \in InHand => last[entry] < wake
  /\ pc \in {"due", "write", "submit"} => wake <= now
  /\ pc = "write" => wake < newNext
  /\ pc = "submit" /\ entry \in registered => wake < nextRun[entry]

IInv == TypeOK /\ Forward

LEMMA InitForward == Init => IInv
<1> SUFFICES ASSUME Init PROVE IInv
  OBVIOUS
<1>1. \A c \in Entry : nextRun[c] \in 1 .. Never /\ nextRun[c] > 0
  <2>1. 0 \in Minute
    BY MaxTimeAssumption DEF Minute
  <2> QED
    BY <2>1, NextAfterIsLater DEF Init
<1>2. entry \in Entry
  BY EntryAssumption DEF Init
<1>3. nextRun \in [Entry -> 1 .. Never] /\ last \in [Entry -> Minute]
  BY <1>1, MaxTimeAssumption DEF Init, Minute
<1>4. now \in Minute /\ wake \in Minute /\ newNext \in 1 .. Never
  BY MaxTimeAssumption DEF Init, Minute, Never
<1>5. TypeOK
  BY <1>2, <1>3, <1>4 DEF Init, TypeOK
<1>6. Forward
  BY <1>1 DEF Init, Forward, InHand
<1> QED
  BY <1>5, <1>6 DEF IInv

LEMMA StepForward == IInv /\ [Next]_vars => IInv'
<1> SUFFICES ASSUME IInv, [Next]_vars PROVE IInv'
  OBVIOUS
<1> USE DEF IInv, Forward, TypeOK, InHand, Minute, Never
<1>1. CASE UNCHANGED vars
  BY <1>1 DEF vars, registryVars, gateVars, driverVars
<1>2. CASE Tick
  BY <1>2, MaxTimeAssumption DEF Tick, registryVars, gateVars, driverVars
<1>3. ASSUME NEW c \in Entry, NEW on \in BOOLEAN, SetEnabled(c, on) PROVE IInv'
  BY <1>3, MaxTimeAssumption DEF SetEnabled, gateVars, driverVars
<1>4. ASSUME NEW c \in Entry, NEW e \in Expr, SetCronExpr(c, e) PROVE IInv'
  <2>1. NextAfter(e, now) \in 1 .. Never /\ NextAfter(e, now) > now
    BY NextAfterIsLater
  <2> QED
    BY <1>4, <2>1, MaxTimeAssumption DEF SetCronExpr, gateVars, driverVars
<1>5. ASSUME NEW c \in Entry, Delete(c) PROVE IInv'
  BY <1>5, MaxTimeAssumption DEF Delete, gateVars, driverVars
<1>6. CASE OpenGate \/ RaiseFlag
  BY <1>6 DEF OpenGate, RaiseFlag, registryVars, driverVars
<1>7. CASE Top \/ LeaveGate \/ LeaveIdle
  BY <1>7 DEF Top, LeaveGate, LeaveIdle, Goto, registryVars, gateVars
<1>8. CASE Pick
  BY <1>8, MaxTimeAssumption DEF Pick, Scheduled, Goto, registryVars, gateVars
<1>9. CASE WakeUp
  BY <1>9, MaxTimeAssumption DEF WakeUp, Goto, registryVars, gateVars
<1>10. CASE Reread
  <2>1. NextAfter(expr[entry], now) \in 1 .. Never /\ NextAfter(expr[entry], now) > now
    BY NextAfterIsLater
  <2> QED
    BY <1>10, <2>1, MaxTimeAssumption DEF Reread, Goto, registryVars, gateVars
<1>11. CASE WriteBack
  BY <1>11, MaxTimeAssumption DEF WriteBack, Goto, gateVars
<1>12. CASE Submit
  BY <1>12, MaxTimeAssumption DEF Submit, Goto, registryVars, gateVars
<1> QED
  BY <1>1, <1>2, <1>3, <1>4, <1>5, <1>6, <1>7, <1>8, <1>9, <1>10, <1>11, <1>12
  DEF Next, Request, Driver

\* The types, for every set of entries and expressions and every horizon.
THEOREM TypeCorrect == Spec => []TypeOK
<1>1. IInv => TypeOK
  BY DEF IInv
<1> QED
  BY InitForward, StepForward, <1>1, PTL DEF Spec

\* A minute of an entry becomes at most one job (order of set_next_run and
\* submit_once in spawn_cron_driver).
THEOREM TriggersOnce == Spec => []NoDoubleTrigger
<1>1. IInv => NoDoubleTrigger
  BY DEF IInv, Forward, InHand, NoDoubleTrigger
<1> QED
  BY InitForward, StepForward, <1>1, PTL DEF Spec

\* A job is submitted after its entry has been moved on (same place).
THEOREM MovesOnFirst == Spec => []MovedOnFirst
<1>1. IInv => MovedOnFirst
  BY MaxTimeAssumption DEF IInv, Forward, TypeOK, Minute, Never, MovedOnFirst
<1> QED
  BY InitForward, StepForward, <1>1, PTL DEF Spec

-----------------------------------------------------------------------------
(***************************************************************************)
(* The fields: what the loop of Field::parse sets, by induction over it.   *)
(***************************************************************************)

\* A set of natural numbers has a smallest element, which is what induction over
\* them rests on.
LEMMA Smallest ==
  ASSUME NEW T, T \subseteq Nat, T # {}
  PROVE  \E x \in T : \A z \in T : x <= z
<1> DEFINE R == {ss \in Nat \X Nat : ss[1] < ss[2]}
<1>1. IsWellFoundedOn(R, Nat)
  BY NatLessThanWellFounded DEF OpToRel
<1>2. \E x \in T : \A z \in T : ~ (<<z, x>> \in R)
  <2> HIDE DEF R
  <2>1. QED
    BY <1>1, WFMin
<1>3. PICK x \in T : \A z \in T : ~ (<<z, x>> \in R)
  BY <1>2
<1>4. ASSUME NEW z \in T PROVE x <= z
  <2>1. x \in Nat /\ z \in Nat
    OBVIOUS
  <2>2. <<z, x>> \in Nat \X Nat
    BY <2>1
  <2>3. ~ (z < x)
    BY <1>3, <2>2
  <2>4. QED
    BY <2>1, <2>3
<1>5. QED
  BY <1>4

LEMMA Division ==
  ASSUME NEW n \in Nat, NEW s \in Nat, s > 0
  PROVE  \E q \in Int, r \in Nat : n = s * q + r /\ r < s /\ r = n % s
<1>1. PICK q \in Int : q = n \div s
  OBVIOUS
<1>2. PICK r \in Int : r = n % s
  OBVIOUS
<1>3. n = s * q + r
  BY <1>1, <1>2
<1>4. r \in Nat /\ r < s
  BY <1>2
<1> QED
  BY <1>2, <1>3, <1>4

LEMMA SmallMultiple ==
  ASSUME NEW s \in Nat, NEW k \in Int, s > 0, s * k < s, s * k > 0 - s
  PROVE  k = 0
<1>1. CASE k >= 1
  BY <1>1
<1>2. CASE k <= 0 - 1
  BY <1>2
<1> QED
  BY <1>1, <1>2

\* Stepping back keeps the remainder.
LEMMA StepBack ==
  ASSUME NEW n \in Nat, NEW s \in Nat, s > 0, n >= s
  PROVE  n % s = (n - s) % s
<1>1. PICK q \in Int, r \in Nat : n = s * q + r /\ r < s /\ r = n % s
  BY Division
<1>2. n - s \in Nat
  OBVIOUS
<1>3. PICK p \in Int, t \in Nat : n - s = s * p + t /\ t < s /\ t = (n - s) % s
  BY <1>2, Division
<1>4. s * (q - p - 1) = t - r
  BY <1>1, <1>3
<1>5. q - p - 1 \in Int
  OBVIOUS
<1>6. q - p - 1 = 0
  <2> DEFINE k == q - p - 1
  <2>1. k \in Int /\ s * k = t - r
    BY <1>4
  <2>2. s * k < s /\ s * k > 0 - s
    BY <1>1, <1>3, <2>1
  <2> HIDE DEF k
  <2>3. k = 0
    BY <2>1, <2>2, SmallMultiple
  <2>4. QED
    BY <2>3 DEF k
<1>7. s * 0 = 0
  OBVIOUS
<1>8. t = r
  BY <1>4, <1>6, <1>7
<1> QED
  BY <1>1, <1>3, <1>8

LEMMA StepsFrom ==
  ASSUME NEW v \in Nat, NEW lo \in Nat, NEW s \in Nat, s > 0
  PROVE  (v >= lo /\ (v - lo) % s = 0) <=>
           (v = lo \/ (v - s >= lo /\ (v - s - lo) % s = 0))
<1>1. CASE v < lo
  BY <1>1
<1>2. CASE v >= lo /\ v - lo < s
  <2>1. (v - lo) % s = v - lo
    BY <1>2
  <2>2. QED
    BY <1>2, <2>1
<1>3. CASE v >= lo /\ v - lo >= s
  <2>1. v - lo \in Nat /\ v - s - lo = (v - lo) - s
    BY <1>3
  <2>2. (v - lo) % s = (v - s - lo) % s
    BY <1>3, <2>1, StepBack
  <2>3. QED
    BY <1>3, <2>2
<1> QED
  BY <1>1, <1>2, <1>3

\* The loop sets every value from the first on that the step reaches.
LEMMA LoopSets ==
  ASSUME NEW hi \in Nat, NEW lo \in Nat, NEW s \in Nat, s > 0, NEW bit,
         bit = [v \in 0 .. hi |-> v = lo \/ (v - s >= lo /\ bit[v - s])]
  PROVE  \A v \in 0 .. hi : bit[v] <=> (v >= lo /\ (v - lo) % s = 0)
<1> DEFINE Wrong == {v \in 0 .. hi : ~ (bit[v] <=> (v >= lo /\ (v - lo) % s = 0))}
<1>1. SUFFICES ASSUME Wrong # {} PROVE FALSE
  OBVIOUS
<1>2. PICK v \in Wrong : \A z \in Wrong : v <= z
  <2>1. Wrong \subseteq Nat
    OBVIOUS
  <2> HIDE DEF Wrong
  <2>2. QED
    BY <1>1, <2>1, Smallest
<1>3. v \in 0 .. hi
  OBVIOUS
<1>4. bit[v] <=> (v = lo \/ (v - s >= lo /\ bit[v - s]))
  BY <1>3
<1>5. v - s >= lo => (bit[v - s] <=> (v - s - lo) % s = 0)
  <2>1. SUFFICES ASSUME v - s >= lo PROVE bit[v - s] <=> (v - s - lo) % s = 0
    OBVIOUS
  <2>2. v - s \in 0 .. hi /\ ~ (v <= v - s)
    BY <1>3, <2>1
  <2>3. v - s \notin Wrong
    BY <1>2, <2>2
  <2>4. QED
    BY <2>1, <2>2, <2>3
<1>6. bit[v] <=> (v >= lo /\ (v - lo) % s = 0)
  <2>1. v \in Nat
    BY <1>3
  <2> HIDE DEF Wrong
  <2>2. (v >= lo /\ (v - lo) % s = 0) <=>
          (v = lo \/ (v - s >= lo /\ (v - s - lo) % s = 0))
    BY <2>1, StepsFrom
  <2>3. QED
    BY <1>4, <1>5, <2>2, Zenon
<1> QED
  BY <1>2, <1>6

LEMMA BitsSet ==
  ASSUME NEW f \in FieldName, NEW p, Hi[f] \in Nat, From(f, p) \in Nat, To(f, p) \in Nat,
         To(f, p) <= Hi[f], p.step \in Nat, p.step > 0
  PROVE  Bits(f, p) = {v \in From(f, p) .. To(f, p) : (v - From(f, p)) % p.step = 0}
<1> DEFINE good == [v \in 0 .. Hi[f] |-> v >= From(f, p) /\ (v - From(f, p)) % p.step = 0]
           bit == CHOOSE b : b = [v \in 0 .. Hi[f] |->
             v = From(f, p) \/ (v - p.step >= From(f, p) /\ b[v - p.step])]
<1>1. good = [v \in 0 .. Hi[f] |->
               v = From(f, p) \/ (v - p.step >= From(f, p) /\ good[v - p.step])]
  <2>1. ASSUME NEW v \in 0 .. Hi[f]
        PROVE  good[v] = (v = From(f, p) \/ (v - p.step >= From(f, p) /\ good[v - p.step]))
    <3>1. v \in Nat
      OBVIOUS
    <3>2. v - p.step >= From(f, p) => v - p.step \in 0 .. Hi[f]
      BY <3>1
    <3>3. v - p.step >= From(f, p) =>
            (good[v - p.step] <=> (v - p.step - From(f, p)) % p.step = 0)
      BY <3>2
    <3>4. good[v] <=> (v >= From(f, p) /\ (v - From(f, p)) % p.step = 0)
      OBVIOUS
    <3>5. good[v] <=> (v = From(f, p) \/ (v - p.step >= From(f, p) /\ good[v - p.step]))
      <4> HIDE DEF good
      <4>1. QED
        BY <3>1, <3>3, <3>4, StepsFrom
    <3>6. good[v] \in BOOLEAN
      OBVIOUS
    <3> HIDE DEF good
    <3>7. QED
      BY <3>5, <3>6, Zenon
  <2>2. good = [v \in 0 .. Hi[f] |-> good[v]]
    OBVIOUS
  <2> HIDE DEF good
  <2>3. QED
    BY <2>1, <2>2
<1>2. bit = [v \in 0 .. Hi[f] |->
              v = From(f, p) \/ (v - p.step >= From(f, p) /\ bit[v - p.step])]
  <2> HIDE DEF good
  <2>1. QED
    BY <1>1
<1>3. Bits(f, p) = {v \in 0 .. To(f, p) : bit[v]}
  BY DEF Bits
<1> HIDE DEF bit, good
<1>4. \A v \in 0 .. Hi[f] : bit[v] <=> (v >= From(f, p) /\ (v - From(f, p)) % p.step = 0)
  BY <1>2, LoopSets
<1>5. \A v \in 0 .. To(f, p) : v \in 0 .. Hi[f]
  OBVIOUS
<1>6. {v \in 0 .. To(f, p) : bit[v]} =
        {v \in 0 .. To(f, p) : v >= From(f, p) /\ (v - From(f, p)) % p.step = 0}
  BY <1>4, <1>5
<1>7. {v \in 0 .. To(f, p) : v >= From(f, p) /\ (v - From(f, p)) % p.step = 0} =
        {v \in From(f, p) .. To(f, p) : (v - From(f, p)) % p.step = 0}
  OBVIOUS
<1> QED
  BY <1>3, <1>6, <1>7

\* A part under test.
PartTypeOK ==
  /\ field \in FieldName
  /\ part.kind \in {"star", "value", "span"} /\ part.step \in Nat
  /\ part.a \in Nat /\ part.b \in Nat

LEMMA Limits ==
  ASSUME NEW f \in FieldName
  PROVE  /\ Lo[f] \in Nat /\ Hi[f] \in Nat
         /\ f = "dow" => Lo[f] = 0 /\ Hi[f] = 7
BY DEF FieldName, Lo, Hi

LEMMA PartsTyped ==
  ASSUME NEW f \in FieldName, NEW p \in Parts(f)
  PROVE  /\ p.kind \in {"star", "value", "span"} /\ p.step \in Nat
         /\ p.a \in Nat /\ p.b \in Nat
<1>1. Hi[f] + 1 \in Nat /\ 0 \in Nat
  BY Limits
<1>2. \A x \in 0 .. (Hi[f] + 1) : x \in Nat
  BY <1>1
<1>3. /\ \A s : /\ Star(s).kind = "star" /\ Star(s).step = s
                 /\ Star(s).a = 0 /\ Star(s).b = 0
      /\ \A x, s : /\ Value(x, s).kind = "value" /\ Value(x, s).step = s
                    /\ Value(x, s).a = x /\ Value(x, s).b = x
      /\ \A x, z, s : /\ Span(x, z, s).kind = "span" /\ Span(x, z, s).step = s
                       /\ Span(x, z, s).a = x /\ Span(x, z, s).b = z
  BY DEF Star, Value, Span
<1>4. \/ \E s \in Step : p = Star(s)
      \/ \E x \in 0 .. (Hi[f] + 1), s \in Step : p = Value(x, s)
      \/ \E x, z \in 0 .. (Hi[f] + 1), s \in Step : p = Span(x, z, s)
  BY DEF Parts
<1> QED
  BY <1>1, <1>2, <1>3, <1>4, StepAssumption

\* A range with Sunday as 7 at one end.
LEMMA SundayReads == ASSUME PartTypeOK, SundayAsEnd PROVE ReadFromZero
<1>1. /\ field \in FieldName /\ part.step \in Nat /\ field = "dow"
      /\ Lo[field] = 0 /\ Hi[field] = 7
  BY Limits DEF PartTypeOK, SundayAsEnd
<1>2. PICK low \in Nat : low = Low
  BY <1>1 DEF PartTypeOK, Low
<1>3. PICK high \in Nat : high = High
  BY <1>1 DEF PartTypeOK, High
<1>4. low # high /\ 7 \in {low, high}
  BY <1>2, <1>3 DEF SundayAsEnd
<1>5. /\ From(field, part) = (IF low = 7 THEN 0 ELSE low)
      /\ To(field, part) = (IF high = 7 THEN 0 ELSE high)
  BY <1>1, <1>2, <1>3 DEF From, To, Low, High, Sunday
<1>6. Valid(field, part) <=>
        part.step > 0 /\ ((high = 7 /\ low = 0) \/ (low = 7 /\ high < 7))
  <2>1. Valid(field, part) <=>
          /\ part.step > 0 /\ From(field, part) <= To(field, part)
          /\ To(field, part) <= 7 /\ From(field, part) >= 0
    BY <1>1 DEF Valid
  <2>2. CASE high = 7
    <3>1. low # 7 /\ From(field, part) = low /\ To(field, part) = 0
      BY <1>4, <1>5, <2>2
    <3>2. QED
      BY <2>1, <2>2, <3>1
  <2>3. CASE low = 7
    <3>1. high # 7 /\ From(field, part) = 0 /\ To(field, part) = high
      BY <1>4, <1>5, <2>3
    <3>2. QED
      BY <2>1, <2>3, <3>1
  <2> QED
    BY <1>4, <2>2, <2>3
<1>7. ASSUME Valid(field, part)
      PROVE  Bits(field, part) = {v \in 0 .. (IF high = 7 THEN 0 ELSE high) : v % part.step = 0}
  <2>1. /\ part.step > 0 /\ From(field, part) = 0
        /\ To(field, part) = (IF high = 7 THEN 0 ELSE high) /\ To(field, part) \in 0 .. 7
    <3>1. part.step > 0 /\ ((high = 7 /\ low = 0) \/ (low = 7 /\ high < 7))
      BY <1>6, <1>7
    <3>2. CASE high = 7 /\ low = 0
      BY <1>5, <3>1, <3>2
    <3>3. CASE low = 7 /\ high < 7
      BY <1>3, <1>5, <3>1, <3>3
    <3> QED
      BY <3>1, <3>2, <3>3
  <2>2. /\ From(field, part) \in Nat /\ To(field, part) \in Nat /\ To(field, part) <= Hi[field]
        /\ part.step > 0
    BY <1>1, <2>1
  <2>3. Bits(field, part) =
          {v \in From(field, part) .. To(field, part) : (v - From(field, part)) % part.step = 0}
    BY <1>1, <2>2, BitsSet
  <2>4. \A v \in Int : v - 0 = v
    OBVIOUS
  <2> QED
    BY <2>1, <2>3, <2>4
<1> QED
  BY <1>2, <1>3, <1>6, <1>7 DEF ReadFromZero

\* Any other part.
LEMMA OthersRead == ASSUME PartTypeOK, ~SundayAsEnd PROVE ReadAsWritten
<1>1. /\ field \in FieldName /\ part.step \in Nat
      /\ Lo[field] \in Nat /\ Hi[field] \in Nat
      /\ field = "dow" => Lo[field] = 0 /\ Hi[field] = 7
  BY Limits DEF PartTypeOK
<1>2. PICK low \in Nat : low = Low
  BY <1>1 DEF PartTypeOK, Low
<1>3. PICK high \in Nat : high = High
  BY <1>1 DEF PartTypeOK, High
<1>4. From(field, part) = Sunday(field, low) /\ To(field, part) = Sunday(field, high)
  BY <1>2, <1>3 DEF From, To, Low, High
<1>5. field = "dow" => low = high \/ (low # 7 /\ high # 7)
  BY <1>2, <1>3 DEF SundayAsEnd
<1>6. \A v : Sunday(field, v) = IF field = "dow" /\ v = 7 THEN 0 ELSE v
  BY DEF Sunday
<1>7. From(field, part) \in Nat /\ To(field, part) \in Nat
  BY <1>4, <1>6
<1>8. Valid(field, part) <=> IsMeaningful
  <2>1. IsMeaningful <=> part.step > 0 /\ Lo[field] <= low /\ low <= high /\ high <= Hi[field]
    BY <1>2, <1>3 DEF IsMeaningful
  <2>2. Valid(field, part) <=>
          /\ part.step > 0 /\ Sunday(field, low) <= Sunday(field, high)
          /\ Sunday(field, high) <= Hi[field] /\ Sunday(field, low) >= Lo[field]
    BY <1>4 DEF Valid
  <2>3. CASE field # "dow"
    <3>1. Sunday(field, low) = low /\ Sunday(field, high) = high
      BY <1>6, <2>3
    <3>2. QED
      BY <1>1, <2>1, <2>2, <3>1
  <2>4. CASE field = "dow" /\ low = 7 /\ high = 7
    <3>1. Sunday(field, low) = 0 /\ Sunday(field, high) = 0
      BY <1>6, <2>4
    <3>2. QED
      BY <1>1, <2>1, <2>2, <2>4, <3>1
  <2>5. CASE field = "dow" /\ low # 7 /\ high # 7
    <3>1. Sunday(field, low) = low /\ Sunday(field, high) = high
      BY <1>6, <2>5
    <3>2. QED
      BY <1>1, <2>1, <2>2, <3>1
  <2>6. QED
    BY <1>5, <2>3, <2>4, <2>5
<1>9. ASSUME Valid(field, part)
      PROVE  Bits(field, part) = {MeantDay(v) : v \in Meant}
  <2>1. part.step > 0 /\ To(field, part) <= Hi[field]
    BY <1>9 DEF Valid
  <2>2. Bits(field, part) =
          {v \in From(field, part) .. To(field, part) : (v - From(field, part)) % part.step = 0}
    BY <1>1, <1>7, <2>1, BitsSet
  <2>3. Meant = {v \in low .. high : (v - low) % part.step = 0}
    BY <1>2, <1>3 DEF Meant
  <2>4. CASE field = "dow" /\ low = 7 /\ high = 7
    <3>1. 0 % part.step = 0
      BY <1>1, <2>1
    <3>2. low .. high = {7} /\ 0 .. 0 = {0} /\ 7 - 7 = 0 /\ 0 - 0 = 0 /\ 7 % 7 = 0
      BY <2>4
    <3>3. Meant = {7}
      BY <2>3, <2>4, <3>1, <3>2
    <3>4. From(field, part) = 0 /\ To(field, part) = 0
      BY <1>4, <1>6, <2>4
    <3>5. Bits(field, part) = {0}
      BY <2>2, <3>1, <3>2, <3>4
    <3>6. MeantDay(7) = 0
      BY <2>4, <3>2 DEF MeantDay
    <3>7. QED
      BY <3>3, <3>5, <3>6
  <2>5. CASE field # "dow" \/ (low # 7 /\ high # 7)
    <3>1. From(field, part) = low /\ To(field, part) = high
      BY <1>4, <1>6, <2>5
    <3>2. Bits(field, part) = Meant
      BY <2>2, <2>3, <3>1
    <3>3. ASSUME NEW v \in Meant PROVE MeantDay(v) = v
      <4>1. CASE field # "dow"
        BY <4>1 DEF MeantDay
      <4>2. CASE field = "dow"
        <5>1. v \in Nat /\ v < 7
          BY <1>1, <2>1, <2>3, <2>5, <3>1, <4>2
        <5>2. v % 7 = v
          BY <5>1
        <5>3. QED
          BY <4>2, <5>2 DEF MeantDay
      <4>3. QED
        BY <4>1, <4>2
    <3>4. {MeantDay(v) : v \in Meant} = Meant
      BY <3>3
    <3>5. QED
      BY <3>2, <3>4
  <2>6. QED
    BY <1>5, <2>4, <2>5
<1> QED
  BY <1>8, <1>9 DEF ReadAsWritten

LEMMA FieldsRead == PartTypeOK => FieldsAsRead
BY SundayReads, OthersRead DEF FieldsAsRead

-----------------------------------------------------------------------------
(***************************************************************************)
(* The calendar.  A year is counted from March, so that a leap day ends    *)
(* it; e eras of 400 years, c centuries, q times four years and r years    *)
(* have gone by before it.                                                 *)
(***************************************************************************)

YearsGone(e, c, q, r) == 400 * e + 100 * c + 4 * q + r
DayOfEra(c, q, r, n) == 36524 * c + 1461 * q + 365 * r + n

InEra(c, q, r) == c \in 0 .. 3 /\ q \in 0 .. 24 /\ r \in 0 .. 3
EndsInLeapDay(c, q, r) == r = 3 /\ (q = 24 => c = 3)
IsDay(c, q, r, n) == InEra(c, q, r) /\ n \in 0 .. 365 /\ (n = 365 => EndsInLeapDay(c, q, r))

\* Quotients of the divisions that civil makes.
LEMMA Quotients ==
  ASSUME NEW a \in Int, NEW k \in Int
  PROVE  /\ 365 * k <= a /\ a < 365 * k + 365 => a \div 365 = k
         /\ 1460 * k <= a /\ a < 1460 * k + 1460 => a \div 1460 = k
         /\ 36524 * k <= a /\ a < 36524 * k + 36524 => a \div 36524 = k
         /\ 146096 * k <= a /\ a < 146096 * k + 146096 => a \div 146096 = k
         /\ 146097 * k <= a /\ a < 146097 * k + 146097 => a \div 146097 = k
         /\ 153 * k <= a /\ a < 153 * k + 153 => a \div 153 = k
<1>1. 365 * k <= a /\ a < 365 * k + 365 => a \div 365 = k
  OBVIOUS
<1>2. 1460 * k <= a /\ a < 1460 * k + 1460 => a \div 1460 = k
  OBVIOUS
<1>3. 36524 * k <= a /\ a < 36524 * k + 36524 => a \div 36524 = k
  OBVIOUS
<1>4. 146096 * k <= a /\ a < 146096 * k + 146096 => a \div 146096 = k
  OBVIOUS
<1>5. 146097 * k <= a /\ a < 146097 * k + 146097 => a \div 146097 = k
  OBVIOUS
<1>6. 153 * k <= a /\ a < 153 * k + 153 => a \div 153 = k
  OBVIOUS
<1> QED
  BY <1>1, <1>2, <1>3, <1>4, <1>5, <1>6

LEMMA YearFound ==
  ASSUME NEW c, NEW q, NEW r, NEW n, IsDay(c, q, r, n), NEW doe, doe = DayOfEra(c, q, r, n)
  PROVE  doe \in Int /\ doe >= 0 /\ doe <= 146096 /\ YearOfEra(doe) = YearsGone(0, c, q, r)
<1> /\ c \in Int /\ c >= 0 /\ c <= 3 /\ q \in Int /\ q >= 0 /\ q <= 24
    /\ r \in Int /\ r >= 0 /\ r <= 3 /\ n \in Int /\ n >= 0 /\ n <= 365
    /\ n = 365 => r = 3 /\ (q = 24 => c = 3)
    /\ doe \in Int /\ doe = 36524 * c + 1461 * q + 365 * r + n
  BY SMT DEF IsDay, InEra, EndsInLeapDay, DayOfEra
<1>1. doe >= 0 /\ doe <= 146096
  OBVIOUS
<1>2. doe \div 36524 - doe \div 146096 = c
  <2>1. CASE doe = 146096
    <3>1. c = 3
      BY <2>1
    <3>2. doe \div 36524 = 4 /\ doe \div 146096 = 1
      BY <2>1, Quotients
    <3>3. QED
      BY <3>1, <3>2
  <2>2. CASE doe < 146096
    <3>1. doe \div 146096 = 0
      BY <1>1, <2>2, Quotients
    <3>2. 1461 * q + 365 * r + n < 36524
      <4>1. CASE q = 24 /\ r = 3 /\ c = 3
        BY <2>2, <4>1
      <4>2. CASE q = 24 /\ r = 3 /\ c # 3
        BY <4>2
      <4>3. CASE q < 24 \/ r < 3
        BY <4>3
      <4>4. QED
        BY <4>1, <4>2, <4>3
    <3>3. doe \div 36524 = c
      BY <3>2, Quotients
    <3>4. QED
      BY <3>1, <3>3
  <2>3. QED
    BY <1>1, <2>1, <2>2
<1>3. PICK x \in Int, j \in Int : j >= 0 /\ j <= 1 /\ x >= 0 /\ x <= 364 /\ n = x + j
                                 /\ doe \div 1460 = 25 * c + q + j
  <2>1. PICK R \in Int : R = 24 * c + q + 365 * r + n
    OBVIOUS
  <2>2. doe = 1460 * (25 * c + q) + R
    BY <2>1
  <2>3. R >= 0 /\ R <= 1556
    BY <2>1
  <2>4. CASE R < 1460
    <3>1. doe \div 1460 = 25 * c + q + 0
      BY <2>2, <2>3, <2>4, Quotients
    <3>2. n <= 364
      BY <2>1, <2>4
    <3>3. QED
      BY <3>1, <3>2
  <2>5. CASE R >= 1460
    <3>1. doe \div 1460 = 25 * c + q + 1
      BY <2>2, <2>3, <2>5, Quotients
    <3>2. n >= 1
      BY <2>1, <2>5
    <3>3. QED
      BY <3>1, <3>2
  <2>6. QED
    BY <2>3, <2>4, <2>5
<1>4. doe - doe \div 1460 + doe \div 36524 - doe \div 146096 = 365 * (100 * c + 4 * q + r) + x
  BY <1>2, <1>3
<1>5. (365 * (100 * c + 4 * q + r) + x) \div 365 = 100 * c + 4 * q + r
  BY <1>3, Quotients
<1> QED
  <2>1. YearOfEra(doe) = 100 * c + 4 * q + r
    BY <1>4, <1>5, SMT DEF YearOfEra
  <2>2. YearsGone(0, c, q, r) = 100 * c + 4 * q + r
    BY SMT DEF YearsGone
  <2>3. QED
    BY <1>1, <2>1, <2>2, SMT

\* A year that starts in March ends with a leap day if the next calendar year is leap.
LEMMA LeapYear ==
  ASSUME NEW e \in Nat, NEW c, NEW q, NEW r, InEra(c, q, r),
         NEW year, year = YearsGone(e, c, q, r) + 1
  PROVE  IsLeap(year) <=> EndsInLeapDay(c, q, r)
<1> /\ c \in Int /\ c >= 0 /\ c <= 3 /\ q \in Int /\ q >= 0 /\ q <= 24
    /\ r \in Int /\ r >= 0 /\ r <= 3
    /\ year \in Int /\ year = 400 * e + 100 * c + 4 * q + r + 1
  BY SMT DEF InEra, YearsGone
<1>1. year % 4 = 0 <=> r = 3
  <2>1. CASE r = 3
    <3>1. year = 4 * (100 * e + 25 * c + q + 1)
      BY <2>1
    <3>2. QED
      BY <2>1, <3>1
  <2>2. CASE r < 3
    <3>1. PICK k \in Int : k = 100 * e + 25 * c + q
      OBVIOUS
    <3>2. year = 4 * k + (r + 1)
      BY <3>1
    <3>3. year % 4 = r + 1
      BY <2>2, <3>2
    <3>4. QED
      BY <2>2, <3>3
  <2>3. QED
    BY <2>1, <2>2
<1>2. PICK k \in Int, x \in Int : year = 100 * k + x /\ x >= 0 /\ x < 100 /\ year % 100 = x
                                 /\ (r = 3 => (x = 0 <=> q = 24))
                                 /\ (r = 3 /\ q = 24 => k = 4 * e + c + 1)
  <2>1. CASE q = 24 /\ r = 3
    <3>1. year = 100 * (4 * e + c + 1) + 0
      BY <2>1
    <3>2. QED
      BY <2>1, <3>1
  <2>2. CASE q < 24 \/ r < 3
    <3>1. year = 100 * (4 * e + c) + (4 * q + r + 1)
      OBVIOUS
    <3>2. 4 * q + r + 1 < 100
      BY <2>2
    <3>3. PICK h \in Int, u \in Int : h = 4 * e + c /\ u = 4 * q + r + 1
      OBVIOUS
    <3>4. year = 100 * h + u /\ u >= 1 /\ u < 100
      BY <3>1, <3>2, <3>3
    <3>5. year % 100 = u
      BY <3>4
    <3>6. QED
      BY <2>2, <3>4, <3>5
  <2>3. QED
    BY <2>1, <2>2
<1>3. ASSUME r = 3, q = 24 PROVE year % 400 = 0 <=> c = 3
  <2>1. CASE c = 3
    <3>1. year = 400 * (e + 1)
      BY <1>3, <2>1
    <3>2. QED
      BY <2>1, <3>1
  <2>2. CASE c < 3
    <3>1. year = 400 * e + 100 * (c + 1)
      BY <1>3
    <3>2. PICK u \in Int : u = 100 * (c + 1)
      OBVIOUS
    <3>3. year % 400 = u
      BY <2>2, <3>1, <3>2
    <3>4. QED
      BY <2>2, <3>2, <3>3
  <2>3. QED
    BY <2>1, <2>2
<1>4. year % 100 = 0 <=> x = 0
  BY <1>2
<1>5. r = 3 => (year % 100 = 0 <=> q = 24)
  BY <1>2, <1>4
<1> QED
  BY <1>1, <1>3, <1>5 DEF IsLeap, EndsInLeapDay

\* What a month and a day of it are as a day of the year that starts in March.
LEMMA MonthFound ==
  ASSUME NEW g \in 0 .. 11, NEW x \in Int, x >= 1, x <= 31,
         g \in {1, 3, 6, 8} => x <= 30, g = 11 => x <= 29,
         NEW n \in Int, n = (153 * g + 2) \div 5 + x - 1
  PROVE  /\ n >= 0 /\ n <= 365 /\ (n = 365 => g = 11 /\ x = 29)
         /\ (5 * n + 2) \div 153 = g
         /\ n - (153 * g + 2) \div 5 + 1 = x
<1>1. \/ g = 0 /\ (153 * g + 2) \div 5 = 0
      \/ g = 1 /\ (153 * g + 2) \div 5 = 31
      \/ g = 2 /\ (153 * g + 2) \div 5 = 61
      \/ g = 3 /\ (153 * g + 2) \div 5 = 92
      \/ g = 4 /\ (153 * g + 2) \div 5 = 122
      \/ g = 5 /\ (153 * g + 2) \div 5 = 153
      \/ g = 6 /\ (153 * g + 2) \div 5 = 184
      \/ g = 7 /\ (153 * g + 2) \div 5 = 214
      \/ g = 8 /\ (153 * g + 2) \div 5 = 245
      \/ g = 9 /\ (153 * g + 2) \div 5 = 275
      \/ g = 10 /\ (153 * g + 2) \div 5 = 306
      \/ g = 11 /\ (153 * g + 2) \div 5 = 337
  OBVIOUS
<1>2. PICK b \in Int : /\ b = (153 * g + 2) \div 5
                       /\ b >= 0 /\ b <= 337
                       /\ 153 * g <= 5 * b + 2
                       /\ 5 * b + 5 * x - 3 < 153 * g + 153
                       /\ b + x - 1 <= 365
                       /\ b + x - 1 = 365 => g = 11 /\ x = 29
  BY <1>1
<1>3. n = b + x - 1
  BY <1>2
<1>4. n >= 0 /\ n <= 365 /\ (n = 365 => g = 11 /\ x = 29)
  BY <1>2, <1>3
<1>5. 153 * g <= 5 * n + 2 /\ 5 * n + 2 < 153 * g + 153
  BY <1>2, <1>3
<1>6. (5 * n + 2) \div 153 = g
  BY <1>5
<1> QED
  BY <1>2, <1>3, <1>4, <1>6

MarchYear == IF m <= 2 THEN y - 1 ELSE y
MonthsGone == IF m <= 2 THEN m + 9 ELSE m - 3
DaysGone == (153 * MonthsGone + 2) \div 5 + d - 1

CalendarTypeOK ==
  /\ day \in Nat /\ y \in Nat /\ m \in 1 .. 12 /\ d \in 1 .. MonthLength
  /\ weekday = (day + 4) % 7

\* The calendar is counted from 1 March of the year 0.
SinceMarch == day + 719468
Counts(e, c, q, r) ==
  /\ e \in Nat /\ InEra(c, q, r)
  /\ MarchYear = YearsGone(e, c, q, r)
  /\ SinceMarch = 146097 * e + DayOfEra(c, q, r, DaysGone)

CalendarInv == CalendarTypeOK /\ \E e, c, q, r : Counts(e, c, q, r)

LEMMA MonthLengths ==
  ASSUME NEW l, l = MonthLength, m \in 1 .. 12
  PROVE  /\ l \in 28 .. 31
         /\ m = 2 => (IsLeap(y) => l = 29) /\ (~IsLeap(y) => l = 28)
         /\ m \in {4, 6, 9, 11} => l = 30
         /\ m \notin {2, 4, 6, 9, 11} => l = 31
BY SMT DEF MonthLength

\* The day of the calendar as a day of the year that starts in March.
LEMMA DayOfYear ==
  ASSUME CalendarTypeOK, NEW e, NEW c, NEW q, NEW r, Counts(e, c, q, r)
  PROVE  /\ IsDay(c, q, r, DaysGone)
         /\ MonthsGone \in 0 .. 11
         /\ (5 * DaysGone + 2) \div 153 = MonthsGone
         /\ DaysGone - (153 * MonthsGone + 2) \div 5 + 1 = d
<1>1. PICK l : l = MonthLength
  OBVIOUS
<1>2. /\ y \in Int /\ m \in 1 .. 12 /\ d \in Int /\ d >= 1 /\ d <= l
      /\ l \in 28 .. 31
      /\ m = 2 => (IsLeap(y) => l = 29) /\ (~IsLeap(y) => l = 28)
      /\ m \in {4, 6, 9, 11} => l = 30
  <2>1. m \in 1 .. 12 /\ y \in Nat /\ d \in 1 .. l
    BY <1>1 DEF CalendarTypeOK
  <2>2. QED
    BY <1>1, <2>1, MonthLengths, SMT
<1>3. PICK g \in 0 .. 11 : g = MonthsGone
  BY <1>2, SMT DEF MonthsGone
<1>4. /\ g = 1 <=> m = 4
      /\ g = 3 <=> m = 6
      /\ g = 6 <=> m = 9
      /\ g = 8 <=> m = 11
      /\ g = 11 <=> m = 2
  BY <1>2, <1>3, SMT DEF MonthsGone
<1>5. d <= 31 /\ (g \in {1, 3, 6, 8} => d <= 30) /\ (g = 11 => d <= 29)
  BY <1>2, <1>4, SMT
<1>6. DaysGone = (153 * g + 2) \div 5 + d - 1
  BY <1>3 DEF DaysGone
<1>7. PICK n \in Int : n = DaysGone
  BY <1>2, <1>6, SMT
<1>8. /\ n >= 0 /\ n <= 365 /\ (n = 365 => g = 11 /\ d = 29)
      /\ (5 * n + 2) \div 153 = g
      /\ n - (153 * g + 2) \div 5 + 1 = d
  BY <1>2, <1>5, <1>6, <1>7, MonthFound, SMT
<1>9. ASSUME n = 365 PROVE EndsInLeapDay(c, q, r)
  <2>1. m = 2 /\ d = 29
    BY <1>4, <1>8, <1>9, SMT
  <2>2. IsLeap(y)
    BY <1>2, <2>1, SMT
  <2>3. MarchYear = y - 1
    BY <2>1, SMT DEF MarchYear
  <2>4. y = YearsGone(e, c, q, r) + 1
    <3>1. MarchYear = YearsGone(e, c, q, r)
      BY DEF Counts
    <3>2. QED
      BY <1>2, <2>3, <3>1, SMT
  <2>5. e \in Nat /\ InEra(c, q, r)
    BY DEF Counts
  <2>6. QED
    BY <2>2, <2>4, <2>5, LeapYear, Zenon
<1>10. IsDay(c, q, r, n)
  <2>1. InEra(c, q, r) /\ n \in 0 .. 365
    BY <1>8, SMT DEF Counts
  <2>2. QED
    BY <1>9, <2>1 DEF IsDay
<1> QED
  BY <1>3, <1>7, <1>8, <1>10

\* civil finds the day of the calendar.
LEMMA CivilIsRight ==
  ASSUME CalendarInv, NEW secs
  PROVE  /\ Civil(day, secs).dom = d /\ Civil(day, secs).mon = m
         /\ Civil(day, secs).dow = weekday
<1>1. CalendarTypeOK
  BY DEF CalendarInv
<1>2. PICK e, c, q, r : Counts(e, c, q, r)
  BY DEF CalendarInv
<1>3. PICK n : n = DaysGone
  OBVIOUS
<1>4. PICK g : g = MonthsGone
  OBVIOUS
<1>5. /\ IsDay(c, q, r, n) /\ g \in 0 .. 11
      /\ (5 * n + 2) \div 153 = g
      /\ n - (153 * g + 2) \div 5 + 1 = d
  BY <1>1, <1>2, <1>3, <1>4, DayOfYear, Zenon
<1>6. PICK doe : doe = DayOfEra(c, q, r, n)
  OBVIOUS
<1>7. doe \in Int /\ doe >= 0 /\ doe <= 146096 /\ YearOfEra(doe) = YearsGone(0, c, q, r)
  BY <1>5, <1>6, YearFound, SMT
<1>8. /\ c \in Int /\ c >= 0 /\ c <= 3 /\ q \in Int /\ q >= 0 /\ q <= 24
      /\ r \in Int /\ r >= 0 /\ r <= 3 /\ n \in Int /\ e \in Nat
  BY <1>2, <1>5, SMT DEF Counts, IsDay, InEra
<1>9. PICK z \in Int : z = day + 719468
  BY <1>1, SMT DEF CalendarTypeOK
<1>10. z = 146097 * e + doe /\ z >= 0
  <2>1. z = 146097 * e + doe
    BY <1>2, <1>3, <1>6, <1>9, SMT DEF Counts, SinceMarch
  <2>2. QED
    BY <1>7, <1>8, <2>1, SMT
<1>11. Era(z) = e
  <2>1. z \div 146097 = e
    BY <1>7, <1>8, <1>10, Quotients, SMT
  <2>2. QED
    BY <1>10, <2>1, SMT DEF Era
<1>12. z - Era(z) * 146097 = doe
  BY <1>7, <1>8, <1>10, <1>11, SMT
<1>13. PICK k \in Int : k = 100 * c + 4 * q + r
  BY <1>8, SMT
<1>14. k \div 4 = 25 * c + q /\ k \div 100 = c
  <2>1. k = 4 * (25 * c + q) + r
    BY <1>8, <1>13, SMT
  <2>2. k \div 4 = 25 * c + q
    BY <1>8, <2>1, SMT
  <2>3. k = 100 * c + (4 * q + r) /\ 4 * q + r >= 0 /\ 4 * q + r < 100
    BY <1>8, <1>13, SMT
  <2>4. k \div 100 = c
    BY <1>8, <2>3, SMT
  <2>5. QED
    BY <2>2, <2>4
<1>15. doe - (365 * k + k \div 4 - k \div 100) = n
  <2>1. doe = 36524 * c + 1461 * q + 365 * r + n
    BY <1>6, SMT DEF DayOfEra
  <2>2. QED
    BY <1>8, <1>13, <1>14, <2>1, SMT
<1>16. YearOfEra(doe) = k
  BY <1>7, <1>8, <1>13, SMT DEF YearsGone
<1>17. /\ Civil(day, secs).dom = n - (153 * g + 2) \div 5 + 1
       /\ Civil(day, secs).mon = (IF g < 10 THEN g + 3 ELSE g - 9)
       /\ Civil(day, secs).dow = (day + 4) % 7
  <2>1. Era(day + 719468) = e /\ day + 719468 = z
    BY <1>9, <1>11, SMT
  <2>2. (day + 719468) - Era(day + 719468) * 146097 = doe
    BY <1>7, <1>8, <1>9, <1>10, <2>1, SMT
  <2>3. LET yoe == YearOfEra(doe)
            doy == doe - (365 * yoe + yoe \div 4 - yoe \div 100)
        IN  doy = n /\ (5 * doy + 2) \div 153 = g
    BY <1>5, <1>15, <1>16
  <2>4. QED
    BY <2>2, <2>3, SMT DEF Civil
<1>18. (IF g < 10 THEN g + 3 ELSE g - 9) = m
  BY <1>1, <1>4, SMT DEF MonthsGone, CalendarTypeOK
<1> QED
  BY <1>1, <1>5, <1>17, <1>18 DEF CalendarTypeOK

\* The last day of February is followed by the first of March.
LEMMA MarchComes ==
  ASSUME CalendarTypeOK, CalendarTypeOK', m = 2, d = MonthLength,
         m' = 3, d' = 1, y' = y, day' = day + 1,
         NEW e, NEW c, NEW q, NEW r, Counts(e, c, q, r)
  PROVE  \E e1, c1, q1, r1 : Counts(e1, c1, q1, r1)'
<1>1. y \in Int /\ day \in Int
  BY DEF CalendarTypeOK
<1>2. MarchYear = y - 1 /\ MarchYear' = y
  BY <1>1, SMT DEF MarchYear
<1>3. MonthsGone = 11 /\ MonthsGone' = 0
  BY SMT DEF MonthsGone
<1>4. DaysGone = 337 + d - 1
  <2>1. (153 * 11 + 2) \div 5 = 337
    OBVIOUS
  <2>2. QED
    BY <1>3, <2>1 DEF DaysGone
<1>5. DaysGone' = 0
  <2>1. (153 * 0 + 2) \div 5 = 0
    OBVIOUS
  <2>2. QED
    BY <1>3, <2>1, SMT DEF DaysGone
<1>6. (IsLeap(y) => d = 29) /\ (~IsLeap(y) => d = 28)
  BY MonthLengths, SMT
<1>7. /\ e \in Nat /\ InEra(c, q, r)
      /\ y - 1 = YearsGone(e, c, q, r)
      /\ SinceMarch = 146097 * e + DayOfEra(c, q, r, DaysGone)
  BY <1>2 DEF Counts
<1>8. IsLeap(y) <=> EndsInLeapDay(c, q, r)
  <2>1. y = YearsGone(e, c, q, r) + 1
    BY <1>1, <1>7, SMT
  <2>2. QED
    BY <1>7, <2>1, LeapYear, SMT
<1>9. /\ c \in Int /\ c >= 0 /\ c <= 3 /\ q \in Int /\ q >= 0 /\ q <= 24
      /\ r \in Int /\ r >= 0 /\ r <= 3
      /\ y = 400 * e + 100 * c + 4 * q + r + 1
      /\ SinceMarch = 146097 * e + 36524 * c + 1461 * q + 365 * r + (337 + d - 1)
  BY <1>1, <1>4, <1>7, SMT DEF InEra, YearsGone, DayOfEra
<1>10. SinceMarch' = SinceMarch + 1
  BY <1>1, SMT DEF SinceMarch
<1>11. ASSUME NEW e1 \in Nat, NEW c1, NEW q1, NEW r1, InEra(c1, q1, r1),
              y = YearsGone(e1, c1, q1, r1),
              SinceMarch + 1 = 146097 * e1 + DayOfEra(c1, q1, r1, 0)
       PROVE  Counts(e1, c1, q1, r1)'
  BY <1>2, <1>5, <1>10, <1>11 DEF Counts
<1>12. CASE r < 3
  <2>1. d = 28
    BY <1>6, <1>8, <1>9, <1>12, SMT DEF EndsInLeapDay
  <2>2. /\ InEra(c, q, r + 1)
        /\ y = YearsGone(e, c, q, r + 1)
        /\ SinceMarch + 1 = 146097 * e + DayOfEra(c, q, r + 1, 0)
    BY <1>7, <1>9, <1>12, <2>1, SMT DEF InEra, YearsGone, DayOfEra
  <2>3. QED
    BY <1>7, <1>11, <2>2
<1>13. CASE r = 3 /\ q < 24
  <2>1. d = 29
    BY <1>6, <1>8, <1>9, <1>13, SMT DEF EndsInLeapDay
  <2>2. /\ InEra(c, q + 1, 0)
        /\ y = YearsGone(e, c, q + 1, 0)
        /\ SinceMarch + 1 = 146097 * e + DayOfEra(c, q + 1, 0, 0)
    BY <1>7, <1>9, <1>13, <2>1, SMT DEF InEra, YearsGone, DayOfEra
  <2>3. QED
    BY <1>7, <1>11, <2>2
<1>14. CASE r = 3 /\ q = 24 /\ c < 3
  <2>1. d = 28
    BY <1>6, <1>8, <1>9, <1>14, SMT DEF EndsInLeapDay
  <2>2. /\ InEra(c + 1, 0, 0)
        /\ y = YearsGone(e, c + 1, 0, 0)
        /\ SinceMarch + 1 = 146097 * e + DayOfEra(c + 1, 0, 0, 0)
    BY <1>7, <1>9, <1>14, <2>1, SMT DEF InEra, YearsGone, DayOfEra
  <2>3. QED
    BY <1>7, <1>11, <2>2
<1>15. CASE r = 3 /\ q = 24 /\ c = 3
  <2>1. d = 29
    BY <1>6, <1>8, <1>9, <1>15, SMT DEF EndsInLeapDay
  <2>2. /\ e + 1 \in Nat /\ InEra(0, 0, 0)
        /\ y = YearsGone(e + 1, 0, 0, 0)
        /\ SinceMarch + 1 = 146097 * (e + 1) + DayOfEra(0, 0, 0, 0)
    BY <1>7, <1>9, <1>15, <2>1, SMT DEF InEra, YearsGone, DayOfEra
  <2>3. QED
    BY <1>11, <2>2
<1> QED
  BY <1>9, <1>12, <1>13, <1>14, <1>15, SMT

\* Any other day belongs to the same year, counted from March.
LEMMA SameYear ==
  ASSUME CalendarTypeOK, day' = day + 1,
         MarchYear' = MarchYear, DaysGone \in Int, DaysGone' = DaysGone + 1,
         NEW e, NEW c, NEW q, NEW r, Counts(e, c, q, r)
  PROVE  Counts(e, c, q, r)'
<1>1. SinceMarch \in Int /\ SinceMarch' = SinceMarch + 1
  BY SMT DEF CalendarTypeOK, SinceMarch
<1>2. DayOfEra(c, q, r, DaysGone + 1) = DayOfEra(c, q, r, DaysGone) + 1
      /\ DayOfEra(c, q, r, DaysGone) \in Int
  BY SMT DEF DayOfEra, InEra, Counts
<1>3. e \in Nat /\ SinceMarch = 146097 * e + DayOfEra(c, q, r, DaysGone)
  BY DEF Counts
<1>4. SinceMarch' = 146097 * e + DayOfEra(c, q, r, DaysGone')
  BY <1>1, <1>2, <1>3, SMT
<1> QED
  BY <1>4 DEF Counts

LEMMA TurnsTyped == CalendarTypeOK /\ NextDay => CalendarTypeOK'
<1> SUFFICES ASSUME CalendarTypeOK, NextDay PROVE CalendarTypeOK'
  BY SMT
<1>1. /\ day \in Nat /\ y \in Nat /\ m \in 1 .. 12 /\ d \in 1 .. MonthLength
      /\ weekday = (day + 4) % 7 /\ day' = day + 1 /\ weekday' = (weekday + 1) % 7
  BY SMT DEF CalendarTypeOK, NextDay
<1>2. MonthLength \in 28 .. 31
  BY <1>1, MonthLengths, SMT
<1>3. weekday' = (day' + 4) % 7
  <2>1. PICK k \in Int : k = (day + 4) \div 7
    BY <1>1, SMT
  <2>2. PICK w \in Int : w = (day + 4) % 7
    BY <1>1, SMT
  <2>3. day + 4 = 7 * k + w /\ w >= 0 /\ w < 7
    BY <1>1, <2>1, <2>2, SMT
  <2>4. (w + 1) % 7 = (day + 1 + 4) % 7
    <3>1. CASE w < 6
      <4>1. (w + 1) % 7 = w + 1
        BY <2>3, <3>1, SMT
      <4>2. day + 1 + 4 = 7 * k + (w + 1)
        BY <1>1, <2>3, SMT
      <4>3. (day + 1 + 4) % 7 = w + 1
        BY <1>1, <2>3, <3>1, <4>2, SMT
      <4>4. QED
        BY <4>1, <4>3, SMT
    <3>2. CASE w = 6
      <4>1. day + 1 + 4 = 7 * (k + 1)
        BY <1>1, <2>3, <3>2, SMT
      <4>2. (day + 1 + 4) % 7 = 0
        BY <1>1, <4>1, SMT
      <4>3. QED
        BY <3>2, <4>2, SMT
    <3>3. QED
      BY <2>3, <3>1, <3>2, SMT
  <2>5. QED
    BY <1>1, <2>2, <2>4, SMT
<1>4. day' \in Nat
  BY <1>1, SMT
<1>5. y' \in Nat /\ m' \in 1 .. 12 /\ d' \in 1 .. MonthLength'
  <2>1. CASE WithinMonth
    <3>1. MonthLength' = MonthLength
      BY <2>1, SMT DEF WithinMonth, MonthLength
    <3>2. QED
      BY <1>1, <1>2, <2>1, <3>1, SMT DEF WithinMonth
  <2>2. CASE TurnMonth \/ TurnYear
    <3>1. y' \in Nat /\ m' \in 1 .. 12 /\ d' = 1
      BY <1>1, <2>2, SMT DEF TurnMonth, TurnYear
    <3>2. MonthLength' \in 28 .. 31
      BY <3>1, SMT DEF MonthLength
    <3>3. QED
      BY <3>1, <3>2, SMT
  <2>3. QED
    BY <2>1, <2>2, SMT DEF NextDay
<1> QED
  BY <1>3, <1>4, <1>5, SMT DEF CalendarTypeOK

LEMMA Turns == CalendarInv /\ NextDay => CalendarInv'
<1> SUFFICES ASSUME CalendarInv, NextDay PROVE CalendarInv'
  BY SMT
<1>1. CalendarTypeOK /\ CalendarTypeOK'
  BY TurnsTyped, SMT DEF CalendarInv
<1>2. PICK e, c, q, r : Counts(e, c, q, r)
  BY SMT DEF CalendarInv
<1>3. DaysGone \in Int
  <2>1. IsDay(c, q, r, DaysGone)
    BY <1>1, <1>2, DayOfYear, Zenon
  <2>2. QED
    BY <2>1, SMT DEF IsDay
<1>4. y \in Int /\ m \in 1 .. 12 /\ d \in Int /\ day' = day + 1
  <2>1. MonthLength \in Int
    BY <1>1, MonthLengths, SMT DEF CalendarTypeOK
  <2>2. QED
    BY <1>1, <2>1, SMT DEF CalendarTypeOK, NextDay
<1>5. CASE WithinMonth
  <2>1. MarchYear' = MarchYear
    BY <1>5, SMT DEF WithinMonth, MarchYear
  <2>2. MonthsGone' = MonthsGone /\ MonthsGone \in Int
    BY <1>4, <1>5, SMT DEF WithinMonth, MonthsGone
  <2>3. DaysGone' = DaysGone + 1
    BY <1>4, <1>5, <2>2, SMT DEF WithinMonth, DaysGone
  <2>4. QED
    BY <1>1, <1>2, <1>3, <1>4, <2>1, <2>3, SameYear, SMT DEF CalendarInv
<1>6. CASE TurnMonth /\ m = 2
  <2>1. d = MonthLength /\ m' = 3 /\ d' = 1 /\ y' = y
    BY <1>6, SMT DEF TurnMonth
  <2>2. QED
    BY <1>1, <1>2, <1>4, <1>6, <2>1, MarchComes, SMT DEF CalendarInv
<1>7. CASE (TurnMonth \/ TurnYear) /\ m # 2
  <2>1. /\ d = MonthLength /\ d' = 1
        /\ m < 12 => m' = m + 1 /\ y' = y
        /\ m = 12 => m' = 1 /\ y' = y + 1
    BY <1>4, <1>7, SMT DEF TurnMonth, TurnYear
  <2>2. MarchYear' = MarchYear
    BY <1>4, <1>7, <2>1, SMT DEF MarchYear
  <2>3. PICK g \in 0 .. 10 : g = MonthsGone /\ MonthsGone' = g + 1
                             /\ (g \in {1, 3, 6, 8} <=> m \in {4, 6, 9, 11})
    BY <1>4, <1>7, <2>1, SMT DEF MonthsGone
  <2>4. PICK l \in Int : l = MonthLength
    BY <1>4, <2>1, SMT
  <2>5. l = IF g \in {1, 3, 6, 8} THEN 30 ELSE 31
    BY <1>4, <1>7, <2>3, <2>4, MonthLengths, SMT
  <2>6. (153 * (g + 1) + 2) \div 5 = (153 * g + 2) \div 5 + l
    BY <2>5, SMT
  <2>7. DaysGone = (153 * g + 2) \div 5 + l - 1 /\ DaysGone' = (153 * (g + 1) + 2) \div 5
    BY <2>1, <2>3, <2>4, SMT DEF DaysGone
  <2>8. DaysGone' = DaysGone + 1
    BY <2>6, <2>7, SMT
  <2>9. QED
    BY <1>1, <1>2, <1>3, <1>4, <2>2, <2>8, SameYear, SMT DEF CalendarInv
<1> QED
  BY <1>5, <1>6, <1>7, SMT DEF NextDay, TurnYear

-----------------------------------------------------------------------------
(***************************************************************************)
(* The run: a part is one of the notation, the calendar stays in step, and *)
(* the sample entries are due as they are read.                            *)
(***************************************************************************)

LEMMA StarBits ==
  ASSUME NEW f \in FieldName, f # "dow", NEW s \in Nat, s > 0
  PROVE  Parse(f, {Star(s)}) = {v \in Lo[f] .. Hi[f] : (v - Lo[f]) % s = 0}
<1>1. Lo[f] \in Nat /\ Hi[f] \in Nat
  BY Limits
<1>2. Star(s).step = s /\ Star(s).kind = "star"
  BY DEF Star
<1>3. From(f, Star(s)) = Lo[f] /\ To(f, Star(s)) = Hi[f]
  BY <1>2 DEF From, To, Sunday
<1>4. Bits(f, Star(s)) = {v \in Lo[f] .. Hi[f] : (v - Lo[f]) % s = 0}
  BY <1>1, <1>2, <1>3, BitsSet
<1>5. Parse(f, {Star(s)}) = Bits(f, Star(s))
  BY DEF Parse
<1> QED
  BY <1>4, <1>5

\* A field that names one value.
LEMMA ValueBits ==
  ASSUME NEW f \in FieldName, NEW x \in Lo[f] .. Hi[f], f = "dow" => x # 7
  PROVE  Parse(f, {Value(x, 1)}) = {x}
<1>1. Lo[f] \in Nat /\ Hi[f] \in Nat /\ x \in Nat
  BY Limits
<1>2. Value(x, 1).step = 1 /\ Value(x, 1).kind = "value" /\ Value(x, 1).a = x /\ Value(x, 1).b = x
  BY DEF Value
<1>3. From(f, Value(x, 1)) = x /\ To(f, Value(x, 1)) = x
  BY <1>2 DEF From, To, Sunday
<1>4. Bits(f, Value(x, 1)) = {v \in x .. x : (v - x) % 1 = 0}
  BY <1>1, <1>2, <1>3, BitsSet
<1>5. x .. x = {x} /\ (x - x) % 1 = 0
  BY <1>1
<1>6. Parse(f, {Value(x, 1)}) = Bits(f, Value(x, 1))
  BY DEF Parse
<1> QED
  BY <1>4, <1>5, <1>6

\* A star for the weekday is Sunday.
LEMMA SundayStar == Parse("dow", {Star(1)}) = {0}
<1>1. "dow" \in FieldName /\ Lo["dow"] = 0 /\ Hi["dow"] = 7
  BY DEF FieldName, Lo, Hi
<1>2. Star(1).step = 1 /\ Star(1).kind = "star"
  BY DEF Star
<1>3. From("dow", Star(1)) = 0 /\ To("dow", Star(1)) = 0
  BY <1>1, <1>2 DEF From, To, Sunday
<1>4. Bits("dow", Star(1)) = {v \in 0 .. 0 : (v - 0) % 1 = 0}
  BY <1>1, <1>2, <1>3, BitsSet
<1>5. 0 .. 0 = {0} /\ (0 - 0) % 1 = 0
  OBVIOUS
<1>6. Parse("dow", {Star(1)}) = Bits("dow", Star(1))
  BY DEF Parse
<1> QED
  BY <1>4, <1>5, <1>6

\* What the sample entries match.
LEMMA LinesSay ==
  /\ 4 \notin Report.min /\ 5 \in Report.min /\ 13 \in Report.hour
  /\ \A v \in 1 .. 31 : v \in Report.dom /\ v \in Backup.dom
  /\ \A v \in 1 .. 12 : v \in Report.mon /\ v \in Backup.mon /\ v \in Monthly.mon
  /\ Backup.min = {30} /\ Backup.hour = {2}
  /\ Monthly.min = {0} /\ Monthly.hour = {0} /\ Monthly.dom = {1} /\ Monthly.dow = {0}
<1>1. /\ Lo["min"] = 0 /\ Hi["min"] = 59 /\ Lo["hour"] = 0 /\ Hi["hour"] = 23
      /\ Lo["dom"] = 1 /\ Hi["dom"] = 31 /\ Lo["mon"] = 1 /\ Hi["mon"] = 12
  BY DEF Lo, Hi
<1>2. {"min", "hour", "dom", "mon"} \subseteq FieldName
  BY DEF FieldName
<1>3. Report.min = {v \in 0 .. 59 : (v - 0) % 5 = 0}
  <2>1. Parse("min", {Star(5)}) = {v \in Lo["min"] .. Hi["min"] : (v - Lo["min"]) % 5 = 0}
    BY <1>2, StarBits
  <2>2. QED
    BY <1>1, <2>1 DEF Report, Line
<1>4. Report.hour = {v \in 0 .. 23 : (v - 0) % 1 = 0}
  <2>1. Parse("hour", {Star(1)}) = {v \in Lo["hour"] .. Hi["hour"] : (v - Lo["hour"]) % 1 = 0}
    BY <1>2, StarBits
  <2>2. QED
    BY <1>1, <2>1 DEF Report, Line
<1>5. Report.dom = {v \in 1 .. 31 : (v - 1) % 1 = 0} /\ Backup.dom = Report.dom
  <2>1. Parse("dom", {Star(1)}) = {v \in Lo["dom"] .. Hi["dom"] : (v - Lo["dom"]) % 1 = 0}
    BY <1>2, StarBits
  <2>2. QED
    BY <1>1, <2>1 DEF Report, Backup, Line
<1>6. /\ Report.mon = {v \in 1 .. 12 : (v - 1) % 1 = 0}
      /\ Backup.mon = Report.mon /\ Monthly.mon = Report.mon
  <2>1. Parse("mon", {Star(1)}) = {v \in Lo["mon"] .. Hi["mon"] : (v - Lo["mon"]) % 1 = 0}
    BY <1>2, StarBits
  <2>2. QED
    BY <1>1, <2>1 DEF Report, Backup, Monthly, Line
<1>7. 4 \notin Report.min /\ 5 \in Report.min
  <2>1. (4 - 0) % 5 = 4 /\ (5 - 0) % 5 = 0 /\ 4 \in 0 .. 59 /\ 5 \in 0 .. 59
    OBVIOUS
  <2>2. QED
    BY <1>3, <2>1
<1>8. 13 \in Report.hour
  <2>1. (13 - 0) % 1 = 0 /\ 13 \in 0 .. 23
    OBVIOUS
  <2>2. QED
    BY <1>4, <2>1
<1>9. \A v \in 1 .. 31 : (v - 1) % 1 = 0
  OBVIOUS
<1>10. Backup.min = {30} /\ Backup.hour = {2}
  <2>1. Parse("min", {Value(30, 1)}) = {30} /\ Parse("hour", {Value(2, 1)}) = {2}
    BY <1>1, <1>2, ValueBits
  <2>2. QED
    BY <2>1 DEF Backup, Line
<1>11. Monthly.min = {0} /\ Monthly.hour = {0} /\ Monthly.dom = {1} /\ Monthly.dow = {0}
  <2>1. /\ Parse("min", {Value(0, 1)}) = {0} /\ Parse("hour", {Value(0, 1)}) = {0}
        /\ Parse("dom", {Value(1, 1)}) = {1}
    BY <1>1, <1>2, ValueBits
  <2>2. QED
    BY <2>1, SundayStar DEF Monthly, Line
<1>12. (\A v \in 1 .. 31 : v \in Report.dom /\ v \in Backup.dom)
  BY <1>5, <1>9
<1>13. \A v \in 1 .. 12 : v \in Report.mon /\ v \in Backup.mon /\ v \in Monthly.mon
  BY <1>6, <1>9
<1> QED
  BY <1>7, <1>8, <1>10, <1>11, <1>12, <1>13

LEMMA CalendarAgrees == CalendarInv => DaysAsRead
<1> SUFFICES ASSUME CalendarInv PROVE DaysAsRead
  OBVIOUS
<1>1. \A secs : /\ Civil(day, secs).dom = d /\ Civil(day, secs).mon = m
                /\ Civil(day, secs).dow = weekday
  BY CivilIsRight
<1>2. m \in 1 .. 12 /\ d \in 1 .. 31
  <2>1. m \in 1 .. 12 /\ d \in 1 .. MonthLength
    BY DEF CalendarInv, CalendarTypeOK
  <2>2. MonthLength \in 28 .. 31
    BY <2>1, MonthLengths
  <2>3. QED
    BY <2>1, <2>2
<1>3. ASSUME NEW min \in {4, 5}
      PROVE  Matches(Report, Civil(day, (13 * 60 + min) * 60)) <=> min % 5 = 0
  <2>1. PICK secs \in Nat : secs = (13 * 60 + min) * 60
    OBVIOUS
  <2>2. Civil(day, secs).min = secs \div 60 % 60 /\ Civil(day, secs).hour = secs \div 3600
    BY DEF Civil
  <2>3. secs \div 60 % 60 = min /\ secs \div 3600 = 13
    BY <2>1
  <2>4. DayMatches(Report, Civil(day, secs))
    BY <1>1, <1>2, LinesSay DEF DayMatches
  <2>5. Matches(Report, Civil(day, secs)) <=> min \in Report.min
    BY <2>2, <2>3, <2>4, LinesSay DEF Matches
  <2>6. min \in Report.min <=> min % 5 = 0
    BY LinesSay
  <2>7. QED
    BY <2>1, <2>5, <2>6
<1>4. Matches(Backup, Civil(day, (2 * 60 + 30) * 60))
  <2>1. PICK secs \in Nat : secs = (2 * 60 + 30) * 60
    OBVIOUS
  <2>2. Civil(day, secs).min = secs \div 60 % 60 /\ Civil(day, secs).hour = secs \div 3600
    BY DEF Civil
  <2>3. secs \div 60 % 60 = 30 /\ secs \div 3600 = 2
    BY <2>1
  <2>4. DayMatches(Backup, Civil(day, secs))
    BY <1>1, <1>2, LinesSay DEF DayMatches
  <2>5. Matches(Backup, Civil(day, secs))
    BY <2>2, <2>3, <2>4, LinesSay DEF Matches
  <2>6. QED
    BY <2>1, <2>5
<1>5. Matches(Monthly, Civil(day, 0)) <=> d = 1 \/ weekday = 0
  <2>1. Civil(day, 0).min = 0 \div 60 % 60 /\ Civil(day, 0).hour = 0 \div 3600
    BY DEF Civil
  <2>2. 0 \div 60 % 60 = 0 /\ 0 \div 3600 = 0
    OBVIOUS
  <2>3. DayMatches(Monthly, Civil(day, 0)) <=> d = 1 \/ weekday = 0
    BY <1>1, <1>2, LinesSay DEF DayMatches
  <2>4. QED
    BY <2>1, <2>2, <2>3, LinesSay DEF Matches
<1> QED
  BY <1>1, <1>3, <1>4, <1>5 DEF DaysAsRead

CrontabInv == PartTypeOK /\ CalendarInv

LEMMA InitCrontab == MCInit => CrontabInv
<1> SUFFICES ASSUME MCInit PROVE CrontabInv
  OBVIOUS
<1>1. PartTypeOK
  <2>1. field \in FieldName
    BY FieldAssumption DEF MCInit
  <2>2. CASE subject = "field"
    <3>1. part \in Parts(field)
      BY <2>2 DEF MCInit
    <3>2. QED
      BY <2>1, <3>1, PartsTyped DEF PartTypeOK
  <2>3. CASE subject # "field"
    <3>1. part = Star(1)
      BY <2>3 DEF MCInit
    <3>2. QED
      BY <2>1, <3>1 DEF PartTypeOK, Star
  <2>4. QED
    BY <2>2, <2>3
<1>2. day = 0 /\ y = 1970 /\ m = 1 /\ d = 1 /\ weekday = 4
  BY DEF MCInit
<1>3. CalendarTypeOK
  <2>1. MonthLength = 31
    BY <1>2 DEF MonthLength
  <2>2. QED
    BY <1>2, <2>1 DEF CalendarTypeOK
<1>4. Counts(4, 3, 17, 1)
  <2>1. MarchYear = 1969 /\ MonthsGone = 10
    BY <1>2, SMT DEF MarchYear, MonthsGone
  <2>2. (153 * 10 + 2) \div 5 = 306
    BY SMT
  <2>3. DaysGone = 306
    BY <1>2, <2>1, <2>2, SMT DEF DaysGone
  <2>4. InEra(3, 17, 1) /\ YearsGone(4, 3, 17, 1) = 1969
    BY SMT DEF InEra, YearsGone
  <2>5. SinceMarch = 146097 * 4 + DayOfEra(3, 17, 1, 306)
    BY <1>2, SMT DEF SinceMarch, DayOfEra
  <2>6. QED
    BY <2>1, <2>3, <2>4, <2>5, SMT DEF Counts
<1> QED
  BY <1>1, <1>3, <1>4 DEF CrontabInv, CalendarInv

LEMMA StepCrontab == CrontabInv /\ [Of(Next) \/ NextDay]_all => CrontabInv'
<1> SUFFICES ASSUME CrontabInv, [Of(Next) \/ NextDay]_all PROVE CrontabInv'
  OBVIOUS
<1>1. CASE NextDay
  <2>1. PartTypeOK'
    BY <1>1 DEF CrontabInv, PartTypeOK, NextDay
  <2>2. QED
    BY <1>1, <2>1, Turns DEF CrontabInv
<1>2. CASE UNCHANGED <<field, part, calendar>>
  <2>1. UNCHANGED <<field, part, day, y, m, d, weekday>>
    BY <1>2 DEF calendar
  <2>2. PartTypeOK'
    BY <2>1 DEF CrontabInv, PartTypeOK
  <2>3. /\ MonthLength' = MonthLength /\ MarchYear' = MarchYear
        /\ SinceMarch' = SinceMarch /\ DaysGone' = DaysGone
    BY <2>1 DEF MonthLength, MarchYear, SinceMarch, DaysGone, MonthsGone
  <2>4. CalendarTypeOK'
    BY <2>1, <2>3 DEF CrontabInv, CalendarInv, CalendarTypeOK
  <2>5. PICK e, c, q, r : Counts(e, c, q, r)
    BY DEF CrontabInv, CalendarInv
  <2>6. Counts(e, c, q, r)'
    BY <2>3, <2>5 DEF Counts
  <2>7. QED
    BY <2>2, <2>4, <2>6 DEF CrontabInv, CalendarInv
<1>3. CASE Of(Next)
  BY <1>2, <1>3 DEF Of
<1>4. CASE UNCHANGED all
  BY <1>2, <1>4 DEF all
<1> QED
  BY <1>1, <1>3, <1>4

\* How every part of a crontab field is read, for every step that does not overflow
\* the loop variable, ranges with Sunday as 7 included; the date civil gives for
\* every day after 1 January 1970, with no last year; and the days three entries
\* fall on, 30 2 * * 1 on every day among them (Field::parse, CronExpr::civil,
\* next_after).
THEOREM CrontabRead == MCSpec => []CrontabAsRead
<1>1. CrontabInv => CrontabAsRead
  BY FieldsRead, CalendarAgrees DEF CrontabInv, CrontabAsRead
<1> QED
  BY InitCrontab, StepCrontab, <1>1, PTL DEF MCSpec
=============================================================================
