-------------------------------- MODULE Cron --------------------------------
(***************************************************************************)
(* The crontab expressions of src/bridge/task_pool.rs: Field::parse,       *)
(* CronExpr::civil and the day and minute tests of CronExpr::next_after.   *)
(*                                                                         *)
(* A part of a field (the text between two commas) is a record: its range  *)
(* is "*", one value or a pair of values, and its step is 1 when there is  *)
(* no slash.  A field is a set of parts, its bitmap the set of values it   *)
(* matches.  Text that is no such part is an error in every field and left *)
(* out.  An operator named after another with a suffix is a mutated form   *)
(* of it, used by no specification.                                        *)
(***************************************************************************)
EXTENDS Integers, FiniteSets

FieldName == {"min", "hour", "dom", "mon", "dow"}
Lo == [min |-> 0, hour |-> 0, dom |-> 1, mon |-> 1, dow |-> 0]
Hi == [min |-> 59, hour |-> 23, dom |-> 31, mon |-> 12, dow |-> 7]

Star(step) == [kind |-> "star", a |-> 0, b |-> 0, step |-> step]
Value(v, step) == [kind |-> "value", a |-> v, b |-> v, step |-> step]
Span(a, b, step) == [kind |-> "span", a |-> a, b |-> b, step |-> step]

\* Both ends of the range, Sunday as 7 turned into Sunday as 0.
Sunday(f, v) == IF f = "dow" /\ v = 7 THEN 0 ELSE v
From(f, p) == Sunday(f, IF p.kind = "star" THEN Lo[f] ELSE p.a)
To(f, p) == Sunday(f, IF p.kind = "star" THEN Hi[f] ELSE p.b)

Valid(f, p) ==
  /\ p.step > 0
  /\ From(f, p) <= To(f, p)
  /\ To(f, p) <= Hi[f]
  /\ From(f, p) >= Lo[f]

\* The loop that sets the bits.
Bits_round(f, p) ==
  LET bit[v \in 0 .. Hi[f]] == v = From(f, p) \/ (v >= p.step /\ bit[v - p.step])
  IN {v \in 0 .. (To(f, p) - 1) : bit[v]}
Bits(f, p) ==
  LET bit[v \in 0 .. Hi[f]] ==  \* the loop variable takes the value v
        \/ v = From(f, p)
        \/ v - p.step >= From(f, p) /\ bit[v - p.step]
  IN {v \in 0 .. To(f, p) : bit[v]}

Accepted(f, parts) == \A p \in parts : Valid(f, p)
Parse(f, parts) == UNION {Bits(f, p) : p \in parts}

-----------------------------------------------------------------------------
(* civil: minute, hour, day, month and weekday of a second since the epoch. *)

Era(z) == (IF z >= 0 THEN z ELSE z - 146096) \div 146097
YearOfEra_flat(doe) == doe \div 365
YearOfEra(doe) == (doe - doe \div 1460 + doe \div 36524 - doe \div 146096) \div 365

\* The second is given as its day and what is left of it.
Civil(days, secs) ==
  LET z   == days + 719468
      doe == z - Era(z) * 146097
      yoe == YearOfEra(doe)
      doy == doe - (365 * yoe + yoe \div 4 - yoe \div 100)
      mp  == (5 * doy + 2) \div 153
  IN [min  |-> secs \div 60 % 60,
      hour |-> secs \div 3600,
      dom  |-> doy - (153 * mp + 2) \div 5 + 1,
      mon  |-> IF mp < 10 THEN mp + 3 ELSE mp - 9,
      dow  |-> (days + 4) % 7]

\* The tests next_after makes; expr maps a field to the values it matches.
DayMatches(expr, c) ==
  c.mon \in expr.mon /\ (c.dom \in expr.dom \/ c.dow \in expr.dow)
Matches(expr, c) ==
  c.min \in expr.min /\ c.hour \in expr.hour /\ DayMatches(expr, c)
=============================================================================
