------------------------------- MODULE MCCron -------------------------------
(***************************************************************************)
(* Crontab entries on one instance, in three parts that start from one     *)
(* choice: the fields of an expression against what their notation means,  *)
(* the civil calendar against one that is turned a leaf a day, and the     *)
(* driver with the entries it serves.                                      *)
(***************************************************************************)
EXTENDS Cron, CronDriver

CONSTANTS Field,    \* the fields under test
          Step,     \* the steps tried
          LastYear  \* bound: the calendar ends with this year

ASSUME FieldAssumption == Field \subseteq FieldName
\* A step so large that the loop variable, a u64, overflows is left aside.
ASSUME StepAssumption == Step \subseteq Nat

VARIABLES subject,               \* "field", "calendar" or "driver"
          field, part,           \* a part of a field
          day, y, m, d, weekday  \* the day: of the epoch, and of the calendar

calendar == <<day, y, m, d, weekday>>
all == <<vars, subject, field, part, calendar>>

Parts(f) ==
  LET v == 0 .. (Hi[f] + 1)
  IN {Star(s) : s \in Step} \cup {Value(x, s) : x \in v, s \in Step}
       \cup {Span(x, z, s) : x \in v, z \in v, s \in Step}

\* Every minute, and once: enough for entries to overtake one another.
Exprs == {{1, 2, 3}, {2}}

\* Thursday, 1 January 1970.
MCInit ==
  /\ Init
  /\ subject \in {"field", "calendar", "driver"}
  /\ subject # "driver" => ~resume /\ expr = [c \in Entry |-> {2}]
  /\ field \in Field
  /\ IF subject = "field" THEN part \in Parts(field) ELSE part = Star(1) /\ field = "min"
  /\ day = 0 /\ y = 1970 /\ m = 1 /\ d = 1 /\ weekday = 4

IsLeap(year) == year % 4 = 0 /\ (year % 100 # 0 \/ year % 400 = 0)
MonthLength ==
  IF m = 2 THEN (IF IsLeap(y) THEN 29 ELSE 28)
           ELSE IF m \in {4, 6, 9, 11} THEN 30 ELSE 31

WithinMonth == d < MonthLength /\ d' = d + 1 /\ UNCHANGED <<m, y>>
TurnMonth == d = MonthLength /\ m < 12 /\ d' = 1 /\ m' = m + 1 /\ UNCHANGED y
TurnYear == d = MonthLength /\ m = 12 /\ y < LastYear /\ d' = 1 /\ m' = 1 /\ y' = y + 1

NextDay ==
  /\ subject = "calendar"
  /\ day' = day + 1
  /\ weekday' = (weekday + 1) % 7
  /\ WithinMonth \/ TurnMonth \/ TurnYear
  /\ UNCHANGED <<vars, subject, field, part>>

Of(A) == subject = "driver" /\ A /\ UNCHANGED <<subject, field, part, calendar>>

\* The clock goes on and the driver thread runs.
MCSpec ==
  /\ MCInit /\ [][Of(Next) \/ NextDay]_all
  /\ WF_all(Of(Tick)) /\ WF_all(Of(Driver))

-----------------------------------------------------------------------------
\* What the notation says, value by value; the weekday counts Sunday twice.
Low == IF part.kind = "star" THEN Lo[field] ELSE part.a
High == IF part.kind = "star" THEN Hi[field] ELSE part.b
Meant == {v \in Low .. High : (v - Low) % part.step = 0}
MeantDay(v) == IF field = "dow" THEN v % 7 ELSE v
IsMeaningful == part.step > 0 /\ Lo[field] <= Low /\ Low <= High /\ High <= Hi[field]

\* Weekday ranges with Sunday as 7 at one end are not read as they are written.
SundayAsEnd == field = "dow" /\ Low # High /\ 7 \in {Low, High}

\* A part without such an end is accepted exactly if its notation means something,
\* and then stands for the values it means ("supports *, */n, lists, ranges a-b; 0
\* and 7 are both Sunday", comment on CronExpr; Field::parse).
ReadAsWritten ==
  /\ Valid(field, part) <=> IsMeaningful
  /\ Valid(field, part) => Bits(field, part) = {MeantDay(v) : v \in Meant}

\* Field::parse turns the 7 into a 0 before it compares the ends: of the ranges that
\* end in Sunday it takes 0-7 alone, the star included, and as Sunday alone; a
\* range that begins with it is read as one that begins with 0.
ReadFromZero ==
  /\ Valid(field, part) <=>
       part.step > 0 /\ ((High = 7 /\ Low = 0) \/ (Low = 7 /\ High < 7))
  /\ Valid(field, part) =>
       Bits(field, part) = {v \in 0 .. (IF High = 7 THEN 0 ELSE High) : v % part.step = 0}

FieldsAsRead ==
  subject = "field" => IF SundayAsEnd THEN ReadFromZero ELSE ReadAsWritten

\* The two entries of docs/api/15-tasks.md, and one with a star for the weekday:
\* */5 * * * *   30 2 * * 1   0 0 1 * *
Line(min, hour, dom, dow) ==
  [min |-> Parse("min", {min}), hour |-> Parse("hour", {hour}), dom |-> Parse("dom", {dom}),
   mon |-> Parse("mon", {Star(1)}), dow |-> Parse("dow", {dow})]
Report == Line(Star(5), Star(1), Star(1), Star(1))
Backup == Line(Value(30, 1), Value(2, 1), Star(1), Value(1, 1))
Monthly == Line(Value(0, 1), Value(0, 1), Value(1, 1), Star(1))

\* civil agrees with the calendar on every day, leap days and turns of the century
\* included, and next_after takes a day that matches either of its two fields, a star
\* too, with the star for the weekday read as Sunday.  So */5 runs on every day, in
\* the minutes it names (one is tried, and one it does not name); but 30 2 * * 1
\* also runs on every day, not on Mondays alone as the document says, and
\* 0 0 1 * * on the first of the month and on every Sunday.
DaysAsRead ==
  subject = "calendar" => LET c == Civil(day, 0) IN
    /\ c.dom = d /\ c.mon = m /\ c.dow = weekday
    /\ \A min \in {4, 5} :
         Matches(Report, Civil(day, (13 * 60 + min) * 60)) <=> min % 5 = 0
    /\ Matches(Backup, Civil(day, (2 * 60 + 30) * 60))
    /\ Matches(Monthly, Civil(day, 0)) <=> d = 1 \/ weekday = 0

\* How crontab entries are read: each part of a field, with its errors, and the
\* days they fall on.  It is what the code does with the notation; where that is
\* not what the notation says is told at ReadFromZero and DaysAsRead.
CrontabAsRead == FieldsAsRead /\ DaysAsRead

-----------------------------------------------------------------------------
\* An entry that is due is dealt with, unless it is switched off, deleted or the
\* generation ends.  A client that switches another entry off and on for ever can
\* keep the driver busy with that one, so the switches must come to rest.
DueIsServed ==
  <>[][enabled' = enabled]_vars => \A c \in Entry :
    resume /\ c \in Scheduled /\ nextRun[c] <= now ~>
      nextRun[c] > now \/ ~enabled[c] \/ c \notin registered \/ flag
=============================================================================
