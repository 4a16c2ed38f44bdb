------------------------------ MODULE CronExpr ------------------------------
(***************************************************************************)
(* Five-field cron expressions and their next occurrence                   *)
(* (daemon/scheduler/cron_expr.py), over the calendar of Python's          *)
(* datetime.                                                               *)
(*                                                                         *)
(* A field is the set of its comma-separated parts, each a record with     *)
(* star, from, to and step.  An instant is a number of minutes since the   *)
(* first of January of FirstYear.                                          *)
(***************************************************************************)
EXTENDS Integers, FiniteSetsExt

CONSTANTS FirstYear, LastYear

\* The calendar below has no exception at the turn of a century.
ASSUME YearsAssumption ==
  /\ FirstYear \in 2001..2096
  /\ LastYear \in FirstYear..2099

NoTime == -1

-----------------------------------------------------------------------------
(* The calendar (external: datetime, timedelta).                            *)

Leap(y) == y % 4 = 0

\* The number of the first day of a year, and of a month.
NewYear(y) == 365 * (y - FirstYear) + (y - 1) \div 4 - (FirstYear - 1) \div 4

DaysBefore(m) == <<0, 31, 59, 90, 120, 151, 181, 212, 243, 273, 304, 334, 365>>[m]

MonthStart(y, m) == NewYear(y) + DaysBefore(m) + IF m > 2 /\ Leap(y) THEN 1 ELSE 0

Day(y, m, d) == MonthStart(y, m) + d - 1

\* At(...): an instant; DateOf: the date of a day.  1 January 2001 was a Monday.
At(y, m, d, hour, minute) == (Day(y, m, d) * 24 + hour) * 60 + minute

Weekday(day) == (day + 1 + 365 * (FirstYear - 2001) + (FirstYear - 2001) \div 4) % 7

DateOf(day) ==
  LET y == CHOOSE y \in FirstYear..LastYear : NewYear(y) <= day /\ day < NewYear(y + 1)
      m == CHOOSE m \in 1..12 :
             MonthStart(y, m) <= day /\ (m = 12 \/ day < MonthStart(y, m + 1))
  IN [month |-> m, day |-> day - MonthStart(y, m) + 1, dow |-> Weekday(day)]

-----------------------------------------------------------------------------
(* parse                                                                    *)

\* What the text of an expression is split into.
Parts == [star : BOOLEAN, from : Int, to : Int, step : Int]
Expressions == [minute : SUBSET Parts, hour : SUBSET Parts, dom : SUBSET Parts,
                month : SUBSET Parts, dow : SUBSET Parts]

Every == [star |-> TRUE, from |-> 0, to |-> 0, step |-> 1]
Span(a, b, n) == [star |-> FALSE, from |-> a, to |-> b, step |-> n]
Just(a) == {Span(a, a, 1)}

\* _parse_field: the values a field stands for; {} if it is rejected.
ParseField(parts, lo, hi) ==
  LET start(p) == IF p.star THEN lo ELSE p.from
      end(p) == IF p.star THEN hi ELSE p.to
      valid(p) == p.step > 0 /\ lo <= start(p) /\ start(p) <= end(p) /\ end(p) <= hi
      values(p) == {v \in start(p)..end(p) : (v - start(p)) % p.step = 0}
  IN IF \A p \in parts : valid(p) THEN UNION {values(p) : p \in parts} ELSE {}

\* parse: the schedule; both names of Sunday become 0, and only a bare * counts as one.
Parse(e) ==
  [minutes |-> ParseField(e.minute, 0, 59),
   hours |-> ParseField(e.hour, 0, 23),
   doms |-> ParseField(e.dom, 1, 31),
   months |-> ParseField(e.month, 1, 12),
   dows |-> {v % 7 : v \in ParseField(e.dow, 0, 7)},
   domIsStar |-> e.dom = {Every},
   dowIsStar |-> e.dow = {Every}]

Valid(s) == {} \notin {s.minutes, s.hours, s.doms, s.months, s.dows}

-----------------------------------------------------------------------------
(* next_after                                                               *)

MaxDaysSearched == 4 * 366 + 10

\* Mutant of DateMatches: day of month and day of week are a conjunction.
DateMatchesBoth(s, day) ==
  LET d == DateOf(day) IN d.month \in s.months /\ d.day \in s.doms /\ d.dow \in s.dows

\* _date_matches
DateMatches(s, day) ==
  LET d == DateOf(day)
      domOk == d.day \in s.doms
      dowOk == d.dow \in s.dows
  IN /\ d.month \in s.months
     /\ CASE s.domIsStar /\ s.dowIsStar -> TRUE
          [] s.domIsStar /\ ~s.dowIsStar -> dowOk
          [] ~s.domIsStar /\ s.dowIsStar -> domOk
          [] OTHER -> domOk \/ dowOk

\* The inner loops of next_after on one day: the first hour from the floor on that has a
\* minute left; the floor of the minutes counts in the floor hour only.
FirstSlot(s, floorHour, floorMinute) ==
  LET minutesIn(h) == {m \in s.minutes : m >= IF h = floorHour THEN floorMinute ELSE 0}
      hours == {h \in s.hours : h >= floorHour /\ minutesIn(h) # {}}
  IN IF hours = {} THEN NoTime ELSE Min(hours) * 60 + Min(minutesIn(Min(hours)))

\* next_after: the first day, among those searched, that matches and has a slot left.
NextAfter(s, t) ==
  LET start == t + 1
      first == start \div 1440
      slot(day) == IF day = first THEN FirstSlot(s, (start \div 60) % 24, start % 60)
                   ELSE FirstSlot(s, 0, 0)
      days == {day \in first..(first + MaxDaysSearched - 1) :
                 slot(day) # NoTime /\ DateMatches(s, day)}
  IN IF days = {} THEN NoTime ELSE Min(days) * 1440 + slot(Min(days))

-----------------------------------------------------------------------------
(* What crontab(5) says, without a search: an instant matches if its fields do, and the   *)
(* next occurrence is one that matches, with none before it.                              *)

Matches(e, t) ==
  LET s == Parse(e)
      d == DateOf(t \div 1440)
      dom == d.day \in s.doms
      dow == d.dow \in s.dows
  IN /\ t % 60 \in s.minutes
     /\ (t \div 60) % 24 \in s.hours
     /\ d.month \in s.months
     /\ (s.domIsStar \/ dom \/ (~s.dowIsStar /\ dow))
     /\ (s.dowIsStar \/ dow \/ (~s.domIsStar /\ dom))

\* All that matches on the days a search from t on looks at.
Occurrences(e, t) ==
  LET s == Parse(e)
      first == (t + 1) \div 1440
  IN {u \in {(day * 24 + h) * 60 + m :
               day \in first..(first + MaxDaysSearched - 1), h \in s.hours, m \in s.minutes} :
        u > t /\ Matches(e, u)}

IsNext(e, t, u) ==
  IF u = NoTime THEN Occurrences(e, t) = {}
  ELSE u > t /\ Matches(e, u) /\ \A v \in Occurrences(e, t) : v >= u
=============================================================================
