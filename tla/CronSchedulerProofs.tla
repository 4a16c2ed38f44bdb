------------------------- MODULE CronSchedulerProofs -------------------------
(* Theorems about CronScheduler, for any crons, dispatches, expressions, instants and        *)
(* profiles: the next occurrence of an expression is found, the schedule of a cron is that   *)
(* of its expression and moves on, and two Runs of one cron work side by side only once the  *)
(* general error handler has released the guard of another dispatch.                         *)
EXTENDS CronScheduler, WellFoundedInduction, TLAPS

-----------------------------------------------------------------------------
(* The next occurrence of an expression                                    *)

\* The natural numbers are well founded ...
LEMMA LessIsWellFounded ==
  \E R : IsWellFoundedOn(R, Nat) /\ \A x, y \in Nat : y < x => <<y, x>> \in R
<1>1. \A x, y \in Nat : y < x => <<y, x>> \in OpToRel(<, Nat)
  BY DEF OpToRel
<1> QED
  BY <1>1, NatLessThanWellFounded, Zenon

\* ... and so each set of them that is not empty has a minimum.
LEMMA MinIsLeast ==
  ASSUME NEW S \in SUBSET Nat, S # {}
  PROVE  Min(S) \in S /\ \A y \in S : Min(S) <= y
<1>1. PICK R : IsWellFoundedOn(R, Nat) /\ \A x, y \in Nat : y < x => <<y, x>> \in R
  BY LessIsWellFounded
<1>2. S \subseteq Nat
  OBVIOUS
<1>3. \E x \in S : \A y \in S : ~ (<<y, x>> \in R)
  BY <1>1, <1>2, WFMin, Zenon
<1>4. PICK x \in S : \A y \in S : ~ (<<y, x>> \in R)
  BY <1>3
<1>5. \A y \in S : x <= y
  <2> SUFFICES ASSUME NEW y \in S PROVE x <= y
    OBVIOUS
  <2>1. x \in Nat /\ y \in Nat /\ ~ (y < x)
    BY <1>1, <1>2, <1>4, Zenon
  <2> QED
    BY <2>1, SMT
<1> QED
  BY <1>5, Zenon DEF Min

\* The instant of a day, an hour and a minute.
Instant(day, h, m) == (day * 24 + h) * 60 + m
DayOf(u) == u \div 1440
HourOf(u) == (u \div 60) % 24
MinuteOf(u) == u % 60

\* They are recovered from it ...
LEMMA InstantOf ==
  ASSUME NEW day \in Nat, NEW h \in 0..23, NEW m \in 0..59
  PROVE  /\ Instant(day, h, m) \in Nat
         /\ MinuteOf(Instant(day, h, m)) = m
         /\ HourOf(Instant(day, h, m)) = h
         /\ DayOf(Instant(day, h, m)) = day
<1> DEFINE u == (day * 24 + h) * 60 + m
<1>1. u \in Nat
  OBVIOUS
<1>2. ASSUME NEW k \in Nat
      PROVE  (k * 60 + m) % 60 = m /\ (k * 60 + m) \div 60 = k
  <2>1. (k * 60 + m) % 60 = m
    OBVIOUS
  <2>2. (k * 60 + m) \div 60 = k
    OBVIOUS
  <2> QED
    BY <2>1, <2>2
<1>3. day * 24 + h \in Nat
  OBVIOUS
<1>4. u % 60 = m /\ u \div 60 = day * 24 + h
  BY <1>2, <1>3
<1>5. (day * 24 + h) % 24 = h
  OBVIOUS
<1>6. u \div 1440 = day
  OBVIOUS
<1> QED
  BY <1>1, <1>4, <1>5, <1>6 DEF Instant, DayOf, HourOf, MinuteOf

\* ... which they make up.
LEMMA PartsOf ==
  ASSUME NEW t \in Nat
  PROVE  /\ t \div 1440 \in Nat /\ (t \div 60) % 24 \in 0..23 /\ t % 60 \in 0..59
         /\ t = (t \div 1440) * 1440 + (((t \div 60) % 24) * 60 + (t % 60))
<1>1. t \div 60 \in Nat /\ t % 60 \in 0..59 /\ t \div 1440 \in Nat
  OBVIOUS
<1>2. t = (t \div 60) * 60 + (t % 60)
  OBVIOUS
<1>3. (t \div 60) \div 24 = t \div 1440
  OBVIOUS
<1>4. ASSUME NEW k \in Nat
      PROVE  k = (k \div 24) * 24 + (k % 24) /\ k % 24 \in 0..23
  <2>1. k = (k \div 24) * 24 + (k % 24)
    OBVIOUS
  <2>2. k % 24 \in 0..23
    OBVIOUS
  <2> QED
    BY <2>1, <2>2
<1>5. t \div 60 = (t \div 1440) * 24 + ((t \div 60) % 24) /\ (t \div 60) % 24 \in 0..23
  BY <1>1, <1>3, <1>4
<1> DEFINE d == t \div 1440
           k == t \div 60
           h == (t \div 60) % 24
           m == t % 60
<1>6. d \in Nat /\ h \in 0..23 /\ m \in 0..59 /\ k = d * 24 + h /\ t = k * 60 + m
  BY <1>1, <1>2, <1>5
<1> HIDE DEF d, k, h, m
<1>7. t = d * 1440 + (h * 60 + m)
  BY <1>6
<1> QED
  BY <1>6, <1>7 DEF d, h, m

\* A field stands for values in its range.
LEMMA FieldIn ==
  ASSUME NEW parts \in SUBSET Parts, NEW lo \in Int, NEW hi \in Int
  PROVE  ParseField(parts, lo, hi) \subseteq lo..hi
<1> SUFFICES ASSUME NEW v \in ParseField(parts, lo, hi)
             PROVE  v \in lo..hi
  OBVIOUS
<1> DEFINE start(p) == IF p.star THEN lo ELSE p.from
           end(p) == IF p.star THEN hi ELSE p.to
<1>1. PICK p \in parts : /\ lo <= start(p) /\ end(p) <= hi
                         /\ v \in start(p)..end(p)
  BY Zenon DEF ParseField
<1>2. p.star \in BOOLEAN /\ p.from \in Int /\ p.to \in Int
  BY DEF Parts
<1> QED
  BY <1>1, <1>2

\* So do those of the minutes and of the hours.
LEMMA MinutesAndHours ==
  ASSUME NEW e \in Expressions
  PROVE  Parse(e).minutes \subseteq 0..59 /\ Parse(e).hours \subseteq 0..23
<1>1. e.minute \subseteq Parts /\ e.hour \subseteq Parts
  BY DEF Expressions
<1>2. /\ ParseField(e.minute, 0, 59) \subseteq 0..59
      /\ ParseField(e.hour, 0, 23) \subseteq 0..23
  BY <1>1, FieldIn
<1> QED
  BY <1>2 DEF Parse

\* One minute of a day is not before another.
NotBefore(fh, fm, h, m) == fh * 60 + fm <= h * 60 + m

\* The slot found on one day is the first that is not before the floor.
LEMMA FirstSlotIsFirst ==
  ASSUME NEW s, s.minutes \subseteq 0..59, s.hours \subseteq 0..23,
         NEW fh \in 0..23, NEW fm \in 0..59
  PROVE  \/ /\ FirstSlot(s, fh, fm) = NoTime
            /\ \A h \in s.hours, m \in s.minutes : ~ NotBefore(fh, fm, h, m)
         \/ \E h \in s.hours, m \in s.minutes :
              /\ FirstSlot(s, fh, fm) = h * 60 + m /\ NotBefore(fh, fm, h, m)
              /\ \A i \in s.hours, n \in s.minutes :
                   NotBefore(fh, fm, i, n) => FirstSlot(s, fh, fm) <= i * 60 + n
<1> DEFINE minutesIn(h) == {m \in s.minutes : m >= IF h = fh THEN fm ELSE 0}
           hours == {h \in s.hours : h >= fh /\ minutesIn(h) # {}}
<1>1. ASSUME NEW h \in s.hours, NEW m \in s.minutes
      PROVE  NotBefore(fh, fm, h, m) <=> h >= fh /\ m \in minutesIn(h)
  <2>1. h \in 0..23 /\ m \in 0..59
    OBVIOUS
  <2>2. m \in minutesIn(h) <=> m >= IF h = fh THEN fm ELSE 0
    OBVIOUS
  <2> QED
    BY <2>1, <2>2, SMT DEF NotBefore
<1>2. FirstSlot(s, fh, fm) =
        IF hours = {} THEN NoTime ELSE Min(hours) * 60 + Min(minutesIn(Min(hours)))
  BY Zenon DEF FirstSlot
<1>3. CASE hours = {}
  <2>1. \A h \in s.hours, m \in s.minutes : ~ NotBefore(fh, fm, h, m)
    BY <1>1, <1>3
  <2> QED
    BY <1>2, <1>3, <2>1
<1>4. CASE hours # {}
  <2> DEFINE h == Min(hours)
             m == Min(minutesIn(h))
  <2>1. h \in hours /\ \A i \in hours : h <= i
    <3>1. hours \in SUBSET Nat
      OBVIOUS
    <3> HIDE DEF hours
    <3> QED
      BY <1>4, <3>1, MinIsLeast, Zenon
  <2>2. minutesIn(h) # {} /\ minutesIn(h) \in SUBSET Nat
    BY <2>1
  <2>3. m \in minutesIn(h) /\ \A n \in minutesIn(h) : m <= n
    BY <2>2, MinIsLeast
  <2> HIDE DEF h, m
  <2>4. h \in s.hours /\ m \in s.minutes /\ NotBefore(fh, fm, h, m)
    BY <1>1, <2>1, <2>3
  <2>5. ASSUME NEW i \in s.hours, NEW n \in s.minutes, NotBefore(fh, fm, i, n)
        PROVE  h * 60 + m <= i * 60 + n
    <3>1. i >= fh /\ n \in minutesIn(i)
      BY <1>1, <2>5
    <3>2. h <= i
      BY <2>1, <3>1
    <3>3. i = h => m <= n
      BY <2>3, <3>1
    <3>4. h \in 0..23 /\ i \in 0..23 /\ m \in 0..59 /\ n \in 0..59
      BY <2>4
    <3> QED
      BY <3>2, <3>3, <3>4
  <2>6. FirstSlot(s, fh, fm) = h * 60 + m
    BY <1>2, <1>4 DEF h, m
  <2> QED
    BY <2>4, <2>5, <2>6
<1> QED
  BY <1>3, <1>4

\* The two readings of the day fields are one.
LEMMA DateReadings ==
  ASSUME NEW e, NEW day, NEW u, DayOf(u) = day
  PROVE  Matches(e, u) <=> /\ MinuteOf(u) \in Parse(e).minutes
                           /\ HourOf(u) \in Parse(e).hours
                           /\ DateMatches(Parse(e), day)
<1> DEFINE s == Parse(e)
           d == DateOf(day)
<1>1. s.domIsStar \in BOOLEAN /\ s.dowIsStar \in BOOLEAN
  BY DEF Parse
<1> HIDE DEF s, d
<1>2. DateMatches(s, day) <=>
        /\ d.month \in s.months
        /\ CASE s.domIsStar /\ s.dowIsStar -> TRUE
             [] s.domIsStar /\ ~s.dowIsStar -> d.dow \in s.dows
             [] ~s.domIsStar /\ s.dowIsStar -> d.day \in s.doms
             [] OTHER -> d.day \in s.doms \/ d.dow \in s.dows
  BY Zenon DEF DateMatches, d
<1>3. Matches(e, u) <=>
        /\ MinuteOf(u) \in s.minutes
        /\ HourOf(u) \in s.hours
        /\ d.month \in s.months
        /\ (s.domIsStar \/ d.day \in s.doms \/ (~s.dowIsStar /\ d.dow \in s.dows))
        /\ (s.dowIsStar \/ d.dow \in s.dows \/ (~s.domIsStar /\ d.day \in s.doms))
  <2>1. d = DateOf(u \div 1440)
    BY DEF d, DayOf
  <2>2. Matches(e, u) <=>
          LET c == DateOf(u \div 1440) IN
          /\ u % 60 \in Parse(e).minutes
          /\ (u \div 60) % 24 \in Parse(e).hours
          /\ c.month \in Parse(e).months
          /\ (Parse(e).domIsStar \/ c.day \in Parse(e).doms
                \/ (~Parse(e).dowIsStar /\ c.dow \in Parse(e).dows))
          /\ (Parse(e).dowIsStar \/ c.dow \in Parse(e).dows
                \/ (~Parse(e).domIsStar /\ c.day \in Parse(e).doms))
    BY DEF Matches
  <2> QED
    BY <2>1, <2>2 DEF s, MinuteOf, HourOf
<1>4. CASE s.domIsStar /\ s.dowIsStar
  BY <1>2, <1>3, <1>4 DEF s
<1>5. CASE s.domIsStar /\ ~s.dowIsStar
  BY <1>2, <1>3, <1>5 DEF s
<1>6. CASE ~s.domIsStar /\ s.dowIsStar
  BY <1>2, <1>3, <1>6 DEF s
<1>7. CASE ~s.domIsStar /\ ~s.dowIsStar
  BY <1>2, <1>3, <1>7 DEF s
<1> QED
  BY <1>1, <1>4, <1>5, <1>6, <1>7

\* next_after finds the next occurrence: the instant it returns is later, matches, and none of
\* the days it looks at has an earlier match; and it returns none only if there is none.  That
\* is so for every expression, every instant and any calendar (cron_expr.py next_after).
THEOREM NextAfterIsNext ==
  ASSUME NEW e \in Expressions, NEW t \in Nat
  PROVE  /\ NextAfter(Parse(e), t) \in Nat \cup {NoTime}
         /\ IsNext(e, t, NextAfter(Parse(e), t))
<1> DEFINE s == Parse(e)
           start == t + 1
           first == start \div 1440
           fh == (start \div 60) % 24
           fm == start % 60
           slot(day) == IF day = first THEN FirstSlot(s, fh, fm) ELSE FirstSlot(s, 0, 0)
           searched == first..(first + MaxDaysSearched - 1)
           days == {day \in searched : slot(day) # NoTime /\ DateMatches(s, day)}
<1>1. first \in Nat /\ fh \in 0..23 /\ fm \in 0..59
  BY PartsOf
<1>11. t + 1 = first * 1440 + (fh * 60 + fm)
  BY PartsOf
<1>2. s.minutes \subseteq 0..59 /\ s.hours \subseteq 0..23
  BY MinutesAndHours
<1>3. \A u : u \in Occurrences(e, t) <=>
        /\ \E day \in searched, h \in s.hours, m \in s.minutes : u = Instant(day, h, m)
        /\ u > t /\ Matches(e, u)
  <2> DEFINE all == {Instant(day, h, m) : day \in searched, h \in s.hours, m \in s.minutes}
  <2>1. Occurrences(e, t) = {u \in all : u > t /\ Matches(e, u)}
    BY DEF Occurrences, Instant
  <2>2. \A u : u \in all <=>
          \E day \in searched, h \in s.hours, m \in s.minutes : u = Instant(day, h, m)
    <3> HIDE DEF searched, s
    <3> QED
      OBVIOUS
  <2> HIDE DEF all, searched, s
  <2> QED
    BY <2>1, <2>2
<1>4. NextAfter(s, t) = IF days = {} THEN NoTime ELSE Min(days) * 1440 + slot(Min(days))
  BY Zenon DEF NextAfter
<1>5. searched \subseteq Nat
  BY <1>1 DEF MaxDaysSearched
<1> HIDE DEF s, start, first, fh, fm, searched, slot, days
\* A minute of a day is an instant after t unless it is before the floor of that day.
<1>6. ASSUME NEW day \in searched, NEW h \in s.hours, NEW m \in s.minutes
      PROVE  /\ Instant(day, h, m) \in Nat
             /\ Instant(day, h, m) = day * 1440 + (h * 60 + m)
             /\ Instant(day, h, m) > t
                  <=> IF day = first THEN NotBefore(fh, fm, h, m) ELSE NotBefore(0, 0, h, m)
             /\ Matches(e, Instant(day, h, m)) <=> DateMatches(s, day)
  <2>1. day \in Nat /\ h \in 0..23 /\ m \in 0..59 /\ day >= first
    BY <1>1, <1>2, <1>5 DEF searched
  <2>2. /\ Instant(day, h, m) \in Nat /\ MinuteOf(Instant(day, h, m)) = m
        /\ HourOf(Instant(day, h, m)) = h /\ DayOf(Instant(day, h, m)) = day
    BY <2>1, InstantOf, Zenon
  <2>3. Instant(day, h, m) = day * 1440 + (h * 60 + m)
    BY <2>1 DEF Instant
  <2>4. Instant(day, h, m) > t
          <=> IF day = first THEN NotBefore(fh, fm, h, m) ELSE NotBefore(0, 0, h, m)
    BY <1>1, <1>11, <2>1, <2>2, <2>3 DEF NotBefore
  <2>5. Matches(e, Instant(day, h, m)) <=> DateMatches(s, day)
    BY <2>2, DateReadings DEF s
  <2> QED
    BY <2>2, <2>3, <2>4, <2>5
\* What is found on a day is its first minute after t, if it has one.
<1>7. ASSUME NEW day \in searched
      PROVE  \/ /\ slot(day) = NoTime
                /\ \A h \in s.hours, m \in s.minutes : ~ (Instant(day, h, m) > t)
             \/ \E h \in s.hours, m \in s.minutes :
                  /\ slot(day) = h * 60 + m /\ Instant(day, h, m) > t
                  /\ \A i \in s.hours, n \in s.minutes :
                       Instant(day, i, n) > t => slot(day) <= i * 60 + n
  <2>1. CASE day = first
    <3>1. slot(day) = FirstSlot(s, fh, fm)
      BY <2>1 DEF slot
    <3>2. \/ /\ FirstSlot(s, fh, fm) = NoTime
             /\ \A h \in s.hours, m \in s.minutes : ~ NotBefore(fh, fm, h, m)
          \/ \E h \in s.hours, m \in s.minutes :
               /\ FirstSlot(s, fh, fm) = h * 60 + m /\ NotBefore(fh, fm, h, m)
               /\ \A i \in s.hours, n \in s.minutes :
                    NotBefore(fh, fm, i, n) => FirstSlot(s, fh, fm) <= i * 60 + n
      BY <1>1, <1>2, <3>1, FirstSlotIsFirst, Zenon
    <3>3. \A h \in s.hours, m \in s.minutes :
            Instant(day, h, m) > t <=> NotBefore(fh, fm, h, m)
      BY <1>6, <2>1
    <3> QED
      BY <3>1, <3>2, <3>3
  <2>2. CASE day # first
    <3>1. slot(day) = FirstSlot(s, 0, 0) /\ 0 \in 0..23 /\ 0 \in 0..59
      BY <2>2 DEF slot
    <3>2. \/ /\ FirstSlot(s, 0, 0) = NoTime
             /\ \A h \in s.hours, m \in s.minutes : ~ NotBefore(0, 0, h, m)
          \/ \E h \in s.hours, m \in s.minutes :
               /\ FirstSlot(s, 0, 0) = h * 60 + m /\ NotBefore(0, 0, h, m)
               /\ \A i \in s.hours, n \in s.minutes :
                    NotBefore(0, 0, i, n) => FirstSlot(s, 0, 0) <= i * 60 + n
      BY <1>2, <3>1, FirstSlotIsFirst, Zenon
    <3>3. \A h \in s.hours, m \in s.minutes :
            Instant(day, h, m) > t <=> NotBefore(0, 0, h, m)
      BY <1>6, <2>2
    <3> QED
      BY <3>1, <3>2, <3>3
  <2> QED
    BY <2>1, <2>2
<1>8. ASSUME NEW v \in Occurrences(e, t)
      PROVE  \E day \in days, h \in s.hours, m \in s.minutes :
               v = Instant(day, h, m) /\ v > t /\ slot(day) <= h * 60 + m
  <2>1. PICK day \in searched, h \in s.hours, m \in s.minutes : v = Instant(day, h, m)
    BY <1>3
  <2>2. v > t /\ DateMatches(s, day)
    BY <1>3, <1>6, <2>1
  <2>3. slot(day) # NoTime /\ slot(day) <= h * 60 + m
    BY <1>2, <1>7, <2>1, <2>2 DEF NoTime
  <2> QED
    BY <2>1, <2>2, <2>3 DEF days
<1>9. CASE days = {}
  <2>1. Occurrences(e, t) = {}
    BY <1>8, <1>9
  <2> QED
    BY <1>4, <1>9, <2>1 DEF IsNext, s
<1>10. CASE days # {}
  <2> DEFINE day == Min(days)
  <2>1. days \in SUBSET Nat /\ days \subseteq searched
    BY <1>5 DEF days
  <2>2. day \in days /\ \A d \in days : day <= d
    BY <1>10, <2>1, MinIsLeast, Zenon
  <2>3. day \in searched /\ day \in Nat /\ slot(day) # NoTime /\ DateMatches(s, day)
    BY <2>1, <2>2 DEF days
  <2> HIDE DEF day
  <2>4. PICK h \in s.hours, m \in s.minutes :
          slot(day) = h * 60 + m /\ Instant(day, h, m) > t
    BY <1>7, <2>3
  <2> DEFINE u == Instant(day, h, m)
  <2>5. u = NextAfter(s, t) /\ u \in Nat /\ u # NoTime /\ u = day * 1440 + (h * 60 + m)
    BY <1>4, <1>6, <1>10, <2>3, <2>4 DEF NoTime, day
  <2>6. u > t /\ Matches(e, u)
    BY <1>6, <2>3, <2>4
  <2>7. ASSUME NEW v \in Occurrences(e, t)
        PROVE  v >= u
    <3>1. PICK d \in days, i \in s.hours, n \in s.minutes :
            v = Instant(d, i, n) /\ v > t /\ slot(d) <= i * 60 + n
      BY <1>8
    <3>2. v = d * 1440 + (i * 60 + n) /\ d \in Nat /\ day <= d
      BY <1>6, <2>1, <2>2, <3>1
    <3>3. i \in 0..23 /\ n \in 0..59 /\ h \in 0..23 /\ m \in 0..59
      BY <1>2
    <3>4. d = day => h * 60 + m <= i * 60 + n
      BY <2>4, <3>1
    <3> QED
      BY <2>3, <2>5, <3>2, <3>3, <3>4
  <2> HIDE DEF u
  <2> QED
    BY <2>5, <2>6, <2>7 DEF IsNext, s
<1> QED
  BY <1>9, <1>10

\* The next run is in the future, and the first occurrence of the expression after the moment
\* it is computed at, in local time.
LEMMA NextRunIs ==
  ASSUME NEW e \in Exprs, NEW t \in Instants
  PROVE  /\ NextRun[e][t] \in Int
         /\ NextRun[e][t] # NoTime => t < NextRun[e][t] /\ FirstAfter[e][t] = NextRun[e][t]
<1> DEFINE n == NextAfter(Parse(Fields[e]), t + Offset(t))
<1>1. Fields[e] \in Expressions /\ t \in Nat /\ Offset(t) \in Int /\ t + Offset(t) \in Nat
  BY CronAssumption DEF Offset
<1>2. n \in Nat \cup {NoTime} /\ IsNext(Fields[e], t + Offset(t), n)
  BY <1>1, NextAfterIsNext
<1>3. NextRun[e][t] = IF n = NoTime THEN NoTime ELSE n - Offset(t)
  BY DEF NextRun, NextAfterLocal
<1>4. FirstAfter[e][t] =
        IF NextRun[e][t] # NoTime
           /\ IsNext(Fields[e], t + Offset(t), NextRun[e][t] + Offset(t))
        THEN NextRun[e][t] ELSE NoTime
  BY DEF FirstAfter
<1> HIDE DEF n
<1>5. CASE n = NoTime
  BY <1>3, <1>5 DEF NoTime
<1>6. CASE n # NoTime
  <2>1. n > t + Offset(t)
    BY <1>2, <1>6 DEF IsNext
  <2>2. NextRun[e][t] = n - Offset(t) /\ n \in Nat
    BY <1>2, <1>3, <1>6
  <2>3. NextRun[e][t] \in Int /\ t < NextRun[e][t] /\ NextRun[e][t] # NoTime
    BY <1>1, <2>1, <2>2 DEF NoTime
  <2>4. NextRun[e][t] + Offset(t) = n
    BY <1>1, <2>2
  <2>5. FirstAfter[e][t] = NextRun[e][t]
    BY <1>2, <1>4, <2>3, <2>4
  <2> QED
    BY <2>3, <2>5
<1> QED
  BY <1>5, <1>6

-----------------------------------------------------------------------------
(* The schedule                                                            *)

\* The rows of the table are whole, and only a cron that is there is enabled.
RowsOK ==
  /\ DOMAIN cron = Crons
  /\ \A c \in Crons : /\ {"state", "expr", "enabled", "next"} \subseteq DOMAIN cron[c]
                      /\ cron[c].enabled => cron[c].state = "there"
                      /\ cron[c].state = "there" => cron[c].expr \in Exprs
                      /\ cron[c].next \in Int
  /\ asOf \in [Crons -> Instants]

\* What the loop and the dispatches have in hand; a dispatch is not made before it is due.
HandsOK ==
  /\ loop.due \subseteq [cron : Crons, expr : Exprs, due : Int]
  /\ DOMAIN disp = Dispatches
  /\ \A d \in Dispatches :
       /\ {"pc", "cron", "expr", "due"} \subseteq DOMAIN disp[d]
       /\ disp[d].due \in Int /\ disp[d].due <= clock
       /\ disp[d].pc = "advance" => disp[d].cron \in Crons /\ disp[d].expr \in Exprs

ClockOK ==
  clock \in Instants /\ booted \in Int /\ NoTime <= booted /\ booted <= clock

\* The next run of a cron is that of its expression, since it was computed.
Computed ==
  \A c \in Crons :
    cron[c].enabled /\ cron[c].next # NoTime /\ c \notin stale =>
      cron[c].next = NextRun[cron[c].expr][asOf[c]]

\* It is later than the last restart and than whatever has been dispatched for the cron.
Ahead ==
  \A c \in Crons :
    cron[c].enabled /\ cron[c].next # NoTime =>
      /\ booted < cron[c].next
      /\ \A d \in Dispatches : disp[d].cron = c => disp[d].due < cron[c].next

\* So is that of a row in the loop's hands, which has one row of a cron at most.
InHand ==
  /\ \A r \in loop.due :
       /\ booted < r.due /\ r.due <= clock
       /\ \A d \in Dispatches : disp[d].cron = r.cron => disp[d].due < r.due
  /\ \A r, q \in loop.due : r.cron = q.cron => r = q

PlanInv == RowsOK /\ HandsOK /\ ClockOK /\ Computed /\ Ahead /\ InHand

\* What a step does to the row of a cron: nothing, but for its failures and perhaps that it
\* disables it; its next run is computed anew; or it is not enabled.
Kept(c) ==
  /\ cron'[c].state = cron[c].state /\ cron'[c].expr = cron[c].expr
  /\ cron'[c].next = cron[c].next
  /\ cron'[c].enabled => cron[c].enabled
  /\ asOf'[c] = asOf[c] /\ (c \in stale => c \in stale')

Moved(c) ==
  /\ asOf'[c] = clock
  /\ \E e \in Exprs : cron'[c].next = NextRun[e][clock] /\ (c \in stale' \/ cron'[c].expr = e)

Disabled(c) == ~cron'[c].enabled

Fated == \A c \in Crons : Kept(c) \/ Moved(c) \/ Disabled(c)

\* The schedule of a row in hand is moved on.
LEMMA AdvanceFates ==
  ASSUME RowsOK, ClockOK, NEW c \in Crons, NEW e \in Exprs, AdvanceSchedule(c, e)
  PROVE  /\ RowsOK' /\ Fated
         /\ cron'[c].enabled => Moved(c)
         /\ \A b \in Crons : b # c => Kept(b)
<1>1. NextRun[e][clock] \in Int /\ clock \in Instants
  BY NextRunIs DEF ClockOK
<1>2. asOf' = [asOf EXCEPT ![c] = clock]
  BY DEF AdvanceSchedule
<1>3. CASE There(c)
  <2>1. cron' = [cron EXCEPT ![c].next = NextRun[e][clock]]
    BY <1>3 DEF AdvanceSchedule
  <2>2. stale' = IF cron[c].expr # e THEN stale \cup {c} ELSE stale
    BY <1>3 DEF AdvanceSchedule
  <2>3. RowsOK'
    BY <1>1, <1>2, <2>1, SMT DEF RowsOK
  <2>4. Moved(c)
    <3>1. cron'[c].next = NextRun[e][clock] /\ cron'[c].expr = cron[c].expr
      BY <2>1, SMT DEF RowsOK
    <3>2. asOf'[c] = clock
      BY <1>2, SMT DEF RowsOK
    <3> QED
      BY <2>2, <3>1, <3>2, Zenon DEF Moved
  <2>5. ASSUME NEW b \in Crons, b # c
        PROVE  Kept(b)
    <3>1. cron'[b] = cron[b] /\ asOf'[b] = asOf[b]
      BY <1>2, <2>1, <2>5, SMT DEF RowsOK
    <3> QED
      BY <2>2, <3>1, Zenon DEF Kept
  <2> QED
    BY <2>3, <2>4, <2>5, Zenon DEF Fated
<1>4. CASE ~There(c)
  <2>1. cron' = cron /\ stale' = stale
    BY <1>4, Zenon DEF AdvanceSchedule
  <2>2. RowsOK'
    BY <1>1, <1>2, <2>1, SMT DEF RowsOK
  <2>3. ~cron'[c].enabled
    BY <1>4, <2>1, Zenon DEF RowsOK, There
  <2>4. ASSUME NEW b \in Crons, b # c
        PROVE  Kept(b)
    <3>1. asOf'[b] = asOf[b]
      BY <1>2, <2>4, SMT DEF RowsOK
    <3> QED
      BY <2>1, <3>1, Zenon DEF Kept
  <2> QED
    BY <2>2, <2>3, <2>4, Zenon DEF Fated, Disabled
<1> QED
  BY <1>3, <1>4

\* The row of a cron is written, and that of no other.
LEMMA RowFates ==
  ASSUME RowsOK, NEW c \in Crons, NEW row, cron' = [cron EXCEPT ![c] = row],
         {"state", "expr", "enabled", "next"} \subseteq DOMAIN row,
         row.enabled => row.state = "there", row.state = "there" => row.expr \in Exprs,
         row.next \in Int, asOf' \in [Crons -> Instants],
         \A b \in Crons : b # c => asOf'[b] = asOf[b] /\ (b \in stale => b \in stale'),
         \/ Moved(c)
         \/ ~row.enabled
         \/ /\ row.state = cron[c].state /\ row.expr = cron[c].expr /\ row.next = cron[c].next
            /\ row.enabled => cron[c].enabled
            /\ asOf'[c] = asOf[c] /\ (c \in stale => c \in stale')
  PROVE  RowsOK' /\ Fated
<1>1. cron'[c] = row /\ \A b \in Crons : b # c => cron'[b] = cron[b]
  BY SMT DEF RowsOK
<1>2. RowsOK'
  <2>1. DOMAIN cron' = Crons
    BY SMT DEF RowsOK
  <2>2. ASSUME NEW b \in Crons
        PROVE  /\ {"state", "expr", "enabled", "next"} \subseteq DOMAIN cron'[b]
               /\ cron'[b].enabled => cron'[b].state = "there"
               /\ cron'[b].state = "there" => cron'[b].expr \in Exprs
               /\ cron'[b].next \in Int
    BY <1>1, <2>2, Zenon DEF RowsOK
  <2> QED
    BY <2>1, <2>2, Zenon DEF RowsOK
<1>3. Kept(c) \/ Moved(c) \/ Disabled(c)
  BY <1>1, Zenon DEF Kept, Disabled
<1>4. ASSUME NEW b \in Crons, b # c
      PROVE  Kept(b)
  BY <1>1, <1>4, Zenon DEF Kept
<1> QED
  BY <1>2, <1>3, <1>4, Zenon DEF Fated

\* Nothing is written.
LEMMA QuietFates ==
  ASSUME RowsOK, UNCHANGED <<cron, asOf, stale>>
  PROVE  RowsOK' /\ Fated
BY Zenon DEF RowsOK, Fated, Kept

\* A cron is created or edited: its next run is computed anew.
LEMMA UpsertFates ==
  ASSUME RowsOK, ClockOK, NEW c \in Crons, NEW e \in Exprs, NEW enabled \in BOOLEAN,
         Upsert(c, e, enabled)
  PROVE  RowsOK' /\ Fated
<1> DEFINE row == Created(e, enabled, clock)
<1>1. /\ {"state", "expr", "enabled", "next"} \subseteq DOMAIN row
      /\ row.state = "there" /\ row.expr = e /\ row.enabled = enabled
      /\ row.next = IF enabled THEN NextRun[e][clock] ELSE NoTime
  BY SMT DEF Created
<1>2. NextRun[e][clock] \in Int /\ clock \in Instants
  BY NextRunIs DEF ClockOK
<1>3. /\ cron' = [cron EXCEPT ![c] = row] /\ asOf' = [asOf EXCEPT ![c] = clock]
      /\ stale' = stale \ {c}
  BY Zenon DEF Upsert
<1>4. row.next \in Int
  BY <1>1, <1>2 DEF NoTime
<1> HIDE DEF row
<1>5. /\ asOf' \in [Crons -> Instants] /\ asOf'[c] = clock
      /\ \A b \in Crons : b # c => asOf'[b] = asOf[b] /\ (b \in stale => b \in stale')
  BY <1>2, <1>3, SMT DEF RowsOK
<1>6. Moved(c) \/ ~row.enabled
  <2>1. cron'[c] = row
    BY <1>3, SMT DEF RowsOK
  <2> QED
    BY <1>1, <1>5, <2>1, Zenon DEF Moved
<1> QED
  BY <1>1, <1>3, <1>4, <1>5, <1>6, RowFates

\* It is deleted: it is not enabled any more.
LEMMA DeleteFates ==
  ASSUME RowsOK, NEW c \in Crons, Delete(c)
  PROVE  RowsOK' /\ Fated
<1> DEFINE row == [NoCron EXCEPT !.state = "deleted"]
<1>1. /\ {"state", "expr", "enabled", "next"} \subseteq DOMAIN row
      /\ row.state = "deleted" /\ ~row.enabled /\ row.next = NoTime
  BY SMT DEF NoCron
<1>2. cron' = [cron EXCEPT ![c] = row] /\ asOf' = asOf /\ stale' = stale \ {c}
  BY Zenon DEF Delete
<1> HIDE DEF row
<1>3. row.next \in Int
  BY <1>1 DEF NoTime
<1>4. asOf' \in [Crons -> Instants]
  BY <1>2 DEF RowsOK
<1> QED
  BY <1>1, <1>2, <1>3, <1>4, RowFates

\* A failure is counted.
LEMMA FailedIs ==
  ASSUME NEW row, {"state", "expr", "enabled", "next"} \subseteq DOMAIN row
  PROVE  /\ {"state", "expr", "enabled", "next"} \subseteq DOMAIN Failed(row)
         /\ Failed(row).state = row.state /\ Failed(row).expr = row.expr
         /\ Failed(row).next = row.next
         /\ Failed(row).enabled => row.enabled
<1>1. /\ {"state", "expr", "enabled", "next"} \subseteq DOMAIN Failed(row)
      /\ Failed(row).state = row.state /\ Failed(row).expr = row.expr
      /\ Failed(row).next = row.next
  BY SMT DEF Failed
<1>2. Failed(row).enabled = (row.enabled /\ row.fails + 1 < FailureThreshold)
  BY SMT DEF Failed
<1> QED
  BY <1>1, <1>2, Zenon

\* An outcome is counted: the schedule is kept.
LEMMA CountFates ==
  ASSUME RowsOK, UNCHANGED <<asOf, stale>>, NEW c,
         \/ cron' = [cron EXCEPT ![c].fails = 0]
         \/ cron' = [cron EXCEPT ![c] = Failed(cron[c])]
  PROVE  RowsOK' /\ Fated
<1>1. CASE c \notin Crons
  <2>1. DOMAIN cron' = Crons
    BY SMT DEF RowsOK
  <2>2. ASSUME NEW b \in Crons
        PROVE  cron'[b] = cron[b]
    <3>1. b # c
      BY <1>1
    <3> QED
      BY <3>1, SMT DEF RowsOK
  <2> QED
    BY <2>1, <2>2, Zenon DEF RowsOK, Fated, Kept
<1>2. CASE c \in Crons
  <2>1. ASSUME cron' = [cron EXCEPT ![c].fails = 0]
        PROVE  RowsOK' /\ Fated
    <3>1. ASSUME NEW b \in Crons
          PROVE  /\ DOMAIN cron'[b] = DOMAIN cron[b]
                 /\ cron'[b].state = cron[b].state /\ cron'[b].expr = cron[b].expr
                 /\ cron'[b].next = cron[b].next /\ cron'[b].enabled = cron[b].enabled
      BY <1>2, <2>1, SMT DEF RowsOK
    <3>2. DOMAIN cron' = Crons
      BY <2>1, SMT DEF RowsOK
    <3> QED
      BY <3>1, <3>2, Zenon DEF RowsOK, Fated, Kept
  <2>2. ASSUME cron' = [cron EXCEPT ![c] = Failed(cron[c])]
        PROVE  RowsOK' /\ Fated
    <3> DEFINE row == Failed(cron[c])
    <3>1. /\ {"state", "expr", "enabled", "next"} \subseteq DOMAIN cron[c]
          /\ cron[c].enabled => cron[c].state = "there"
          /\ cron[c].state = "there" => cron[c].expr \in Exprs
          /\ cron[c].next \in Int /\ asOf \in [Crons -> Instants]
      BY <1>2 DEF RowsOK
    <3>2. /\ {"state", "expr", "enabled", "next"} \subseteq DOMAIN row
          /\ row.state = cron[c].state /\ row.expr = cron[c].expr /\ row.next = cron[c].next
          /\ row.enabled => cron[c].enabled
      BY <3>1, FailedIs
    <3> HIDE DEF row
    <3>3. cron' = [cron EXCEPT ![c] = row]
      BY <2>2 DEF row
    <3> QED
      BY <1>2, <3>1, <3>2, <3>3, RowFates
  <2> QED
    BY <2>1, <2>2
<1> QED
  BY <1>1, <1>2

\* The next run of a row is set.
LEMMA NextIs ==
  ASSUME NEW row, {"state", "expr", "enabled", "next"} \subseteq DOMAIN row, NEW x,
         NEW new, new = [row EXCEPT !.next = x]
  PROVE  /\ {"state", "expr", "enabled", "next"} \subseteq DOMAIN new
         /\ new.enabled = row.enabled /\ new.state = row.state /\ new.expr = row.expr
         /\ new.next = x
BY SMT

\* The daemon starts: what is enabled afterwards is not due.
LEMMA BootFates ==
  ASSUME RowsOK, ClockOK, Boot
  PROVE  /\ RowsOK' /\ Fated
         /\ \A c \in Crons : cron'[c].enabled /\ cron'[c].next # NoTime => clock < cron'[c].next
<1>1. ASSUME NEW c \in Crons
      PROVE  /\ cron'[c] = Reconciled(cron[c])
             /\ asOf'[c] = IF Reconciled(cron[c]) = cron[c] THEN asOf[c] ELSE clock
             /\ c \in stale /\ Reconciled(cron[c]) = cron[c] => c \in stale'
  BY <1>1, Zenon DEF Boot
<1>2. DOMAIN cron' = Crons /\ asOf' \in [Crons -> Instants]
  <2>1. /\ cron' = [c \in Crons |-> Reconciled(cron[c])]
        /\ asOf' = [c \in Crons |-> IF Reconciled(cron[c]) = cron[c] THEN asOf[c] ELSE clock]
    BY Zenon DEF Boot
  <2> QED
    BY <2>1, SMT DEF RowsOK, ClockOK
<1>3. ASSUME NEW c \in Crons
      PROVE  /\ {"state", "expr", "enabled", "next"} \subseteq DOMAIN cron[c]
             /\ cron[c].enabled => cron[c].state = "there"
             /\ cron[c].state = "there" => cron[c].expr \in Exprs
             /\ cron[c].next \in Int /\ clock \in Nat
             /\ cron[c].enabled => /\ NextRun[cron[c].expr][clock] \in Int
                                   /\ NextRun[cron[c].expr][clock] # NoTime =>
                                        clock < NextRun[cron[c].expr][clock]
  BY NextRunIs, CronAssumption DEF RowsOK, ClockOK
<1>4. ASSUME NEW c \in Crons
      PROVE  /\ {"state", "expr", "enabled", "next"} \subseteq DOMAIN cron'[c]
             /\ cron'[c].enabled = cron[c].enabled /\ cron'[c].state = cron[c].state
             /\ cron'[c].expr = cron[c].expr
             /\ \/ /\ cron'[c] = cron[c]
                   /\ ~(cron[c].enabled /\ (cron[c].next = NoTime \/ cron[c].next <= clock))
                \/ cron[c].enabled /\ cron'[c].next = NextRun[cron[c].expr][clock]
  <2>1. CASE cron[c].enabled /\ (cron[c].next = NoTime \/ cron[c].next <= clock)
    <3>1. cron'[c] = [cron[c] EXCEPT !.next = NextRun[cron[c].expr][clock]]
      BY <1>1, <2>1, Zenon DEF Reconciled
    <3>2. {"state", "expr", "enabled", "next"} \subseteq DOMAIN cron[c]
      BY <1>3
    <3>3. /\ {"state", "expr", "enabled", "next"} \subseteq DOMAIN cron'[c]
          /\ cron'[c].enabled = cron[c].enabled /\ cron'[c].state = cron[c].state
          /\ cron'[c].expr = cron[c].expr
          /\ cron'[c].next = NextRun[cron[c].expr][clock]
      BY <3>1, <3>2, NextIs
    <3> QED
      BY <2>1, <3>3, Zenon
  <2>2. CASE ~(cron[c].enabled /\ (cron[c].next = NoTime \/ cron[c].next <= clock))
    <3>1. cron'[c] = cron[c]
      BY <1>1, <2>2, Zenon DEF Reconciled
    <3> QED
      BY <1>3, <2>2, <3>1, Zenon
  <2> QED
    BY <2>1, <2>2
<1>5. RowsOK'
  <2>1. ASSUME NEW c \in Crons
        PROVE  cron'[c].next \in Int
    BY <1>3, <1>4
  <2> QED
    BY <1>2, <1>3, <1>4, <2>1, Zenon DEF RowsOK
<1>6. ASSUME NEW c \in Crons
      PROVE  Kept(c) \/ Moved(c) \/ Disabled(c)
  <2>1. CASE Reconciled(cron[c]) = cron[c]
    BY <1>1, <2>1, Zenon DEF Kept
  <2>2. CASE Reconciled(cron[c]) # cron[c]
    <3>1. /\ asOf'[c] = clock /\ cron[c].enabled
          /\ cron'[c].next = NextRun[cron[c].expr][clock] /\ cron'[c].expr = cron[c].expr
      BY <1>1, <1>4, <2>2, Zenon
    <3>2. cron[c].expr \in Exprs
      BY <1>3, <3>1
    <3> QED
      BY <3>1, <3>2, Zenon DEF Moved
  <2> QED
    BY <2>1, <2>2
<1>7. ASSUME NEW c \in Crons, cron'[c].enabled, cron'[c].next # NoTime
      PROVE  clock < cron'[c].next
  BY <1>3, <1>4, <1>7
<1> QED
  BY <1>5, <1>6, <1>7 DEF Fated

\* What a step does to a dispatch: it may go on, but not back to its schedule, for the same
\* cron and trigger; the loop makes it, for a row in its hands; or a client does.
Same(d) ==
  /\ {"pc", "cron", "expr", "due"} \subseteq DOMAIN disp'[d]
  /\ disp'[d].cron = disp[d].cron /\ disp'[d].due = disp[d].due
  /\ disp'[d].pc = "advance" => disp[d].pc = "advance" /\ disp'[d].expr = disp[d].expr
  /\ disp[d].pc = "idle" => disp'[d].pc = "idle"

Triggered(d) ==
  /\ {"pc", "cron", "expr", "due"} \subseteq DOMAIN disp'[d] /\ disp'[d].pc = "body"
  /\ \E r \in loop.due : /\ disp'[d].cron = r.cron /\ disp'[d].due = r.due
                         /\ r \notin loop'.due
                         /\ cron'[r.cron].enabled => Moved(r.cron)

Manual(d) ==
  /\ {"pc", "cron", "expr", "due"} \subseteq DOMAIN disp'[d] /\ disp'[d].pc = "advance"
  /\ disp'[d].cron \in Crons /\ disp'[d].expr \in Exprs /\ disp'[d].due = NoTime

Driven ==
  DOMAIN disp' = Dispatches /\ \A d \in Dispatches : Same(d) \/ Triggered(d) \/ Manual(d)

\* What it does to the rows in the loop's hands: none is added, unless the loop lists those
\* that are due.
Listed ==
  /\ UNCHANGED <<clock, booted, cron, disp>>
  /\ loop'.due = {r \in Rows : r.due <= clock}

Timed ==
  /\ clock' \in Instants /\ clock <= clock' /\ booted' = booted
  /\ loop'.due \subseteq loop.due \/ Listed

\* The daemon starts.
Booted ==
  /\ UNCHANGED <<clock, disp>> /\ booted' = clock /\ loop'.due = {}
  /\ \A c \in Crons : cron'[c].enabled /\ cron'[c].next # NoTime => clock < cron'[c].next

\* A step, for the schedule.
Effect == RowsOK' /\ Fated /\ Driven /\ (Timed \/ Booted)

\* Nothing happens to the dispatches.
LEMMA StillDriven ==
  ASSUME HandsOK, UNCHANGED disp
  PROVE  Driven
BY Zenon DEF HandsOK, Driven, Same

\* No time passes, and the loop lists nothing.
LEMMA StillTimed ==
  ASSUME ClockOK, UNCHANGED <<clock, booted>>, loop' = loop \/ loop'.due = {}
  PROVE  Timed
<1>1. clock' \in Instants /\ clock <= clock'
  BY CronAssumption DEF ClockOK
<1> QED
  BY <1>1, Zenon DEF Timed

\* A dispatch that was made goes on.
LEMMA GoesOn ==
  ASSUME HandsOK, NEW d \in Dispatches, NEW row, disp' = [disp EXCEPT ![d] = row],
         {"pc", "cron", "expr", "due"} \subseteq DOMAIN row,
         row.cron = disp[d].cron, row.due = disp[d].due, row.pc # "advance",
         disp[d].pc # "idle"
  PROVE  Driven
<1>1. DOMAIN disp' = Dispatches /\ disp'[d] = row
  BY SMT DEF HandsOK
<1>2. Same(d)
  BY <1>1, Zenon DEF Same
<1>3. ASSUME NEW b \in Dispatches, b # d
      PROVE  Same(b)
  <2>1. disp'[b] = disp[b]
    BY <1>3, SMT DEF HandsOK
  <2> QED
    BY <2>1, Zenon DEF HandsOK, Same
<1> QED
  BY <1>1, <1>2, <1>3, Zenon DEF Driven

\* The fields that matter, when a dispatch goes to another place or is over.
LEMMA PlaceIs ==
  ASSUME NEW row, {"pc", "cron", "expr", "due"} \subseteq DOMAIN row, NEW pc, NEW x,
         NEW new, \/ new = [row EXCEPT !.pc = pc]
                  \/ new = [row EXCEPT !.pc = pc, !.tasked = x]
                  \/ new = [row EXCEPT !.pc = pc, !.watched = x]
                  \/ new = [row EXCEPT !.pc = pc, !.quiet = x]
                  \/ new = [row EXCEPT !.pc = pc, !.success = x]
  PROVE  /\ {"pc", "cron", "expr", "due"} \subseteq DOMAIN new
         /\ new.pc = pc /\ new.cron = row.cron /\ new.due = row.due
<1>1. CASE new = [row EXCEPT !.pc = pc]
  BY <1>1, SMT
<1>2. CASE new = [row EXCEPT !.pc = pc, !.tasked = x]
  BY <1>2, SMT
<1>3. CASE new = [row EXCEPT !.pc = pc, !.watched = x]
  BY <1>3, SMT
<1>4. CASE new = [row EXCEPT !.pc = pc, !.quiet = x]
  BY <1>4, SMT
<1>5. CASE new = [row EXCEPT !.pc = pc, !.success = x]
  BY <1>5, SMT
<1> QED
  BY <1>1, <1>2, <1>3, <1>4, <1>5

\* So is what a coroutine that is over leaves behind.
LEMMA OverRow ==
  ASSUME NEW d \in Dispatches, NEW pc
  PROVE  /\ {"pc", "cron", "expr", "due"} \subseteq DOMAIN Over(d, pc)
         /\ Over(d, pc).pc = pc /\ Over(d, pc).cron = disp[d].cron
         /\ Over(d, pc).due = disp[d].due
BY SMT DEF Over, NoDispatch

\* So a dispatch goes on when it goes to another place, or ends.
LEMMA PlacedDriven ==
  ASSUME HandsOK, NEW d \in Dispatches, disp[d].pc # "idle", NEW pc, pc # "advance", NEW x,
         \/ disp' = [disp EXCEPT ![d].pc = pc]
         \/ disp' = [disp EXCEPT ![d].pc = pc, ![d].tasked = x]
         \/ disp' = [disp EXCEPT ![d].pc = pc, ![d].watched = x]
         \/ disp' = [disp EXCEPT ![d].pc = pc, ![d].quiet = x]
         \/ disp' = [disp EXCEPT ![d].pc = pc, ![d].success = x]
         \/ disp' = [disp EXCEPT ![d] = Over(d, pc)]
  PROVE  Driven
<1>1. CASE disp' = [disp EXCEPT ![d] = Over(d, pc)]
  <2>1. /\ {"pc", "cron", "expr", "due"} \subseteq DOMAIN Over(d, pc)
        /\ Over(d, pc).pc = pc /\ Over(d, pc).cron = disp[d].cron
        /\ Over(d, pc).due = disp[d].due
    BY OverRow
  <2> QED
    BY <1>1, <2>1, GoesOn
<1>2. ASSUME ~(disp' = [disp EXCEPT ![d] = Over(d, pc)])
      PROVE  Driven
  <2> DEFINE row == disp'[d]
  <2>1. /\ {"pc", "cron", "expr", "due"} \subseteq DOMAIN disp[d] /\ DOMAIN disp = Dispatches
    BY DEF HandsOK
  <2>2. /\ \/ row = [disp[d] EXCEPT !.pc = pc]
           \/ row = [disp[d] EXCEPT !.pc = pc, !.tasked = x]
           \/ row = [disp[d] EXCEPT !.pc = pc, !.watched = x]
           \/ row = [disp[d] EXCEPT !.pc = pc, !.quiet = x]
           \/ row = [disp[d] EXCEPT !.pc = pc, !.success = x]
        /\ DOMAIN disp' = Dispatches
        /\ \A b \in Dispatches : b # d => disp'[b] = disp[b]
    BY <1>2, <2>1, SMT
  <2>3. /\ {"pc", "cron", "expr", "due"} \subseteq DOMAIN row
        /\ row.pc = pc /\ row.cron = disp[d].cron /\ row.due = disp[d].due
    BY <2>1, <2>2, PlaceIs
  <2>4. Same(d)
    BY <2>3, Zenon DEF Same
  <2>5. \A b \in Dispatches : b # d => Same(b)
    BY <2>2, Zenon DEF HandsOK, Same
  <2> QED
    BY <2>2, <2>4, <2>5, Zenon DEF Driven
<1> QED
  BY <1>1, <1>2

\* Time passes.
LEMMA TickEffect ==
  ASSUME PlanInv, Tick
  PROVE  Effect
<1>1. UNCHANGED <<cron, asOf, stale, disp, loop, booted>>
  BY Zenon DEF Tick
<1>2. clock' \in Instants /\ clock < clock' /\ {clock, clock'} \subseteq Nat
  BY CronAssumption DEF Tick, PlanInv, ClockOK
<1>3. RowsOK' /\ Fated
  BY <1>1, QuietFates DEF PlanInv
<1>4. Driven
  BY <1>1, StillDriven DEF PlanInv
<1>5. clock <= clock'
  BY <1>2
<1>6. Timed
  BY <1>1, <1>2, <1>5, Zenon DEF Timed
<1> QED
  BY <1>3, <1>4, <1>6, Zenon DEF Effect

\* What leaves the schedule, the dispatches and the time alone.
LEMMA QuietEffect ==
  ASSUME PlanInv, UNCHANGED <<cron, asOf, stale, disp, clock, booted>>,
         loop' = loop \/ loop'.due = {}
  PROVE  Effect
<1>1. RowsOK' /\ Fated
  BY QuietFates DEF PlanInv
<1>2. Driven
  BY StillDriven DEF PlanInv
<1>3. Timed
  BY StillTimed DEF PlanInv
<1> QED
  BY <1>1, <1>2, <1>3, Zenon DEF Effect

\* A cron is written.
LEMMA UpsertEffect ==
  ASSUME PlanInv, NEW c \in Crons, NEW e \in Exprs, NEW enabled \in BOOLEAN,
         Upsert(c, e, enabled)
  PROVE  Effect
<1>1. UNCHANGED <<disp, loop, clock, booted>>
  BY Zenon DEF Upsert
<1>2. RowsOK' /\ Fated
  BY UpsertFates DEF PlanInv
<1>3. Driven /\ Timed
  BY <1>1, StillDriven, StillTimed DEF PlanInv
<1> QED
  BY <1>2, <1>3, Zenon DEF Effect

\* It is deleted.
LEMMA DeleteEffect ==
  ASSUME PlanInv, NEW c \in Crons, Delete(c)
  PROVE  Effect
<1>1. UNCHANGED <<disp, loop, clock, booted>>
  BY Zenon DEF Delete
<1>2. RowsOK' /\ Fated
  BY DeleteFates DEF PlanInv
<1>3. Driven /\ Timed
  BY <1>1, StillDriven, StillTimed DEF PlanInv
<1> QED
  BY <1>2, <1>3, Zenon DEF Effect

\* The loop starts over, or wakes.
LEMMA LoopTurnsEffect ==
  ASSUME PlanInv, LoopTick \/ LoopWakes
  PROVE  Effect
<1>1. UNCHANGED <<cron, asOf, stale, disp, clock, booted>>
  BY Zenon DEF LoopTick, LoopWakes, LoopUnchanged
<1>2. loop'.due = {}
  BY SMT DEF LoopTick, LoopWakes, LoopAt
<1> QED
  BY <1>1, <1>2, QuietEffect

\* The loop lists the crons that are due.
LEMMA LoopListEffect ==
  ASSUME PlanInv, LoopList
  PROVE  Effect
<1> DEFINE due == {r \in Rows : r.due <= clock}
<1>1. UNCHANGED <<cron, asOf, stale, disp, clock, booted>>
  BY Zenon DEF LoopList, LoopUnchanged
<1>2. loop'.due = {} \/ loop'.due = due
  <2>1. \/ loop' = LoopAt("mark", due, NoTime)
        \/ loop' = LoopAt("park", {}, NoTime)
        \/ loop' = LoopAt("park", {}, Min({r.due : r \in Rows}))
    BY Zenon DEF LoopList
  <2> HIDE DEF due
  <2>2. ASSUME NEW pc, NEW rows, NEW until, loop' = LoopAt(pc, rows, until)
        PROVE  loop'.due = rows
    BY <2>2, SMT DEF LoopAt
  <2>3. \E until : \/ loop' = LoopAt("mark", due, until)
                   \/ loop' = LoopAt("park", {}, until)
    BY <2>1, Zenon
  <2> QED
    BY <2>2, <2>3
<1>3. CASE loop'.due = {}
  BY <1>1, <1>3, QuietEffect
<1>4. CASE loop'.due = due
  <2>1. RowsOK' /\ Fated
    BY <1>1, QuietFates DEF PlanInv
  <2>2. Driven
    BY <1>1, StillDriven DEF PlanInv
  <2>3. Listed
    BY <1>1, <1>4, Zenon DEF Listed
  <2>4. clock' \in Instants /\ clock <= clock'
    BY <1>1, CronAssumption DEF PlanInv, ClockOK
  <2>5. Timed
    BY <1>1, <2>3, <2>4, Zenon DEF Timed
  <2> QED
    BY <2>1, <2>2, <2>5, Zenon DEF Effect
<1> QED
  BY <1>2, <1>3, <1>4

\* It moves the schedule of one of them on, and dispatches it.
LEMMA LoopMarkEffect ==
  ASSUME PlanInv, NEW r \in loop.due, LoopMark(r)
  PROVE  Effect
<1>1. AdvanceSchedule(r.cron, r.expr) /\ UNCHANGED <<clock, booted>>
  BY Zenon DEF LoopMark, LoopUnchanged
<1>2. r.cron \in Crons /\ r.expr \in Exprs /\ r.due \in Int
  BY DEF PlanInv, HandsOK
<1>3. RowsOK' /\ Fated /\ (cron'[r.cron].enabled => Moved(r.cron))
  BY <1>1, <1>2, AdvanceFates DEF PlanInv
<1>4. loop'.due \subseteq loop.due /\ r \notin loop'.due
  BY SMT DEF LoopMark, LoopAt
<1>5. PICK d \in NextDispatch :
        disp' = [disp EXCEPT ![d] = [NoDispatch EXCEPT !.pc = "body", !.cron = r.cron,
                                                        !.expr = r.expr, !.due = r.due]]
  BY Zenon DEF LoopMark
<1> DEFINE row == [NoDispatch EXCEPT !.pc = "body", !.cron = r.cron, !.expr = r.expr,
                                     !.due = r.due]
<1>6. /\ {"pc", "cron", "expr", "due"} \subseteq DOMAIN row
      /\ row.pc = "body" /\ row.cron = r.cron /\ row.due = r.due
  BY SMT DEF NoDispatch
<1>7. disp' = [disp EXCEPT ![d] = row] /\ d \in Dispatches
  BY <1>5 DEF NextDispatch
<1> HIDE DEF row
<1>8. Driven
  <2>1. /\ DOMAIN disp' = Dispatches /\ disp'[d] = row
        /\ \A b \in Dispatches : b # d => disp'[b] = disp[b]
    BY <1>7, SMT DEF PlanInv, HandsOK
  <2>2. Triggered(d)
    BY <1>3, <1>4, <1>6, <2>1, Zenon DEF Triggered
  <2>3. \A b \in Dispatches : b # d => Same(b)
    BY <2>1, Zenon DEF PlanInv, HandsOK, Same
  <2> QED
    BY <2>1, <2>2, <2>3, Zenon DEF Driven
<1>9. Timed
  <2>1. clock' \in Instants /\ clock <= clock'
    BY <1>1, CronAssumption DEF PlanInv, ClockOK
  <2> QED
    BY <1>1, <1>4, <2>1, Zenon DEF Timed
<1> QED
  BY <1>3, <1>8, <1>9, Zenon DEF Effect

\* It fails before it reads the crons, or with one in hand.
LEMMA LoopFailsEffect ==
  ASSUME PlanInv, LoopFails
  PROVE  Effect
<1>1. UNCHANGED <<disp, clock, booted>> /\ loop'.due = {}
  BY SMT DEF LoopFails, LoopUnchanged, LoopAt
<1>2. RowsOK' /\ Fated
  <2>1. CASE UNCHANGED <<cron, asOf, stale>>
    BY <2>1, QuietFates DEF PlanInv
  <2>2. ASSUME NEW r \in loop.due, AdvanceSchedule(r.cron, r.expr)
        PROVE  RowsOK' /\ Fated
    <3>1. r.cron \in Crons /\ r.expr \in Exprs
      BY DEF PlanInv, HandsOK
    <3> QED
      BY <2>2, <3>1, AdvanceFates DEF PlanInv
  <2> QED
    BY <2>1, <2>2, Zenon DEF LoopFails
<1>3. Driven /\ Timed
  BY <1>1, StillDriven, StillTimed DEF PlanInv
<1> QED
  BY <1>2, <1>3, Zenon DEF Effect

\* A client dispatches a cron that is there.
LEMMA RunNowEffect ==
  ASSUME PlanInv, NEW c \in Crons, NEW d \in Dispatches, RunNow(c, d)
  PROVE  Effect
<1> DEFINE row == [NoDispatch EXCEPT !.pc = "advance", !.cron = c, !.client = TRUE,
                                     !.expr = cron[c].expr]
<1>1. /\ UNCHANGED <<cron, asOf, stale, clock, booted, loop>>
      /\ disp' = [disp EXCEPT ![d] = row] /\ There(c)
  BY Zenon DEF RunNow, DispatchUnchanged
<1>2. /\ {"pc", "cron", "expr", "due"} \subseteq DOMAIN row
      /\ row.pc = "advance" /\ row.cron = c /\ row.due = NoTime /\ row.expr = cron[c].expr
  BY SMT DEF NoDispatch
<1> HIDE DEF row
<1>3. cron[c].expr \in Exprs
  BY <1>1 DEF PlanInv, RowsOK, There
<1>4. Driven
  <2>1. /\ DOMAIN disp' = Dispatches /\ disp'[d] = row
        /\ \A b \in Dispatches : b # d => disp'[b] = disp[b]
    BY <1>1, SMT DEF PlanInv, HandsOK
  <2>2. Manual(d)
    BY <1>2, <1>3, <2>1, Zenon DEF Manual
  <2>3. \A b \in Dispatches : b # d => Same(b)
    BY <2>1, Zenon DEF PlanInv, HandsOK, Same
  <2> QED
    BY <2>1, <2>2, <2>3, Zenon DEF Driven
<1>5. RowsOK' /\ Fated /\ Timed
  BY <1>1, QuietFates, StillTimed DEF PlanInv
<1> QED
  BY <1>4, <1>5, Zenon DEF Effect

\* A dispatch moves the schedule of its cron on.
LEMMA AdvanceEffect ==
  ASSUME PlanInv, NEW d \in Dispatches, Advance(d)
  PROVE  Effect
<1> DEFINE pc == IF NextRun[disp[d].expr][clock] = NoTime THEN "strike" ELSE "body"
<1>1. /\ UNCHANGED <<clock, booted, loop>> /\ disp[d].pc = "advance"
      /\ AdvanceSchedule(disp[d].cron, disp[d].expr)
      /\ disp' = [disp EXCEPT ![d].pc = pc]
  BY Zenon DEF Advance, DispatchUnchanged, Goto
<1>2. disp[d].cron \in Crons /\ disp[d].expr \in Exprs
  BY <1>1 DEF PlanInv, HandsOK
<1>3. RowsOK' /\ Fated
  BY <1>1, <1>2, AdvanceFates DEF PlanInv
<1>4. Driven
  <2>1. pc # "advance" /\ disp[d].pc # "idle"
    BY <1>1
  <2> HIDE DEF pc
  <2> QED
    BY <1>1, <2>1, PlacedDriven DEF PlanInv
<1>5. Timed
  BY <1>1, StillTimed DEF PlanInv
<1> QED
  BY <1>3, <1>4, <1>5, Zenon DEF Effect

\* It counts a failure.
LEMMA StrikeEffect ==
  ASSUME PlanInv, NEW d \in Dispatches, Strike(d)
  PROVE  Effect
<1>1. /\ UNCHANGED <<asOf, stale, clock, booted, loop>> /\ disp[d].pc = "strike"
      /\ disp' = [disp EXCEPT ![d].pc = "body"]
  BY Zenon DEF Strike, DispatchUnchanged, Goto
<1>2. UNCHANGED cron \/ cron' = [cron EXCEPT ![disp[d].cron] = Failed(cron[disp[d].cron])]
  BY DEF Strike
<1>3. RowsOK' /\ Fated
  BY <1>1, <1>2, QuietFates, CountFates DEF PlanInv
<1>4. Driven
  BY <1>1, PlacedDriven DEF PlanInv
<1>5. Timed
  BY <1>1, StillTimed DEF PlanInv
<1> QED
  BY <1>3, <1>4, <1>5, Zenon DEF Effect

\* Its outcome is counted, or not.
LEMMA CountEffect ==
  ASSUME PlanInv, NEW d \in Dispatches, UNCHANGED cron \/ CountIt(d),
         UNCHANGED <<asOf, stale, clock, booted, loop>>, Driven
  PROVE  Effect
<1>1. \/ UNCHANGED cron
      \/ cron' = [cron EXCEPT ![disp[d].cron].fails = 0]
      \/ cron' = [cron EXCEPT ![disp[d].cron] = Failed(@)]
  BY Zenon DEF CountIt
<1>2. RowsOK' /\ Fated
  BY <1>1, QuietFates, CountFates DEF PlanInv
<1>3. Timed
  BY StillTimed DEF PlanInv
<1> QED
  BY <1>2, <1>3, Zenon DEF Effect

\* It records its outcome ...
LEMMA RecordOutcomeEffect ==
  ASSUME PlanInv, NEW d \in Dispatches, RecordOutcome(d)
  PROVE  Effect
<1>1. /\ UNCHANGED <<asOf, stale, clock, booted, loop>> /\ disp[d].pc # "idle" /\ CountIt(d)
      /\ \/ disp' = [disp EXCEPT ![d].pc = "end"]
         \/ disp' = [disp EXCEPT ![d] = Over(d, "done")]
  <2>1. /\ UNCHANGED <<asOf, stale, clock, booted, loop>> /\ disp[d].pc \in {"record", "report"}
        /\ CountIt(d)
        /\ \/ disp' = [disp EXCEPT ![d].pc = "end"]
           \/ disp' = [disp EXCEPT ![d] = Over(d, "done")]
    BY Zenon DEF RecordOutcome, DispatchUnchanged, Goto, Ends
  <2> QED
    BY <2>1
<1>2. Driven
  BY <1>1, PlacedDriven DEF PlanInv
<1> QED
  BY <1>1, <1>2, CountEffect

\* ... or fails to.
LEMMA RecordFailsEffect ==
  ASSUME PlanInv, NEW d \in Dispatches, RecordFails(d)
  PROVE  Effect
<1>1. /\ UNCHANGED <<asOf, stale, clock, booted, loop>> /\ disp[d].pc \in {"record", "report"}
      /\ UNCHANGED cron \/ CountIt(d)
      /\ \/ disp' = [disp EXCEPT ![d].pc = "report", ![d].tasked = FALSE]
         \/ disp' = [disp EXCEPT ![d].pc = "end"]
         \/ disp' = [disp EXCEPT ![d] = Over(d, "done")]
  BY Zenon DEF RecordFails, DispatchUnchanged, Goto, Ends, ToReport
<1>2. disp[d].pc # "idle"
  BY <1>1
<1>3. Driven
  BY <1>1, <1>2, PlacedDriven DEF PlanInv
<1> QED
  BY <1>1, <1>3, CountEffect

\* Whatever else a dispatch does goes on with it.
LEMMA GoesOnEffect ==
  ASSUME PlanInv, NEW d \in Dispatches,
         \/ Claim(d) \/ CreateChild(d) \/ CreateTask(d) \/ Send(d) \/ Poll(d) \/ Sleeps(d)
         \/ Settled(d) \/ WatchEnds(d) \/ GivesUp(d) \/ WatchFails(d) \/ Disconnect(d)
         \/ DispatchFails(d)
  PROVE  Effect
<1>1. UNCHANGED <<cron, asOf, stale, clock, booted, loop>>
  BY Zenon DEF DispatchUnchanged, Claim, CreateChild, CreateTask, Send, Poll, Sleeps, Settled,
     WatchEnds, GivesUp, WatchFails, Disconnect, DispatchFails
<1>2. RowsOK' /\ Fated /\ Timed
  BY <1>1, QuietFates, StillTimed DEF PlanInv
<1>3. Driven
  <2> USE PlacedDriven DEF PlanInv
  <2>1. CASE Claim(d)
    BY <2>1 DEF Claim, Goto, Ends
  <2>2. CASE CreateChild(d)
    BY <2>2 DEF CreateChild, Goto
  <2>3. CASE CreateTask(d)
    <3>1. /\ disp[d].pc = "task"
          /\ \/ disp' = [disp EXCEPT ![d].pc = "send", ![d].tasked = TRUE]
             \/ disp' = [disp EXCEPT ![d].pc = "report", ![d].tasked = FALSE]
      BY <2>3, Zenon DEF CreateTask, ToReport
    <3>2. CASE disp' = [disp EXCEPT ![d].pc = "send", ![d].tasked = TRUE]
      BY <3>1, <3>2
    <3>3. CASE disp' = [disp EXCEPT ![d].pc = "report", ![d].tasked = FALSE]
      BY <3>1, <3>3
    <3> QED
      BY <3>1, <3>2, <3>3
  <2>4. CASE Send(d)
    <3>1. /\ disp[d].pc = "send"
          /\ \/ disp' = [disp EXCEPT ![d].pc = "poll", ![d].watched = TRUE]
             \/ disp' = [disp EXCEPT ![d].pc = "record", ![d].success = FALSE]
      BY <2>4, Zenon DEF Send, ToRecord
    <3>2. CASE disp' = [disp EXCEPT ![d].pc = "poll", ![d].watched = TRUE]
      BY <3>1, <3>2
    <3>3. CASE disp' = [disp EXCEPT ![d].pc = "record", ![d].success = FALSE]
      BY <3>1, <3>3
    <3> QED
      BY <3>1, <3>2, <3>3
  <2>5. CASE Poll(d)
    BY <2>5 DEF Poll
  <2>6. CASE Sleeps(d)
    BY <2>6 DEF Sleeps, Goto
  <2>7. CASE Settled(d)
    BY <2>7 DEF Settled
  <2>8. CASE WatchEnds(d)
    BY <2>8 DEF WatchEnds, Ends
  <2>9. CASE GivesUp(d)
    BY <2>9 DEF GivesUp, ToRecord
  <2>10. CASE WatchFails(d)
    BY <2>10 DEF WatchFails, ToRecord
  <2>11. CASE Disconnect(d)
    BY <2>11 DEF Disconnect, Ends
  <2>12. CASE DispatchFails(d)
    <3>1. /\ disp[d].pc \in {"create", "task", "send"}
          /\ \/ disp' = [disp EXCEPT ![d].pc = "record", ![d].success = FALSE]
             \/ disp' = [disp EXCEPT ![d].pc = "report", ![d].tasked = FALSE]
      BY <2>12 DEF DispatchFails, ToRecord, ToReport
    <3>2. disp[d].pc # "idle"
      BY <3>1
    <3>3. CASE disp' = [disp EXCEPT ![d].pc = "record", ![d].success = FALSE]
      BY <3>2, <3>3
    <3>4. CASE disp' = [disp EXCEPT ![d].pc = "report", ![d].tasked = FALSE]
      BY <3>2, <3>4
    <3> QED
      BY <3>1, <3>3, <3>4
  <2> QED
    BY <2>1, <2>2, <2>3, <2>4, <2>5, <2>6, <2>7, <2>8, <2>9, <2>10, <2>11, <2>12
<1> QED
  BY <1>2, <1>3, Zenon DEF Effect

\* The daemon dies ...
LEMMA CrashEffect ==
  ASSUME PlanInv, Crash
  PROVE  Effect
<1>1. UNCHANGED <<cron, asOf, stale, clock, booted>> /\ loop'.due = {}
  BY SMT DEF Crash, LoopAt
<1>2. RowsOK' /\ Fated /\ Timed
  BY <1>1, QuietFates, StillTimed DEF PlanInv
<1>3. DOMAIN disp' = Dispatches
  BY SMT DEF Crash
<1>4. ASSUME NEW d \in Dispatches
      PROVE  Same(d)
  <2>1. disp'[d] = IF disp[d].pc \in {"idle", "done"} THEN disp[d] ELSE Over(d, "cut")
    BY SMT DEF Crash
  <2>2. CASE disp[d].pc \in {"idle", "done"}
    BY <2>1, <2>2, Zenon DEF PlanInv, HandsOK, Same
  <2>3. CASE disp[d].pc \notin {"idle", "done"}
    BY <2>1, <2>3, OverRow DEF Same
  <2> QED
    BY <2>2, <2>3
<1> QED
  BY <1>2, <1>3, <1>4, Zenon DEF Effect, Driven

\* ... and starts.
LEMMA BootEffect ==
  ASSUME PlanInv, Boot
  PROVE  Effect
<1>1. UNCHANGED <<disp, clock>> /\ booted' = clock /\ loop'.due = {}
  BY SMT DEF Boot, LoopAt
<1>2. /\ RowsOK' /\ Fated
      /\ \A c \in Crons : cron'[c].enabled /\ cron'[c].next # NoTime => clock < cron'[c].next
  BY BootFates DEF PlanInv
<1>3. Driven
  BY <1>1, StillDriven DEF PlanInv
<1> QED
  BY <1>1, <1>2, <1>3, Zenon DEF Effect, Booted

\* A step is no more than that.
LEMMA StepEffect ==
  ASSUME PlanInv, [Next]_vars
  PROVE  Effect
<1>1. CASE Tick \/ Loop \/ LoopFails \/ Crash \/ Boot
  BY <1>1, TickEffect, LoopTurnsEffect, LoopListEffect, LoopMarkEffect, LoopFailsEffect,
     CrashEffect, BootEffect DEF Loop
<1>2. ASSUME NEW c \in Crons,
             \/ \E e \in Exprs, enabled \in BOOLEAN : Upsert(c, e, enabled)
             \/ Delete(c)
             \/ \E d \in Dispatches : RunNow(c, d)
      PROVE  Effect
  BY <1>2, UpsertEffect, DeleteEffect, RunNowEffect
<1>3. ASSUME NEW r \in returning, Returns(r) \/ EditCut(r)
      PROVE  Effect
  <2>1. UNCHANGED <<cron, asOf, stale, disp, clock, booted, loop>>
    BY <1>3, Zenon DEF Returns, EditCut
  <2> QED
    BY <2>1, QuietEffect
<1>4. ASSUME NEW d \in Dispatches, Proceeds(d)
      PROVE  Effect
  BY <1>4, AdvanceEffect, StrikeEffect, RecordOutcomeEffect, GoesOnEffect DEF Proceeds
<1>5. ASSUME NEW d \in Dispatches,
             \/ GivesUp(d) \/ WatchFails(d) \/ Disconnect(d)
             \/ DispatchFails(d) \/ RecordFails(d)
      PROVE  Effect
  BY <1>5, GoesOnEffect, RecordFailsEffect
<1>6. ASSUME NEW d \in Dispatches, RunGoesOn(d) \/ UserMeddles(d)
      PROVE  Effect
  <2>1. UNCHANGED <<cron, asOf, stale, disp, clock, booted, loop>>
    BY <1>6, Zenon DEF RunGoesOn, UserMeddles, ChildUnchanged
  <2> QED
    BY <2>1, QuietEffect
<1>7. CASE UNCHANGED vars
  <2>1. UNCHANGED <<cron, asOf, stale, disp, clock, booted, loop>>
    BY <1>7, Zenon DEF vars
  <2> QED
    BY <2>1, QuietEffect
<1> QED
  BY <1>1, <1>2, <1>3, <1>4, <1>5, <1>6, <1>7, Zenon DEF Next

-----------------------------------------------------------------------------
\* The schedule is in order when the daemon starts.
LEMMA InitPlan == Init => PlanInv
<1> SUFFICES ASSUME Init PROVE PlanInv
  OBVIOUS
<1>1. /\ clock = Min(Instants) /\ booted = NoTime /\ loop.due = {}
      /\ disp = [d \in Dispatches |-> NoDispatch]
      /\ asOf = [c \in Crons |-> clock] /\ stale = {}
  BY SMT DEF Init, LoopAt
<1>2. clock \in Instants /\ clock \in Nat
  <2>1. Instants \subseteq Nat /\ Instants # {}
    BY CronAssumption
  <2>2. Min(Instants) \in Instants
    BY <2>1, MinIsLeast
  <2> QED
    BY <1>1, <2>1, <2>2
<1> DEFINE Out == {NoCron} \cup {Created(e, FALSE, clock) : e \in Exprs}
           In == {[Created(e, TRUE, clock) EXCEPT !.fails = Failures] : e \in Schedulable(clock)}
<1>3. cron \in [Crons -> Out \cup In]
  BY Zenon DEF Init
<1>4. \A row \in Out : /\ {"state", "expr", "enabled", "next"} \subseteq DOMAIN row
                       /\ ~row.enabled /\ row.next = NoTime
                       /\ row.state = "there" => row.expr \in Exprs
  BY SMT DEF NoCron, Created
<1>5. \A row \in In : /\ {"state", "expr", "enabled", "next"} \subseteq DOMAIN row
                      /\ row.state = "there" /\ row.expr \in Exprs
                      /\ row.next = NextRun[row.expr][clock]
  <2>1. ASSUME NEW e \in Exprs
        PROVE  /\ {"state", "expr", "enabled", "next", "fails"} \subseteq
                    DOMAIN Created(e, TRUE, clock)
               /\ Created(e, TRUE, clock).state = "there" /\ Created(e, TRUE, clock).expr = e
               /\ Created(e, TRUE, clock).next = NextRun[e][clock]
    BY SMT DEF Created
  <2>2. ASSUME NEW row, {"state", "expr", "enabled", "next", "fails"} \subseteq DOMAIN row
        PROVE  LET edited == [row EXCEPT !.fails = Failures]
               IN  /\ {"state", "expr", "enabled", "next"} \subseteq DOMAIN edited
                   /\ edited.state = row.state /\ edited.expr = row.expr
                   /\ edited.next = row.next
    BY <2>2, SMT
  <2>3. Schedulable(clock) \subseteq Exprs
    BY DEF Schedulable
  <2>4. ASSUME NEW e \in Exprs
        PROVE  LET edited == [Created(e, TRUE, clock) EXCEPT !.fails = Failures]
               IN  /\ {"state", "expr", "enabled", "next"} \subseteq DOMAIN edited
                   /\ edited.state = "there" /\ edited.expr = e
                   /\ edited.next = NextRun[e][clock]
    BY <2>1, <2>2, Zenon
  <2>5. ASSUME NEW row \in In
        PROVE  \E e \in Exprs : row = [Created(e, TRUE, clock) EXCEPT !.fails = Failures]
    BY <2>3, Zenon
  <2> HIDE DEF Out, In
  <2>6. ASSUME NEW row \in In
        PROVE  /\ {"state", "expr", "enabled", "next"} \subseteq DOMAIN row
               /\ row.state = "there" /\ row.expr \in Exprs
               /\ row.next = NextRun[row.expr][clock]
    <3>1. PICK e \in Exprs : row = [Created(e, TRUE, clock) EXCEPT !.fails = Failures]
      BY <2>5, <2>6
    <3>2. /\ {"state", "expr", "enabled", "next"} \subseteq DOMAIN row
          /\ row.state = "there" /\ row.expr = e /\ row.next = NextRun[e][clock]
      BY <2>4, <3>1, Zenon
    <3> QED
      BY <3>2
  <2> QED
    BY <2>6
<1> HIDE DEF Out, In
<1>6. ASSUME NEW c \in Crons
      PROVE  /\ {"state", "expr", "enabled", "next"} \subseteq DOMAIN cron[c]
             /\ cron[c].state = "there" => cron[c].expr \in Exprs
             /\ \/ ~cron[c].enabled /\ cron[c].next = NoTime
                \/ /\ cron[c].state = "there" /\ cron[c].expr \in Exprs
                   /\ cron[c].next = NextRun[cron[c].expr][clock]
  <2>1. cron[c] \in Out \cup In
    BY <1>3
  <2> QED
    BY <1>4, <1>5, <2>1
<1>7. ASSUME NEW c \in Crons
      PROVE  /\ cron[c].next \in Int
             /\ cron[c].enabled => cron[c].state = "there"
             /\ cron[c].enabled => cron[c].next = NextRun[cron[c].expr][clock]
             /\ cron[c].enabled /\ cron[c].next # NoTime => clock < cron[c].next
  <2>1. cron[c].enabled => /\ cron[c].state = "there" /\ cron[c].expr \in Exprs
                           /\ cron[c].next = NextRun[cron[c].expr][clock]
    BY <1>6, Zenon
  <2>2. ASSUME cron[c].next = NextRun[cron[c].expr][clock], cron[c].expr \in Exprs
        PROVE  cron[c].next \in Int /\ (cron[c].next # NoTime => clock < cron[c].next)
    BY <1>2, <2>2, NextRunIs
  <2>3. ASSUME cron[c].next = NoTime
        PROVE  cron[c].next \in Int
    BY <2>3 DEF NoTime
  <2>4. cron[c].next \in Int
    BY <1>6, <2>2, <2>3, Zenon
  <2> QED
    BY <2>1, <2>2, <2>4, Zenon
<1>8. RowsOK
  <2>1. DOMAIN cron = Crons
    BY <1>3
  <2>2. asOf \in [Crons -> Instants]
    BY <1>1, <1>2
  <2> QED
    BY <1>6, <1>7, <2>1, <2>2, Zenon DEF RowsOK
<1>9. HandsOK
  <2>1. DOMAIN disp = Dispatches
    BY <1>1
  <2>2. ASSUME NEW d \in Dispatches
        PROVE  /\ {"pc", "cron", "expr", "due"} \subseteq DOMAIN disp[d]
               /\ disp[d].due = NoTime /\ disp[d].pc = "idle"
    BY <1>1, SMT DEF NoDispatch
  <2>3. NoTime \in Int /\ NoTime <= clock
    BY <1>2 DEF NoTime
  <2>4. loop.due \subseteq [cron : Crons, expr : Exprs, due : Int]
    BY <1>1
  <2> QED
    BY <2>1, <2>2, <2>3, <2>4 DEF HandsOK
<1>10. ClockOK
  BY <1>1, <1>2 DEF ClockOK, NoTime
<1>11. Computed
  BY <1>1, <1>7 DEF Computed
<1>12. Ahead
  <2>1. ASSUME NEW c \in Crons, cron[c].enabled, cron[c].next # NoTime
        PROVE  NoTime < cron[c].next
    BY <1>2, <1>7, <2>1 DEF NoTime
  <2>2. ASSUME NEW d \in Dispatches
        PROVE  disp[d].due = NoTime
    BY <1>1, SMT DEF NoDispatch
  <2> QED
    BY <1>1, <2>1, <2>2, Zenon DEF Ahead
<1>13. InHand
  BY <1>1 DEF InHand
<1> QED
  BY <1>8, <1>9, <1>10, <1>11, <1>12, <1>13, Zenon DEF PlanInv

\* A schedule that was moved on is that of the cron's expression, unless it is stale.
LEMMA MovedIs ==
  ASSUME PlanInv, NEW c \in Crons, Moved(c)
  PROVE  /\ cron'[c].next # NoTime => clock < cron'[c].next
         /\ c \notin stale' => cron'[c].next = NextRun[cron'[c].expr][asOf'[c]]
<1>1. PICK e \in Exprs : cron'[c].next = NextRun[e][clock] /\ (c \in stale' \/ cron'[c].expr = e)
  BY DEF Moved
<1>2. clock \in Instants
  BY DEF PlanInv, ClockOK
<1>3. NextRun[e][clock] # NoTime => clock < NextRun[e][clock]
  BY <1>2, NextRunIs
<1> QED
  BY <1>1, <1>3, Zenon DEF Moved

\* A trigger is dispatched after it was due, and a row in hand is due.
LEMMA DueBefore ==
  ASSUME PlanInv, Effect
  PROVE  \A d \in Dispatches :
           /\ disp'[d].due \in Int /\ disp'[d].due <= clock
           /\ \/ disp'[d].cron = disp[d].cron /\ disp'[d].due = disp[d].due
              \/ disp'[d].due = NoTime
              \/ Triggered(d)
<1> SUFFICES ASSUME NEW d \in Dispatches
             PROVE  /\ disp'[d].due \in Int /\ disp'[d].due <= clock
                    /\ \/ disp'[d].cron = disp[d].cron /\ disp'[d].due = disp[d].due
                       \/ disp'[d].due = NoTime
                       \/ Triggered(d)
  OBVIOUS
<1>1. clock \in Nat
  BY CronAssumption DEF PlanInv, ClockOK
<1>2. CASE Same(d)
  BY <1>2 DEF Same, PlanInv, HandsOK
<1>3. CASE Triggered(d)
  <2>1. PICK r \in loop.due : disp'[d].due = r.due
    BY <1>3, Zenon DEF Triggered
  <2>2. r.due \in Int /\ r.due <= clock
    BY <2>1 DEF PlanInv, HandsOK, InHand
  <2> QED
    BY <1>3, <2>1, <2>2
<1>4. CASE Manual(d)
  BY <1>1, <1>4 DEF Manual, NoTime
<1> QED
  BY <1>2, <1>3, <1>4, Zenon DEF Effect, Driven

\* The types of what is in hand stay.
LEMMA StepHands ==
  ASSUME PlanInv, Effect
  PROVE  HandsOK' /\ ClockOK'
<1>1. clock \in Instants /\ clock \in Nat /\ booted \in Int /\ NoTime <= booted /\ booted <= clock
  BY CronAssumption DEF PlanInv, ClockOK
<1>2. clock' \in Instants /\ clock' \in Nat /\ clock <= clock'
  <2>1. clock' \in Instants /\ (clock' = clock \/ clock <= clock')
    BY <1>1, Zenon DEF Effect, Timed, Booted
  <2> QED
    BY <1>1, <2>1, CronAssumption
<1>3. booted' = booted \/ booted' = clock
  BY Zenon DEF Effect, Timed, Booted
<1>4. ClockOK'
  <2>1. booted' \in Int /\ NoTime <= booted' /\ booted' <= clock'
    BY <1>1, <1>2, <1>3 DEF NoTime
  <2> QED
    BY <1>2, <2>1, Zenon DEF ClockOK
<1>5. loop'.due \subseteq [cron : Crons, expr : Exprs, due : Int]
  <2>1. CASE loop'.due \subseteq loop.due
    BY <2>1 DEF PlanInv, HandsOK
  <2>2. CASE Listed
    <3>1. ASSUME NEW c \in Crons, cron[c].enabled
          PROVE  cron[c].expr \in Exprs /\ cron[c].next \in Int
      BY <3>1, Zenon DEF PlanInv, RowsOK
    <3>2. Rows \subseteq [cron : Crons, expr : Exprs, due : Int]
      BY <3>1 DEF Rows
    <3>3. loop'.due \subseteq Rows
      BY <2>2 DEF Listed
    <3> QED
      BY <3>2, <3>3
  <2>3. CASE loop'.due = {}
    BY <2>3
  <2> QED
    BY <2>1, <2>2, <2>3, Zenon DEF Effect, Timed, Booted
<1>6. ASSUME NEW d \in Dispatches
      PROVE  /\ {"pc", "cron", "expr", "due"} \subseteq DOMAIN disp'[d]
             /\ disp'[d].pc = "advance" => disp'[d].cron \in Crons /\ disp'[d].expr \in Exprs
  <2>1. CASE Same(d)
    BY <2>1, Zenon DEF Same, PlanInv, HandsOK
  <2>2. CASE Triggered(d)
    BY <2>2 DEF Triggered
  <2>3. CASE Manual(d)
    BY <2>3, Zenon DEF Manual
  <2> QED
    BY <2>1, <2>2, <2>3, Zenon DEF Effect, Driven
<1>7. ASSUME NEW d \in Dispatches
      PROVE  disp'[d].due \in Int /\ disp'[d].due <= clock'
  BY <1>1, <1>2, DueBefore
<1>8. DOMAIN disp' = Dispatches
  BY Zenon DEF Effect, Driven
<1>9. HandsOK'
  BY <1>5, <1>6, <1>7, <1>8, Zenon DEF HandsOK
<1> QED
  BY <1>4, <1>9

\* A next run stays that of its expression ...
LEMMA StepComputed ==
  ASSUME PlanInv, Effect
  PROVE  Computed'
<1> SUFFICES ASSUME NEW c \in Crons, cron'[c].enabled, cron'[c].next # NoTime, c \notin stale'
             PROVE  cron'[c].next = NextRun[cron'[c].expr][asOf'[c]]
  BY Zenon DEF Computed
<1>1. CASE Kept(c)
  BY <1>1, Zenon DEF Kept, PlanInv, Computed
<1>2. CASE Moved(c)
  BY <1>2, MovedIs
<1> QED
  BY <1>1, <1>2, Zenon DEF Effect, Fated, Disabled

\* ... and later than what has been dispatched ...
LEMMA StepAhead ==
  ASSUME PlanInv, Effect
  PROVE  Ahead'
<1> SUFFICES ASSUME NEW c \in Crons, cron'[c].enabled, cron'[c].next # NoTime
             PROVE  /\ booted' < cron'[c].next
                    /\ \A d \in Dispatches : disp'[d].cron = c => disp'[d].due < cron'[c].next
  BY Zenon DEF Ahead
<1>1. /\ clock \in Nat /\ booted \in Int /\ NoTime <= booted /\ booted <= clock
      /\ cron'[c].next \in Int
  BY CronAssumption DEF PlanInv, ClockOK, Effect, RowsOK
<1>2. ASSUME NEW d \in Dispatches
      PROVE  disp'[d].due \in Int /\ disp'[d].due <= clock
  BY DueBefore
<1>3. CASE clock < cron'[c].next
  <2>1. booted' = booted \/ booted' = clock
    BY Zenon DEF Effect, Timed, Booted
  <2>2. booted' < cron'[c].next
    BY <1>1, <1>3, <2>1
  <2>3. ASSUME NEW d \in Dispatches
        PROVE  disp'[d].due < cron'[c].next
    BY <1>1, <1>2, <1>3
  <2> QED
    BY <2>2, <2>3
<1>4. CASE ~(clock < cron'[c].next)
  <2>1. Kept(c)
    <3>1. ~Moved(c)
      BY <1>4, MovedIs
    <3> QED
      BY <3>1, Zenon DEF Effect, Fated, Disabled
  <2>2. cron[c].enabled /\ cron'[c].next = cron[c].next /\ cron[c].next # NoTime
    BY <2>1, Zenon DEF Kept
  <2>3. /\ booted < cron[c].next
        /\ \A d \in Dispatches : disp[d].cron = c => disp[d].due < cron[c].next
    BY <2>2, Zenon DEF PlanInv, Ahead
  <2>4. booted' = booted
    BY <1>4, Zenon DEF Effect, Timed, Booted
  <2>5. ASSUME NEW d \in Dispatches, disp'[d].cron = c
        PROVE  disp'[d].due < cron'[c].next
    <3>1. CASE disp'[d].cron = disp[d].cron /\ disp'[d].due = disp[d].due
      BY <2>2, <2>3, <2>5, <3>1, Zenon
    <3>2. CASE disp'[d].due = NoTime
      BY <1>1, <2>2, <2>3, <3>2 DEF NoTime
    <3>3. CASE Triggered(d)
      <4>1. Moved(c)
        BY <2>5, <3>3, Zenon DEF Triggered
      <4> QED
        BY <1>4, <4>1, MovedIs
    <3> QED
      BY <3>1, <3>2, <3>3, DueBefore, Zenon
  <2> QED
    BY <2>2, <2>3, <2>4, <2>5, Zenon
<1> QED
  BY <1>3, <1>4

\* ... and so is what the loop has in its hands.
LEMMA StepInHand ==
  ASSUME PlanInv, Effect
  PROVE  InHand'
<1>1. CASE loop'.due = {}
  BY <1>1, Zenon DEF InHand
<1>2. CASE booted' = booted /\ loop'.due \subseteq loop.due
  <2>1. clock \in Nat /\ clock' \in Nat /\ clock <= clock' /\ booted \in Int /\ NoTime <= booted
    <3>1. clock \in Nat /\ booted \in Int /\ NoTime <= booted
      BY CronAssumption DEF PlanInv, ClockOK
    <3>2. clock' \in Instants /\ (clock' = clock \/ clock <= clock')
      BY Zenon DEF Effect, Timed, Booted, PlanInv, ClockOK
    <3> QED
      BY <3>1, <3>2, CronAssumption
  <2>2. ASSUME NEW r \in loop'.due
        PROVE  /\ booted' < r.due /\ r.due <= clock'
               /\ \A d \in Dispatches : disp'[d].cron = r.cron => disp'[d].due < r.due
    <3>1. r \in loop.due /\ r.due \in Int
      BY <1>2, <2>2 DEF PlanInv, HandsOK
    <3>2. /\ booted < r.due /\ r.due <= clock
          /\ \A d \in Dispatches : disp[d].cron = r.cron => disp[d].due < r.due
      BY <3>1, Zenon DEF PlanInv, InHand
    <3>3. r.due <= clock'
      BY <2>1, <3>1, <3>2
    <3>4. ASSUME NEW d \in Dispatches, disp'[d].cron = r.cron
          PROVE  disp'[d].due < r.due
      <4>1. CASE disp'[d].cron = disp[d].cron /\ disp'[d].due = disp[d].due
        BY <3>2, <3>4, <4>1, Zenon
      <4>2. CASE disp'[d].due = NoTime
        BY <2>1, <3>1, <3>2, <4>2 DEF NoTime
      <4>3. CASE Triggered(d)
        <5>1. PICK q \in loop.due : disp'[d].cron = q.cron /\ q \notin loop'.due
          BY <4>3, Zenon DEF Triggered
        <5>2. q = r
          BY <3>1, <3>4, <5>1, Zenon DEF PlanInv, InHand
        <5> QED
          BY <2>2, <5>1, <5>2
      <4> QED
        BY <4>1, <4>2, <4>3, DueBefore, Zenon
    <3> QED
      BY <1>2, <3>2, <3>3, <3>4, Zenon
  <2>3. \A r, q \in loop'.due : r.cron = q.cron => r = q
    BY <1>2 DEF PlanInv, InHand
  <2> QED
    BY <2>2, <2>3, Zenon DEF InHand
<1>3. CASE Listed
  <2>1. UNCHANGED <<clock, booted, disp>> /\ loop'.due = {r \in Rows : r.due <= clock}
    BY <1>3, Zenon DEF Listed
  <2>2. ASSUME NEW r \in loop'.due
        PROVE  /\ r.due <= clock
               /\ \E c \in Crons :
                    /\ cron[c].enabled /\ cron[c].next # NoTime
                    /\ r = [cron |-> c, expr |-> cron[c].expr, due |-> cron[c].next]
                    /\ r.cron = c /\ r.due = cron[c].next
    BY <2>1, <2>2 DEF Rows
  <2>3. ASSUME NEW r \in loop'.due
        PROVE  /\ booted < r.due
               /\ \A d \in Dispatches : disp[d].cron = r.cron => disp[d].due < r.due
    BY <2>2, <2>3, Zenon DEF PlanInv, Ahead
  <2>4. ASSUME NEW r \in loop'.due, NEW q \in loop'.due, r.cron = q.cron
        PROVE  r = q
    <3>1. PICK c : r = [cron |-> c, expr |-> cron[c].expr, due |-> cron[c].next] /\ r.cron = c
      BY <2>2, Zenon
    <3>2. PICK b : q = [cron |-> b, expr |-> cron[b].expr, due |-> cron[b].next] /\ q.cron = b
      BY <2>2, Zenon
    <3>3. b = c
      BY <2>4, <3>1, <3>2, Zenon
    <3> QED
      BY <3>1, <3>2, <3>3, Zenon
  <2> QED
    BY <2>1, <2>2, <2>3, <2>4, Zenon DEF InHand
<1> QED
  BY <1>1, <1>2, <1>3, Zenon DEF Effect, Timed, Booted

\* Every step keeps the schedule in order.
LEMMA StepPlan == PlanInv /\ [Next]_vars => PlanInv'
<1> SUFFICES ASSUME PlanInv, [Next]_vars PROVE PlanInv'
  OBVIOUS
<1>1. Effect
  BY StepEffect
<1> QED
  BY <1>1, StepHands, StepComputed, StepAhead, StepInHand DEF PlanInv, Effect

-----------------------------------------------------------------------------
\* The next run of an enabled cron is the first occurrence of its own expression, in local
\* time, after the instant it was computed at, for any expressions and instants, unless the
\* cron was edited while the loop or run_now held its row (service.py _advance_schedule).
THEOREM NextFitsAlways == Spec => []NextFitsExpr
<1>1. PlanInv => NextFitsExpr
  <2> SUFFICES ASSUME PlanInv,
                      NEW c \in Crons, cron[c].enabled, cron[c].next # NoTime, c \notin stale
               PROVE  FirstAfter[cron[c].expr][asOf[c]] = cron[c].next
    BY Zenon DEF NextFitsExpr
  <2>1. cron[c].next = NextRun[cron[c].expr][asOf[c]]
    BY Zenon DEF PlanInv, Computed
  <2>2. cron[c].expr \in Exprs /\ asOf[c] \in Instants
    BY DEF PlanInv, RowsOK
  <2> QED
    BY <2>1, <2>2, NextRunIs
<1> QED
  BY <1>1, InitPlan, StepPlan, PTL DEF Spec

\* A trigger the loop dispatches is later than every one dispatched before for its cron, and
\* than the last restart, whatever is edited, run by hand, lost or restarted in between
\* (service.py _loop_tick, _reconcile_on_startup).
THEOREM MovesOnAlways == Spec => TriggersMoveOn
<1> DEFINE MovesOn ==
      \A d \in Dispatches :
        disp[d].pc = "idle" /\ disp'[d].pc = "body" =>
          /\ disp'[d].due > booted
          /\ \A e \in Dispatches :
               disp[e].cron = disp'[d].cron => disp[e].due < disp'[d].due
<1>1. ASSUME PlanInv, [Next]_vars
      PROVE  MovesOn
  <2> SUFFICES ASSUME NEW d \in Dispatches, disp[d].pc = "idle", disp'[d].pc = "body"
               PROVE  /\ disp'[d].due > booted
                      /\ \A e \in Dispatches :
                           disp[e].cron = disp'[d].cron => disp[e].due < disp'[d].due
    OBVIOUS
  <2>1. Effect
    BY <1>1, StepEffect
  <2>2. Triggered(d)
    <3>1. ~Same(d)
      BY DEF Same
    <3>2. ~Manual(d)
      BY DEF Manual
    <3> QED
      BY <2>1, <3>1, <3>2, Zenon DEF Effect, Driven
  <2>3. PICK r \in loop.due : disp'[d].cron = r.cron /\ disp'[d].due = r.due
    BY <2>2, Zenon DEF Triggered
  <2>4. /\ booted < r.due /\ r.due \in Int /\ booted \in Int
        /\ \A e \in Dispatches : disp[e].cron = r.cron => disp[e].due < r.due
    BY <1>1, <2>3 DEF PlanInv, InHand, HandsOK, ClockOK
  <2> QED
    BY <2>3, <2>4
<1>2. PlanInv /\ [Next]_vars => [MovesOn]_vars
  BY <1>1
<1> QED
  BY <1>2, InitPlan, StepPlan, PTL DEF Spec, TriggersMoveOn

-----------------------------------------------------------------------------
(* The guard                                                               *)

\* A cron of which only its dispatches are left.
Gone(c) == cron[c].state = "deleted"

\* A dispatch that has claimed its cron and is still to give it back.
Guarding(d) ==
  \/ disp[d].pc \in {"create", "task", "send", "poll", "look", "end"}
  \/ disp[d].pc = "record" /\ disp[d].watched

\* A Run that works, and that its watch has not given up on.
Working(d) == child[d] \in {"running", "waiting"} /\ d \notin unwatched

\* A dispatch past the row of its task, the Turn of which starts or works.
Racing(d) == disp[d].pc = "send" \/ Working(d)

\* What the arguments below need of the types.
Types ==
  /\ DOMAIN cron = Crons
  /\ \A c \in Crons : {"state", "enabled"} \subseteq DOMAIN cron[c]
  /\ DOMAIN disp = Dispatches
  /\ \A d \in Dispatches : {"pc", "cron", "watched"} \subseteq DOMAIN disp[d]
  /\ inflight \in [Crons -> Dispatches \cup {None}]
  /\ child \in [Dispatches -> {"none", "created", "running", "waiting", "completed",
                               "terminated", "retaken", "mismatched", "gone"}]

\* Whoever has a cron in hand has one that exists, or existed.
Known ==
  /\ \A c \in Crons : cron[c].enabled => cron[c].state # "none"
  /\ \A r \in loop.due : r.cron \in Crons /\ cron[r.cron].state # "none"
  /\ \A r \in returning : r.deleted => r.cron \in Crons /\ Gone(r.cron)
  /\ \A d \in Dispatches :
       disp[d].pc # "idle" => disp[d].cron \in Crons /\ cron[disp[d].cron].state # "none"

\* How far a dispatch is, and its child session.
Places ==
  \A d \in Dispatches :
    /\ disp[d].pc \in {"idle", "advance", "strike", "body", "create"} => child[d] = "none"
    /\ disp[d].pc \in {"task", "send"} => child[d] \in {"created", "gone"}
    /\ disp[d].pc \in {"advance", "strike", "body", "create", "task", "send", "report"} =>
         ~disp[d].watched
    /\ disp[d].pc \in {"poll", "look", "end"} => disp[d].watched
    /\ Working(d) => disp[d].pc \in {"poll", "look", "cut"}

\* No coroutine outlives the process.
Dead ==
  daemon = "down" =>
    loop.pc = "off" /\ \A d \in Dispatches : disp[d].pc \in {"idle", "done", "cut"}

\* The guard of a cron is held for the dispatch that claimed it, and for as long as its Run
\* works, unless the cron was deleted or its guard was released under another dispatch.
Held ==
  \A d \in Dispatches :
    Guarding(d) \/ (Working(d) /\ daemon # "down") =>
      inflight[disp[d].cron] = d \/ Gone(disp[d].cron) \/ disp[d].cron \in reopened

\* No two dispatches of a cron are past the row of their task, unless it was.
Apart ==
  \A d, e \in Dispatches :
    d # e /\ Racing(d) /\ Racing(e) =>
      disp[d].cron # disp[e].cron \/ disp[d].cron \in reopened

\* The inductive invariant.
IInv == Types /\ Known /\ Places /\ Dead /\ Held /\ Apart

USE CronAssumption

-----------------------------------------------------------------------------
\* The invariant holds when the daemon starts.
LEMMA InitIInv == Init => IInv
<1> SUFFICES ASSUME Init PROVE IInv
  OBVIOUS
<1>1. /\ disp = [d \in Dispatches |-> NoDispatch]
      /\ child = [d \in Dispatches |-> "none"]
      /\ inflight = [c \in Crons |-> None]
      /\ returning = {} /\ loop.due = {} /\ daemon = "up"
  BY Zenon DEF Init, LoopAt
<1> DEFINE Off == {NoCron} \cup {Created(e, FALSE, clock) : e \in Exprs}
           On == {[Created(e, TRUE, clock) EXCEPT !.fails = Failures] : e \in Schedulable(clock)}
<1>2. cron \in [Crons -> Off \cup On]
  BY Zenon DEF Init
<1>3. \A row \in Off : {"state", "enabled"} \subseteq DOMAIN row /\ ~row.enabled
  BY SMT DEF NoCron, Created
<1>4. \A row \in On : {"state", "enabled"} \subseteq DOMAIN row /\ row.state = "there"
  <2>1. ASSUME NEW e \in Exprs
        PROVE  /\ {"state", "enabled", "fails"} \subseteq DOMAIN Created(e, TRUE, clock)
               /\ Created(e, TRUE, clock).state = "there"
    BY SMT DEF Created
  <2>2. ASSUME NEW row, {"state", "enabled", "fails"} \subseteq DOMAIN row, row.state = "there"
        PROVE  LET edited == [row EXCEPT !.fails = Failures]
               IN {"state", "enabled"} \subseteq DOMAIN edited /\ edited.state = "there"
    BY <2>2, SMT
  <2>3. Schedulable(clock) \subseteq Exprs
    BY DEF Schedulable
  <2> QED
    BY <2>1, <2>2, <2>3, Zenon
<1>5. /\ DOMAIN cron = Crons
      /\ \A c \in Crons : /\ {"state", "enabled"} \subseteq DOMAIN cron[c]
                          /\ cron[c].enabled => cron[c].state # "none"
  <2> HIDE DEF Off, On
  <2> QED
    BY <1>2, <1>3, <1>4, SMT
<1>6. Types
  BY <1>1, <1>5, SMT DEF Types, NoDispatch
<1>7. Known
  BY <1>1, <1>5, SMT DEF Known, NoDispatch
<1>8. Places /\ Dead
  BY <1>1, SMT DEF Places, Working, Dead, NoDispatch
<1>9. Held /\ Apart
  BY <1>1, SMT DEF Held, Guarding, Working, Apart, Racing, NoDispatch
<1> QED
  BY <1>6, <1>7, <1>8, <1>9 DEF IInv

\* Time passes.
LEMMA TickKeeps ==
  ASSUME IInv, Tick
  PROVE  IInv'
<1> USE DEF IInv, Tick
<1>1. Types'
  BY SMT DEF Types
<1>2. Known' /\ Places' /\ Dead'
  BY SMT DEF Known, Gone, Places, Dead, Working
<1>3. Held' /\ Apart'
  BY SMT DEF Gone, Held, Guarding, Working, Apart, Racing
<1> QED
  BY <1>1, <1>2, <1>3, Zenon

\* A cron is written: one that was not deleted.
LEMMA UpsertKeeps ==
  ASSUME IInv, NEW c \in Crons, NEW e \in Exprs, NEW enabled \in BOOLEAN, Upsert(c, e, enabled)
  PROVE  IInv'
<1> USE DEF IInv, Upsert, There, Created
<1>1. Types'
  BY SMT DEF Types
<1>2. Known' /\ Places' /\ Dead'
  BY SMT DEF Known, Gone, Places, Dead, Working
<1>3. Held' /\ Apart'
  BY SMT DEF Gone, Held, Guarding, Working, Apart, Racing
<1> QED
  BY <1>1, <1>2, <1>3, Zenon

\* A cron is deleted.
LEMMA DeleteKeeps ==
  ASSUME IInv, NEW c \in Crons, Delete(c)
  PROVE  IInv'
<1> USE DEF IInv, Delete, There, NoCron
<1>1. Types'
  BY SMT DEF Types
<1>2. Known'
  BY SMT DEF Types, Known, Gone
<1>3. Places' /\ Dead'
  BY SMT DEF Places, Dead, Working
<1>4. Held' /\ Apart'
  BY SMT DEF Gone, Held, Guarding, Working, Apart, Racing
<1> QED
  BY <1>1, <1>2, <1>3, <1>4, Zenon

\* The guard of a deleted cron is dropped.
LEMMA ReturnsKeeps ==
  ASSUME IInv, NEW r \in returning, Returns(r)
  PROVE  IInv'
<1> USE DEF IInv, Returns
<1>1. Types'
  BY SMT DEF Types, Known, Gone
<1>2. Known' /\ Places'
  BY SMT DEF Known, Gone, Places, Working
<1>3. Dead' /\ Apart'
  BY SMT DEF Dead, Working, Apart, Racing
<1>4. Held'
  BY SMT DEF Types, Known, Gone, Held, Guarding, Working
<1> QED
  BY <1>1, <1>2, <1>3, <1>4, Zenon

\* It is not, if the edit was cut off.
LEMMA EditCutKeeps ==
  ASSUME IInv, NEW r \in returning, EditCut(r)
  PROVE  IInv'
<1> USE DEF IInv, EditCut
<1>1. Types'
  BY SMT DEF Types
<1>2. Known' /\ Places' /\ Dead'
  BY SMT DEF Known, Gone, Places, Dead, Working
<1>3. Held' /\ Apart'
  BY SMT DEF Gone, Held, Guarding, Working, Apart, Racing
<1> QED
  BY <1>1, <1>2, <1>3, Zenon

\* The loop starts over.
LEMMA LoopTickKeeps ==
  ASSUME IInv, LoopTick
  PROVE  IInv'
<1> USE DEF IInv, LoopTick, LoopUnchanged, LoopAt
<1>1. Types'
  BY SMT DEF Types
<1>2. Known' /\ Places' /\ Dead'
  BY SMT DEF Known, Gone, Places, Dead, Working
<1>3. Held' /\ Apart'
  BY SMT DEF Gone, Held, Guarding, Working, Apart, Racing
<1> QED
  BY <1>1, <1>2, <1>3, Zenon

\* It lists the crons that are due.
LEMMA LoopListKeeps ==
  ASSUME IInv, LoopList
  PROVE  IInv'
<1> USE DEF IInv, LoopList, LoopUnchanged, LoopAt, Rows
<1>1. Types'
  BY SMT DEF Types
<1>2. Known' /\ Places' /\ Dead'
  BY SMT DEF Known, Gone, Places, Dead, Working
<1>3. Held' /\ Apart'
  BY SMT DEF Gone, Held, Guarding, Working, Apart, Racing
<1> QED
  BY <1>1, <1>2, <1>3, Zenon

\* It wakes.
LEMMA LoopWakesKeeps ==
  ASSUME IInv, LoopWakes
  PROVE  IInv'
<1> USE DEF IInv, LoopWakes, LoopUnchanged, LoopAt
<1>1. Types'
  BY SMT DEF Types
<1>2. Known' /\ Places' /\ Dead'
  BY SMT DEF Known, Gone, Places, Dead, Working
<1>3. Held' /\ Apart'
  BY SMT DEF Gone, Held, Guarding, Working, Apart, Racing
<1> QED
  BY <1>1, <1>2, <1>3, Zenon

\* It dispatches one of them.
LEMMA LoopMarkKeeps ==
  ASSUME IInv, NEW r \in loop.due, LoopMark(r)
  PROVE  IInv'
<1> USE DEF IInv, LoopMark, LoopUnchanged, LoopAt, AdvanceSchedule, There, NextDispatch,
     NoDispatch
<1>1. Types'
  BY SMT DEF Types
<1>2. Known' /\ Places' /\ Dead'
  BY SMT DEF Known, Gone, Places, Dead, Working
<1>3. Held'
  BY SMT DEF Types, Gone, Places, Held, Guarding, Working
<1>4. Apart'
  BY SMT DEF Types, Places, Working, Apart, Racing
<1> QED
  BY <1>1, <1>2, <1>3, <1>4, Zenon

\* The schedule moves on.
LEMMA AdvanceKeeps ==
  ASSUME IInv, NEW d \in Dispatches, Advance(d)
  PROVE  IInv'
<1> USE DEF IInv, Advance, DispatchUnchanged, AdvanceSchedule, There, Goto
<1>1. Types'
  BY SMT DEF Types
<1>2. Known' /\ Places' /\ Dead'
  BY SMT DEF Known, Gone, Places, Dead, Working
<1>3. Held' /\ Apart'
  BY SMT DEF Gone, Held, Guarding, Working, Apart, Racing
<1> QED
  BY <1>1, <1>2, <1>3, Zenon

\* A failure is counted.
LEMMA StrikeKeeps ==
  ASSUME IInv, NEW d \in Dispatches, Strike(d)
  PROVE  IInv'
<1> USE DEF IInv, Strike, DispatchUnchanged, There, Failed, Goto
<1>1. Types'
  BY SMT DEF Types
<1>2. Known' /\ Places' /\ Dead'
  BY SMT DEF Known, Gone, Places, Dead, Working
<1>3. Held' /\ Apart'
  BY SMT DEF Gone, Held, Guarding, Working, Apart, Racing
<1> QED
  BY <1>1, <1>2, <1>3, Zenon

\* The child session exists.
LEMMA CreateChildKeeps ==
  ASSUME IInv, NEW d \in Dispatches, CreateChild(d)
  PROVE  IInv'
<1> USE DEF IInv, CreateChild, DispatchUnchanged, Goto
<1>1. Types'
  BY SMT DEF Types, Known, Gone
<1>2. Known' /\ Dead'
  BY SMT DEF Known, Gone, Dead
<1>3. Places'
  BY SMT DEF Types, Places, Working
<1>4. Held' /\ Apart'
  BY SMT DEF Gone, Held, Guarding, Working, Apart, Racing
<1> QED
  BY <1>1, <1>2, <1>3, <1>4, Zenon

\* The row of the task is written, for a cron that is there.
LEMMA CreateTaskKeeps ==
  ASSUME IInv, NEW d \in Dispatches, CreateTask(d)
  PROVE  IInv'
<1> USE DEF IInv, CreateTask, DispatchUnchanged, There, ToReport, Release
<1>1. Types'
  BY SMT DEF Types
<1>2. Known'
  BY SMT DEF Types, Known, Gone
<1>3. Places'
  BY SMT DEF Types, Places, Working
<1>4. Dead'
  BY SMT DEF Dead
<1>5. Held'
  BY SMT DEF Types, Known, Gone, Places, Held, Guarding, Working
<1>6. Apart'
  BY SMT DEF Types, Gone, Dead, Held, Guarding, Working, Apart, Racing
<1> QED
  BY <1>1, <1>2, <1>3, <1>4, <1>5, <1>6, Zenon

\* The Turn starts.
LEMMA SendKeeps ==
  ASSUME IInv, NEW d \in Dispatches, Send(d)
  PROVE  IInv'
<1> USE DEF IInv, Send, DispatchUnchanged, ToRecord, Release
<1>1. Types'
  BY SMT DEF Types
<1>2. Known'
  BY SMT DEF Types, Known, Gone
<1>3. Places'
  BY SMT DEF Types, Places, Working
<1>4. Dead'
  BY SMT DEF Dead
<1>5. Held'
  BY SMT DEF Types, Known, Gone, Places, Held, Guarding, Working
<1>6. Apart'
  BY SMT DEF Types, Working, Apart, Racing
<1> QED
  BY <1>1, <1>2, <1>3, <1>4, <1>5, <1>6, Zenon

\* A dispatch fails, and gives the guard back.
LEMMA DispatchFailsKeeps ==
  ASSUME IInv, NEW d \in Dispatches, DispatchFails(d)
  PROVE  IInv'
<1> USE DEF IInv, DispatchFails, DispatchUnchanged, Release, ToRecord, ToReport
<1>1. Types' /\ Known'
  BY SMT DEF Types, Known, Gone
<1>2. Places'
  BY SMT DEF Types, Places, Working
<1>3. Dead'
  BY SMT DEF Dead
<1>4. Held'
  BY SMT DEF Types, Gone, Places, Held, Guarding, Working
<1>5. Apart'
  BY SMT DEF Types, Working, Apart, Racing
<1> QED
  BY <1>1, <1>2, <1>3, <1>4, <1>5, Zenon

\* A client goes, and its dispatch with it.
LEMMA DisconnectKeeps ==
  ASSUME IInv, NEW d \in Dispatches, Disconnect(d)
  PROVE  IInv'
<1> USE DEF IInv, Disconnect, DispatchUnchanged, Ends, Over, NoDispatch
<1>1. Types'
  BY SMT DEF Types
<1>2. Known' /\ Dead'
  BY SMT DEF Known, Gone, Dead
<1>3. Places'
  BY SMT DEF Types, Places, Working
<1>4. Held'
  BY SMT DEF Types, Gone, Held, Guarding, Working
<1>5. Apart'
  BY SMT DEF Types, Working, Apart, Racing
<1> QED
  BY <1>1, <1>2, <1>3, <1>4, <1>5, Zenon

\* The watch looks at the child.
LEMMA PollKeeps ==
  ASSUME IInv, NEW d \in Dispatches, Poll(d)
  PROVE  IInv'
<1> USE DEF IInv, Poll, DispatchUnchanged
<1>1. Types'
  BY SMT DEF Types
<1>2. Known'
  BY SMT DEF Types, Known, Gone
<1>3. Places'
  BY SMT DEF Types, Places, Working
<1>4. Dead'
  BY SMT DEF Dead
<1>5. Held'
  BY SMT DEF Types, Gone, Held, Guarding, Working
<1>6. Apart'
  BY SMT DEF Types, Working, Apart, Racing
<1> QED
  BY <1>1, <1>2, <1>3, <1>4, <1>5, <1>6, Zenon

\* The Run is over.
LEMMA SettledKeeps ==
  ASSUME IInv, NEW d \in Dispatches, Settled(d)
  PROVE  IInv'
<1> USE DEF IInv, Settled, DispatchUnchanged, Live
<1>1. Types'
  BY SMT DEF Types
<1>2. Known'
  BY SMT DEF Types, Known, Gone
<1>3. Places'
  BY SMT DEF Types, Places, Working
<1>4. Dead'
  BY SMT DEF Dead
<1>5. Held'
  BY SMT DEF Types, Gone, Held, Guarding, Working
<1>6. Apart'
  BY SMT DEF Types, Working, Apart, Racing
<1> QED
  BY <1>1, <1>2, <1>3, <1>4, <1>5, <1>6, Zenon

\* The watch gives up.
LEMMA GivesUpKeeps ==
  ASSUME IInv, NEW d \in Dispatches, GivesUp(d)
  PROVE  IInv'
<1> USE DEF IInv, GivesUp, DispatchUnchanged, Live, ToRecord
<1>1. Types'
  BY SMT DEF Types
<1>2. Known'
  BY SMT DEF Types, Known, Gone
<1>3. Places'
  BY SMT DEF Types, Places, Working
<1>4. Dead'
  BY SMT DEF Dead
<1>5. Held'
  BY SMT DEF Types, Gone, Held, Guarding, Working
<1>6. Apart'
  BY SMT DEF Types, Working, Apart, Racing
<1> QED
  BY <1>1, <1>2, <1>3, <1>4, <1>5, <1>6, Zenon

\* It looks again later.
LEMMA SleepsKeeps ==
  ASSUME IInv, NEW d \in Dispatches, Sleeps(d)
  PROVE  IInv'
<1> USE DEF IInv, Sleeps, DispatchUnchanged, Live, Goto
<1>1. Types'
  BY SMT DEF Types
<1>2. Known' /\ Places' /\ Dead'
  BY SMT DEF Known, Gone, Places, Dead, Working
<1>3. Held' /\ Apart'
  BY SMT DEF Gone, Held, Guarding, Working, Apart, Racing
<1> QED
  BY <1>1, <1>2, <1>3, Zenon

\* It fails.
LEMMA WatchFailsKeeps ==
  ASSUME IInv, NEW d \in Dispatches, WatchFails(d)
  PROVE  IInv'
<1> USE DEF IInv, WatchFails, DispatchUnchanged, ToRecord
<1>1. Types'
  BY SMT DEF Types
<1>2. Known'
  BY SMT DEF Types, Known, Gone
<1>3. Places'
  BY SMT DEF Types, Places, Working
<1>4. Dead'
  BY SMT DEF Dead
<1>5. Held'
  BY SMT DEF Types, Gone, Held, Guarding, Working
<1>6. Apart'
  BY SMT DEF Types, Working, Apart, Racing
<1> QED
  BY <1>1, <1>2, <1>3, <1>4, <1>5, <1>6, Zenon

\* The watch gives the guard back.
LEMMA WatchEndsKeeps ==
  ASSUME IInv, NEW d \in Dispatches, WatchEnds(d)
  PROVE  IInv'
<1> USE DEF IInv, WatchEnds, DispatchUnchanged, Release, Ends, Over, NoDispatch
<1>1. Types'
  BY SMT DEF Types, Known, Gone
<1>2. Known' /\ Places'
  BY SMT DEF Known, Gone, Places, Working
<1>3. Dead' /\ Apart'
  BY SMT DEF Dead, Working, Apart, Racing
<1>4. Held'
  BY SMT DEF Types, Gone, Places, Held, Guarding, Working
<1> QED
  BY <1>1, <1>2, <1>3, <1>4, Zenon

\* The Run asks, is answered, or ends.
LEMMA RunGoesOnKeeps ==
  ASSUME IInv, NEW d \in Dispatches, RunGoesOn(d)
  PROVE  IInv'
<1> USE DEF IInv, RunGoesOn, ChildUnchanged
<1>1. Types'
  BY SMT DEF Types
<1>2. Known' /\ Dead'
  BY SMT DEF Known, Gone, Dead
<1>3. Places'
  BY SMT DEF Types, Places, Working
<1>4. Held'
  BY SMT DEF Types, Gone, Held, Guarding, Working
<1>5. Apart'
  BY SMT DEF Types, Working, Apart, Racing
<1> QED
  BY <1>1, <1>2, <1>3, <1>4, <1>5, Zenon

\* The user of the child session takes over, or deletes it.
LEMMA UserMeddlesKeeps ==
  ASSUME IInv, NEW d \in Dispatches, UserMeddles(d)
  PROVE  IInv'
<1> USE DEF IInv, UserMeddles, ChildUnchanged
<1>1. Types'
  BY SMT DEF Types
<1>2. Known' /\ Dead'
  BY SMT DEF Known, Gone, Dead
<1>3. Places'
  BY SMT DEF Types, Places, Working
<1>4. Held'
  BY SMT DEF Types, Gone, Held, Guarding, Working
<1>5. Apart'
  BY SMT DEF Types, Working, Apart, Racing
<1> QED
  BY <1>1, <1>2, <1>3, <1>4, <1>5, Zenon

\* It starts again, when its Runs are terminated.
LEMMA BootKeeps ==
  ASSUME IInv, Boot
  PROVE  IInv'
<1> USE DEF IInv, Boot, LoopAt, Reconciled, Live
<1>1. Types'
  BY SMT DEF Types
<1>2. Known' /\ Places'
  BY SMT DEF Known, Gone, Places, Working
<1>3. Dead' /\ Apart'
  BY SMT DEF Dead, Working, Apart, Racing
<1>4. Held'
  BY SMT DEF Types, Dead, Held, Guarding, Working
<1> QED
  BY <1>1, <1>2, <1>3, <1>4, Zenon

\* What a coroutine that is over leaves behind.
LEMMA OverIs ==
  ASSUME NEW d \in Dispatches, NEW pc
  PROVE  /\ {"pc", "cron", "watched"} \subseteq DOMAIN Over(d, pc)
         /\ Over(d, pc).pc = pc /\ Over(d, pc).cron = disp[d].cron
         /\ Over(d, pc).watched = FALSE
BY SMT DEF Over, NoDispatch

\* The crons are as they were, but for their schedules and failures.
SameCrons ==
  /\ DOMAIN cron' = Crons
  /\ \A c \in Crons : /\ {"state", "enabled"} \subseteq DOMAIN cron'[c]
                      /\ cron'[c].state = cron[c].state
                      /\ cron'[c].enabled => cron[c].enabled

\* A coroutine that holds no guard and has no Run at work may end.
LEMMA OverKeeps ==
  ASSUME IInv, NEW d \in Dispatches, disp[d].pc # "idle", ~Guarding(d), ~Working(d),
         disp' = [disp EXCEPT ![d] = Over(d, "done")], SameCrons,
         UNCHANGED <<inflight, child, unwatched, reopened, loop, returning, daemon>>
  PROVE  IInv'
<1> DEFINE row == Over(d, "done")
<1>1. /\ {"pc", "cron", "watched"} \subseteq DOMAIN row
      /\ row.pc = "done" /\ row.cron = disp[d].cron /\ row.watched = FALSE
  BY OverIs
<1>2. disp' = [disp EXCEPT ![d] = row]
  OBVIOUS
<1> HIDE DEF row
<1> USE <1>1, <1>2 DEF IInv, SameCrons
<1>3. Types'
  BY SMT DEF Types
<1>4. Known'
  BY SMT DEF Types, Known, Gone
<1>5. Places'
  BY SMT DEF Types, Places, Working
<1>6. Dead'
  BY SMT DEF Types, Dead
<1>7. Held'
  <2>1. ~Guarding(d)' /\ ~Working(d)'
    BY SMT DEF Types, Guarding, Working
  <2>2. ASSUME NEW e \in Dispatches, e # d
        PROVE  disp'[e] = disp[e] /\ (Guarding(e)' <=> Guarding(e)) /\ (Working(e)' <=> Working(e))
    BY <2>2, SMT DEF Types, Guarding, Working
  <2>3. \A c \in Crons : Gone(c)' <=> Gone(c)
    BY SMT DEF Gone
  <2>4. \A e \in Dispatches : Guarding(e) \/ Working(e) => disp[e].cron \in Crons
    BY SMT DEF Known, Places, Guarding
  <2> QED
    BY <2>1, <2>2, <2>3, <2>4, SMT DEF Held
<1>8. Apart'
  BY SMT DEF Types, Apart, Racing, Working
<1> QED
  BY <1>3, <1>4, <1>5, <1>6, <1>7, <1>8, Zenon

\* A client triggers a cron that is there.
LEMMA RunNowKeeps ==
  ASSUME IInv, NEW c \in Crons, NEW d \in Dispatches, RunNow(c, d)
  PROVE  IInv'
<1> DEFINE row == [NoDispatch EXCEPT !.pc = "advance", !.cron = c, !.client = TRUE,
                                     !.expr = cron[c].expr]
<1>1. /\ daemon # "down" /\ disp[d].pc = "idle" /\ There(c)
      /\ disp' = [disp EXCEPT ![d] = row]
      /\ UNCHANGED <<cron, inflight, child, unwatched, reopened, loop, returning, daemon>>
  BY Zenon DEF RunNow, DispatchUnchanged, NextDispatch
<1>2. /\ {"pc", "cron", "watched"} \subseteq DOMAIN row
      /\ row.pc = "advance" /\ row.cron = c /\ row.watched = FALSE
  BY SMT DEF NoDispatch
<1> HIDE DEF row
<1> USE <1>1, <1>2 DEF IInv
<1>3. Types'
  BY SMT DEF Types
<1>4. Known'
  BY SMT DEF Types, Known, Gone, There
<1>5. Places' /\ Dead'
  BY SMT DEF Types, Places, Working, Dead
<1>6. Held'
  BY SMT DEF Types, Places, Held, Gone, Guarding, Working
<1>7. Apart'
  BY SMT DEF Types, Places, Apart, Racing, Working
<1> QED
  BY <1>3, <1>4, <1>5, <1>6, <1>7, Zenon

\* The loop fails, whether it has moved the schedule of a cron on or not.
LEMMA LoopFailsKeeps ==
  ASSUME IInv, LoopFails
  PROVE  IInv'
<1>1. /\ loop' = LoopAt("tick", {}, NoTime) /\ loop.pc \in {"list", "mark"}
      /\ UNCHANGED <<disp, inflight, child, unwatched, reopened, returning, daemon>>
  BY Zenon DEF LoopFails, LoopUnchanged
<1>2. \/ UNCHANGED cron
      \/ \E r \in loop.due : AdvanceSchedule(r.cron, r.expr)
  BY Zenon DEF LoopFails
<1>3. SameCrons
  <2>1. CASE UNCHANGED cron
    BY <2>1, SMT DEF IInv, Types, SameCrons
  <2>2. ASSUME NEW r \in loop.due, NEW next, cron' = [cron EXCEPT ![r.cron].next = next]
        PROVE  SameCrons
    BY <2>2, SMT DEF IInv, Types, SameCrons
  <2>3. ASSUME NEW r \in loop.due, AdvanceSchedule(r.cron, r.expr)
        PROVE  SameCrons
    BY <2>1, <2>2, <2>3, Zenon DEF AdvanceSchedule
  <2> QED
    BY <1>2, <2>1, <2>3, Zenon
<1> USE <1>1, <1>3 DEF IInv, LoopAt, SameCrons
<1>4. Types'
  BY SMT DEF Types
<1>5. Known'
  BY SMT DEF Types, Known, Gone
<1>6. Places' /\ Dead'
  BY SMT DEF Places, Working, Dead
<1>7. Held'
  BY SMT DEF Types, Known, Held, Gone, Guarding, Working, Places
<1>8. Apart'
  BY SMT DEF Apart, Racing, Working
<1> QED
  BY <1>4, <1>5, <1>6, <1>7, <1>8, Zenon

\* The guard is claimed, or the trigger is skipped.
LEMMA ClaimKeeps ==
  ASSUME IInv, NEW d \in Dispatches, Claim(d)
  PROVE  IInv'
<1>1. disp[d].pc = "body" /\ UNCHANGED <<cron, child, unwatched, reopened, loop, returning, daemon>>
  BY Zenon DEF Claim, DispatchUnchanged
<1>2. CASE /\ inflight[disp[d].cron] = None
           /\ inflight' = [inflight EXCEPT ![disp[d].cron] = d]
           /\ disp' = [disp EXCEPT ![d].pc = "create"]
  <2> USE <1>1, <1>2 DEF IInv
  <2>1. Types'
    BY SMT DEF Types, Known
  <2>2. Known'
    BY SMT DEF Types, Known, Gone
  <2>3. Places'
    BY SMT DEF Types, Places, Working
  <2>6. Dead'
    BY SMT DEF Types, Dead
  <2>4. Held'
    <3>1. disp[d].cron \in Crons /\ disp'[d].cron = disp[d].cron
      BY SMT DEF Types, Known
    <3>2. ASSUME NEW e \in Dispatches, e # d
          PROVE  disp'[e] = disp[e] /\ (Guarding(e)' <=> Guarding(e)) /\ (Working(e)' <=> Working(e))
      BY <3>2, SMT DEF Types, Guarding, Working
    <3>3. \A e \in Dispatches : Guarding(e) \/ Working(e) => disp[e].cron \in Crons
      BY SMT DEF Known, Places, Guarding
    <3>4. \A c \in Crons : inflight[c] \in Dispatches => inflight'[c] = inflight[c]
      <4>1. None \notin Dispatches
        BY CronAssumption DEF Dispatches
      <4> QED
        BY <4>1, SMT DEF Types
    <3>5. inflight'[disp[d].cron] = d
      BY <3>1, SMT DEF Types
    <3>6. \A c : Gone(c)' <=> Gone(c)
      BY Zenon DEF Gone
    <3> QED
      BY <3>1, <3>2, <3>3, <3>4, <3>5, <3>6, SMT DEF Held
  <2>5. Apart'
    BY SMT DEF Types, Places, Apart, Racing, Working
  <2> QED
    BY <2>1, <2>2, <2>3, <2>4, <2>5, <2>6, Zenon
<1>3. CASE UNCHANGED inflight /\ disp' = [disp EXCEPT ![d] = Over(d, "done")]
  <2>1. ~Guarding(d) /\ ~Working(d)
    BY <1>1, SMT DEF IInv, Places, Guarding, Working
  <2>2. SameCrons
    BY <1>1, SMT DEF IInv, Types, SameCrons
  <2> QED
    BY <1>1, <1>3, <2>1, <2>2, OverKeeps
<1> QED
  BY <1>2, <1>3, Zenon DEF Claim, Goto, Ends

\* Counting an outcome leaves the crons as they are.
LEMMA CountKeepsCrons ==
  ASSUME IInv, NEW d \in Dispatches, disp[d].pc # "idle", UNCHANGED cron \/ CountIt(d)
  PROVE  SameCrons
<1>1. \/ UNCHANGED cron
      \/ cron' = [cron EXCEPT ![disp[d].cron].fails = 0]
      \/ cron' = [cron EXCEPT ![disp[d].cron] = Failed(@)]
  BY Zenon DEF CountIt
<1>2. ASSUME UNCHANGED cron PROVE SameCrons
  BY <1>2, SMT DEF IInv, Types, SameCrons
<1>3. ASSUME cron' = [cron EXCEPT ![disp[d].cron].fails = 0] PROVE SameCrons
  BY <1>3, SMT DEF IInv, Types, SameCrons
<1>4. ASSUME cron' = [cron EXCEPT ![disp[d].cron] = Failed(@)] PROVE SameCrons
  <2>1. ASSUME NEW row, {"state", "enabled"} \subseteq DOMAIN row
        PROVE  /\ {"state", "enabled"} \subseteq DOMAIN Failed(row)
               /\ Failed(row).state = row.state
               /\ Failed(row).enabled => row.enabled
    <3>1. {"state", "enabled"} \subseteq DOMAIN Failed(row) /\ Failed(row).state = row.state
      BY <2>1, SMT DEF Failed
    <3>2. Failed(row).enabled = (row.enabled /\ row.fails + 1 < FailureThreshold)
      BY <2>1, SMT DEF Failed
    <3> QED
      BY <3>1, <3>2, Zenon
  <2> DEFINE c == disp[d].cron
  <2>2. cron' = [cron EXCEPT ![c] = Failed(cron[c])]
    BY <1>4
  <2>3. c \in Crons /\ {"state", "enabled"} \subseteq DOMAIN cron[c]
    BY SMT DEF IInv, Types, Known
  <2> HIDE DEF c
  <2> QED
    BY <2>1, <2>2, <2>3, SMT DEF IInv, Types, SameCrons
<1> QED
  BY <1>1, <1>2, <1>3, <1>4, Zenon

\* A watch that has recorded, or failed to, still holds the guard.
LEMMA WatchKeeps ==
  ASSUME IInv, NEW d \in Dispatches, disp[d].pc \in {"record", "report"}, disp[d].watched,
         disp' = [disp EXCEPT ![d].pc = "end"], SameCrons,
         UNCHANGED <<inflight, child, unwatched, reopened, loop, returning, daemon>>
  PROVE  IInv'
<1> USE DEF IInv, SameCrons
<1>1. disp[d].pc = "record"
  BY SMT DEF Places
<1>2. Types'
  BY SMT DEF Types
<1>3. Known'
  BY SMT DEF Types, Known, Gone
<1>4. Places'
  BY SMT DEF Types, Places, Working
<1>5. Dead'
  BY SMT DEF Types, Dead
<1>6. Held'
  <2>1. disp'[d].cron = disp[d].cron /\ Guarding(d)
    BY <1>1, SMT DEF Types, Guarding
  <2>2. ASSUME NEW e \in Dispatches, e # d
        PROVE  disp'[e] = disp[e] /\ (Guarding(e)' <=> Guarding(e)) /\ (Working(e)' <=> Working(e))
    BY <2>2, SMT DEF Types, Guarding, Working
  <2>3. \A e \in Dispatches : Guarding(e) \/ Working(e) => disp[e].cron \in Crons
    BY SMT DEF Known, Places, Guarding
  <2>4. \A c \in Crons : Gone(c)' <=> Gone(c)
    BY SMT DEF Gone
  <2> QED
    BY <2>1, <2>2, <2>3, <2>4, SMT DEF Held
<1>7. Apart'
  BY SMT DEF Types, Apart, Racing, Working
<1> QED
  BY <1>2, <1>3, <1>4, <1>5, <1>6, <1>7, Zenon

\* The outcome is recorded ...
LEMMA RecordOutcomeKeeps ==
  ASSUME IInv, NEW d \in Dispatches, RecordOutcome(d)
  PROVE  IInv'
<1>1. /\ disp[d].pc \in {"record", "report"} /\ CountIt(d)
      /\ UNCHANGED <<inflight, child, unwatched, reopened, loop, returning, daemon>>
      /\ IF disp[d].watched THEN disp' = [disp EXCEPT ![d].pc = "end"]
         ELSE disp' = [disp EXCEPT ![d] = Over(d, "done")]
  BY Zenon DEF RecordOutcome, DispatchUnchanged, Goto, Ends
<1>2. disp[d].pc # "idle"
  BY <1>1
<1>3. SameCrons
  BY <1>1, <1>2, CountKeepsCrons
<1>4. CASE disp[d].watched
  BY <1>1, <1>3, <1>4, WatchKeeps
<1>5. CASE ~disp[d].watched
  <2>1. ~Guarding(d) /\ ~Working(d)
    BY <1>1, <1>5, SMT DEF IInv, Places, Guarding, Working
  <2> QED
    BY <1>1, <1>2, <1>3, <1>5, <2>1, OverKeeps
<1> QED
  BY <1>4, <1>5

\* ... or is not, and the general handler may release the guard of another dispatch.
LEMMA RecordFailsKeeps ==
  ASSUME IInv, NEW d \in Dispatches, RecordFails(d)
  PROVE  IInv'
<1> DEFINE c == disp[d].cron
           rpcError == disp[d].pc = "record" /\ ~disp[d].watched
<1>1. /\ disp[d].pc \in {"record", "report"} /\ (UNCHANGED cron \/ CountIt(d))
      /\ UNCHANGED <<child, unwatched, loop, returning, daemon>>
      /\ reopened' = IF rpcError /\ inflight[c] # None THEN reopened \cup {c} ELSE reopened
  BY Zenon DEF RecordFails, DispatchUnchanged
<1>2. \/ /\ rpcError
         /\ disp' = [disp EXCEPT ![d].pc = "report", ![d].tasked = FALSE]
         /\ inflight' = [inflight EXCEPT ![c] = None]
      \/ ~rpcError /\ disp[d].watched /\ disp' = [disp EXCEPT ![d].pc = "end"] /\ UNCHANGED inflight
      \/ /\ ~rpcError /\ ~disp[d].watched
         /\ disp' = [disp EXCEPT ![d] = Over(d, "done")] /\ UNCHANGED inflight
  BY Zenon DEF RecordFails, ToReport, Release, Goto, Ends
<1>3. disp[d].pc # "idle"
  BY <1>1
<1>4. SameCrons
  BY <1>1, <1>3, CountKeepsCrons
<1>5. c \in Crons
  BY <1>3, SMT DEF IInv, Known
<1>6. CASE rpcError
  <2>1. /\ disp[d].pc = "record" /\ ~disp[d].watched
        /\ inflight' = [inflight EXCEPT ![c] = None]
        /\ reopened' = IF inflight[c] # None THEN reopened \cup {c} ELSE reopened
        /\ disp' = [disp EXCEPT ![d].pc = "report", ![d].tasked = FALSE]
    BY <1>1, <1>2, <1>6, Zenon
  <2> HIDE DEF c
  <2>2. /\ DOMAIN disp' = Dispatches /\ disp'[d].pc = "report"
        /\ \A e \in Dispatches : /\ {"pc", "cron", "watched"} \subseteq DOMAIN disp'[e]
                                  /\ disp'[e].cron = disp[e].cron
                                  /\ disp'[e].watched = disp[e].watched
        /\ \A e \in Dispatches : e # d => disp'[e] = disp[e]
    BY <2>1, SMT DEF IInv, Types
  <2> USE <1>1, <1>4, <1>5, <2>1, <2>2 DEF IInv, SameCrons
  <2>3. Types'
    BY SMT DEF Types
  <2>4. Known'
    BY SMT DEF Types, Known, Gone
  <2>5. Places'
    BY SMT DEF Types, Places, Working
  <2>6. Dead'
    BY SMT DEF Types, Dead
  <2>7. Held'
    <3>1. ~Guarding(d)' /\ ~Working(d)'
      BY SMT DEF Types, Places, Guarding, Working
    <3>2. ASSUME NEW e \in Dispatches, e # d
          PROVE  (Guarding(e)' <=> Guarding(e)) /\ (Working(e)' <=> Working(e))
      BY <3>2, SMT DEF Types, Guarding, Working
    <3>3. \A e \in Dispatches : Guarding(e) \/ Working(e) => disp[e].cron \in Crons
      BY SMT DEF Known, Places, Guarding
    <3>4. \A b \in Crons : Gone(b)' <=> Gone(b)
      BY SMT DEF Gone
    <3>5. ASSUME NEW e \in Dispatches, inflight[disp[e].cron] = e, disp[e].cron \in Crons
          PROVE  inflight'[disp[e].cron] = e \/ disp[e].cron \in reopened'
      <4>1. e # None
        BY CronAssumption DEF Dispatches
      <4> QED
        BY <3>5, <4>1, SMT DEF Types
    <3>6. reopened \subseteq reopened'
      BY SMT
    <3> QED
      BY <3>1, <3>2, <3>3, <3>4, <3>5, <3>6, SMT DEF Held
  <2>8. Apart'
    BY SMT DEF Types, Apart, Racing, Working
  <2> QED
    BY <2>3, <2>4, <2>5, <2>6, <2>7, <2>8, Zenon
<1>7. CASE ~rpcError
  <2>1. UNCHANGED <<inflight, reopened>>
    BY <1>1, <1>2, <1>7, Zenon
  <2>2. CASE disp[d].watched
    BY <1>1, <1>2, <1>4, <1>7, <2>1, <2>2, WatchKeeps
  <2>3. CASE ~disp[d].watched
    <3>1. ~Guarding(d) /\ ~Working(d)
      BY <1>1, <2>3, SMT DEF IInv, Places, Guarding, Working
    <3> QED
      BY <1>1, <1>2, <1>3, <1>4, <1>7, <2>1, <2>3, <3>1, OverKeeps
  <2> QED
    BY <2>2, <2>3
<1> QED
  BY <1>6, <1>7

\* The daemon dies, and its coroutines.
LEMMA CrashKeeps ==
  ASSUME IInv, Crash
  PROVE  IInv'
<1>1. /\ daemon' = "down" /\ loop' = LoopAt("off", {}, NoTime) /\ returning' = {}
      /\ inflight' = [c \in Crons |-> None]
      /\ UNCHANGED <<cron, child, unwatched, reopened>>
  BY Zenon DEF Crash
<1>2. disp' = [d \in Dispatches |-> IF disp[d].pc \in {"idle", "done"} THEN disp[d]
                                   ELSE Over(d, "cut")]
  BY Zenon DEF Crash
<1>3. /\ DOMAIN disp' = Dispatches
      /\ \A d \in Dispatches :
           /\ {"pc", "cron", "watched"} \subseteq DOMAIN disp'[d]
           /\ disp'[d].cron = disp[d].cron
           /\ disp'[d].pc \in {"idle", "done", "cut"}
           /\ disp'[d].pc = "cut" => disp[d].pc # "idle"
           /\ disp[d].pc \in {"idle", "done"} => disp'[d].pc = disp[d].pc
           /\ disp[d].pc \notin {"idle", "done"} => disp'[d].pc = "cut"
  <2>1. ASSUME NEW d \in Dispatches
        PROVE  /\ {"pc", "cron", "watched"} \subseteq DOMAIN Over(d, "cut")
               /\ Over(d, "cut").pc = "cut" /\ Over(d, "cut").cron = disp[d].cron
    BY OverIs
  <2> QED
    BY <1>2, <2>1, SMT DEF IInv, Types
<1> USE <1>1, <1>3 DEF IInv, LoopAt
<1>4. Types'
  BY SMT DEF Types
<1>5. Known'
  BY SMT DEF Types, Known, Gone
<1>6. Places' /\ Dead'
  BY SMT DEF Places, Working, Dead
<1>7. Held'
  BY SMT DEF Held, Gone, Guarding, Working
<1>8. Apart'
  BY SMT DEF Types, Apart, Racing, Working
<1> QED
  BY <1>4, <1>5, <1>6, <1>7, <1>8, Zenon

-----------------------------------------------------------------------------
\* Every step keeps the invariant.
LEMMA StepIInv == IInv /\ [Next]_vars => IInv'
<1> SUFFICES ASSUME IInv, [Next]_vars PROVE IInv'
  OBVIOUS
<1>1. CASE Tick \/ Loop \/ LoopFails \/ Crash \/ Boot
  BY <1>1, TickKeeps, LoopTickKeeps, LoopListKeeps, LoopWakesKeeps, LoopMarkKeeps, LoopFailsKeeps,
     CrashKeeps, BootKeeps DEF Loop
<1>2. ASSUME NEW c \in Crons,
             \/ \E e \in Exprs, enabled \in BOOLEAN : Upsert(c, e, enabled)
             \/ Delete(c)
             \/ \E d \in Dispatches : RunNow(c, d)
      PROVE  IInv'
  BY <1>2, UpsertKeeps, DeleteKeeps, RunNowKeeps
<1>3. ASSUME NEW r \in returning, Returns(r) \/ EditCut(r) PROVE IInv'
  BY <1>3, ReturnsKeeps, EditCutKeeps
<1>4. ASSUME NEW d \in Dispatches, Proceeds(d) PROVE IInv'
  BY <1>4, AdvanceKeeps, StrikeKeeps, ClaimKeeps, CreateChildKeeps, CreateTaskKeeps, SendKeeps,
     PollKeeps, SleepsKeeps, SettledKeeps, RecordOutcomeKeeps, WatchEndsKeeps DEF Proceeds
<1>5. ASSUME NEW d \in Dispatches,
             \/ GivesUp(d) \/ WatchFails(d) \/ Disconnect(d)
             \/ DispatchFails(d) \/ RecordFails(d)
             \/ RunGoesOn(d) \/ UserMeddles(d)
      PROVE  IInv'
  BY <1>5, GivesUpKeeps, WatchFailsKeeps, DisconnectKeeps, DispatchFailsKeeps, RecordFailsKeeps,
     RunGoesOnKeeps, UserMeddlesKeeps
<1>6. CASE UNCHANGED vars
  <2>1. UNCHANGED <<cron, inflight, disp, child, unwatched, reopened, loop, returning, daemon>>
    BY <1>6, Zenon DEF vars
  <2> USE <2>1 DEF IInv
  <2>2. Types' /\ Known'
    BY SMT DEF Types, Known, Gone
  <2>3. Places' /\ Dead'
    BY SMT DEF Places, Working, Dead
  <2>4. Held' /\ Apart'
    BY SMT DEF Held, Gone, Guarding, Working, Apart, Racing
  <2> QED
    BY <2>2, <2>3, <2>4, Zenon
<1> QED
  BY <1>1, <1>2, <1>3, <1>4, <1>5, <1>6 DEF Next

-----------------------------------------------------------------------------
\* Two Runs of one cron never work side by side, whoever triggers it and however that
\* interleaves with edits, a deletion, faults, disconnects and restarts, unless the general
\* error handler has released the guard of another dispatch since the daemon started; for any
\* number of crons and dispatches (service.py _in_flight, _dispatch_body).
THEOREM OneRunAlways == Spec => []OneRunUnlessReopened
<1>1. IInv => OneRunUnlessReopened
  BY SMT DEF IInv, Apart, Racing, Working, OneRunUnlessReopened, Doubled
<1> QED
  BY <1>1, InitIInv, StepIInv, PTL DEF Spec
=============================================================================
