---------------------------- MODULE TimeCondition ----------------------------
(***************************************************************************)
(* RuleTimeCondition of api/Rule.cpp: when a time condition is satisfied   *)
(* and when the timer should look at it next, for all time types.          *)
(*                                                                         *)
(* The calendar is scaled down: localtime and mktime work on days, weeks,  *)
(* months and years whose lengths are constants.  There is no daylight     *)
(* saving and no leap year.  As in TimedRules "now" is strictly inside     *)
(* second number now.                                                      *)
(***************************************************************************)
EXTENDS Integers, Sequences, SequencesExt

CONSTANTS
  SecondsPerMinute, MinutesPerHour, HoursPerDay, DaysPerWeek,
  MonthLengths,   \* days of each month
  EpochYear,      \* tm_year at instant 0
  Conditions,     \* the conditions to look at
  Horizon         \* bound: where the clock stops

ASSUME TimeConditionAssumption ==
  /\ {SecondsPerMinute, MinutesPerHour, HoursPerDay, DaysPerWeek} \subseteq Nat \ {0}
  /\ \A i \in DOMAIN MonthLengths : MonthLengths[i] \in Nat \ {0}
  /\ EpochYear \in Nat /\ Horizon \in Nat

VARIABLES now, condition

vars == <<now, condition>>

Never == 0
TimeTypes == {"hourMinSec", "hour", "dayWeek", "dayMonth", "dayYear", "month", "year", "absolute"}
Operators == {"equals", "notEquals", "greater", "less", "inRange"}

-----------------------------------------------------------------------------
\* The calendar.

Hour == SecondsPerMinute * MinutesPerHour
DaySeconds == Hour * HoursPerDay
Months == Len(MonthLengths)
DaysBefore(mon) == FoldSeq(LAMBDA n, sum : n + sum, 0, SubSeq(MonthLengths, 1, mon))
YearDays == DaysBefore(Months)

\* localtime: mon, wday, yday count from 0, mday from 1.
LocalTime(t) ==
  LET day  == t \div DaySeconds
      yday == day % YearDays
      mon  == CHOOSE i \in 0..(Months - 1) : DaysBefore(i) <= yday /\ yday < DaysBefore(i + 1)
  IN  [year |-> EpochYear + day \div YearDays, mon |-> mon, mday |-> yday - DaysBefore(mon) + 1,
       yday |-> yday, wday |-> day % DaysPerWeek, midnight |-> t - (t % DaySeconds)]

\* mktime for 00:00:00 of a date whose fields may be out of their ranges.
MkTime(year, mon, mday) ==
  LET y == year - EpochYear + mon \div Months
  IN  DaySeconds * (y * YearDays + DaysBefore(mon % Months) + mday - 1)

\* Hours, minutes and seconds of a time of day.
Hms(s) == <<s \div Hour, (s % Hour) \div SecondsPerMinute, s % SecondsPerMinute>>

-----------------------------------------------------------------------------
\* cmpHoursMinsSecs with std::less
HmsLess(a, b) ==
  \/ a[1] < b[1]
  \/ a[1] = b[1] /\ a[2] < b[2]
  \/ a[1] = b[1] /\ a[2] = b[2] /\ a[3] < b[3]

PlusHms(a, b) == <<a[1] + b[1], a[2] + b[2], a[3] + b[3]>>
MinusHms(a, b) == <<a[1] - b[1], a[2] - b[2], a[3] - b[3]>>

HmsSatisfied(compare, x, t1, t2) ==
  LET away == HmsLess(x, MinusHms(t1, t2)) \/ HmsLess(PlusHms(t1, t2), x)
  IN  CASE compare = "equals"    -> ~away
        [] compare = "notEquals" -> away
        [] compare = "greater"   -> HmsLess(t1, x)
        [] compare = "less"      -> HmsLess(x, t1)
        [] compare = "inRange"   -> IF ~HmsLess(t1, t2)
                                    THEN ~HmsLess(x, t1) /\ ~HmsLess(t2, x)
                                    ELSE ~HmsLess(t1, x) /\ ~HmsLess(x, t2)

\* cmpFun
FieldSatisfied(compare, x, t1, t2) ==
  CASE compare = "equals"    -> x >= t1 - t2 /\ x <= t1 + t2
    [] compare = "notEquals" -> x < t1 - t2 \/ x > t1 + t2
    [] compare = "greater"   -> x > t1
    [] compare = "less"      -> x < t1
    [] compare = "inRange"   -> IF t1 >= t2 THEN x >= t1 /\ x <= t2 ELSE x <= t1 /\ x >= t2

\* The number that cmpFun looks at.
Field(type, t) ==
  LET tm == LocalTime(t)
  IN  CASE type = "hour"     -> (t % DaySeconds) \div Hour
        [] type = "dayWeek"  -> tm.wday
        [] type = "dayMonth" -> tm.mday
        [] type = "dayYear"  -> tm.yday
        [] type = "month"    -> tm.mon
        [] type = "year"     -> tm.year
        [] type = "absolute" -> t

IsSatisfied(c, t) ==
  IF c.timeType = "hourMinSec"
  THEN HmsSatisfied(c.compare, Hms(t % DaySeconds), Hms(c.time1), Hms(c.time2))
  ELSE FieldSatisfied(c.compare, Field(c.timeType, t), c.time1, c.time2)

-----------------------------------------------------------------------------
\* A point in time before now moves on by one period.
FromNow(at, t, period) == IF at <= t THEN t + period ELSE at
OrNext(at, t, period) == IF at <= t THEN at + period ELSE at

\* The same date one month or one year later: from the fields as mktime left them.
TwoMonthsOn(at) == LET n == LocalTime(at) IN MkTime(n.year, n.mon + 2, n.mday)
NextMonth(at) == LET n == LocalTime(at) IN MkTime(n.year, n.mon + 1, n.mday)
NextYear(at) == LET n == LocalTime(at) IN MkTime(n.year + 1, n.mon, n.mday)

\* less: the condition is looked at when its period starts again.
NextPeriod(type, tm) ==
  CASE type \in {"hourMinSec", "hour"} -> tm.midnight + DaySeconds
    [] type = "dayWeek"  -> tm.midnight + (DaysPerWeek - tm.wday) * DaySeconds
    [] type = "dayMonth" -> MkTime(tm.year, tm.mon + 1, 1)
    [] type = "dayYear"  -> MkTime(tm.year + 1, 0, 0)
    [] type = "month"    -> MkTime(tm.year + 1, 0, 1)
    [] type \in {"year", "absolute"} -> Never

\* every other operator: it is looked at when the field comes to time1.
NextTime1(type, time1, tm, t) ==
  LET thisMonth == MkTime(tm.year, tm.mon, time1)
      thisDay   == MkTime(tm.year, 0, time1 + 1)
      thisMon   == MkTime(tm.year, time1, 1)
      yearStart == MkTime(time1, 0, 1)
  IN  CASE type = "hourMinSec" -> OrNext(tm.midnight + time1, t, DaySeconds)
        [] type = "hour"     -> OrNext(tm.midnight + time1 * Hour, t, DaySeconds)
        [] type = "dayWeek"  -> OrNext(tm.midnight + (time1 - tm.wday) * DaySeconds, t,
                                       DaysPerWeek * DaySeconds)
        [] type = "dayMonth" -> IF thisMonth <= t THEN NextMonth(thisMonth) ELSE thisMonth
        [] type = "dayYear"  -> IF thisDay <= t THEN NextYear(thisDay) ELSE thisDay
        [] type = "month"    -> IF thisMon <= t THEN NextYear(thisMon) ELSE thisMon
        [] type = "year"     -> IF yearStart <= t THEN Never ELSE yearStart
        [] type = "absolute" -> IF time1 <= t THEN Never ELSE time1

GetNextExecutionTime(c, t) ==
  IF c.compare = "less" THEN NextPeriod(c.timeType, LocalTime(t))
                        ELSE NextTime1(c.timeType, c.time1, LocalTime(t), t)

-----------------------------------------------------------------------------
Init == now \in 0..Horizon /\ condition \in Conditions

Tick == now < Horizon /\ now' = now + 1 /\ UNCHANGED condition

\* The end of the model's time.
TheEnd == now = Horizon /\ UNCHANGED vars

Next == Tick \/ TheEnd

Spec == Init /\ [][Next]_vars

NextCheck == GetNextExecutionTime(condition, now)

\* A next execution time is later than now, so the timer waits instead of
\* going round its loop with the mutex held.
NextIsLater == NextCheck = Never \/ NextCheck > now

\* Until its next execution time has come, a condition keeps it: the heap of
\* RuleEventHandler, which stores no keys, is then ordered by fixed numbers.
NextIsStable == [][now' < NextCheck => NextCheck' = NextCheck]_vars

\* What the condition reads from the clock, and the moments it is meant to be looked at:
\* with less when that starts again from its lowest value, with any other operator when
\* it comes to time1.
Reading(c, t) == IF c.timeType = "hourMinSec" THEN t % DaySeconds ELSE Field(c.timeType, t)
LookedAt(c, t) ==
  IF c.compare = "less" THEN Reading(c, t) < Reading(c, t - 1)
                        ELSE Reading(c, t) = c.time1 /\ Reading(c, t - 1) # c.time1

\* The next execution time is the first such moment after now, Never if none comes.
NextIsLookedAt ==
  /\ NextCheck # Never => LookedAt(condition, NextCheck)
  /\ \A t \in (now + 1)..(IF NextCheck = Never THEN Horizon ELSE NextCheck - 1) :
       ~LookedAt(condition, t)

\* With equals or less the condition is satisfied then: the timer, which looks at it
\* once, does not come in vain.
SatisfiedWhenDue ==
  NextCheck # Never /\ condition.compare \in {"equals", "less"} =>
    IsSatisfied(condition, NextCheck)

\* Nor does a condition with equals or less become satisfied at a time at which the
\* timer does not look, a tolerance before time1 set aside (time2 = 0).
NoStartMissed ==
  condition.compare \in {"equals", "less"} /\ condition.time2 = 0 /\ NextCheck # Never =>
    \A t \in (now + 1)..(NextCheck - 1) :
      IsSatisfied(condition, t) => IsSatisfied(condition, t - 1)

\* For every type and operator the calendar arithmetic of GetNextExecutionTime finds the
\* next time the clock itself comes to time1, or starts again.  For equals and less that
\* is when the condition becomes satisfied.  For greater, notEquals and inRange it is
\* not: the timer comes at time1, where greater is never satisfied.
NextIsStart == NextIsLater /\ NextIsLookedAt /\ SatisfiedWhenDue /\ NoStartMissed

\* SatisfiedWhenDue for the other operators, too.
NeverInVain == NextCheck # Never => IsSatisfied(condition, NextCheck)

\* "other: t1 +- t2" (Rule.h:232), in seconds of the day.
EqualsIsPlusMinus ==
  condition.timeType = "hourMinSec" /\ condition.compare = "equals" =>
    LET x == now % DaySeconds
    IN  IsSatisfied(condition, now)
          <=> condition.time1 - condition.time2 <= x /\ x <= condition.time1 + condition.time2

\* "Range: from t1 - t2" (Rule.h:232): from time1 to time2, over midnight if time2
\* is the earlier one.
RangeIsFromTo ==
  condition.timeType = "hour" /\ condition.compare = "inRange" =>
    LET x == Field("hour", now)
    IN  IsSatisfied(condition, now)
          <=> IF condition.time1 <= condition.time2
              THEN condition.time1 <= x /\ x <= condition.time2
              ELSE condition.time1 <= x \/ x <= condition.time2
=============================================================================
