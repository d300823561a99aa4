----------------------------- MODULE Deadlines -----------------------------
(***************************************************************************)
(* The deadlines of a project (scheduler/deadline.py): a day of every      *)
(* month or of every week.  A date is the number of its day; day 0 is a    *)
(* Monday.  FirstDay[m] is the first day of month m, so any calendar with  *)
(* months of any lengths can be given.                                     *)
(***************************************************************************)
EXTENDS Integers

CONSTANTS Months, FirstDay

ASSUME CalendarAssumption ==
  /\ Months \in Nat
  /\ FirstDay \in [1..Months+1 -> Int]
  /\ \A a, b \in 1..Months+1 : a < b => FirstDay[a] < FirstDay[b]

(* The dates with a month before and a month after them.                   *)
Dates == {n \in Int : FirstDay[2] <= n /\ n < FirstDay[Months]}

Least(a, b) == IF a <= b THEN a ELSE b

MonthOf(n)  == CHOOSE m \in 1..Months : FirstDay[m] <= n /\ n < FirstDay[m+1]
DayOf(n)    == n - FirstDay[MonthOf(n)] + 1
LastDay(m)  == FirstDay[m+1] - FirstDay[m]
Date(m, d)  == FirstDay[m] + d - 1
WeekDay(n)  == (n % 7) + 1

(* relativedelta(months=k): the same day, or the last one the month has.   *)
MonthsLater(n, k) ==
  LET m == MonthOf(n) + k IN Date(m, Least(DayOf(n), LastDay(m)))

-----------------------------------------------------------------------------
(* class Month.  Day 31 stands for the last day of a month.                *)
DayOfMonth(day, n) == Least(day, LastDay(MonthOf(n)))
DeadlineIn(day, n) == Date(MonthOf(n), DayOfMonth(day, n))

(* A mutant of MonthNext: a deadline is its own next deadline.             *)
MonthNextOrSame(day, n) ==
  DeadlineIn(day, IF DayOf(n) > DayOfMonth(day, n) THEN MonthsLater(n, 1) ELSE n)

MonthNext(day, n) ==
  DeadlineIn(day, IF DayOf(n) >= DayOfMonth(day, n) THEN MonthsLater(n, 1) ELSE n)

MonthCurrent(day, n) ==
  DeadlineIn(day, IF DayOf(n) < DayOfMonth(day, n) THEN MonthsLater(n, -1) ELSE n)

(* A mutant of MonthPeriod: the last day is that of the deadline's month.  *)
MonthPeriodLastDay(mode, n) ==
  LET m == MonthOf(IF mode = "Following" THEN MonthsLater(n, -1) ELSE n)
  IN  [start |-> Date(m, 1), end |-> Date(m, LastDay(MonthOf(n)))]

MonthPeriod(mode, n) ==
  LET m == MonthOf(IF mode = "Following" THEN MonthsLater(n, -1) ELSE n)
  IN  [start |-> Date(m, 1), end |-> Date(m, LastDay(m))]

(* class Week.                                                             *)
WeekNext(day, n) ==
  LET as_of == IF WeekDay(n) >= day THEN n + 7 ELSE n
  IN  as_of + (day - WeekDay(as_of))

WeekCurrent(day, n) ==
  IF WeekDay(n) >= day THEN n - (WeekDay(n) - day)
  ELSE (n - 7) + (day - WeekDay(n - 7))

WeekPeriod(mode, n) ==
  LET target == IF mode = "Following" THEN n - 7 ELSE n
  IN  [start |-> target - (WeekDay(target) - 1), end |-> target + (7 - WeekDay(target))]

-----------------------------------------------------------------------------
(* class Deadline: a frequency, its day and a mode.                        *)
Deadlines ==
  [frequency : {"month"}, day : 1..31, mode : {"Same", "Following"}]
    \cup [frequency : {"week"}, day : 1..7, mode : {"Same", "Following"}]

NextDeadline(dl, n) ==
  IF dl.frequency = "month" THEN MonthNext(dl.day, n) ELSE WeekNext(dl.day, n)

CurrentDeadline(dl, n) ==
  IF dl.frequency = "month" THEN MonthCurrent(dl.day, n) ELSE WeekCurrent(dl.day, n)

(* get_frequency_period_for raises NotADeadLine unless HasPeriod.          *)
HasPeriod(dl, n) == dl.day = IF dl.frequency = "month" THEN DayOf(n) ELSE WeekDay(n)

Period(dl, n) ==
  IF dl.frequency = "month" THEN MonthPeriod(dl.mode, n) ELSE WeekPeriod(dl.mode, n)

-----------------------------------------------------------------------------
(* What is meant by a deadline: the day of a week, or the day of a month,  *)
(* which is the last one of a month that is too short.                     *)
IsDeadline(dl, n) ==
  IF dl.frequency = "month"
  THEN DayOf(n) = dl.day \/ (DayOf(n) = LastDay(MonthOf(n)) /\ DayOf(n) < dl.day)
  ELSE WeekDay(n) = dl.day

(* The day exists in every month.                                          *)
InEveryMonth(dl) == dl.frequency = "month" => \A m \in 1..Months : dl.day <= LastDay(m)
=============================================================================
