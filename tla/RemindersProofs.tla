-------------------------- MODULE RemindersProofs --------------------------
(***************************************************************************)
(* Proofs about Deadlines, for every calendar and every deadline, and      *)
(* about Reminders, for any projects, data senders and users, and any      *)
(* forms they may save.                                                    *)
(***************************************************************************)
EXTENDS Reminders, FiniteSetTheorems, SequenceTheorems, WellFoundedInduction, TLAPS

InMonth(m, n) == m \in 1..Months /\ n \in Int /\ FirstDay[m] <= n /\ n < FirstDay[m+1]

(* The deadline on a day of month m.                                       *)
DeadlineOf(day, m) == Date(m, Least(day, LastDay(m)))

(* FirstDay is increasing.                                                 *)
LEMMA Calendar ==
  /\ Months \in Nat
  /\ \A m \in 1..Months+1 : FirstDay[m] \in Int
  /\ \A a, b \in 1..Months+1 : a < b => FirstDay[a] < FirstDay[b]
BY CalendarAssumption

LEMMA MonthUnique ==
  ASSUME NEW n, NEW a, NEW b, InMonth(a, n), InMonth(b, n)
  PROVE  a = b
<1>1. a \in 1..Months /\ b \in 1..Months /\ a+1 \in 1..Months+1 /\ b+1 \in 1..Months+1
  BY Calendar DEF InMonth
<1>2. CASE a < b
  <2>1. a+1 = b \/ FirstDay[a+1] < FirstDay[b]
    BY <1>1, <1>2, Calendar
  <2>. QED
    BY <1>1, <1>2, <2>1, Calendar DEF InMonth
<1>3. CASE b < a
  <2>1. b+1 = a \/ FirstDay[b+1] < FirstDay[a]
    BY <1>1, <1>3, Calendar
  <2>. QED
    BY <1>1, <1>3, <2>1, Calendar DEF InMonth
<1>. QED
  BY <1>1, <1>2, <1>3, Calendar

(* Every day of the calendar belongs to a month: the first one that ends   *)
(* after it.                                                               *)
LEMMA MonthExists ==
  ASSUME NEW n \in Int, Months >= 1, FirstDay[1] <= n, n < FirstDay[Months+1]
  PROVE  \E m : InMonth(m, n)
<1> DEFINE T == {m \in Nat : m \in 1..Months /\ n < FirstDay[m+1]}
<1>1. Months \in T
  BY Calendar
<1>2. PICK m \in T : \A k \in T : ~(<<k, m>> \in OpToRel(<, Nat))
  <2>. HIDE DEF T
  <2>1. T \subseteq Nat
    BY DEF T
  <2>. QED
    BY <1>1, <2>1, WFMin, NatLessThanWellFounded
<1>3. \A k \in T : ~(k < m)
  BY <1>2 DEF OpToRel
<1>4. FirstDay[m] <= n
  <2>1. CASE m = 1
    BY <2>1
  <2>2. CASE m # 1
    <3>1. m-1 \in 1..Months /\ m-1 < m /\ m-1 \in Nat /\ (m-1)+1 = m
      BY <2>2, Calendar
    <3>2. ~(n < FirstDay[(m-1)+1])
      BY <1>3, <3>1
    <3>. QED
      BY <3>1, <3>2, Calendar
  <2>. QED
    BY <2>1, <2>2
<1>. QED
  BY <1>4 DEF InMonth

LEMMA MonthOfIs ==
  ASSUME NEW n, NEW m, InMonth(m, n)
  PROVE  MonthOf(n) = m
<1>1. MonthOf(n) \in 1..Months /\ FirstDay[MonthOf(n)] <= n /\ n < FirstDay[MonthOf(n)+1]
  BY DEF MonthOf, InMonth
<1>. QED
  BY <1>1, MonthUnique DEF InMonth

(* The days of a month, and the deadline in it.                            *)
LEMMA DateInMonth ==
  ASSUME NEW m \in 1..Months, NEW d \in 1..LastDay(m)
  PROVE  /\ InMonth(m, Date(m, d)) /\ MonthOf(Date(m, d)) = m /\ DayOf(Date(m, d)) = d
<1>1. FirstDay[m] \in Int /\ FirstDay[m+1] \in Int
  BY Calendar
<1>2. InMonth(m, Date(m, d))
  BY <1>1 DEF InMonth, Date, LastDay
<1>3. MonthOf(Date(m, d)) = m
  BY <1>2, MonthOfIs
<1>4. DayOf(Date(m, d)) = d
  BY <1>1, <1>3 DEF DayOf, Date
<1>. QED
  BY <1>2, <1>3, <1>4

LEMMA DeadlineInMonth ==
  ASSUME NEW m \in 1..Months, NEW day \in 1..31
  PROVE  /\ Least(day, LastDay(m)) \in 1..LastDay(m) /\ LastDay(m) \in Nat
         /\ InMonth(m, DeadlineOf(day, m))
<1>1. /\ m \in 1..Months+1 /\ m+1 \in 1..Months+1 /\ m < m+1
      /\ FirstDay[m] \in Int /\ FirstDay[m+1] \in Int
  BY Calendar
<1>2. FirstDay[m] < FirstDay[m+1]
  BY <1>1, Calendar
<1>3. Least(day, LastDay(m)) \in 1..LastDay(m) /\ LastDay(m) \in Nat
  BY <1>1, <1>2 DEF Least, LastDay
<1>. QED
  BY <1>3, DateInMonth DEF DeadlineOf

(* The next deadline is that of this month or of the next month, the       *)
(* current one that of this month or of the month before.                  *)
LEMMA MonthDeadlines ==
  ASSUME NEW n \in Int, NEW m \in 2..Months-1, NEW day \in 1..31, InMonth(m, n)
  PROVE  /\ MonthNext(day, n) = IF n < DeadlineOf(day, m) THEN DeadlineOf(day, m)
                                                          ELSE DeadlineOf(day, m+1)
         /\ MonthCurrent(day, n) = IF n < DeadlineOf(day, m) THEN DeadlineOf(day, m-1)
                                                             ELSE DeadlineOf(day, m)
<1>1. MonthOf(n) = m /\ m \in 1..Months /\ m+1 \in 1..Months /\ m-1 \in 1..Months
  BY MonthOfIs, Calendar
<1>2. FirstDay[m] \in Int /\ FirstDay[m+1] \in Int
  BY <1>1, Calendar
<1>3. DayOf(n) \in 1..LastDay(m)
  BY <1>1, <1>2 DEF InMonth, DayOf, LastDay
<1>4. DeadlineIn(day, n) = DeadlineOf(day, m)
  BY <1>1 DEF DeadlineIn, DeadlineOf, DayOfMonth
<1>5. ASSUME NEW k \in {-1, 1}
      PROVE  DeadlineIn(day, MonthsLater(n, k)) = DeadlineOf(day, m+k)
  <2>1. m+k \in 1..Months
    BY <1>1
  <2>2. LastDay(m+k) \in Nat /\ LastDay(m+k) >= 1
    BY <2>1, DeadlineInMonth
  <2>3. LastDay(m) \in Nat
    BY <1>1, DeadlineInMonth
  <2>4. Least(DayOf(n), LastDay(m+k)) \in 1..LastDay(m+k)
    BY <1>3, <2>2, <2>3 DEF Least
  <2>5. MonthOf(MonthsLater(n, k)) = m+k
    BY <1>1, <2>1, <2>4, DateInMonth DEF MonthsLater
  <2>. QED
    BY <2>5 DEF DeadlineIn, DeadlineOf, DayOfMonth
<1>6. /\ DayOfMonth(day, n) \in Int
      /\ DayOf(n) >= DayOfMonth(day, n) <=> ~(n < DeadlineOf(day, m))
      /\ DayOf(n) < DayOfMonth(day, n) <=> n < DeadlineOf(day, m)
  <2>1. Least(day, LastDay(m)) \in Int
    BY <1>1, DeadlineInMonth
  <2>. QED
    BY <1>1, <1>2, <2>1 DEF DayOf, DayOfMonth, DeadlineOf, Date
<1>7. DeadlineIn(day, MonthsLater(n, 1)) = DeadlineOf(day, m+1)
  BY <1>5
<1>8. DeadlineIn(day, MonthsLater(n, -1)) = DeadlineOf(day, m-1)
  <2>1. m + (-1) = m-1
    BY <1>1
  <2>. QED
    BY <1>5, <2>1
<1>. QED
  BY <1>4, <1>6, <1>7, <1>8 DEF MonthNext, MonthCurrent

-----------------------------------------------------------------------------
(* The days of a week.                                                     *)
LEMMA WeekDays ==
  ASSUME NEW n \in Int
  PROVE  /\ WeekDay(n) \in 1..7
         /\ WeekDay(n+7) = WeekDay(n) /\ WeekDay(n-7) = WeekDay(n)
         /\ \A j \in -6..6 : WeekDay(n)+j \in 1..7 => WeekDay(n+j) = WeekDay(n)+j
BY DEF WeekDay

(* The weekly deadline of the week of n.                                   *)
DeadlineOfWeek(day, n) == n + (day - WeekDay(n))

LEMMA WeekDeadlines ==
  ASSUME NEW n \in Int, NEW day \in 1..7
  PROVE  /\ WeekNext(day, n) = IF n < DeadlineOfWeek(day, n) THEN DeadlineOfWeek(day, n)
                                                             ELSE DeadlineOfWeek(day, n) + 7
         /\ WeekCurrent(day, n) = IF n < DeadlineOfWeek(day, n) THEN DeadlineOfWeek(day, n) - 7
                                                                ELSE DeadlineOfWeek(day, n)
         /\ DeadlineOfWeek(day, n) \in Int /\ WeekDay(DeadlineOfWeek(day, n)) = day
<1>1. WeekDay(n) \in 1..7 /\ WeekDay(n+7) = WeekDay(n) /\ WeekDay(n-7) = WeekDay(n)
  BY WeekDays
<1>2. WeekDay(DeadlineOfWeek(day, n)) = day
  <2>1. day - WeekDay(n) \in -6..6 /\ WeekDay(n) + (day - WeekDay(n)) = day
    BY <1>1
  <2>. QED
    BY <2>1, WeekDays DEF DeadlineOfWeek
<1>3. n < DeadlineOfWeek(day, n) <=> WeekDay(n) < day
  BY <1>1 DEF DeadlineOfWeek
<1>4. WeekNext(day, n) = IF WeekDay(n) >= day THEN (n+7) + (day - WeekDay(n))
                                              ELSE n + (day - WeekDay(n))
  BY <1>1 DEF WeekNext
<1>5. WeekCurrent(day, n) = IF WeekDay(n) >= day THEN n - (WeekDay(n) - day)
                                                 ELSE (n-7) + (day - WeekDay(n))
  BY <1>1 DEF WeekCurrent
<1>. QED
  BY <1>1, <1>2, <1>3, <1>4, <1>5 DEF DeadlineOfWeek

-----------------------------------------------------------------------------
(* A day that is far enough from the ends of the calendar.                 *)
Inside(n) == Months >= 4 /\ n \in Int /\ FirstDay[3] <= n /\ n < FirstDay[Months]

LEMMA InsideMonth ==
  ASSUME NEW n, Inside(n)
  PROVE  \E m \in 3..Months-1 : InMonth(m, n)
<1>1. /\ Months \in Nat /\ Months >= 4 /\ n \in Int
      /\ FirstDay[3] <= n /\ n < FirstDay[Months]
  BY Calendar DEF Inside
<1>2. 1 \in 1..Months+1 /\ 3 \in 1..Months+1 /\ Months \in 1..Months+1 /\ Months+1 \in 1..Months+1
  BY <1>1
<1>3. FirstDay[1] <= n /\ n < FirstDay[Months+1]
  BY <1>1, <1>2, Calendar
<1>4. PICK m : InMonth(m, n)
  BY <1>1, <1>3, MonthExists
<1>5. m \in 1..Months /\ FirstDay[m] <= n /\ n < FirstDay[m+1]
  BY <1>4 DEF InMonth
<1>6. m >= 3
  <2>1. SUFFICES ASSUME m < 3 PROVE FALSE
    BY <1>5
  <2>2. m+1 = 3 \/ FirstDay[m+1] < FirstDay[3]
    BY <2>1, <1>1, <1>2, <1>5, Calendar
  <2>3. FirstDay[m+1] \in Int /\ FirstDay[3] \in Int
    BY <1>1, <1>2, <1>5, Calendar
  <2>. QED
    BY <2>2, <2>3, <1>1, <1>5
<1>7. m # Months
  BY <1>1, <1>2, <1>5, Calendar
<1>. QED
  BY <1>1, <1>4, <1>5, <1>6, <1>7

(* A monthly deadline is the deadline of its month.                        *)
LEMMA MonthIsDeadline ==
  ASSUME NEW dl \in Deadlines, dl.frequency = "month", NEW x, NEW k, InMonth(k, x)
  PROVE  IsDeadline(dl, x) <=> x = DeadlineOf(dl.day, k)
<1>1. MonthOf(x) = k /\ k \in 1..Months /\ dl.day \in 1..31
  BY MonthOfIs DEF InMonth, Deadlines
<1>2. /\ FirstDay[k] \in Int /\ FirstDay[k+1] \in Int
      /\ x \in Int /\ FirstDay[k] <= x /\ x < FirstDay[k+1]
  BY <1>1, Calendar DEF InMonth
<1>3. IsDeadline(dl, x) <=>
        \/ x - FirstDay[k] + 1 = dl.day
        \/ x - FirstDay[k] + 1 = FirstDay[k+1] - FirstDay[k] /\ x - FirstDay[k] + 1 < dl.day
  BY <1>1 DEF IsDeadline, DayOf, LastDay
<1>4. DeadlineOf(dl.day, k) = IF dl.day <= FirstDay[k+1] - FirstDay[k]
                              THEN FirstDay[k] + dl.day - 1
                              ELSE FirstDay[k] + (FirstDay[k+1] - FirstDay[k]) - 1
  BY DEF DeadlineOf, Date, Least, LastDay
<1>. QED
  BY <1>1, <1>2, <1>3, <1>4

(* The first deadline after n and the last one up to n, and none between,  *)
(* for a monthly deadline ...                                              *)
LEMMA MonthlyInOrder ==
  ASSUME NEW dl \in Deadlines, dl.frequency = "month", NEW n, Inside(n)
  PROVE  \E a \in 2..Months-1 :
           /\ CurrentDeadline(dl, n) = DeadlineOf(dl.day, a)
           /\ NextDeadline(dl, n) = DeadlineOf(dl.day, a+1)
           /\ CurrentDeadline(dl, n) <= n /\ n < NextDeadline(dl, n)
<1>1. PICK m \in 3..Months-1 : InMonth(m, n)
  BY InsideMonth
<1>2. dl.day \in 1..31 /\ n \in Int /\ Months \in Nat
  BY Calendar DEF Deadlines, Inside
<1>3. /\ m-1 \in 1..Months /\ m \in 1..Months /\ m+1 \in 1..Months /\ m \in 2..Months-1
      /\ m-1 \in 2..Months-1 /\ (m-1)+1 = m
  BY <1>2
<1>4. /\ InMonth(m-1, DeadlineOf(dl.day, m-1)) /\ InMonth(m, DeadlineOf(dl.day, m))
      /\ InMonth(m+1, DeadlineOf(dl.day, m+1))
  BY <1>2, <1>3, DeadlineInMonth
<1>5. /\ DeadlineOf(dl.day, m-1) < FirstDay[m] /\ FirstDay[m] <= n
      /\ n < FirstDay[m+1] /\ FirstDay[m+1] <= DeadlineOf(dl.day, m+1)
  BY <1>1, <1>3, <1>4 DEF InMonth
<1>6. /\ FirstDay[m] \in Int /\ FirstDay[m+1] \in Int
      /\ DeadlineOf(dl.day, m-1) \in Int /\ DeadlineOf(dl.day, m) \in Int
      /\ DeadlineOf(dl.day, m+1) \in Int
  BY <1>3, <1>4, Calendar DEF InMonth
<1>7. /\ NextDeadline(dl, n) = MonthNext(dl.day, n)
      /\ CurrentDeadline(dl, n) = MonthCurrent(dl.day, n)
  BY DEF NextDeadline, CurrentDeadline
<1>8. CASE n < DeadlineOf(dl.day, m)
  <2>1. /\ NextDeadline(dl, n) = DeadlineOf(dl.day, (m-1)+1)
        /\ CurrentDeadline(dl, n) = DeadlineOf(dl.day, m-1)
    BY <1>1, <1>2, <1>3, <1>7, <1>8, MonthDeadlines
  <2>2. CurrentDeadline(dl, n) <= n /\ n < NextDeadline(dl, n)
    BY <1>2, <1>3, <1>5, <1>6, <1>8, <2>1
  <2>. QED
    BY <1>3, <2>1, <2>2
<1>9. CASE ~(n < DeadlineOf(dl.day, m))
  <2>1. /\ NextDeadline(dl, n) = DeadlineOf(dl.day, m+1)
        /\ CurrentDeadline(dl, n) = DeadlineOf(dl.day, m)
    BY <1>1, <1>2, <1>3, <1>7, <1>9, MonthDeadlines
  <2>2. CurrentDeadline(dl, n) <= n /\ n < NextDeadline(dl, n)
    BY <1>2, <1>5, <1>6, <1>9, <2>1
  <2>. QED
    BY <1>3, <2>1, <2>2
<1>. QED
  BY <1>8, <1>9

LEMMA NoneBetweenMonths ==
  ASSUME NEW dl \in Deadlines, dl.frequency = "month", NEW a \in 2..Months-1, NEW x \in Int,
         DeadlineOf(dl.day, a) < x, x < DeadlineOf(dl.day, a+1)
  PROVE  ~IsDeadline(dl, x)
<1>1. /\ dl.day \in 1..31 /\ a \in 1..Months /\ a+1 \in 1..Months
      /\ (a+1)+1 \in 1..Months+1
  BY Calendar DEF Deadlines
<1>2. InMonth(a, DeadlineOf(dl.day, a)) /\ InMonth(a+1, DeadlineOf(dl.day, a+1))
  BY <1>1, DeadlineInMonth
<1>3. FirstDay[a] <= x /\ x < FirstDay[(a+1)+1]
  <2>1. /\ FirstDay[a] \in Int /\ FirstDay[(a+1)+1] \in Int
        /\ DeadlineOf(dl.day, a) \in Int /\ DeadlineOf(dl.day, a+1) \in Int
        /\ FirstDay[a] <= DeadlineOf(dl.day, a) /\ DeadlineOf(dl.day, a+1) < FirstDay[(a+1)+1]
    BY <1>1, <1>2, Calendar DEF InMonth
  <2>. QED
    BY <2>1
<1>4. InMonth(a, x) \/ InMonth(a+1, x)
  <2>1. FirstDay[a+1] \in Int
    BY <1>1, Calendar
  <2>. QED
    BY <1>1, <1>3, <2>1 DEF InMonth
<1>5. CASE InMonth(a, x)
  BY <1>1, <1>2, <1>5, MonthIsDeadline DEF InMonth
<1>6. CASE InMonth(a+1, x)
  BY <1>1, <1>2, <1>6, MonthIsDeadline DEF InMonth
<1>. QED
  BY <1>4, <1>5, <1>6

(* ... and for a weekly one.                                               *)
LEMMA WeeklyInOrder ==
  ASSUME NEW dl \in Deadlines, dl.frequency = "week", NEW n \in Int
  PROVE  /\ NextDeadline(dl, n) = CurrentDeadline(dl, n) + 7
         /\ CurrentDeadline(dl, n) \in Int /\ WeekDay(CurrentDeadline(dl, n)) = dl.day
         /\ CurrentDeadline(dl, n) <= n /\ n < NextDeadline(dl, n)
<1>1. dl.day \in 1..7
  BY DEF Deadlines
<1>2. /\ NextDeadline(dl, n) = WeekNext(dl.day, n)
      /\ CurrentDeadline(dl, n) = WeekCurrent(dl.day, n)
  BY DEF NextDeadline, CurrentDeadline
<1> DEFINE d == DeadlineOfWeek(dl.day, n)
<1>3. d \in Int /\ WeekDay(d) = dl.day
  BY <1>1, WeekDeadlines
<1>4. WeekDay(d-7) = dl.day
  BY <1>3, WeekDays
<1>5. n-7 < d /\ d < n+7
  <2>1. WeekDay(n) \in 1..7
    BY WeekDays
  <2>. QED
    BY <1>1, <2>1 DEF DeadlineOfWeek
<1>6. /\ NextDeadline(dl, n) = IF n < d THEN d ELSE d + 7
      /\ CurrentDeadline(dl, n) = IF n < d THEN d - 7 ELSE d
  BY <1>1, <1>2, WeekDeadlines
<1>. HIDE DEF d
<1>. QED
  BY <1>3, <1>4, <1>5, <1>6

LEMMA NoneBetweenWeeks ==
  ASSUME NEW c \in Int, NEW x \in c+1 .. c+6
  PROVE  WeekDay(x) # WeekDay(c)
BY DEF WeekDay

-----------------------------------------------------------------------------
(* deadline.py: the next deadline is the first one after n, the current    *)
(* one the last one up to n, by what a deadline means.                     *)
THEOREM DeadlinesAreNeighbours ==
  ASSUME NEW dl \in Deadlines, NEW n, Inside(n)
  PROVE  /\ NextDeadline(dl, n) \in Int /\ CurrentDeadline(dl, n) \in Int
         /\ IsDeadline(dl, NextDeadline(dl, n)) /\ IsDeadline(dl, CurrentDeadline(dl, n))
         /\ CurrentDeadline(dl, n) <= n /\ n < NextDeadline(dl, n)
         /\ \A x \in CurrentDeadline(dl, n)+1 .. NextDeadline(dl, n)-1 : ~IsDeadline(dl, x)
<1>1. CASE dl.frequency = "month"
  <2>1. PICK a \in 2..Months-1 :
           /\ CurrentDeadline(dl, n) = DeadlineOf(dl.day, a)
           /\ NextDeadline(dl, n) = DeadlineOf(dl.day, a+1)
           /\ CurrentDeadline(dl, n) <= n /\ n < NextDeadline(dl, n)
    BY <1>1, MonthlyInOrder
  <2>2. dl.day \in 1..31 /\ a \in 1..Months /\ a+1 \in 1..Months
    BY <1>1, Calendar DEF Deadlines
  <2>3. InMonth(a, DeadlineOf(dl.day, a)) /\ InMonth(a+1, DeadlineOf(dl.day, a+1))
    BY <2>2, DeadlineInMonth
  <2>4. IsDeadline(dl, DeadlineOf(dl.day, a)) /\ IsDeadline(dl, DeadlineOf(dl.day, a+1))
    BY <1>1, <2>3, MonthIsDeadline
  <2>5. DeadlineOf(dl.day, a) \in Int /\ DeadlineOf(dl.day, a+1) \in Int
    BY <2>3 DEF InMonth
  <2>6. ASSUME NEW x \in DeadlineOf(dl.day, a)+1 .. DeadlineOf(dl.day, a+1)-1
        PROVE  ~IsDeadline(dl, x)
    <3>1. x \in Int /\ DeadlineOf(dl.day, a) < x /\ x < DeadlineOf(dl.day, a+1)
      BY <2>5
    <3>. QED
      BY <1>1, <3>1, NoneBetweenMonths
  <2>. QED
    BY <2>1, <2>4, <2>5, <2>6
<1>2. CASE dl.frequency # "month"
  <2>1. dl.frequency = "week" /\ n \in Int
    BY <1>2 DEF Deadlines, Inside
  <2> DEFINE c == CurrentDeadline(dl, n)
  <2>2. /\ NextDeadline(dl, n) = c + 7 /\ c \in Int /\ WeekDay(c) = dl.day
        /\ c <= n /\ n < NextDeadline(dl, n)
    BY <2>1, WeeklyInOrder
  <2>. HIDE DEF c
  <2>3. WeekDay(c+7) = dl.day
    BY <2>2, WeekDays
  <2>4. \A x \in c+1 .. c+7-1 : WeekDay(x) # dl.day
    BY <2>2, NoneBetweenWeeks
  <2>5. \A x : IsDeadline(dl, x) <=> WeekDay(x) = dl.day
    BY <1>2 DEF IsDeadline
  <2>6. CurrentDeadline(dl, n) = c
    BY DEF c
  <2>. QED
    BY <2>2, <2>3, <2>4, <2>5, <2>6
<1>. QED
  BY <1>1, <1>2

(* deadline.py: the period of a deadline begins the day after that of the  *)
(* deadline before it ends.                                                *)
THEOREM PeriodsAreNeighbours ==
  ASSUME NEW dl \in Deadlines, NEW n, Inside(n)
  PROVE  Period(dl, NextDeadline(dl, n)).start = Period(dl, CurrentDeadline(dl, n)).end + 1
<1>1. CASE dl.frequency = "month"
  <2>1. PICK a \in 2..Months-1 :
           /\ CurrentDeadline(dl, n) = DeadlineOf(dl.day, a)
           /\ NextDeadline(dl, n) = DeadlineOf(dl.day, a+1)
    BY <1>1, MonthlyInOrder
  <2>2. /\ dl.day \in 1..31 /\ Months \in Nat
        /\ a-1 \in 1..Months /\ a \in 1..Months /\ a+1 \in 1..Months
    BY <1>1, Calendar DEF Deadlines
  <2>3. ASSUME NEW k \in {a, a+1}
        PROVE  MonthPeriod(dl.mode, DeadlineOf(dl.day, k))
                 = LET m == IF dl.mode = "Following" THEN k-1 ELSE k
                   IN  [start |-> FirstDay[m], end |-> FirstDay[m+1] - 1]
    <3>1. k \in 1..Months /\ k-1 \in 1..Months /\ k + (-1) = k-1 /\ k-1+1 = k
      BY <2>2
    <3>2. /\ MonthOf(DeadlineOf(dl.day, k)) = k
          /\ DayOf(DeadlineOf(dl.day, k)) \in 1..LastDay(k) /\ LastDay(k) \in Nat
      BY <2>2, <3>1, DeadlineInMonth, DateInMonth DEF DeadlineOf
    <3>3. LastDay(k-1) \in Nat /\ LastDay(k-1) >= 1
      BY <3>1, DeadlineInMonth
    <3>4. Least(DayOf(DeadlineOf(dl.day, k)), LastDay(k-1)) \in 1..LastDay(k-1)
      BY <3>2, <3>3 DEF Least
    <3>5. MonthOf(MonthsLater(DeadlineOf(dl.day, k), -1)) = k-1
      BY <3>1, <3>2, <3>4, DateInMonth DEF MonthsLater
    <3>6. \A m \in {k-1, k} : Date(m, 1) = FirstDay[m] /\ Date(m, LastDay(m)) = FirstDay[m+1] - 1
      BY <3>1, Calendar DEF Date, LastDay
    <3>. QED
      BY <3>2, <3>5, <3>6 DEF MonthPeriod
  <2>4. /\ Period(dl, NextDeadline(dl, n)) = MonthPeriod(dl.mode, DeadlineOf(dl.day, a+1))
        /\ Period(dl, CurrentDeadline(dl, n)) = MonthPeriod(dl.mode, DeadlineOf(dl.day, a))
    BY <1>1, <2>1 DEF Period
  <2>5. (a+1)-1 = a /\ (a-1)+1 = a /\ FirstDay[a] \in Int /\ FirstDay[a+1] \in Int
    BY <2>2, Calendar
  <2>. QED
    BY <2>3, <2>4, <2>5
<1>2. CASE dl.frequency # "month"
  <2>1. dl.frequency = "week" /\ n \in Int /\ dl.day \in 1..7
    BY <1>2 DEF Deadlines, Inside
  <2> DEFINE c == CurrentDeadline(dl, n)
  <2>2. NextDeadline(dl, n) = c + 7 /\ c \in Int /\ WeekDay(c) = dl.day
    BY <2>1, WeeklyInOrder
  <2>. HIDE DEF c
  <2>3. WeekDay(c+7) = dl.day /\ WeekDay(c-7) = dl.day /\ (c+7)-7 = c
    BY <2>2, WeekDays
  <2>4. Period(dl, c+7).start = Period(dl, c).end + 1
    BY <1>2, <2>1, <2>2, <2>3 DEF Period, WeekPeriod
  <2>. QED
    BY <2>2, <2>4 DEF c
<1>. QED
  BY <1>1, <1>2

-----------------------------------------------------------------------------
(* What the steps share.                                                   *)
LEMMA Settled ==
  ASSUME TypeOK
  PROVE  /\ FirstToday \in Nat /\ LastToday \in Nat /\ today \in Int /\ ranOn \in Int
         /\ ranOn <= today /\ today \in FirstToday..LastToday /\ Inside(today)
         /\ NewForm.deadline \in Deadlines /\ ~NewForm.toAll
         /\ \A f \in Forms \cup {NewForm} : f.deadline \in Deadlines /\ f.toAll \in BOOLEAN
<1>1. FirstToday \in Nat /\ LastToday \in Nat
  BY RemindersAssumption
<1>2. today \in FirstToday..LastToday /\ ranOn \in FirstToday-1..today
  BY DEF TypeOK
<1>3. /\ Months \in Nat /\ Months >= 4 /\ FirstDay[3] <= FirstToday /\ LastToday < FirstDay[Months]
      /\ FirstDay[3] \in Int /\ FirstDay[Months] \in Int
  BY RemindersAssumption, Calendar
<1>4. Inside(today)
  BY <1>1, <1>2, <1>3 DEF Inside
<1>5. NewForm.deadline \in Deadlines /\ ~NewForm.toAll
  BY DEF NewForm, Deadlines
<1>6. \A f \in Forms : f.deadline \in Deadlines /\ f.toAll \in BOOLEAN
  BY RemindersAssumption
<1>7. today \in Int /\ ranOn \in Int /\ ranOn <= today
  BY <1>1, <1>2
<1>8. \A f \in Forms \cup {NewForm} : f.deadline \in Deadlines /\ f.toAll \in BOOLEAN
  <2>1. NewForm.toAll \in BOOLEAN
    BY DEF NewForm
  <2>. HIDE DEF NewForm
  <2>. QED
    BY <1>5, <1>6, <2>1
<1>. HIDE DEF NewForm
<1>. QED
  BY <1>1, <1>2, <1>4, <1>5, <1>7, <1>8

-----------------------------------------------------------------------------
(* The type invariant.                                                     *)
LEMMA TypeInit == Init => TypeOK
<1>. SUFFICES ASSUME Init PROVE TypeOK
  OBVIOUS
<1>1. FirstToday \in Nat /\ LastToday \in Nat /\ FirstToday <= LastToday
  BY RemindersAssumption
<1>2. project \in [Projects -> Documents]
  BY DEF Init, Documents
<1>3. JobOK
  BY DEF Init, NoJob, JobOK, Jobs
<1>4. inbox \in [Senders -> Seq(Messages)]
  BY DEF Init
<1>5. rows \in [Projects -> SUBSET ReminderRows] /\ nextId \in Nat
      /\ \A p \in Projects : \A r \in rows[p] : r.id < nextId
  BY DEF Init
<1>6. DOMAIN request = Users /\ \A u \in Users : RequestOK(request[u], nextId)
  BY DEF Init, RequestOK
<1>7. /\ today \in FirstToday..LastToday /\ ranOn \in FirstToday-1..today
      /\ submitted \subseteq Projects \X Senders \X (FirstToday..today)
  BY <1>1 DEF Init
<1>8. /\ logged \in Nat /\ counted \in Nat /\ edits \in Nat /\ failures \in Nat
      /\ spoilt \subseteq Nat /\ orderly \in BOOLEAN
  BY DEF Init
<1>. QED
  BY <1>2, <1>3, <1>4, <1>5, <1>6, <1>7, <1>8 DEF TypeOK

(* The part of the type invariant that concerns the users.                 *)
UsersOK ==
  /\ project \in [Projects -> Documents] /\ rows \in [Projects -> SUBSET ReminderRows]
  /\ nextId \in Nat /\ \A p \in Projects : \A r \in rows[p] : r.id < nextId
  /\ DOMAIN request = Users /\ \A u \in Users : RequestOK(request[u], nextId)
  /\ edits \in Nat /\ orderly \in BOOLEAN

LEMMA UsersKept ==
  ASSUME UsersOK, UNCHANGED userVars
  PROVE  UsersOK'
BY DEF UsersOK, userVars, RequestOK

LEMMA SpoilType ==
  ASSUME NEW ids \in SUBSET Nat, spoilt \subseteq Nat, Spoil(ids)
  PROVE  spoilt' \subseteq Nat
BY DEF Spoil

LEMMA RowIds ==
  ASSUME UsersOK
  PROVE  AllIds \subseteq Nat /\ \A p \in Projects : Ids(rows[p]) \subseteq Nat
BY DEF UsersOK, AllIds, Ids, ReminderRows

(* The job's memory keeps its shape.                                       *)
LEMMA JobShape ==
  ASSUME JobOK, rows \in [Projects -> SUBSET ReminderRows], project \in [Projects -> Documents], Job
  PROVE  JobOK'
<1>. USE DEF JobOK, Jobs
<1>0. NoJob \in Jobs /\ NoJob.at = "idle"
  BY DEF NoJob
<1>1. CASE StartNight
  BY <1>1 DEF StartNight, NoJob
<1>2. CASE EndNight \/ JobDies
  <2>1. job' = NoJob
    BY <1>2 DEF EndNight, JobDies
  <2>. QED
    BY <2>1, <1>0 DEF Jobs
<1>3. CASE Log
  <2>1. job.row \in ReminderRows /\ job.project \in Projects /\ job.doc \in Documents
    BY <1>3 DEF Log
  <2>. QED
    BY <1>3, <2>1 DEF Log
<1>4. CASE ReminderDone
  <2>1. job.project \in Projects /\ job.doc \in Documents /\ job.total + job.sent \in Nat
    BY <1>4 DEF ReminderDone
  <2>. QED
    BY <1>4, <2>1 DEF ReminderDone
<1>5. CASE CountReminders
  BY <1>5 DEF CountReminders, NoJob
<1>6. ASSUME NEW p \in Projects, LoadProject(p)
      PROVE  JobOK'
  <2>1. job.listed[p] \subseteq ReminderRows /\ project[p] \in Documents
    OBVIOUS
  <2>. DEFINE due == {r \in job.listed[p] : ShouldBeSentOn(project[p].form.deadline, r, today)}
  <2>2. due \subseteq ReminderRows
    BY <2>1
  <2>3. job' = [job EXCEPT !.at = "reminders", !.project = p, !.doc = project[p],
                           !.listed[p] = {}, !.total = 0, !.due = due]
    BY <1>6 DEF LoadProject
  <2>. HIDE DEF due
  <2>4. [job.listed EXCEPT ![p] = {}] \in [Projects -> SUBSET ReminderRows]
    OBVIOUS
  <2>. QED
    BY <2>1, <2>2, <2>3, <2>4
<1>7. ASSUME NEW p \in Projects, NEW r \in job.due, FetchSenders(r)
      PROVE  JobOK'
  <2>1. r \in ReminderRows /\ job.project \in Projects /\ job.doc \in Documents
        /\ Certain(job.project) \in BOOLEAN
    BY <1>7 DEF FetchSenders, Certain
  <2>2. \/ \E list \in SUBSET Senders :
             job' = [job EXCEPT !.at = "send", !.row = r, !.due = @ \ {r}, !.sent = 0,
                                !.list = list, !.certain = Certain(job.project)]
        \/ job' = [job EXCEPT !.due = @ \ {r}]
    BY <1>7 DEF FetchSenders
  <2>3. ASSUME NEW list \in SUBSET Senders, NEW certain \in BOOLEAN,
               job' = [job EXCEPT !.at = "send", !.row = r, !.due = @ \ {r}, !.sent = 0,
                                  !.list = list, !.certain = certain]
        PROVE  JobOK'
    BY <2>1, <2>3
  <2>4. CASE job' = [job EXCEPT !.due = @ \ {r}]
    BY <2>1, <2>4
  <2>. QED
    BY <2>1, <2>2, <2>3, <2>4
<1>8. ASSUME NEW s \in Senders, Send(s)
      PROVE  JobOK'
  <2>1. job.row \in ReminderRows /\ job.project \in Projects /\ job.doc \in Documents
    BY <1>8 DEF Send
  <2>2. job' = [job EXCEPT !.at = "log", !.list = @ \ {s}, !.sent = @ + 1] /\ job.sent + 1 \in Nat
    BY <1>8 DEF Send
  <2>. QED
    BY <2>1, <2>2
<1>9. ASSUME NEW s \in Senders, Refused(s)
      PROVE  JobOK'
  <2>1. job.row \in ReminderRows /\ job.project \in Projects /\ job.doc \in Documents
    BY <1>9 DEF Refused
  <2>. QED
    BY <1>9, <2>1 DEF Refused
<1>10. CASE ReminderFails
  <2>1. job.project \in Projects /\ job.doc \in Documents
    BY <1>10 DEF ReminderFails
  <2>2. CASE \E r \in job.due : job' = [job EXCEPT !.due = @ \ {r}]
    BY <2>1, <2>2
  <2>3. CASE job' = [job EXCEPT !.at = "reminders", !.row = None, !.list = {}, !.certain = TRUE,
                                !.sent = 0]
    BY <2>1, <2>3
  <2>. QED
    BY <1>10, <2>2, <2>3 DEF ReminderFails
<1>11. CASE ProjectFails
  <2>1. CASE job.at = "projects" /\ \E p \in Projects : job' = [job EXCEPT !.listed[p] = {}]
    BY <2>1
  <2>2. CASE job' = [NoJob EXCEPT !.at = "projects", !.listed = job.listed]
    BY <2>2 DEF NoJob
  <2>. QED
    BY <1>11, <2>1, <2>2 DEF ProjectFails
<1>. QED
  BY <1>1, <1>2, <1>3, <1>4, <1>5, <1>6, <1>7, <1>8, <1>9, <1>10, <1>11 DEF Job

LEMMA JobTypeStep ==
  ASSUME TypeOK, Job
  PROVE  TypeOK'
<1>1. UsersOK /\ UNCHANGED userVars
  BY DEF TypeOK, UsersOK, Job, StartNight, EndNight, Log, ReminderDone, CountReminders, LoadProject,
         FetchSenders, Send, Refused, ReminderFails, ProjectFails, JobDies
<1>2. UsersOK'
  BY <1>1, UsersKept
<1>3. /\ today' = today /\ submitted' = submitted
      /\ ranOn' = ranOn \/ ranOn' = today
  BY DEF Job, StartNight, EndNight, Log, ReminderDone, CountReminders, LoadProject,
         FetchSenders, Send, Refused, ReminderFails, ProjectFails, JobDies
<1>4. ranOn' \in FirstToday-1..today'
  BY <1>3, Settled DEF TypeOK
<1>5. JobOK'
  <2>1. JobOK /\ rows \in [Projects -> SUBSET ReminderRows] /\ project \in [Projects -> Documents]
    BY DEF TypeOK
  <2>. QED
    BY <2>1, JobShape
<1>6. inbox' \in [Senders -> Seq(Messages)]
  <2>1. ASSUME NEW s \in Senders, Send(s)
        PROVE  inbox' \in [Senders -> Seq(Messages)]
    <3>1. /\ job.project \in Projects /\ job.doc \in Documents /\ job.row \in ReminderRows
          /\ job.certain \in BOOLEAN
      BY <2>1 DEF TypeOK, JobOK, Jobs, Send
    <3>2. job.doc.form \in Forms \cup {NewForm} /\ job.doc.void \in BOOLEAN
      BY <3>1 DEF Documents
    <3>3. ApplicableDeadline(job.doc.form.deadline, job.row, today) \in Int
      BY <3>2, Settled, DeadlinesAreNeighbours DEF ApplicableDeadline
    <3>4. Message \in Messages
      BY <3>1, <3>2, <3>3, Settled DEF Message, Messages
    <3>. HIDE DEF Message
    <3>5. inbox[s] \in Seq(Messages) /\ inbox \in [Senders -> Seq(Messages)]
      BY DEF TypeOK
    <3>6. Append(inbox[s], Message) \in Seq(Messages)
      BY <3>4, <3>5, AppendProperties
    <3>. QED
      BY <2>1, <3>5, <3>6 DEF Send
  <2>2. (\E s \in Senders : Send(s)) \/ inbox' = inbox
    BY DEF Job, StartNight, EndNight, Log, ReminderDone, CountReminders, LoadProject,
           FetchSenders, Refused, ReminderFails, ProjectFails, JobDies
  <2>. QED
    BY <2>1, <2>2 DEF TypeOK
<1>7. logged' \in Nat /\ counted' \in Nat /\ failures' \in Nat
  <2>1. logged \in Nat /\ counted \in Nat /\ failures \in Nat /\ job.total \in Nat
    BY DEF TypeOK, JobOK, Jobs
  <2>2. /\ logged' \in {logged, logged + 1} /\ counted' \in {counted, counted + job.total}
        /\ failures' \in {failures, failures + 1}
    BY DEF Fails, Job, StartNight, EndNight, Log, ReminderDone, CountReminders,
         LoadProject, FetchSenders, Send, Refused, ReminderFails, ProjectFails, JobDies
  <2>. QED
    BY <2>1, <2>2
<1>8. spoilt' \subseteq Nat
  <2>1. /\ job.at \in {"send", "log"} => {job.row.id} \subseteq Nat
        /\ \A r \in job.due : {r.id} \subseteq Nat
        /\ \A p \in Projects : Ids(job.listed[p]) \subseteq Nat
        /\ AllIds \subseteq Nat /\ spoilt \subseteq Nat
    BY <1>1, RowIds DEF TypeOK, JobOK, Jobs, ReminderRows, Ids
  <2>2. \/ spoilt' = spoilt
        \/ job.at \in {"send", "log"} /\ Spoil({job.row.id})
        \/ \E r \in job.due : Spoil({r.id})
        \/ \E p \in Projects : Spoil(Ids(job.listed[p]))
        \/ Spoil(AllIds)
    BY DEF Job, StartNight, EndNight, Log, ReminderDone, CountReminders,
         LoadProject, FetchSenders, Send, Refused, ReminderFails, ProjectFails, JobDies
  <2>. QED
    BY <2>1, <2>2, SpoilType
<1>. QED
  BY <1>2, <1>3, <1>4, <1>5, <1>6, <1>7, <1>8 DEF TypeOK, UsersOK

(* A request keeps the rest: the job, the responses and the day.           *)
LEMMA UserLeaves ==
  ASSUME NEW u \in Users, UserStep(u)
  PROVE  UNCHANGED <<today, submitted, jobVars>>
BY DEF UserStep, SettingsPosted, DeletePosted, Starts, DeleteRows, InsertRow, SaveSettings, FetchRows,
       VoidReminder, SetVoid, SaveDocument, RequestFails

(* Replacing one request.                                                  *)
LEMMA RequestReplaced ==
  ASSUME UsersOK, nextId' \in Nat, nextId <= nextId',
         NEW u \in Users, NEW q, RequestOK(q, nextId'), request' = [request EXCEPT ![u] = q]
  PROVE  DOMAIN request' = Users /\ \A v \in Users : RequestOK(request'[v], nextId')
<1>1. DOMAIN request' = Users /\ \A v \in Users \ {u} : request'[v] = request[v]
  BY DEF UsersOK
<1>2. request'[u] = q
  BY DEF UsersOK
<1>3. \A v \in Users : RequestOK(request[v], nextId)
  BY DEF UsersOK
<1>4. ASSUME NEW v \in Users, v # u
      PROVE  RequestOK(request'[v], nextId')
  <2>1. RequestOK(request[v], nextId) /\ request'[v] = request[v]
    BY <1>1, <1>3, <1>4
  <2>2. RequestOK(request'[v], nextId)
    BY <2>1
  <2>3. CASE request'[v] \in DeleteRequests /\ \A r \in request'[v].todo : r.id < nextId
    <3>1. \A r \in request'[v].todo : r.id \in Nat
      BY <2>3 DEF DeleteRequests, ReminderRows
    <3>2. \A r \in request'[v].todo : r.id < nextId'
      BY <2>3, <3>1 DEF UsersOK
    <3>. QED
      BY <2>3, <3>2 DEF RequestOK
  <2>. QED
    BY <2>2, <2>3 DEF RequestOK
<1>5. RequestOK(request'[u], nextId')
  BY <1>2 DEF RequestOK
<1>. QED
  BY <1>1, <1>4, <1>5

LEMMA SavedDocument ==
  ASSUME UsersOK, NEW u \in Users, NEW doc \in Documents, SaveDocument(u, doc)
  PROVE  UsersOK'
<1>1. project' \in [Projects -> Documents]
  <2>1. [doc EXCEPT !.rev = @ + 1] \in Documents
    BY DEF Documents
  <2>2. \/ project' = project
        \/ project' = [project EXCEPT ![request[u].project] = [doc EXCEPT !.rev = @ + 1]]
    BY DEF SaveDocument
  <2>. QED
    BY <2>1, <2>2 DEF UsersOK
<1>2. request' = [request EXCEPT ![u] = NoRequest] /\ rows' = rows /\ nextId' = nextId
      /\ edits' = edits /\ orderly' \in BOOLEAN
  BY DEF SaveDocument, UsersOK
<1>3. RequestOK(NoRequest, nextId')
  BY DEF RequestOK, NoRequest
<1>4. DOMAIN request' = Users /\ \A v \in Users : RequestOK(request'[v], nextId')
  BY <1>2, <1>3, RequestReplaced DEF UsersOK
<1>. QED
  BY <1>1, <1>2, <1>4 DEF UsersOK

LEMMA StartedRequest ==
  ASSUME UsersOK, NEW u \in Users, NEW p \in Projects, NEW at, NEW value, Starts(u, p, at, value),
         (at = "delete" /\ value \in Forms) \/ (at = "fetch" /\ value \in BOOLEAN)
  PROVE  UsersOK'
<1> DEFINE q == [at |-> at, project |-> p, value |-> value, rev |-> project[p].rev, todo |-> {}]
<1>1. request' = [request EXCEPT ![u] = q] /\ rows' = rows /\ nextId' = nextId
      /\ project' = project /\ edits' = edits + 1 /\ orderly' \in BOOLEAN
  BY DEF Starts, UsersOK
<1>2. project[p].rev \in Nat
  BY DEF UsersOK, Documents
<1>3. RequestOK(q, nextId')
  BY <1>2 DEF RequestOK, SettingsRequests, DeleteRequests
<1>. HIDE DEF q
<1>4. DOMAIN request' = Users /\ \A v \in Users : RequestOK(request'[v], nextId')
  BY <1>1, <1>3, RequestReplaced DEF UsersOK
<1>. QED
  BY <1>1, <1>4 DEF UsersOK

LEMMA UserShape ==
  ASSUME UsersOK, NEW u \in Users, UserStep(u)
  PROVE  UsersOK'
<1> DEFINE q == request[u]
<1>. q \in SettingsRequests \cup DeleteRequests \cup {NoRequest} /\ RequestOK(q, nextId)
  BY DEF UsersOK, RequestOK
<1>1. CASE SettingsPosted(u)
  BY <1>1, StartedRequest DEF SettingsPosted
<1>2. CASE DeletePosted(u)
  BY <1>2, StartedRequest DEF DeletePosted, UsersOK, Documents
<1>3. CASE DeleteRows(u)
  <2> DEFINE r == [q EXCEPT !.at = "insert", !.todo = q.value.kinds]
  <2>1. q \in SettingsRequests
    BY <1>3 DEF DeleteRows, DeleteRequests, NoRequest
  <2>2. q.value.kinds \in SUBSET Kinds /\ q.project \in Projects
    BY <2>1, RemindersAssumption DEF SettingsRequests
  <2>3. r \in SettingsRequests
    BY <2>1, <2>2 DEF SettingsRequests
  <2>4. request' = [request EXCEPT ![u] = r] /\ rows' = [rows EXCEPT ![q.project] = {}]
        /\ UNCHANGED <<project, nextId, edits, orderly>>
    BY <1>3 DEF DeleteRows, UsersOK
  <2>5. RequestOK(r, nextId')
    BY <2>3 DEF RequestOK
  <2>. HIDE DEF r, q
  <2>6. DOMAIN request' = Users /\ \A v \in Users : RequestOK(request'[v], nextId')
    BY <2>4, <2>5, RequestReplaced DEF UsersOK
  <2>. QED
    BY <2>2, <2>4, <2>6 DEF UsersOK
<1>4. CASE InsertRow(u)
  <2>1. q \in SettingsRequests
    BY <1>4 DEF InsertRow, DeleteRequests, NoRequest
  <2>2. PICK k \in q.todo :
          /\ rows' = [rows EXCEPT ![q.project] =
                       @ \cup {[id |-> nextId, mode |-> k.mode, day |-> k.day]}]
          /\ request' = [request EXCEPT ![u].todo = @ \ {k}]
    BY <1>4 DEF InsertRow
  <2> DEFINE new == [id |-> nextId, mode |-> k.mode, day |-> k.day]
             r == [q EXCEPT !.todo = @ \ {k}]
  <2>3. nextId' = nextId + 1 /\ nextId' \in Nat /\ UNCHANGED <<project, edits, orderly>>
    BY <1>4 DEF InsertRow, UsersOK
  <2>4. new \in ReminderRows /\ new.id < nextId' /\ q.project \in Projects
    BY <2>1, <2>3 DEF SettingsRequests, Kinds, ReminderRows, UsersOK
  <2>5. r \in SettingsRequests
    BY <2>1 DEF SettingsRequests
  <2>6. request' = [request EXCEPT ![u] = r]
    BY <2>2 DEF UsersOK
  <2>7. RequestOK(r, nextId')
    BY <2>5 DEF RequestOK
  <2>8. rows' = [rows EXCEPT ![q.project] = @ \cup {new}]
    BY <2>2
  <2>. HIDE DEF new, r, q
  <2>9. DOMAIN request' = Users /\ \A v \in Users : RequestOK(request'[v], nextId')
    <3>1. nextId <= nextId'
      BY <2>3 DEF UsersOK
    <3>. QED
      BY <2>3, <2>6, <2>7, <3>1, RequestReplaced
  <2>10. rows' \in [Projects -> SUBSET ReminderRows]
    BY <2>4, <2>8 DEF UsersOK
  <2>11. \A p \in Projects : \A x \in rows'[p] : x.id < nextId'
    <3>1. \A p \in Projects : \A x \in rows[p] : x.id < nextId /\ x.id \in Nat
      BY DEF UsersOK, ReminderRows
    <3>2. \A p \in Projects : \A x \in rows[p] : x.id < nextId'
      BY <3>1, <2>3 DEF UsersOK
    <3>3. \A p \in Projects : \A x \in rows'[p] : x \in rows[p] \/ x = new
      BY <2>8 DEF UsersOK
    <3>. QED
      BY <2>4, <3>2, <3>3
  <2>. QED
    BY <2>3, <2>9, <2>10, <2>11 DEF UsersOK
<1>5. CASE SaveSettings(u)
  <2>1. q \in SettingsRequests
    BY <1>5 DEF SaveSettings, DeleteRequests, NoRequest
  <2>2. q.project \in Projects /\ q.value \in Forms
    BY <2>1 DEF SettingsRequests
  <2>3. [project[q.project] EXCEPT !.form = q.value] \in Documents
    BY <2>2 DEF UsersOK, Documents
  <2>. QED
    BY <1>5, <2>3, SavedDocument DEF SaveSettings
<1>6. CASE FetchRows(u)
  <2> DEFINE r == [q EXCEPT !.at = "void", !.todo = rows[q.project]]
  <2>1. q \in DeleteRequests
    BY <1>6 DEF FetchRows, SettingsRequests, NoRequest
  <2>2. q.project \in Projects /\ rows[q.project] \in SUBSET ReminderRows
        /\ \A x \in rows[q.project] : x.id < nextId
    BY <2>1 DEF DeleteRequests, UsersOK
  <2>3. r \in DeleteRequests /\ \A x \in r.todo : x.id < nextId
    BY <2>1, <2>2 DEF DeleteRequests
  <2>4. request' = [request EXCEPT ![u] = r] /\ UNCHANGED <<project, rows, nextId, edits, orderly>>
    BY <1>6 DEF FetchRows, UsersOK
  <2>. HIDE DEF r, q
  <2>5. RequestOK(r, nextId')
    BY <2>3, <2>4 DEF RequestOK
  <2>6. DOMAIN request' = Users /\ \A v \in Users : RequestOK(request'[v], nextId')
    BY <2>4, <2>5, RequestReplaced DEF UsersOK
  <2>. QED
    BY <2>4, <2>6 DEF UsersOK
<1>7. CASE VoidReminder(u)
  <2>1. q \in DeleteRequests /\ \A x \in q.todo : x.id < nextId
    BY <1>7 DEF VoidReminder, RequestOK, SettingsRequests, NoRequest
  <2>2. PICK x \in q.todo :
          /\ rows' = [rows EXCEPT ![q.project] = @ \cup {x}]
          /\ request' = [request EXCEPT ![u].todo = @ \ {x}]
    BY <1>7 DEF VoidReminder
  <2> DEFINE r == [q EXCEPT !.todo = @ \ {x}]
  <2>3. x \in ReminderRows /\ x.id < nextId /\ q.project \in Projects
        /\ UNCHANGED <<project, nextId, edits, orderly>>
    BY <1>7, <2>1 DEF DeleteRequests, VoidReminder
  <2>4. r \in DeleteRequests /\ \A y \in r.todo : y.id < nextId
    BY <2>1 DEF DeleteRequests
  <2>5. request' = [request EXCEPT ![u] = r]
    BY <2>2 DEF UsersOK
  <2>. HIDE DEF r, q
  <2>6. RequestOK(r, nextId')
    BY <2>3, <2>4 DEF RequestOK
  <2>7. DOMAIN request' = Users /\ \A v \in Users : RequestOK(request'[v], nextId')
    BY <2>3, <2>5, <2>6, RequestReplaced DEF UsersOK
  <2>. QED
    BY <2>2, <2>3, <2>7 DEF UsersOK
<1>8. CASE SetVoid(u)
  <2>1. q \in DeleteRequests
    BY <1>8 DEF SetVoid, SettingsRequests, NoRequest
  <2>2. q.project \in Projects /\ q.value \in BOOLEAN
    BY <2>1 DEF DeleteRequests
  <2>3. [project[q.project] EXCEPT !.void = q.value] \in Documents
    BY <2>2 DEF UsersOK, Documents
  <2>. QED
    BY <1>8, <2>3, SavedDocument DEF SetVoid
<1>9. CASE RequestFails(u)
  <2>1. request' = [request EXCEPT ![u] = NoRequest] /\ UNCHANGED <<project, rows, nextId, edits>>
        /\ orderly' \in BOOLEAN
    BY <1>9 DEF RequestFails
  <2>2. RequestOK(NoRequest, nextId')
    BY DEF RequestOK, NoRequest
  <2>3. DOMAIN request' = Users /\ \A v \in Users : RequestOK(request'[v], nextId')
    BY <2>1, <2>2, RequestReplaced DEF UsersOK
  <2>. QED
    BY <2>1, <2>3 DEF UsersOK
<1>. QED
  BY <1>1, <1>2, <1>3, <1>4, <1>5, <1>6, <1>7, <1>8, <1>9 DEF UserStep

LEMMA UserTypeStep ==
  ASSUME TypeOK, NEW u \in Users, UserStep(u)
  PROVE  TypeOK'
<1>1. UsersOK
  BY DEF TypeOK, UsersOK
<1>2. UsersOK'
  BY <1>1, UserShape
<1>3. UNCHANGED <<today, submitted, ranOn, job, inbox, logged, counted>>
  BY UserLeaves DEF jobVars
<1>4. JobOK'
  BY <1>3 DEF TypeOK, JobOK
<1>5. failures' \in Nat
  BY DEF TypeOK, UserStep, SettingsPosted, DeletePosted, Starts, DeleteRows, InsertRow, SaveSettings,
         FetchRows, VoidReminder, SetVoid, SaveDocument, RequestFails, Fails
<1>6. spoilt' \subseteq Nat
  <2>1. /\ spoilt \subseteq Nat /\ {nextId} \subseteq Nat
        /\ request[u].at \in {"insert", "void"} => Ids(rows[request[u].project]) \subseteq Nat
        /\ request[u].at = "void" => \A r \in request[u].todo : {r.id} \subseteq Nat
    <3>1. RequestOK(request[u], nextId)
      BY DEF TypeOK
    <3>2. /\ request[u].at \in {"insert", "void"} => request[u].project \in Projects
          /\ request[u].at = "void" => request[u].todo \subseteq ReminderRows
      BY <3>1 DEF RequestOK, NoRequest, SettingsRequests, DeleteRequests
    <3>. QED
      BY <1>1, <3>2, RowIds DEF TypeOK, ReminderRows
  <2>2. \/ spoilt' = spoilt
        \/ Spoil({nextId})
        \/ request[u].at \in {"insert", "void"} /\ Spoil(Ids(rows[request[u].project]))
        \/ request[u].at = "void" /\ \E r \in request[u].todo : Spoil({r.id})
    BY DEF UserStep, SettingsPosted, DeletePosted, Starts, DeleteRows, InsertRow, SaveSettings,
           FetchRows, VoidReminder, SetVoid, SaveDocument, RequestFails
  <2>. QED
    BY <2>1, <2>2, SpoilType
<1>. QED
  BY <1>2, <1>3, <1>4, <1>5, <1>6 DEF TypeOK, UsersOK

LEMMA TypeStep == TypeOK /\ [Next]_vars => TypeOK'
<1>. SUFFICES ASSUME TypeOK, [Next]_vars PROVE TypeOK'
  OBVIOUS
<1>1. CASE Job
  BY <1>1, JobTypeStep
<1>2. ASSUME NEW u \in Users, UserStep(u)
      PROVE  TypeOK'
  BY <1>2, UserTypeStep
<1>3. ASSUME NEW s \in Senders, NEW p \in Projects, Submit(s, p)
      PROVE  TypeOK'
  <2>1. <<p, s, today>> \in Projects \X Senders \X (FirstToday..today)
    BY Settled
  <2>2. UNCHANGED <<today, ranOn, job, inbox, logged, counted, project, rows, nextId, request, edits,
                    orderly, failures, spoilt>>
    BY <1>3 DEF Submit, jobVars, userVars
  <2>3. submitted' \subseteq Projects \X Senders \X (FirstToday..today)
    BY <1>3, <2>1 DEF Submit, TypeOK
  <2>. QED
    BY <2>2, <2>3 DEF TypeOK, JobOK, RequestOK
<1>4. CASE NextDay
  <2>1. UNCHANGED <<submitted, ranOn, job, inbox, logged, counted, project, rows, nextId, request, edits,
                    orderly, failures>>
        /\ today' = today + 1 /\ spoilt' = {} /\ today < LastToday
    BY <1>4 DEF NextDay, jobVars, userVars
  <2>2. today' \in FirstToday..LastToday /\ ranOn' \in FirstToday-1..today'
        /\ \A n \in FirstToday..today : n \in FirstToday..today'
    BY <2>1, Settled DEF TypeOK
  <2>3. submitted' \subseteq Projects \X Senders \X (FirstToday..today')
    BY <2>1, <2>2 DEF TypeOK
  <2>. QED
    BY <2>1, <2>2, <2>3 DEF TypeOK, JobOK, RequestOK
<1>5. CASE UNCHANGED vars
  BY <1>5 DEF vars, jobVars, userVars, TypeOK, JobOK, RequestOK
<1>. QED
  BY <1>1, <1>2, <1>3, <1>4, <1>5 DEF Next

(* Reminders.tla: the state keeps its shape; in particular no primary key  *)
(* is used twice, and the job always holds what its next query needs.      *)
THEOREM RemindersType == Spec => []TypeOK
BY TypeInit, TypeStep, PTL DEF Spec

-----------------------------------------------------------------------------
(* deadline.py, for every calendar and every day of the model.             *)
THEOREM DeadlinesAlwaysInOrder == Spec => []DeadlinesInOrder
<1>1. TypeOK => DeadlinesInOrder
  BY Settled, DeadlinesAreNeighbours DEF DeadlinesInOrder
<1>. QED
  BY <1>1, RemindersType, PTL

THEOREM PeriodsAlwaysTile == Spec => []PeriodsTile
<1>1. TypeOK => PeriodsTile
  BY Settled, PeriodsAreNeighbours DEF PeriodsTile
<1>. QED
  BY <1>1, RemindersType, PTL

-----------------------------------------------------------------------------
(* Once a deadline.  No SMS of day n for row r of project p is in the box. *)
Unsent(box, n, p, r) ==
  \A i \in DOMAIN box : ~(box[i].project = p /\ box[i].row = r /\ box[i].day = n)

(* The boxes: the day of an SMS is the one its deadline asks for, and the  *)
(* SMS of one row come on different days.                                  *)
BoxesInOrder ==
  \A s \in Senders :
    /\ \A i \in DOMAIN inbox[s] :
         LET m == inbox[s][i] IN m.day <= ranOn /\ m.day = m.deadline + Delta(m.row)
    /\ \A i, j \in DOMAIN inbox[s] :
         i < j /\ inbox[s][i].project = inbox[s][j].project /\ inbox[s][i].row = inbox[s][j].row
           => inbox[s][i].day < inbox[s][j].day

(* The job: what it has not sent yet is what nobody has got today.         *)
Running == job.at \in {"reminders", "send", "log"}
Sending == job.at \in {"send", "log"}

ListedUnsent ==
  \A p \in Projects : \A r \in job.listed[p] : \A s \in Senders : Unsent(inbox[s], today, p, r)
DueUnsent ==
  \A r \in job.due : /\ ShouldBeSentOn(job.doc.form.deadline, r, today)
                     /\ \A s \in Senders : Unsent(inbox[s], today, job.project, r)
RowUnsent ==
  /\ job.row \notin job.due /\ ShouldBeSentOn(job.doc.form.deadline, job.row, today)
  /\ \A s \in job.list : Unsent(inbox[s], today, job.project, job.row)

JobInOrder ==
  /\ job.at # "idle" => ranOn = today /\ ListedUnsent
  /\ Running => job.listed[job.project] = {} /\ DueUnsent
  /\ Sending => RowUnsent

OnceInv == TypeOK /\ BoxesInOrder /\ JobInOrder

LEMMA OnceInit == Init => OnceInv
<1>. SUFFICES ASSUME Init PROVE OnceInv
  OBVIOUS
<1>1. TypeOK
  BY TypeInit
<1>2. BoxesInOrder
  BY DEF Init, BoxesInOrder
<1>3. JobInOrder
  BY DEF Init, NoJob, JobInOrder, Running, Sending
<1>. QED
  BY <1>1, <1>2, <1>3 DEF OnceInv

(* When a night starts nobody has got anything of the day.                 *)
LEMMA NightIsNew ==
  ASSUME OnceInv, ranOn < today
  PROVE  \A s \in Senders : \A p, r : Unsent(inbox[s], today, p, r)
<1>1. \A s \in Senders : \A i \in DOMAIN inbox[s] : inbox[s][i].day <= ranOn /\ inbox[s][i].day \in Int
  <2>1. ASSUME NEW s \in Senders, NEW i \in DOMAIN inbox[s]
        PROVE  inbox[s][i].day \in Int
    <3>1. inbox[s] \in Seq(Messages)
      BY DEF OnceInv, TypeOK
    <3>2. inbox[s][i] \in Messages
      BY <3>1, ElementOfSeq
    <3>. QED
      BY <3>2, Settled DEF Messages, OnceInv
  <2>. QED
    BY <2>1 DEF OnceInv, BoxesInOrder
<1>. QED
  BY <1>1, Settled DEF Unsent, OnceInv

(* Steps that leave boxes, days and the job alone.                         *)
LEMMA OnceKept ==
  ASSUME OnceInv, UNCHANGED <<today, ranOn, inbox, job>>
  PROVE  BoxesInOrder' /\ JobInOrder'
BY DEF OnceInv, BoxesInOrder, JobInOrder, Running, Sending, ListedUnsent, DueUnsent, RowUnsent

(* Steps of the job that send nothing.                                     *)
LEMMA OnceQuiet ==
  ASSUME OnceInv, UNCHANGED <<today, inbox, ranOn>>, Job, job.at # "idle"
  PROVE  BoxesInOrder' /\ JobInOrder'
<1>1. BoxesInOrder'
  BY DEF OnceInv, BoxesInOrder
<1>2. ranOn = today /\ ListedUnsent /\ job \in Jobs
  BY DEF OnceInv, JobInOrder, TypeOK, JobOK
<1>. SUFFICES JobInOrder'
  BY <1>1
<1>. USE DEF JobInOrder, Running, Sending
<1>3. CASE job' = NoJob
  BY <1>3 DEF NoJob
<1>4. CASE job' = [NoJob EXCEPT !.at = "projects", !.listed = job.listed]
  <2>1. job'.at = "projects" /\ job'.listed = job.listed
    BY <1>4 DEF NoJob
  <2>. QED
    BY <1>2, <2>1 DEF ListedUnsent
<1>5. CASE \E p \in Projects : job.at = "projects" /\ job' = [job EXCEPT !.listed[p] = {}]
  <2>1. job'.at = "projects" /\ \A p \in Projects : job'.listed[p] \subseteq job.listed[p]
    BY <1>2, <1>5 DEF Jobs
  <2>. QED
    BY <1>2, <2>1 DEF ListedUnsent
<1>6. ASSUME NEW p \in Projects, LoadProject(p)
      PROVE  JobInOrder'
  <2>1. /\ job'.at = "reminders" /\ job'.project = p /\ job'.doc = project[p]
        /\ job'.due = {r \in job.listed[p] : ShouldBeSentOn(project[p].form.deadline, r, today)}
        /\ job'.listed = [job.listed EXCEPT ![p] = {}]
    BY <1>2, <1>6 DEF LoadProject, Jobs
  <2>2. \A q \in Projects : job'.listed[q] \subseteq job.listed[q]
    BY <1>2, <2>1 DEF Jobs
  <2>3. job'.listed[job'.project] = {}
    BY <1>2, <2>1 DEF Jobs
  <2>4. DueUnsent'
    BY <1>2, <2>1 DEF DueUnsent, ListedUnsent
  <2>5. ListedUnsent'
    BY <1>2, <2>2 DEF ListedUnsent
  <2>. QED
    BY <1>2, <2>1, <2>3, <2>4, <2>5
<1>7. ASSUME NEW r \in job.due, FetchSenders(r)
      PROVE  JobInOrder'
  <2>1. /\ job.at = "reminders" /\ job'.listed = job.listed /\ job'.project = job.project
        /\ job'.doc = job.doc /\ job'.due = job.due \ {r} /\ job'.list \subseteq Senders \cup job.list
        /\ job'.at = "send" => job'.row = r /\ job'.list \subseteq Senders
        /\ job'.at \in {"reminders", "send"}
    BY <1>2, <1>7 DEF FetchSenders, Jobs
  <2>2. DueUnsent /\ job.listed[job.project] = {}
    BY <2>1 DEF OnceInv
  <2>3. DueUnsent' /\ ListedUnsent'
    BY <1>2, <2>1, <2>2 DEF DueUnsent, ListedUnsent
  <2>4. job'.at = "send" => RowUnsent'
    BY <2>1, <2>2 DEF DueUnsent, RowUnsent
  <2>. QED
    BY <1>2, <2>1, <2>2, <2>3, <2>4
<1>8. CASE /\ Running /\ job'.listed = job.listed /\ job'.project = job.project /\ job'.doc = job.doc
           /\ job'.due \subseteq job.due /\ job'.at = "reminders"
  <2>1. DueUnsent /\ job.listed[job.project] = {}
    BY <1>8 DEF OnceInv
  <2>2. DueUnsent' /\ ListedUnsent'
    BY <1>2, <1>8, <2>1 DEF DueUnsent, ListedUnsent
  <2>. QED
    BY <1>2, <1>8, <2>1, <2>2
<1>9. CASE /\ Sending /\ job'.listed = job.listed /\ job'.project = job.project /\ job'.doc = job.doc
           /\ job'.due = job.due /\ job'.row = job.row /\ job'.list \subseteq job.list /\ job'.at = "send"
  <2>1. DueUnsent /\ RowUnsent /\ job.listed[job.project] = {}
    BY <1>9 DEF OnceInv
  <2>2. DueUnsent' /\ ListedUnsent' /\ RowUnsent'
    BY <1>2, <1>9, <2>1 DEF DueUnsent, ListedUnsent, RowUnsent
  <2>. QED
    BY <1>2, <1>9, <2>1, <2>2
<1>10. CASE EndNight \/ JobDies
  BY <1>3, <1>10 DEF EndNight, JobDies
<1>11. CASE Log
  BY <1>2, <1>9, <1>11 DEF Log, Jobs
<1>12. CASE ReminderDone
  BY <1>2, <1>8, <1>12 DEF ReminderDone, Jobs
<1>13. CASE CountReminders
  BY <1>4, <1>13 DEF CountReminders
<1>14. CASE \E s \in Senders : Refused(s)
  BY <1>2, <1>9, <1>14 DEF Refused, Jobs
<1>15. CASE ReminderFails
  BY <1>2, <1>8, <1>15 DEF ReminderFails, Jobs
<1>16. CASE ProjectFails
  BY <1>4, <1>5, <1>16 DEF ProjectFails
<1>17. CASE StartNight
  BY <1>17 DEF StartNight
<1>18. ASSUME NEW s \in Senders, Send(s)
       PROVE  FALSE
  <2>1. inbox[s] \in Seq(Messages) /\ inbox'[s] = Append(inbox[s], Message)
    BY <1>18 DEF Send, OnceInv, TypeOK
  <2>. QED
    BY <2>1, AppendProperties
<1>. QED
  BY <1>6, <1>7, <1>10, <1>11, <1>12, <1>13, <1>14, <1>15, <1>16, <1>17, <1>18 DEF Job

LEMMA OnceStart ==
  ASSUME OnceInv, StartNight
  PROVE  BoxesInOrder' /\ JobInOrder'
<1>1. /\ UNCHANGED <<today, inbox, rows>> /\ ranOn' = today /\ ranOn < today
      /\ job'.at = "projects" /\ job'.listed = rows
  BY Settled DEF StartNight, userVars, NoJob, OnceInv
<1>2. \A s \in Senders : \A p, r : Unsent(inbox[s], today, p, r)
  BY <1>1, NightIsNew
<1>3. rows \in [Projects -> SUBSET ReminderRows]
  BY DEF OnceInv, TypeOK
<1>4. JobInOrder'
  BY <1>1, <1>2 DEF JobInOrder, Running, Sending, ListedUnsent
<1>5. BoxesInOrder'
  <2>1. ASSUME NEW s \in Senders, NEW i \in DOMAIN inbox[s]
        PROVE  inbox[s][i].day <= today
    <3>1. inbox[s] \in Seq(Messages)
      BY DEF OnceInv, TypeOK
    <3>2. inbox[s][i] \in Messages
      BY <3>1, ElementOfSeq
    <3>. QED
      BY <3>2, <1>1, Settled DEF Messages, OnceInv, BoxesInOrder
  <2>. QED
    BY <1>1, <2>1 DEF OnceInv, BoxesInOrder
<1>. QED
  BY <1>4, <1>5

LEMMA OnceSend ==
  ASSUME OnceInv, NEW s \in Senders, Send(s)
  PROVE  BoxesInOrder' /\ JobInOrder'
<1>1. /\ Sending /\ job.at # "idle" /\ s \in job.list
      /\ UNCHANGED <<today, ranOn>> /\ inbox' = [inbox EXCEPT ![s] = Append(@, Message)]
      /\ job' = [job EXCEPT !.at = "log", !.list = @ \ {s}, !.sent = @ + 1]
  BY DEF Send, Sending
<1>2. /\ TypeOK /\ job \in Jobs /\ job.project \in Projects /\ ranOn = today
      /\ ListedUnsent /\ DueUnsent /\ RowUnsent /\ job.listed[job.project] = {}
  BY <1>1 DEF OnceInv, JobInOrder, Running, Sending, TypeOK, JobOK
<1>3. /\ job'.at = "log" /\ job'.list = job.list \ {s} /\ job'.due = job.due /\ job'.row = job.row
      /\ job'.listed = job.listed /\ job'.project = job.project /\ job'.doc = job.doc
  BY <1>1, <1>2 DEF Jobs
<1>4. /\ inbox \in [Senders -> Seq(Messages)] /\ inbox[s] \in Seq(Messages)
      /\ inbox'[s] = Append(inbox[s], Message)
      /\ \A t \in Senders \ {s} : inbox'[t] = inbox[t]
  BY <1>1, <1>2 DEF TypeOK
<1>5. /\ Message.project = job.project /\ Message.row = job.row /\ Message.day = today
      /\ Message.day = Message.deadline + Delta(Message.row)
  BY <1>2 DEF Message, RowUnsent, ShouldBeSentOn
<1> DEFINE b == inbox[s]
           c == inbox'[s]
<1>6. /\ Len(b) \in Nat /\ DOMAIN b = 1..Len(b) /\ DOMAIN c = 1..Len(b)+1
      /\ c[Len(b)+1] = Message /\ \A i \in 1..Len(b) : c[i] = b[i]
  <2>1. Message \in {Message} \cup Messages /\ b \in Seq({Message} \cup Messages)
    BY <1>4
  <2>. HIDE DEF Message
  <2>. QED
    BY <2>1, <1>4, AppendProperties, LenProperties
<1>. HIDE DEF Message, b, c
<1>7. \A i \in DOMAIN c : i \in DOMAIN b \/ i = Len(b)+1
  BY <1>6
<1>8. BoxesInOrder'
  <2>1. ASSUME NEW i \in DOMAIN c
        PROVE  c[i].day <= ranOn /\ c[i].day = c[i].deadline + Delta(c[i].row)
    <3>1. CASE i \in DOMAIN b
      BY <1>6, <3>1 DEF OnceInv, BoxesInOrder, b
    <3>2. CASE i = Len(b)+1
      BY <1>2, <1>5, <1>6, <3>2, Settled
    <3>. QED
      BY <1>7, <3>1, <3>2
  <2>2. ASSUME NEW i \in DOMAIN c, NEW j \in DOMAIN c, i < j,
               c[i].project = c[j].project, c[i].row = c[j].row
        PROVE  c[i].day < c[j].day
    <3>1. i \in DOMAIN b /\ c[i] = b[i]
      BY <1>6, <2>2
    <3>2. CASE j \in DOMAIN b
      BY <1>6, <2>2, <3>1, <3>2 DEF OnceInv, BoxesInOrder, b
    <3>3. CASE j = Len(b)+1
      <4>1. b[i].project = job.project /\ b[i].row = job.row
        BY <1>5, <1>6, <2>2, <3>1, <3>3
      <4>2. b[i].day # today
        BY <1>1, <1>2, <3>1, <4>1 DEF RowUnsent, Unsent, b
      <4>3. b[i].day <= today /\ b[i].day \in Int
        <5>1. b[i] \in Messages
          BY <1>4, <1>6, <3>1, ElementOfSeq DEF b
        <5>. QED
          BY <5>1, <1>2, <3>1, Settled DEF OnceInv, BoxesInOrder, Messages, b
      <4>. QED
        BY <1>5, <1>6, <3>1, <3>3, <4>2, <4>3, <1>2, Settled
    <3>. QED
      BY <1>7, <3>2, <3>3
  <2>3. \A t \in Senders \ {s} : inbox'[t] = inbox[t] /\ inbox'[s] = c /\ ranOn' = ranOn
    BY <1>1, <1>4 DEF c
  <2>. QED
    BY <1>1, <2>1, <2>2, <2>3 DEF OnceInv, BoxesInOrder, c
<1>9. ASSUME NEW p, NEW r, NEW t \in Senders, p # job.project \/ r # job.row \/ t # s,
             Unsent(inbox[t], today, p, r)
      PROVE  Unsent(inbox'[t], today, p, r)
  <2>1. CASE t = s
    BY <1>5, <1>6, <1>7, <1>9, <2>1 DEF Unsent, b, c
  <2>2. CASE t # s
    BY <1>4, <1>9, <2>2
  <2>. QED
    BY <2>1, <2>2
<1>10. ListedUnsent'
  <2>1. \A p \in Projects : \A r \in job.listed[p] : p # job.project
    BY <1>2
  <2>. QED
    BY <1>1, <1>2, <1>3, <1>9, <2>1 DEF ListedUnsent
<1>11. DueUnsent'
  <2>1. \A r \in job.due : r # job.row
    BY <1>2 DEF RowUnsent
  <2>2. ASSUME NEW r \in job.due
        PROVE  /\ ShouldBeSentOn(job.doc.form.deadline, r, today)
               /\ \A t \in Senders : Unsent(inbox'[t], today, job.project, r)
    <3>1. /\ ShouldBeSentOn(job.doc.form.deadline, r, today)
          /\ \A t \in Senders : Unsent(inbox[t], today, job.project, r)
      BY <1>2 DEF DueUnsent
    <3>. QED
      BY <1>9, <2>1, <3>1
  <2>. QED
    BY <1>1, <1>3, <2>2 DEF DueUnsent
<1>12. RowUnsent'
  <2>1. job.list \subseteq Senders
    BY <1>2 DEF Jobs
  <2>. QED
    BY <1>1, <1>2, <1>3, <1>9, <2>1 DEF RowUnsent
<1>. QED
  BY <1>1, <1>2, <1>3, <1>8, <1>10, <1>11, <1>12 DEF JobInOrder, Running, Sending

LEMMA OnceStep == OnceInv /\ [Next]_vars => OnceInv'
<1>. SUFFICES ASSUME OnceInv, [Next]_vars PROVE OnceInv'
  OBVIOUS
<1>1. TypeOK'
  BY TypeStep DEF OnceInv
<1>. SUFFICES BoxesInOrder' /\ JobInOrder'
  BY <1>1 DEF OnceInv
<1>2. CASE StartNight
  BY <1>2, OnceStart
<1>3. CASE \E s \in Senders : Send(s)
  BY <1>3, OnceSend
<1>4. CASE Job /\ ~StartNight /\ ~\E s \in Senders : Send(s)
  <2>1. UNCHANGED <<today, inbox, ranOn>> /\ job.at # "idle"
    BY <1>4 DEF Job, EndNight, Log, ReminderDone, CountReminders, LoadProject,
                FetchSenders, Refused, ReminderFails, ProjectFails, JobDies
  <2>. QED
    BY <1>4, <2>1, OnceQuiet
<1>5. CASE \E u \in Users : UserStep(u)
  BY <1>5, UserLeaves, OnceKept DEF jobVars
<1>6. CASE \E s \in Senders, p \in Projects : Submit(s, p)
  BY <1>6, OnceKept DEF Submit, jobVars
<1>7. CASE NextDay
  <2>1. job.at = "idle" /\ UNCHANGED <<ranOn, inbox, job>>
    BY <1>7 DEF NextDay, jobVars
  <2>. QED
    BY <2>1 DEF OnceInv, BoxesInOrder, JobInOrder, Running, Sending
<1>8. CASE UNCHANGED vars
  BY <1>8, OnceKept DEF vars, jobVars
<1>. QED
  BY <1>2, <1>3, <1>4, <1>5, <1>6, <1>7, <1>8 DEF Next

LEMMA OnceInvariant == Spec => []OnceInv
BY OnceInit, OnceStep, PTL DEF Spec

(* scheduler.py: whatever is edited, refused or fails, a reminder reaches  *)
(* a data sender at most once for a deadline, and deadlines in order.      *)
THEOREM RemindedOnce == Spec => []OnceADeadline
<1>1. ASSUME OnceInv
      PROVE  OnceADeadline
  <2>1. ASSUME NEW s \in Senders, NEW i \in DOMAIN inbox[s], NEW j \in DOMAIN inbox[s], i < j,
               inbox[s][i].project = inbox[s][j].project, inbox[s][i].row = inbox[s][j].row
        PROVE  inbox[s][i].deadline < inbox[s][j].deadline
    <3> DEFINE m == inbox[s][i]
               n == inbox[s][j]
    <3>1. m.day < n.day /\ m.day = m.deadline + Delta(m.row) /\ n.day = n.deadline + Delta(n.row)
      BY <1>1, <2>1 DEF OnceInv, BoxesInOrder
    <3>2. m \in Messages /\ n \in Messages
      <4>1. inbox[s] \in Seq(Messages)
        BY <1>1 DEF OnceInv, TypeOK
      <4>. QED
        BY <4>1, ElementOfSeq
    <3>3. m.deadline \in Int /\ n.deadline \in Int /\ m.row \in ReminderRows
      BY <3>2 DEF Messages
    <3>4. Delta(m.row) \in Int
      BY <3>3 DEF ReminderRows, Modes, Delta
    <3>. QED
      BY <2>1, <3>1, <3>3, <3>4
  <2>. QED
    BY <2>1 DEF OnceADeadline
<1>. QED
  BY <1>1, OnceInvariant, PTL

-----------------------------------------------------------------------------
(* The punctual.  Data sender s has no response in the period before day n.*)
Lateness(sub, p, s, period, n) ==
  \A d \in period.start .. period.end : <<p, s, d>> \in sub => d >= n

JobPeriod ==
  Period(job.doc.form.deadline, ApplicableDeadline(job.doc.form.deadline, job.row, today))

ListIsLate ==
  Sending /\ job.certain /\ ~job.doc.form.toAll
    => \A s \in job.list : Lateness(submitted, job.project, s, JobPeriod, today)

MessageIsLate(s, m) ==
  m.certain /\ ~m.form.toAll
    => Lateness(submitted, m.project, s, Period(m.form.deadline, m.deadline), m.day)

BoxesAreLate == \A s \in Senders : \A i \in DOMAIN inbox[s] : MessageIsLate(s, inbox[s][i])

PunctualInv == OnceInv /\ BoxesAreLate /\ ListIsLate

LEMMA ListStaysLate ==
  ASSUME PunctualInv, Job, ~\E s \in Senders : Send(s)
  PROVE  ListIsLate'
<1>1. UNCHANGED <<today, submitted>> /\ job \in Jobs
  BY DEF Job, StartNight, EndNight, Log, ReminderDone, CountReminders, LoadProject,
         FetchSenders, Refused, ReminderFails, ProjectFails, JobDies, PunctualInv, OnceInv, TypeOK, JobOK
<1>2. CASE ~(job'.at \in {"send", "log"})
  BY <1>2 DEF ListIsLate, Sending
<1>3. CASE Sending /\ \E list \in SUBSET job.list : job' = [job EXCEPT !.at = "send", !.list = list]
  <2>1. /\ job'.project = job.project /\ job'.doc = job.doc /\ job'.row = job.row
        /\ job'.certain = job.certain /\ job'.list \subseteq job.list
    BY <1>1, <1>3 DEF Jobs
  <2>. QED
    BY <1>1, <1>3, <2>1 DEF PunctualInv, ListIsLate, JobPeriod
<1>4. ASSUME NEW r \in job.due, FetchSenders(r), job'.at = "send"
      PROVE  ListIsLate'
  <2> DEFINE form == job.doc.form
             n == ApplicableDeadline(form.deadline, r, today)
  <2>1. /\ job'.project = job.project /\ job'.doc = job.doc /\ job'.row = r
        /\ job'.certain => job'.list = SenderList(job.project, form, n)
    BY <1>1, <1>4 DEF FetchSenders, Jobs
  <2>2. ASSUME job'.certain, ~form.toAll, NEW s \in job'.list
        PROVE  Lateness(submitted, job.project, s, Period(form.deadline, n), today)
    <3>1. s \in Senders /\ s \notin SubmittedIn(job.project, Period(form.deadline, n))
      BY <2>1, <2>2 DEF SenderList
    <3>. QED
      BY <3>1 DEF SubmittedIn, Lateness
  <2>. QED
    BY <1>1, <2>1, <2>2 DEF ListIsLate, JobPeriod
<1>5. CASE Log
  <2>1. job' = [job EXCEPT !.at = "send", !.list = job.list] /\ Sending
    BY <1>1, <1>5 DEF Log, Jobs, Sending
  <2>. QED
    BY <1>3, <2>1
<1>6. ASSUME NEW s \in Senders, Refused(s)
      PROVE  ListIsLate'
  <2>1. job' = [job EXCEPT !.at = "send", !.list = job.list \ {s}] /\ Sending
    BY <1>1, <1>6 DEF Refused, Jobs, Sending
  <2>. QED
    BY <1>3, <2>1
<1>7. CASE StartNight \/ EndNight \/ ReminderDone \/ CountReminders \/ ReminderFails \/ ProjectFails
           \/ JobDies \/ \E p \in Projects : LoadProject(p)
  <2>1. ~(job'.at \in {"send", "log"})
    <3>1. CASE StartNight \/ EndNight \/ CountReminders \/ JobDies
      <4>1. CASE StartNight
        BY <4>1 DEF StartNight, NoJob
      <4>2. CASE EndNight \/ JobDies
        <5>1. job' = NoJob
          BY <4>2 DEF EndNight, JobDies
        <5>. QED
          BY <5>1 DEF NoJob
      <4>3. CASE CountReminders
        BY <4>3 DEF CountReminders, NoJob
      <4>. QED
        BY <3>1, <4>1, <4>2, <4>3
    <3>2. CASE ReminderDone
      BY <1>1, <3>2 DEF ReminderDone, Jobs
    <3>3. CASE ReminderFails
      <4>1. CASE job.at = "reminders" /\ \E r \in job.due : job' = [job EXCEPT !.due = @ \ {r}]
        BY <1>1, <4>1 DEF Jobs
      <4>2. CASE job' = [job EXCEPT !.at = "reminders", !.row = None, !.list = {},
                                    !.certain = TRUE, !.sent = 0]
        BY <1>1, <4>2 DEF Jobs
      <4>. QED
        BY <3>3, <4>1, <4>2 DEF ReminderFails
    <3>4. CASE ProjectFails
      <4>1. CASE job.at = "projects" /\ \E p \in Projects : job' = [job EXCEPT !.listed[p] = {}]
        BY <1>1, <4>1 DEF Jobs
      <4>2. CASE job' = [NoJob EXCEPT !.at = "projects", !.listed = job.listed]
        BY <4>2 DEF NoJob
      <4>. QED
        BY <3>4, <4>1, <4>2 DEF ProjectFails
    <3>5. ASSUME NEW p \in Projects, LoadProject(p)
          PROVE  job'.at = "reminders"
      BY <1>1, <3>5 DEF LoadProject, Jobs
    <3>. QED
      BY <1>7, <3>1, <3>2, <3>3, <3>4, <3>5
  <2>. QED
    BY <1>2, <2>1
<1>8. ASSUME NEW r \in job.due, FetchSenders(r)
      PROVE  ListIsLate'
  <2>1. job'.at \in {"send", "reminders"}
    BY <1>1, <1>8 DEF FetchSenders, Jobs
  <2>. QED
    BY <1>2, <1>4, <1>8, <2>1
<1>. QED
  BY <1>5, <1>6, <1>7, <1>8 DEF Job

LEMMA PunctualSend ==
  ASSUME PunctualInv, NEW s \in Senders, Send(s)
  PROVE  BoxesAreLate' /\ ListIsLate'
<1>1. /\ Sending /\ s \in job.list /\ UNCHANGED <<today, submitted>>
      /\ inbox' = [inbox EXCEPT ![s] = Append(@, Message)]
      /\ job' = [job EXCEPT !.at = "log", !.list = @ \ {s}, !.sent = @ + 1]
  BY DEF Send, Sending
<1>2. job \in Jobs /\ inbox \in [Senders -> Seq(Messages)]
  BY DEF PunctualInv, OnceInv, TypeOK, JobOK
<1>3. ListIsLate'
  <2>1. /\ job'.project = job.project /\ job'.doc = job.doc /\ job'.row = job.row
        /\ job'.certain = job.certain /\ job'.list \subseteq job.list
    BY <1>1, <1>2 DEF Jobs
  <2>. QED
    BY <1>1, <2>1 DEF PunctualInv, ListIsLate, JobPeriod
<1>4. MessageIsLate(s, Message)
  BY <1>1 DEF PunctualInv, ListIsLate, JobPeriod, MessageIsLate, Message
<1>. HIDE DEF Message
<1>5. /\ \A t \in Senders \ {s} : inbox'[t] = inbox[t]
      /\ \A i \in DOMAIN inbox'[s] : \/ i \in DOMAIN inbox[s] /\ inbox'[s][i] = inbox[s][i]
                                   \/ inbox'[s][i] = Message
  <2>1. inbox[s] \in Seq({Message} \cup Messages) /\ inbox'[s] = Append(inbox[s], Message)
    BY <1>1, <1>2
  <2>2. /\ Len(inbox[s]) \in Nat /\ DOMAIN inbox[s] = 1..Len(inbox[s])
        /\ DOMAIN inbox'[s] = 1..Len(inbox[s])+1
        /\ inbox'[s][Len(inbox[s])+1] = Message
        /\ \A i \in 1..Len(inbox[s]) : inbox'[s][i] = inbox[s][i]
    BY <2>1, AppendProperties, LenProperties
  <2>. QED
    BY <1>1, <1>2, <2>2
<1>6. BoxesAreLate'
  BY <1>1, <1>4, <1>5 DEF PunctualInv, BoxesAreLate, MessageIsLate
<1>. QED
  BY <1>3, <1>6

(* A response of today makes nobody punctual for an SMS sent already.      *)
LEMMA PunctualSubmit ==
  ASSUME PunctualInv, NEW s \in Senders, NEW p \in Projects, Submit(s, p)
  PROVE  BoxesAreLate' /\ ListIsLate'
<1>1. /\ submitted' = submitted \cup {<<p, s, today>>}
      /\ UNCHANGED <<today, inbox, job>>
  BY DEF Submit, jobVars
<1>2. ASSUME NEW q, NEW t, NEW period, NEW n \in Int, n <= today, Lateness(submitted, q, t, period, n)
      PROVE  Lateness(submitted', q, t, period, n)
  BY <1>1, <1>2, Settled DEF Lateness, PunctualInv, OnceInv
<1>3. today \in Int
  BY Settled DEF PunctualInv, OnceInv
<1>4. ListIsLate'
  BY <1>1, <1>2, <1>3 DEF PunctualInv, ListIsLate, JobPeriod, Sending
<1>5. ASSUME NEW t \in Senders, NEW i \in DOMAIN inbox[t]
      PROVE  MessageIsLate(t, inbox[t][i])'
  <2> DEFINE m == inbox[t][i]
  <2>1. m \in Messages
    <3>1. inbox[t] \in Seq(Messages)
      BY DEF PunctualInv, OnceInv, TypeOK
    <3>. QED
      BY <3>1, ElementOfSeq
  <2>2. m.day \in Int /\ m.day <= today
    BY <2>1, Settled DEF Messages, PunctualInv, OnceInv, BoxesInOrder
  <2>3. MessageIsLate(t, m)
    BY DEF PunctualInv, BoxesAreLate
  <2>. QED
    BY <1>1, <1>2, <2>2, <2>3 DEF MessageIsLate
<1>. QED
  BY <1>1, <1>4, <1>5 DEF BoxesAreLate

LEMMA PunctualStep == PunctualInv /\ [Next]_vars => PunctualInv'
<1>. SUFFICES ASSUME PunctualInv, [Next]_vars PROVE PunctualInv'
  OBVIOUS
<1>1. OnceInv'
  BY OnceStep DEF PunctualInv
<1>. SUFFICES BoxesAreLate' /\ ListIsLate'
  BY <1>1 DEF PunctualInv
<1>2. CASE \E s \in Senders : Send(s)
  BY <1>2, PunctualSend
<1>3. CASE Job /\ ~\E s \in Senders : Send(s)
  <2>1. UNCHANGED <<inbox, submitted>>
    BY <1>3 DEF Job, StartNight, EndNight, Log, ReminderDone, CountReminders, LoadProject,
                FetchSenders, Refused, ReminderFails, ProjectFails, JobDies
  <2>. QED
    BY <1>3, <2>1, ListStaysLate DEF PunctualInv, BoxesAreLate, MessageIsLate
<1>4. CASE \E s \in Senders, p \in Projects : Submit(s, p)
  BY <1>4, PunctualSubmit
<1>5. CASE UNCHANGED <<today, submitted, inbox, job>>
  BY <1>5 DEF PunctualInv, BoxesAreLate, MessageIsLate, ListIsLate, Sending, JobPeriod
<1>6. CASE \E u \in Users : UserStep(u)
  BY <1>5, <1>6, UserLeaves DEF jobVars
<1>7. CASE NextDay
  <2>1. job.at = "idle" /\ UNCHANGED <<submitted, inbox, job>>
    BY <1>7 DEF NextDay, jobVars
  <2>. QED
    BY <2>1 DEF PunctualInv, BoxesAreLate, MessageIsLate, ListIsLate, Sending
<1>8. CASE UNCHANGED vars
  BY <1>5, <1>8 DEF vars, jobVars
<1>. QED
  BY <1>2, <1>3, <1>4, <1>6, <1>7, <1>8 DEF Next

(* models.py:213: whoever had submitted for the deadline by the day before *)
(* is not reminded of it, unless all are to be.                            *)
THEOREM PunctualSpared == Spec => []PunctualAreSpared
<1>1. Init => PunctualInv
  <2>1. Init => OnceInv
    BY OnceInit
  <2>. QED
    BY <2>1 DEF Init, NoJob, PunctualInv, BoxesAreLate, ListIsLate, Sending
<1>2. PunctualInv => PunctualAreSpared
  BY DEF PunctualInv, BoxesAreLate, MessageIsLate, Lateness, PunctualAreSpared
<1>. QED
  BY <1>1, <1>2, PunctualStep, PTL DEF Spec

-----------------------------------------------------------------------------
(* The rows and the settings, while the requests come one after the other: *)
(* the request in progress knows what the rows are.                        *)
KindsOf(R) == {[mode |-> r.mode, day |-> r.day] : r \in R}

Match(R, K) ==
  KindsOf(R) = K /\ \A r, q \in R : r.mode = q.mode /\ r.day = q.day => r = q

InStep(u) ==
  LET q == request[u]
  IN  /\ q.at # "idle" => project[q.project].rev = q.rev
      /\ q.at = "insert" => q.todo \subseteq q.value.kinds
                            /\ Match(rows[q.project], q.value.kinds \ q.todo)
      /\ q.at = "void" => q.todo \subseteq rows[q.project]

Inserting(p) == \E u \in Users : request[u].at = "insert" /\ request[u].project = p

SettingsInv ==
  orderly => /\ \A u, v \in Users : request[u].at # "idle" /\ request[v].at # "idle" => u = v
             /\ \A u \in Users : InStep(u)
             /\ \A p \in Projects : ~Inserting(p) => Match(rows[p], project[p].form.kinds)

LEMMA MatchOneMore ==
  ASSUME NEW R, NEW K, Match(R, K), NEW new, NEW k \in Kinds, k \notin K,
         new.mode = k.mode, new.day = k.day
  PROVE  Match(R \cup {new}, K \cup {k})
<1>1. KindsOf({new}) = {k}
  BY DEF KindsOf, Kinds
<1>2. KindsOf(R \cup {new}) = KindsOf(R) \cup KindsOf({new})
  BY DEF KindsOf
<1>3. ASSUME NEW r \in R
      PROVE  ~(r.mode = new.mode /\ r.day = new.day)
  <2>1. [mode |-> r.mode, day |-> r.day] \in K
    BY DEF Match, KindsOf
  <2>2. k = [mode |-> k.mode, day |-> k.day]
    BY DEF Kinds
  <2>. QED
    BY <2>1, <2>2
<1>. QED
  BY <1>1, <1>2, <1>3 DEF Match

(* What is left to show of a step of u when no other request is open.      *)
LEMMA OneRequest ==
  ASSUME NEW u \in Users, \A v \in Users \ {u} : request'[v].at = "idle", InStep(u)',
         \A p \in Projects : ~(request'[u].at = "insert" /\ request'[u].project = p)
                               => Match(rows'[p], project'[p].form.kinds)
  PROVE  SettingsInv'
<1>1. \A v \in Users : v # u => InStep(v)'
  BY DEF InStep
<1>. QED
  BY <1>1 DEF SettingsInv, Inserting

LEMMA SettingsUser ==
  ASSUME UsersOK, SettingsInv, NEW u \in Users, UserStep(u)
  PROVE  SettingsInv'
<1> DEFINE q == request[u]
           p == q.project
<1>. SUFFICES ASSUME orderly' PROVE SettingsInv'
  BY DEF SettingsInv
<1>1. RequestOK(q, nextId) /\ DOMAIN request = Users
  BY DEF UsersOK
<1>2. /\ orderly
      /\ ~RequestFails(u)
      /\ \A v \in Users \ {u} : request[v].at = "idle" /\ request'[v] = request[v]
  <2>1. CASE SettingsPosted(u) \/ DeletePosted(u)
    <3>1. PICK x \in Projects, at \in {"delete", "fetch"}, value \in Forms \cup BOOLEAN :
            Starts(u, x, at, value)
      BY <2>1 DEF SettingsPosted, DeletePosted, UsersOK, Documents
    <3>. QED
      BY <3>1, <1>1 DEF Starts, RequestFails
  <2>2. CASE \/ DeleteRows(u) \/ InsertRow(u) \/ SaveSettings(u)
             \/ FetchRows(u) \/ VoidReminder(u) \/ SetVoid(u) \/ RequestFails(u)
    <3>1. q.at # "idle" /\ orderly /\ ~RequestFails(u)
      BY <2>2 DEF DeleteRows, InsertRow, SaveSettings, FetchRows, VoidReminder, SetVoid,
                  SaveDocument, RequestFails, UsersOK
    <3>2. \A v \in Users \ {u} : request'[v] = request[v]
      BY <1>1, <2>2 DEF DeleteRows, InsertRow, SaveSettings, FetchRows, VoidReminder, SetVoid,
                        SaveDocument, RequestFails
    <3>. QED
      BY <3>1, <3>2 DEF SettingsInv
  <2>. QED
    BY <2>1, <2>2 DEF UserStep
<1>3. /\ InStep(u)
      /\ \A x \in Projects : ~(q.at = "insert" /\ p = x) => Match(rows[x], project[x].form.kinds)
  BY <1>2 DEF SettingsInv, Inserting
<1>. SUFFICES /\ InStep(u)'
              /\ \A x \in Projects : ~(request'[u].at = "insert" /\ request'[u].project = x)
                                       => Match(rows'[x], project'[x].form.kinds)
  BY <1>2, OneRequest
<1>4. ASSUME NEW x \in Projects, NEW at \in {"delete", "fetch"}, NEW value, Starts(u, x, at, value)
      PROVE  /\ InStep(u)'
             /\ \A y \in Projects : Match(rows'[y], project'[y].form.kinds)
  <2>1. /\ request'[u] = [at |-> at, project |-> x, value |-> value, rev |-> project[x].rev,
                         todo |-> {}]
        /\ UNCHANGED <<project, rows>> /\ q.at = "idle"
    BY <1>1, <1>4 DEF Starts
  <2>. QED
    BY <1>3, <2>1 DEF InStep
<1>5. CASE DeleteRows(u)
  <2>1. request'[u] = [q EXCEPT !.at = "insert", !.todo = q.value.kinds] /\ q.at = "delete"
        /\ rows' = [rows EXCEPT ![p] = {}] /\ project' = project
    BY <1>1, <1>5 DEF DeleteRows
  <2>2. q \in SettingsRequests /\ p \in Projects
    BY <1>1, <2>1 DEF RequestOK, NoRequest, SettingsRequests, DeleteRequests
  <2>3. /\ request'[u].at = "insert" /\ request'[u].project = p /\ request'[u].value = q.value
        /\ request'[u].rev = q.rev /\ request'[u].todo = q.value.kinds
    BY <2>1, <2>2 DEF SettingsRequests
  <2>4. Match({}, {})
    BY DEF Match, KindsOf
  <2>5. rows'[p] = {} /\ \A x \in Projects \ {p} : rows'[x] = rows[x]
    BY <2>1, <2>2 DEF UsersOK
  <2>. HIDE DEF q
  <2>6. InStep(u)'
    BY <1>3, <2>1, <2>3, <2>4, <2>5 DEF InStep, q
  <2>. QED
    BY <1>3, <2>1, <2>3, <2>5, <2>6
<1>6. CASE InsertRow(u)
  <2>1. PICK k \in q.todo :
          /\ rows' = [rows EXCEPT ![p] = @ \cup {[id |-> nextId, mode |-> k.mode, day |-> k.day]}]
          /\ request' = [request EXCEPT ![u].todo = @ \ {k}]
    BY <1>6 DEF InsertRow
  <2> DEFINE new == [id |-> nextId, mode |-> k.mode, day |-> k.day]
  <2>2. q.at = "insert" /\ project' = project
    BY <1>6 DEF InsertRow
  <2>3. q \in SettingsRequests /\ p \in Projects /\ k \in Kinds
    BY <1>1, <2>2 DEF RequestOK, NoRequest, SettingsRequests, DeleteRequests
  <2>4. /\ request'[u].at = "insert" /\ request'[u].project = p /\ request'[u].value = q.value
        /\ request'[u].rev = q.rev /\ request'[u].todo = q.todo \ {k}
    BY <1>1, <2>1, <2>2, <2>3 DEF SettingsRequests
  <2>5. rows'[p] = rows[p] \cup {new} /\ \A x \in Projects \ {p} : rows'[x] = rows[x]
    BY <2>1, <2>3 DEF UsersOK
  <2>6. q.todo \subseteq q.value.kinds /\ Match(rows[p], q.value.kinds \ q.todo)
        /\ project[p].rev = q.rev
    BY <1>3, <2>2 DEF InStep
  <2>7. Match(rows[p] \cup {new}, (q.value.kinds \ q.todo) \cup {k})
    <3>1. new.mode = k.mode /\ new.day = k.day
      OBVIOUS
    <3>. HIDE DEF new
    <3>. QED
      BY <2>3, <2>6, <3>1, MatchOneMore
  <2>8. (q.value.kinds \ q.todo) \cup {k} = q.value.kinds \ (q.todo \ {k})
    BY <2>6
  <2>. HIDE DEF new
  <2>9. InStep(u)'
    BY <2>2, <2>4, <2>5, <2>6, <2>7, <2>8 DEF InStep
  <2>. QED
    BY <1>3, <2>2, <2>4, <2>5, <2>9
<1>7. ASSUME NEW doc, SaveDocument(u, doc), q.at # "idle",
             doc \in Documents, doc.form \in Forms \cup {NewForm}, Match(rows[p], doc.form.kinds)
      PROVE  /\ InStep(u)'
             /\ \A x \in Projects : Match(rows'[x], project'[x].form.kinds)
  <2>1. p \in Projects
    BY <1>1, <1>7 DEF RequestOK, NoRequest, SettingsRequests, DeleteRequests
  <2>2. project[p].rev = q.rev
    BY <1>3, <1>7 DEF InStep
  <2>3. /\ request'[u] = NoRequest /\ rows' = rows
        /\ project' = [project EXCEPT ![p] = [doc EXCEPT !.rev = @ + 1]]
    BY <1>1, <1>7, <2>2 DEF SaveDocument
  <2>4. [doc EXCEPT !.rev = @ + 1].form = doc.form
    BY <1>7 DEF Documents
  <2>5. project'[p].form = doc.form /\ \A x \in Projects \ {p} : project'[x] = project[x]
    BY <2>1, <2>3, <2>4 DEF UsersOK
  <2>6. \A x \in Projects \ {p} : Match(rows[x], project[x].form.kinds)
    BY <1>3
  <2>. QED
    BY <1>7, <2>3, <2>5, <2>6 DEF InStep, NoRequest
<1>8. CASE SaveSettings(u)
  <2> DEFINE doc == [project[p] EXCEPT !.form = q.value]
  <2>1. q.at = "insert" /\ q.todo = {} /\ SaveDocument(u, doc)
    BY <1>8 DEF SaveSettings
  <2>2. q.value \in Forms /\ p \in Projects
    BY <1>1, <2>1 DEF RequestOK, NoRequest, SettingsRequests, DeleteRequests
  <2>3. doc \in Documents /\ doc.form = q.value
    BY <2>2 DEF UsersOK, Documents
  <2>4. Match(rows[p], q.value.kinds)
    <3>1. Match(rows[p], q.value.kinds \ {})
      BY <1>3, <2>1 DEF InStep
    <3>2. q.value.kinds \ {} = q.value.kinds
      OBVIOUS
    <3>. QED
      BY <3>1, <3>2
  <2>. HIDE DEF doc
  <2>. QED
    BY <1>7, <2>1, <2>2, <2>3, <2>4
<1>9. CASE FetchRows(u)
  <2>1. request'[u] = [q EXCEPT !.at = "void", !.todo = rows[p]] /\ q.at = "fetch"
        /\ UNCHANGED <<rows, project>>
    BY <1>1, <1>9 DEF FetchRows
  <2>2. q \in DeleteRequests
    BY <1>1, <2>1 DEF RequestOK, NoRequest, SettingsRequests
  <2>3. /\ request'[u].at = "void" /\ request'[u].project = p
        /\ request'[u].rev = q.rev /\ request'[u].todo = rows[p]
    BY <2>1, <2>2 DEF DeleteRequests
  <2>. QED
    BY <1>3, <2>1, <2>3 DEF InStep
<1>10. CASE VoidReminder(u)
  <2>1. PICK r \in q.todo : /\ rows' = [rows EXCEPT ![p] = @ \cup {r}]
                            /\ request' = [request EXCEPT ![u].todo = @ \ {r}]
    BY <1>10 DEF VoidReminder
  <2>2. q.at = "void" /\ project' = project
    BY <1>10 DEF VoidReminder
  <2>3. q \in DeleteRequests /\ p \in Projects
    BY <1>1, <2>2 DEF RequestOK, NoRequest, SettingsRequests, DeleteRequests
  <2>4. q.todo \subseteq rows[p] /\ project[p].rev = q.rev
    BY <1>3, <2>2 DEF InStep
  <2>5. rows' = rows
    BY <2>1, <2>3, <2>4 DEF UsersOK
  <2>6. /\ request'[u].at = "void" /\ request'[u].project = p
        /\ request'[u].rev = q.rev /\ request'[u].todo = q.todo \ {r}
    BY <1>1, <2>1, <2>2, <2>3 DEF DeleteRequests
  <2>. QED
    BY <1>3, <2>2, <2>4, <2>5, <2>6 DEF InStep
<1>11. CASE SetVoid(u)
  <2> DEFINE doc == [project[p] EXCEPT !.void = q.value]
  <2>1. q.at = "void" /\ SaveDocument(u, doc)
    BY <1>11 DEF SetVoid
  <2>2. q.value \in BOOLEAN /\ p \in Projects
    BY <1>1, <2>1 DEF RequestOK, NoRequest, SettingsRequests, DeleteRequests
  <2>3. doc \in Documents /\ doc.form = project[p].form /\ doc.form \in Forms \cup {NewForm}
    BY <2>2 DEF UsersOK, Documents
  <2>4. Match(rows[p], doc.form.kinds)
    BY <1>3, <2>1, <2>2, <2>3
  <2>. HIDE DEF doc
  <2>. QED
    BY <1>7, <2>1, <2>3, <2>4
<1>. QED
  BY <1>2, <1>4, <1>5, <1>6, <1>8, <1>9, <1>10, <1>11 DEF UserStep, SettingsPosted, DeletePosted

(* wizard_view.py and helper.py: unless requests overlapped or failed, the *)
(* rows are those of the settings that the project's document holds.       *)
THEOREM SettingsStayTogether == Spec => []SettingsTogether
<1>1. Init => SettingsInv
  <2>1. ASSUME Init PROVE SettingsInv
    <3>1. \A u \in Users : request[u].at = "idle"
      BY <2>1 DEF Init, NoRequest
    <3>2. \A p \in Projects : rows[p] = {} /\ project[p].form.kinds = {}
      BY <2>1 DEF Init, NewForm
    <3>3. Match({}, {})
      BY DEF Match, KindsOf
    <3>. QED
      BY <3>1, <3>2, <3>3 DEF SettingsInv, InStep
  <2>. QED
    BY <2>1
<1>2. SettingsInv => SettingsTogether
  BY DEF SettingsInv, Inserting, Match, KindsOf, SettingsTogether
<1>3. TypeOK /\ SettingsInv /\ [Next]_vars => SettingsInv'
  <2>. SUFFICES ASSUME TypeOK, SettingsInv, [Next]_vars PROVE SettingsInv'
    OBVIOUS
  <2>1. UsersOK
    BY DEF TypeOK, UsersOK
  <2>2. CASE \E u \in Users : UserStep(u)
    BY <2>1, <2>2, SettingsUser
  <2>3. CASE UNCHANGED userVars
    BY <2>3 DEF userVars, SettingsInv, InStep, Inserting
  <2>4. CASE Job
    BY <2>3, <2>4 DEF Job, StartNight, EndNight, Log, ReminderDone, CountReminders, LoadProject,
                      FetchSenders, Send, Refused, ReminderFails, ProjectFails, JobDies
  <2>5. CASE NextDay \/ (\E s \in Senders, p \in Projects : Submit(s, p)) \/ UNCHANGED vars
    BY <2>3, <2>5 DEF NextDay, Submit, vars
  <2>. QED
    BY <2>2, <2>4, <2>5 DEF Next
<1>. QED
  BY <1>1, <1>2, <1>3, RemindersType, PTL DEF Spec

-----------------------------------------------------------------------------
(***************************************************************************)
(* The counts of a night: what was sent for the reminder in progress and   *)
(* for the project in progress is still to be counted, and one SMS that    *)
(* left may still have to be logged.                                       *)
(***************************************************************************)
Unlogged == IF job.at = "log" THEN 1 ELSE 0

CountsInv ==
  /\ job.at \in {"idle", "projects"} => job.total = 0
  /\ job.at \in {"idle", "projects", "reminders"} => job.sent = 0
  /\ job.at = "log" => job.sent >= 1
  /\ counted + job.total + job.sent <= logged + Unlogged
  /\ logged + Unlogged <= Cardinality(Received)
  /\ failures = 0 => counted + job.total + job.sent = Cardinality(Received)

(* The SMS that were received are finitely many, and one more is one more. *)
LEMMA ReceivedFinite ==
  ASSUME inbox \in [Senders -> Seq(Messages)]
  PROVE  IsFiniteSet(Received) /\ Cardinality(Received) \in Nat
<1> DEFINE Box == [s \in Senders |-> {s} \X DOMAIN inbox[s]]
           Boxes == {{s} \X DOMAIN inbox[s] : s \in Senders}
<1>1. Box \in Surjection(Senders, Boxes)
  BY DEF Surjection
<1>2. IsFiniteSet(Boxes)
  <2> HIDE DEF Box, Boxes
  <2>. QED
    BY <1>1, RemindersAssumption, FS_Surjection
<1>3. ASSUME NEW B \in Boxes
      PROVE  IsFiniteSet(B)
  <2>1. PICK s \in Senders : B = {s} \X DOMAIN inbox[s]
    OBVIOUS
  <2>2. PICK n \in Nat : DOMAIN inbox[s] = 1..n
    BY LenProperties
  <2>3. IsFiniteSet({s}) /\ IsFiniteSet(DOMAIN inbox[s])
    <3>1. IsFiniteSet({s})
      BY FS_Singleton
    <3>2. IsFiniteSet(1..n)
      BY FS_Interval
    <3>. QED
      BY <2>2, <3>1, <3>2
  <2>. QED
    BY <2>1, <2>2, <2>3, FS_Product
<1>4. IsFiniteSet(UNION Boxes)
  BY <1>2, <1>3, FS_UNION
<1>. QED
  BY <1>4, FS_CardinalityType DEF Received

LEMMA ReceivedOneMore ==
  ASSUME inbox \in [Senders -> Seq(Messages)], NEW s \in Senders, NEW m,
         inbox' = [inbox EXCEPT ![s] = Append(@, m)]
  PROVE  Cardinality(Received') = Cardinality(Received) + 1
<1> DEFINE n == Len(inbox[s])
           u == <<s, n + 1>>
<1>1. n \in Nat /\ DOMAIN inbox[s] = 1..n /\ DOMAIN inbox'[s] = 1..n+1
  <2>1. inbox[s] \in Seq({m} \cup Messages) /\ inbox'[s] = Append(inbox[s], m)
    OBVIOUS
  <2>. QED
    BY <2>1, AppendProperties, LenProperties
<1>2. \A t \in Senders \ {s} : inbox'[t] = inbox[t]
  OBVIOUS
<1> HIDE DEF n
<1>3. \A x : x \in Received' <=> x \in Received \/ x = u
  <2>1. \A x : x \in Received <=> \E t \in Senders : \E i \in DOMAIN inbox[t] : x = <<t, i>>
    BY DEF Received
  <2>2. \A x : x \in Received' <=> \E t \in Senders : \E i \in DOMAIN inbox'[t] : x = <<t, i>>
    BY DEF Received
  <2>3. \A i : i \in 1..n+1 <=> i \in 1..n \/ i = n+1
    BY <1>1
  <2>4. ASSUME NEW x, x \in Received'
        PROVE  x \in Received \/ x = u
    <3>1. PICK t \in Senders : \E i \in DOMAIN inbox'[t] : x = <<t, i>>
      BY <2>2, <2>4
    <3>2. CASE t = s
      BY <1>1, <2>1, <2>3, <3>1, <3>2
    <3>3. CASE t # s
      BY <1>2, <2>1, <3>1, <3>3
    <3>. QED
      BY <3>2, <3>3
  <2>5. ASSUME NEW x, x \in Received
        PROVE  x \in Received'
    <3>1. PICK t \in Senders : \E i \in DOMAIN inbox[t] : x = <<t, i>>
      BY <2>1, <2>5
    <3>2. DOMAIN inbox[t] \subseteq DOMAIN inbox'[t]
      BY <1>1, <1>2, <2>3
    <3>. QED
      BY <2>2, <3>1, <3>2
  <2>6. u \in Received'
    BY <1>1, <2>2, <2>3
  <2>. QED
    BY <2>4, <2>5, <2>6
<1>4. Received' = Received \cup {u}
  BY <1>3
<1>5. u \notin Received
  BY <1>1 DEF Received
<1>. QED
  BY <1>4, <1>5, ReceivedFinite, FS_AddElement

(* A step of the night keeps the counts.                                   *)
LEMMA CountsJob ==
  ASSUME TypeOK, CountsInv, Job
  PROVE  CountsInv'
<1> DEFINE N == Cardinality(Received)
<1>1. /\ job \in Jobs /\ job.sent \in Nat /\ job.total \in Nat /\ counted \in Nat
      /\ logged \in Nat /\ failures \in Nat /\ N \in Nat
  BY ReceivedFinite DEF TypeOK, JobOK, Jobs
<1>2. /\ NoJob.at = "idle" /\ NoJob.total = 0 /\ NoJob.sent = 0
      /\ \A L : LET j == [NoJob EXCEPT !.at = "projects", !.listed = L]
                IN  j.at = "projects" /\ j.total = 0 /\ j.sent = 0
  BY DEF NoJob
<1>3. ASSUME inbox' = inbox
      PROVE  N' = N
  BY <1>3 DEF Received
<1>4. ASSUME Fails
      PROVE  failures' # 0
  BY <1>1, <1>4 DEF Fails
<1>. USE DEF CountsInv, Unlogged
<1>. HIDE DEF N
<1>5. CASE StartNight
  <2>1. job'.at = "projects" /\ job'.total = 0 /\ job'.sent = 0
    BY <1>2, <1>5 DEF StartNight
  <2>. QED
    BY <1>1, <1>3, <1>5, <2>1 DEF StartNight, N
<1>6. CASE EndNight
  BY <1>1, <1>2, <1>3, <1>6 DEF EndNight, N
<1>7. CASE JobDies
  BY <1>1, <1>2, <1>3, <1>4, <1>7 DEF JobDies, N
<1>8. CASE Log
  <2>1. job'.at = "send" /\ job'.total = job.total /\ job'.sent = job.sent
    BY <1>1, <1>8 DEF Log, Jobs
  <2>. QED
    BY <1>1, <1>3, <1>8, <2>1 DEF Log, N
<1>9. CASE ReminderDone
  <2>1. job'.at = "reminders" /\ job'.total = job.total + job.sent /\ job'.sent = 0
    BY <1>1, <1>9 DEF ReminderDone, Jobs
  <2>. QED
    BY <1>1, <1>3, <1>9, <2>1 DEF ReminderDone, N
<1>10. CASE CountReminders
  <2>1. job'.at = "projects" /\ job'.total = 0 /\ job'.sent = 0
    BY <1>2, <1>10 DEF CountReminders
  <2>. QED
    BY <1>1, <1>3, <1>10, <2>1 DEF CountReminders, N
<1>11. ASSUME NEW p \in Projects, LoadProject(p)
       PROVE  CountsInv'
  <2>1. job'.at = "reminders" /\ job'.total = 0 /\ job'.sent = job.sent
    BY <1>1, <1>11 DEF LoadProject, Jobs
  <2>. QED
    BY <1>1, <1>3, <1>11, <2>1 DEF LoadProject, N
<1>12. ASSUME NEW r \in job.due, FetchSenders(r)
       PROVE  CountsInv'
  <2>1. /\ job'.at \in {"send", "reminders"} /\ job'.total = job.total /\ job'.sent = 0
        /\ job.sent = 0
    BY <1>1, <1>12 DEF FetchSenders, Jobs
  <2>. QED
    BY <1>1, <1>3, <1>12, <2>1 DEF FetchSenders, N
<1>13. ASSUME NEW s \in Senders, Send(s)
       PROVE  CountsInv'
  <2>1. job'.at = "log" /\ job'.total = job.total /\ job'.sent = job.sent + 1
    BY <1>1, <1>13 DEF Send, Jobs
  <2>2. N' = N + 1
    BY <1>13, ReceivedOneMore DEF Send, TypeOK, N
  <2>. QED
    BY <1>1, <1>13, <2>1, <2>2 DEF Send, N
<1>14. ASSUME NEW s \in Senders, Refused(s)
       PROVE  CountsInv'
  <2>1. job'.at = "send" /\ job'.total = job.total /\ job'.sent = job.sent
    BY <1>1, <1>14 DEF Refused, Jobs
  <2>. QED
    BY <1>1, <1>3, <1>4, <1>14, <2>1 DEF Refused, N
<1>15. CASE ReminderFails
  <2>1. job'.at = "reminders" /\ job'.total = job.total /\ job'.sent = 0
    <3>1. CASE job.at = "reminders" /\ \E r \in job.due : job' = [job EXCEPT !.due = @ \ {r}]
      BY <1>1, <3>1 DEF Jobs
    <3>2. CASE job' = [job EXCEPT !.at = "reminders", !.row = None, !.list = {},
                                  !.certain = TRUE, !.sent = 0]
      BY <1>1, <3>2 DEF Jobs
    <3>. QED
      BY <1>15, <3>1, <3>2 DEF ReminderFails
  <2>2. counted + job.total <= logged
    BY <1>1, <1>15 DEF ReminderFails
  <2>. QED
    BY <1>1, <1>3, <1>4, <1>15, <2>1, <2>2 DEF ReminderFails, N
<1>16. CASE ProjectFails
  <2>1. job'.at = "projects" /\ job'.total = 0 /\ job'.sent = 0
    <3>1. CASE job.at = "projects" /\ \E p \in Projects : job' = [job EXCEPT !.listed[p] = {}]
      BY <1>1, <3>1 DEF Jobs
    <3>2. CASE job' = [NoJob EXCEPT !.at = "projects", !.listed = job.listed]
      BY <1>2, <3>2
    <3>. QED
      BY <1>16, <3>1, <3>2 DEF ProjectFails
  <2>2. job.at \in {"projects", "reminders"}
    BY <1>16 DEF ProjectFails
  <2>. QED
    BY <1>1, <1>3, <1>4, <1>16, <2>1, <2>2 DEF ProjectFails, N
<1>. QED
  BY <1>5, <1>6, <1>7, <1>8, <1>9, <1>10, <1>11, <1>12, <1>13, <1>14, <1>15, <1>16 DEF Job

(* smsclient.py, scheduler.py: what is counted was logged, what is logged  *)
(* was sent, and a night without a failure counts every SMS.               *)
THEOREM CountedWasSent == Spec => []NothingInvented
<1>1. Init => CountsInv
  <2>. SUFFICES ASSUME Init PROVE CountsInv
    OBVIOUS
  <2>1. Received = {}
    BY DEF Init, Received
  <2>2. job.at = "idle" /\ job.total = 0 /\ job.sent = 0
    BY DEF Init, NoJob
  <2>. QED
    BY <2>1, <2>2, FS_EmptySet DEF Init, CountsInv, Unlogged
<1>2. TypeOK /\ CountsInv /\ [Next]_vars => CountsInv'
  <2>. SUFFICES ASSUME TypeOK, CountsInv, [Next]_vars PROVE CountsInv'
    OBVIOUS
  <2>1. ASSUME UNCHANGED <<job, counted, logged, inbox>>, failures' = failures \/ Fails
        PROVE  CountsInv'
    <3>1. failures \in Nat /\ Received' = Received
      BY <2>1 DEF TypeOK, Received
    <3>2. failures' = 0 => failures = 0
      BY <2>1, <3>1 DEF Fails
    <3>. QED
      BY <2>1, <3>1, <3>2 DEF CountsInv, Unlogged
  <2>2. CASE Job
    BY <2>2, CountsJob
  <2>3. ASSUME NEW u \in Users, UserStep(u)
        PROVE  CountsInv'
    <3>1. failures' = failures \/ Fails
      BY <2>3 DEF UserStep, SettingsPosted, DeletePosted, Starts, DeleteRows, InsertRow,
         SaveSettings, FetchRows, VoidReminder, SetVoid, SaveDocument, RequestFails
    <3>. QED
      BY <2>1, <2>3, <3>1, UserLeaves DEF jobVars
  <2>4. CASE (\E s \in Senders, p \in Projects : Submit(s, p)) \/ NextDay \/ UNCHANGED vars
    BY <2>1, <2>4 DEF Submit, NextDay, vars, jobVars
  <2>. QED
    BY <2>2, <2>3, <2>4 DEF Next
<1>3. TypeOK /\ CountsInv => NothingInvented
  <2>. SUFFICES ASSUME TypeOK, CountsInv PROVE NothingInvented
    OBVIOUS
  <2>1. /\ job.sent \in Nat /\ job.total \in Nat /\ counted \in Nat
        /\ logged \in Nat /\ Cardinality(Received) \in Nat
    BY ReceivedFinite DEF TypeOK, JobOK, Jobs
  <2>. QED
    BY <2>1 DEF CountsInv, Unlogged, NothingInvented, NightOver
<1>. QED
  BY <1>1, <1>2, <1>3, RemindersType, PTL DEF Spec

-----------------------------------------------------------------------------
(***************************************************************************)
(* The late ones.  While a night runs, each reminder that met no failure   *)
(* and no edit is still listed, or due in the project in progress, or the  *)
(* one being sent, or all it owes has arrived.                             *)
(***************************************************************************)
Remindable(form) == InEveryMonth(form.deadline) \/ form.toAll

Around == MonthsLater(today, -1) - 1 .. MonthsLater(today, 1) + 1

Arrived(p, r) ==
  LET form == project[p].form
  IN  Remindable(form) => \A n \in Around :
        Due(form.deadline, r, n) => \A s \in Late(p, form, n) : Reached(s, p, r, n)

StillListed(p, r) == job.at # "idle" /\ r \in job.listed[p]

StillDue(p, r) ==
  Running /\ job.project = p /\ job.doc.form = project[p].form /\ r \in job.due

BeingSent(p, r) ==
  /\ Sending /\ job.project = p /\ job.doc.form = project[p].form /\ job.row = r
  /\ \A n \in Around :
       Due(job.doc.form.deadline, r, n)
         => \A s \in Late(p, job.doc.form, n) : s \in job.list \/ Reached(s, p, r, n)

NothingForgotten ==
  ranOn = today => \A p \in Projects : \A r \in rows[p] :
    r.id \notin spoilt => StillListed(p, r) \/ StillDue(p, r) \/ BeingSent(p, r) \/ Arrived(p, r)

(* The deadline of a reminder that is due is the one the job looks up.     *)
LEMMA DueIsApplicable ==
  ASSUME NEW dl \in Deadlines, Inside(today), NEW r \in ReminderRows, NEW n \in Int,
         Due(dl, r, n)
  PROVE  n = ApplicableDeadline(dl, r, today) /\ ShouldBeSentOn(dl, r, today)
<1> DEFINE next == NextDeadline(dl, today)
           current == CurrentDeadline(dl, today)
<1>1. /\ next \in Int /\ current \in Int /\ today \in Int
      /\ IsDeadline(dl, next) /\ IsDeadline(dl, current)
      /\ current <= today /\ today < next
      /\ \A x \in current+1 .. next-1 : ~IsDeadline(dl, x)
  BY DeadlinesAreNeighbours DEF Inside
<1>2. IsDeadline(dl, n) /\ today = n + Delta(r)
  BY DEF Due
<1> HIDE DEF next, current
<1>3. CASE r.mode = "before"
  <2>1. n > today /\ \A d \in today+1 .. n-1 : ~IsDeadline(dl, d)
    BY <1>3 DEF Due
  <2>2. ~(n < next)
    BY <1>1, <1>2, <2>1
  <2>3. ~(next < n)
    BY <1>1, <1>2, <2>1
  <2>4. n = next
    BY <1>1, <2>2, <2>3
  <2>. QED
    BY <1>2, <1>3, <2>4 DEF ApplicableDeadline, ShouldBeSentOn, next
<1>4. CASE r.mode # "before"
  <2>1. n <= today /\ \A d \in n+1 .. today : ~IsDeadline(dl, d)
    BY <1>4 DEF Due
  <2>2. ~(n < current)
    BY <1>1, <1>2, <2>1
  <2>3. ~(current < n)
    BY <1>1, <1>2, <2>1
  <2>4. n = current
    BY <1>1, <2>2, <2>3
  <2>. QED
    BY <1>2, <1>4, <2>4 DEF ApplicableDeadline, ShouldBeSentOn, current
<1>. QED
  BY <1>3, <1>4

(* A day that every month has is that of every deadline, so its period is  *)
(* found.                                                                  *)
LEMMA ApplicableHasPeriod ==
  ASSUME NEW dl \in Deadlines, Inside(today), NEW r, InEveryMonth(dl)
  PROVE  HasPeriod(dl, ApplicableDeadline(dl, r, today))
<1>1. CASE dl.frequency = "month"
  <2>1. \A a \in 1..Months : Least(dl.day, LastDay(a)) = dl.day
    BY <1>1 DEF InEveryMonth, Least
  <2>2. \A a \in 1..Months : DayOf(DeadlineOf(dl.day, a)) = dl.day
    <3>1. ASSUME NEW a \in 1..Months
          PROVE  DayOf(DeadlineOf(dl.day, a)) = dl.day
      <4>1. dl.day \in 1..31
        BY <1>1 DEF Deadlines
      <4>2. Least(dl.day, LastDay(a)) \in 1..LastDay(a)
        BY <4>1, DeadlineInMonth
      <4>. QED
        BY <2>1, <4>2, DateInMonth DEF DeadlineOf
    <3>. QED
      BY <3>1
  <2>3. PICK a \in 2..Months-1 :
           /\ CurrentDeadline(dl, today) = DeadlineOf(dl.day, a)
           /\ NextDeadline(dl, today) = DeadlineOf(dl.day, a+1)
    BY <1>1, MonthlyInOrder
  <2>4. a \in 1..Months /\ a+1 \in 1..Months
    BY Calendar
  <2>. QED
    BY <1>1, <2>2, <2>3, <2>4 DEF ApplicableDeadline, HasPeriod
<1>2. CASE dl.frequency # "month"
  <2>1. IsDeadline(dl, ApplicableDeadline(dl, r, today))
    BY DeadlinesAreNeighbours DEF ApplicableDeadline
  <2>. QED
    BY <1>2, <2>1 DEF IsDeadline, HasPeriod
<1>. QED
  BY <1>1, <1>2

(* What has arrived stays, and later responses make nobody late.           *)
LEMMA StaysReached ==
  ASSUME TypeOK, today' = today, submitted \subseteq submitted',
         \/ inbox' = inbox
         \/ \E s \in Senders, m \in Messages : inbox' = [inbox EXCEPT ![s] = Append(@, m)]
  PROVE  /\ \A s \in Senders : \A p, r, n : Reached(s, p, r, n) => Reached(s, p, r, n)'
         /\ \A p, form, n : Late(p, form, n)' \subseteq Late(p, form, n)
         /\ Around' = Around /\ \A dl, r, n : Due(dl, r, n)' <=> Due(dl, r, n)
<1>1. ASSUME NEW s \in Senders
      PROVE  \A i \in DOMAIN inbox[s] : i \in DOMAIN inbox'[s] /\ inbox'[s][i] = inbox[s][i]
  <2>1. CASE inbox' = inbox
    BY <2>1
  <2>2. ASSUME NEW t \in Senders, NEW m \in Messages,
               inbox' = [inbox EXCEPT ![t] = Append(@, m)]
        PROVE  \A i \in DOMAIN inbox[s] : i \in DOMAIN inbox'[s] /\ inbox'[s][i] = inbox[s][i]
    <3>1. CASE t # s
      BY <2>2, <3>1 DEF TypeOK
    <3>2. CASE t = s
      <4>1. inbox[s] \in Seq(Messages) /\ inbox'[s] = Append(inbox[s], m)
        BY <2>2, <3>2 DEF TypeOK
      <4>. QED
        BY <4>1, AppendProperties, LenProperties
    <3>. QED
      BY <3>1, <3>2
  <2>. QED
    BY <2>1, <2>2
<1>2. \A s \in Senders : \A p, r, n : Reached(s, p, r, n) => Reached(s, p, r, n)'
  BY <1>1 DEF Reached
<1>3. \A p, form, n : Late(p, form, n)' \subseteq Late(p, form, n)
  BY DEF Late, SubmittedIn
<1>4. Around' = Around /\ \A dl, r, n : Due(dl, r, n)' <=> Due(dl, r, n)
  BY DEF Around, Due
<1>. QED
  BY <1>2, <1>3, <1>4

(* What every step of the night but a start leaves alone.                  *)
LEMMA NightLeaves ==
  ASSUME Job
  PROVE  UNCHANGED <<today, submitted, userVars>>
BY DEF Job, StartNight, EndNight, Log, ReminderDone, CountReminders, LoadProject,
       FetchSenders, Send, Refused, ReminderFails, ProjectFails, JobDies

(* An arrived reminder stays arrived, one being sent stays so while the    *)
(* job stays at it.                                                        *)
LEMMA ArrivedStays ==
  ASSUME TypeOK, today' = today, submitted \subseteq submitted',
         \/ inbox' = inbox
         \/ \E s \in Senders, m \in Messages : inbox' = [inbox EXCEPT ![s] = Append(@, m)],
         NEW p \in Projects, NEW r, project'[p].form = project[p].form, Arrived(p, r)
  PROVE  Arrived(p, r)'
<1>1. /\ \A s \in Senders : \A n : Reached(s, p, r, n) => Reached(s, p, r, n)'
      /\ \A form, n : Late(p, form, n)' \subseteq Late(p, form, n)
      /\ Around' = Around /\ \A dl, n : Due(dl, r, n)' <=> Due(dl, r, n)
  BY StaysReached
<1>2. \A form, n : Late(p, form, n) \subseteq Senders
  BY DEF Late
<1>. SUFFICES ASSUME Remindable(project[p].form), NEW n \in Around,
                     Due(project[p].form.deadline, r, n), NEW s \in Late(p, project[p].form, n)'
              PROVE  Reached(s, p, r, n)'
  BY <1>1 DEF Arrived, Remindable
<1>3. s \in Late(p, project[p].form, n) /\ s \in Senders
  BY <1>1, <1>2
<1>4. Reached(s, p, r, n)
  BY <1>3 DEF Arrived
<1>. QED
  BY <1>1, <1>3, <1>4

LEMMA BeingSentStays ==
  ASSUME TypeOK, today' = today, submitted \subseteq submitted',
         \/ inbox' = inbox
         \/ \E s \in Senders, m \in Messages : inbox' = [inbox EXCEPT ![s] = Append(@, m)],
         NEW p \in Projects, NEW r, project'[p].form = project[p].form, BeingSent(p, r),
         Sending', job'.project = job.project, job'.doc = job.doc, job'.row = job.row,
         \A s \in job.list : s \in job'.list \/ \A n \in Around :
            Due(job.doc.form.deadline, r, n) => Reached(s, p, r, n)'
  PROVE  BeingSent(p, r)'
<1>1. /\ \A s \in Senders : \A n : Reached(s, p, r, n) => Reached(s, p, r, n)'
      /\ \A form, n : Late(p, form, n)' \subseteq Late(p, form, n)
      /\ Around' = Around /\ \A dl, n : Due(dl, r, n)' <=> Due(dl, r, n)
  BY StaysReached
<1>2. \A form, n : Late(p, form, n) \subseteq Senders
  BY DEF Late
<1>. SUFFICES ASSUME NEW n \in Around, Due(job.doc.form.deadline, r, n),
                     NEW s \in Late(p, job.doc.form, n)'
              PROVE  s \in job'.list \/ Reached(s, p, r, n)'
  BY <1>1 DEF BeingSent
<1>3. s \in Late(p, job.doc.form, n) /\ s \in Senders
  BY <1>1, <1>2
<1>4. s \in job.list \/ Reached(s, p, r, n)
  BY <1>3 DEF BeingSent
<1>. QED
  BY <1>1, <1>3, <1>4

Kept(p, r) == StillListed(p, r) \/ StillDue(p, r) \/ BeingSent(p, r) \/ Arrived(p, r)

(* A step of the night that is no start: what the job still has to do for  *)
(* a reminder is done, or left to do, or the reminder is spoilt.           *)
LEMMA KeptByLoad ==
  ASSUME TypeOK, NEW p \in Projects, LoadProject(p), NEW r \in ReminderRows, StillListed(p, r)
  PROVE  StillDue(p, r)' \/ Arrived(p, r)'
<1>1. /\ job \in Jobs /\ project[p] \in Documents /\ Inside(today)
      /\ project[p].form.deadline \in Deadlines
  BY Settled DEF TypeOK, JobOK, Documents
<1>2. /\ job'.at = "reminders" /\ job'.project = p /\ job'.doc = project[p]
      /\ job'.due = {x \in job.listed[p] : ShouldBeSentOn(project[p].form.deadline, x, today)}
      /\ UNCHANGED <<today, submitted, project, inbox>>
  BY <1>1 DEF LoadProject, Jobs, userVars
<1>3. CASE ShouldBeSentOn(project[p].form.deadline, r, today)
  BY <1>2, <1>3 DEF StillListed, StillDue, Running
<1>4. CASE ~ShouldBeSentOn(project[p].form.deadline, r, today)
  <2>1. \A n \in Around : ~Due(project[p].form.deadline, r, n)
    BY <1>1, <1>4, DueIsApplicable DEF Around
  <2>2. Arrived(p, r)
    BY <2>1 DEF Arrived
  <2>. QED
    BY <1>2, <2>2 DEF Arrived, Around, Due, Late, SubmittedIn, Reached
<1>. QED
  BY <1>3, <1>4

LEMMA KeptByFetch ==
  ASSUME TypeOK, NEW p \in Projects, NEW r \in ReminderRows, StillDue(p, r), FetchSenders(r)
  PROVE  BeingSent(p, r)' \/ Arrived(p, r)'
<1> DEFINE form == job.doc.form
           n == ApplicableDeadline(form.deadline, r, today)
<1>1. /\ job \in Jobs /\ project[p] \in Documents /\ Inside(today)
      /\ job.project = p /\ form = project[p].form
      /\ form.deadline \in Deadlines /\ form.toAll \in BOOLEAN
  BY Settled DEF TypeOK, JobOK, Documents, StillDue
<1>2. UNCHANGED <<today, submitted, project, inbox>>
  BY DEF FetchSenders, userVars
<1>. HIDE DEF form, n
<1>3. CASE form.toAll \/ HasPeriod(form.deadline, n)
  <2>1. PICK list \in SUBSET Senders :
          /\ SenderList(p, form, n) \subseteq list
          /\ job' = [job EXCEPT !.at = "send", !.row = r, !.due = @ \ {r}, !.sent = 0,
                               !.list = list, !.certain = Certain(job.project)]
    BY <1>1, <1>3 DEF FetchSenders, form, n
  <2>2. job'.at = "send" /\ job'.row = r /\ job'.list = list /\ job'.doc = job.doc
        /\ job'.project = p
    BY <1>1, <2>1 DEF Jobs
  <2>3. Late(p, form, n) \subseteq list
    BY <2>1 DEF Late, SenderList
  <2>4. ASSUME NEW x \in Around, Due(form.deadline, r, x)
        PROVE  Late(p, form, x) \subseteq list
    BY <1>1, <2>3, <2>4, DueIsApplicable DEF Around, n
  <2>5. job'.doc.form = form
    BY <2>2 DEF form
  <2>6. ASSUME NEW x \in Around', Due(job.doc.form.deadline, r, x)',
               NEW s \in Late(p, job.doc.form, x)'
        PROVE  s \in job'.list
    <3>1. x \in Around
      BY <1>2 DEF Around
    <3>2. Due(form.deadline, r, x)
      BY <1>2, <2>5, <2>6 DEF Due
    <3>3. s \in Late(p, form, x)
      BY <1>2, <2>5 DEF Late, SubmittedIn
    <3>. QED
      BY <2>2, <2>4, <3>1, <3>2, <3>3
  <2>. QED
    BY <1>1, <1>2, <2>2, <2>5, <2>6 DEF BeingSent, Sending
<1>4. CASE ~(form.toAll \/ HasPeriod(form.deadline, n))
  <2>1. ~Remindable(form)
    BY <1>1, <1>4, ApplicableHasPeriod DEF Remindable, n
  <2>. QED
    BY <1>1, <1>2, <2>1 DEF Arrived
<1>. QED
  BY <1>3, <1>4

(* An SMS is one message more in one box.                                  *)
LEMMA SendOne ==
  ASSUME TypeOK, NEW s \in Senders, Send(s)
  PROVE  /\ inbox' = [inbox EXCEPT ![s] = Append(@, Message)] /\ Message \in Messages
         /\ Len(inbox[s])+1 \in DOMAIN inbox'[s] /\ inbox'[s][Len(inbox[s])+1] = Message
         /\ \E t \in Senders, m \in Messages : inbox' = [inbox EXCEPT ![t] = Append(@, m)]
<1>1. TypeOK' /\ inbox' = [inbox EXCEPT ![s] = Append(@, Message)]
  BY TypeStep DEF Next, Job, Send
<1>2. inbox'[s] \in Seq(Messages) /\ inbox[s] \in Seq(Messages)
      /\ inbox'[s] = Append(inbox[s], Message)
  BY <1>1 DEF TypeOK
<1>3. Message \in {Message} \cup Messages /\ inbox[s] \in Seq({Message} \cup Messages)
  BY <1>2
<1>. HIDE DEF Message
<1>4. Len(inbox[s])+1 \in DOMAIN inbox'[s] /\ inbox'[s][Len(inbox[s])+1] = Message
  BY <1>2, <1>3, AppendProperties, LenProperties
<1>5. Message \in Messages
  BY <1>2, <1>4, ElementOfSeq
<1>. QED
  BY <1>1, <1>4, <1>5

LEMMA KeptBySend ==
  ASSUME TypeOK, NEW s \in Senders, Send(s), NEW p \in Projects, NEW r \in ReminderRows,
         BeingSent(p, r)
  PROVE  BeingSent(p, r)'
<1>1. /\ job \in Jobs /\ today \in Int /\ Inside(today)
      /\ job.doc.form.deadline \in Deadlines
      /\ job.project = p /\ job.row = r /\ job.doc.form = project[p].form
  BY Settled DEF TypeOK, JobOK, Documents, BeingSent
<1>2. /\ job'.at = "log" /\ job'.list = job.list \ {s} /\ job'.row = job.row
      /\ job'.project = job.project /\ job'.doc = job.doc
      /\ UNCHANGED <<today, submitted, project>>
      /\ inbox' = [inbox EXCEPT ![s] = Append(@, Message)]
  BY <1>1 DEF Send, Jobs, userVars
<1>4. ASSUME NEW n \in Around, Due(job.doc.form.deadline, r, n)
      PROVE  Reached(s, p, r, n)'
  <2>1. n = ApplicableDeadline(job.doc.form.deadline, r, today)
    BY <1>1, <1>4, DueIsApplicable DEF Around
  <2>2. Message.project = p /\ Message.row = r /\ Message.deadline = n /\ Message.day = today
    BY <1>1, <2>1 DEF Message
  <2>. QED
    BY <1>2, <2>2, SendOne DEF Reached
<1>5. \A t \in job.list : t \in job'.list \/ t = s
  BY <1>2
<1>6. Sending'
  BY <1>2 DEF Sending
<1>7. \E t \in Senders, m \in Messages : inbox' = [inbox EXCEPT ![t] = Append(@, m)]
  BY SendOne
<1>. HIDE DEF Message
<1>. QED
  BY <1>2, <1>4, <1>5, <1>6, <1>7, BeingSentStays

LEMMA KeptByDone ==
  ASSUME TypeOK, ReminderDone, NEW p \in Projects, NEW r, BeingSent(p, r)
  PROVE  Arrived(p, r)'
<1>1. UNCHANGED <<today, submitted, project, inbox>>
  BY DEF ReminderDone, userVars
<1>2. Arrived(p, r)
  BY DEF ReminderDone, BeingSent, Arrived
<1>. QED
  BY <1>1, <1>2, ArrivedStays

(* What a step of the night does to a reminder that it does not spoil.     *)
LEMMA KeptByJob ==
  ASSUME OnceInv, Job, job.at # "idle", NEW p \in Projects, NEW r \in rows[p],
         r.id \notin spoilt', Kept(p, r)
  PROVE  Kept(p, r)'
<1>1. /\ TypeOK /\ job \in Jobs /\ ranOn = today /\ r \in ReminderRows
      /\ UNCHANGED <<today, submitted, project, rows>>
  BY NightLeaves DEF OnceInv, JobInOrder, TypeOK, JobOK, userVars
<1>2. ASSUME inbox' = inbox, Arrived(p, r)
      PROVE  Arrived(p, r)'
  BY <1>1, <1>2, ArrivedStays
<1>3. ASSUME inbox' = inbox, BeingSent(p, r), Sending', job'.project = job.project,
             job'.doc = job.doc, job'.row = job.row, job'.list = job.list
      PROVE  BeingSent(p, r)'
  BY <1>1, <1>3, BeingSentStays
<1>4. ASSUME StillDue(p, r), Running', job'.project = job.project, job'.doc = job.doc,
             r \in job'.due
      PROVE  StillDue(p, r)'
  BY <1>1, <1>4 DEF StillDue
<1>5. ASSUME StillListed(p, r), job'.at # "idle", r \in job'.listed[p]
      PROVE  StillListed(p, r)'
  BY <1>5 DEF StillListed
<1>6. ASSUME NEW ids, Spoil(ids)
      PROVE  r.id \notin ids
  BY <1>1, <1>6 DEF Spoil
<1>7. CASE StartNight
  BY <1>7 DEF StartNight
<1>8. CASE EndNight
  BY <1>2, <1>8 DEF EndNight, Kept, StillListed, StillDue, BeingSent, Running, Sending
<1>9. CASE JobDies
  <2>1. r.id \notin AllIds
    BY <1>6, <1>9 DEF JobDies
  <2>. QED
    BY <2>1 DEF AllIds, Ids
<1>10. CASE Log
  <2>1. job'.at = "send" /\ UNCHANGED <<inbox, job.listed, job.project, job.doc, job.row,
                                        job.list, job.due>>
    BY <1>1, <1>10 DEF Log, Jobs
  <2>. QED
    BY <1>2, <1>3, <1>4, <1>5, <1>10, <2>1 DEF Log, Kept, Running, Sending, StillListed, StillDue
<1>11. CASE ReminderDone
  <2>1. job'.at = "reminders" /\ UNCHANGED <<inbox, job.listed, job.project, job.doc, job.due>>
    BY <1>1, <1>11 DEF ReminderDone, Jobs
  <2>2. BeingSent(p, r) => Arrived(p, r)'
    BY <1>1, <1>11, KeptByDone
  <2>. QED
    BY <1>2, <1>4, <1>5, <1>11, <2>1, <2>2 DEF Kept, Running, StillListed, StillDue
<1>12. CASE CountReminders
  <2>1. job'.at = "projects" /\ UNCHANGED <<inbox, job.listed>>
    BY <1>12 DEF CountReminders, NoJob
  <2>2. ~StillDue(p, r) /\ ~BeingSent(p, r)
    BY <1>12 DEF CountReminders, StillDue, BeingSent, Sending
  <2>. QED
    BY <1>2, <1>5, <2>1, <2>2 DEF Kept, StillListed
<1>13. ASSUME NEW q \in Projects, LoadProject(q)
       PROVE  Kept(p, r)'
  <2>1. job'.at = "reminders" /\ inbox' = inbox
        /\ \A x \in Projects \ {q} : job'.listed[x] = job.listed[x]
    BY <1>1, <1>13 DEF LoadProject, Jobs
  <2>2. ~StillDue(p, r) /\ ~BeingSent(p, r)
    BY <1>13 DEF LoadProject, StillDue, BeingSent, Running, Sending
  <2>3. CASE p = q /\ StillListed(p, r)
    BY <1>1, <1>13, <2>3, KeptByLoad DEF Kept
  <2>. QED
    BY <1>2, <1>5, <2>1, <2>2, <2>3 DEF Kept, StillListed
<1>14. ASSUME NEW q \in job.due, FetchSenders(q)
       PROVE  Kept(p, r)'
  <2>1. /\ job.at = "reminders" /\ job'.at \in {"reminders", "send"} /\ job'.due = job.due \ {q}
        /\ UNCHANGED <<inbox, job.listed, job.project, job.doc>>
    BY <1>1, <1>14 DEF FetchSenders, Jobs
  <2>2. ~BeingSent(p, r)
    BY <2>1 DEF BeingSent, Sending
  <2>3. CASE q = r /\ StillDue(p, r)
    BY <1>1, <1>14, <2>3, KeptByFetch DEF Kept
  <2>. QED
    BY <1>2, <1>4, <1>5, <2>1, <2>2, <2>3 DEF Kept, Running, StillDue, StillListed
<1>15. ASSUME NEW s \in Senders, Send(s)
       PROVE  Kept(p, r)'
  <2>1. /\ job'.at = "log" /\ UNCHANGED <<job.listed, job.project, job.doc, job.due>>
    BY <1>1, <1>15 DEF Send, Jobs
  <2>2. BeingSent(p, r) => BeingSent(p, r)'
    BY <1>1, <1>15, KeptBySend
  <2>3. Arrived(p, r) => Arrived(p, r)'
    <3>1. \E t \in Senders, m \in Messages : inbox' = [inbox EXCEPT ![t] = Append(@, m)]
      BY <1>1, <1>15, SendOne
    <3>. QED
      BY <1>1, <3>1, ArrivedStays
  <2>. QED
    BY <1>4, <1>5, <2>1, <2>2, <2>3 DEF Kept, Running, StillListed, StillDue
<1>16. ASSUME NEW s \in Senders, Refused(s)
       PROVE  Kept(p, r)'
  <2>1. /\ job'.at = "send" /\ UNCHANGED <<inbox, job.listed, job.project, job.doc, job.due>>
    BY <1>1, <1>16 DEF Refused, Jobs
  <2>2. ~BeingSent(p, r)
    BY <1>6, <1>16 DEF Refused, BeingSent
  <2>. QED
    BY <1>2, <1>4, <1>5, <1>16, <2>1, <2>2 DEF Refused, Kept, Running, StillListed, StillDue
<1>17. CASE ReminderFails
  <2>1. CASE job.at = "reminders" /\ \E x \in job.due : job' = [job EXCEPT !.due = @ \ {x}]
                                                          /\ Spoil({x.id})
    <3>1. PICK x \in job.due : job' = [job EXCEPT !.due = @ \ {x}] /\ Spoil({x.id})
      BY <2>1
    <3>2. x # r /\ job'.at = "reminders" /\ job'.due = job.due \ {x}
          /\ UNCHANGED <<inbox, job.listed, job.project, job.doc>>
      BY <1>1, <1>6, <1>17, <2>1, <3>1 DEF ReminderFails, Jobs
    <3>3. ~BeingSent(p, r)
      BY <2>1 DEF BeingSent, Sending
    <3>. QED
      BY <1>2, <1>4, <1>5, <3>2, <3>3 DEF Kept, Running, StillDue, StillListed
  <2>2. CASE /\ job.at \in {"send", "log"}
             /\ job' = [job EXCEPT !.at = "reminders", !.row = None, !.list = {}, !.certain = TRUE,
                                  !.sent = 0]
             /\ Spoil({job.row.id})
    <3>1. job'.at = "reminders" /\ UNCHANGED <<inbox, job.listed, job.project, job.doc, job.due>>
      BY <1>1, <1>17, <2>2 DEF ReminderFails, Jobs
    <3>2. ~BeingSent(p, r)
      BY <1>6, <2>2 DEF BeingSent
    <3>. QED
      BY <1>2, <1>4, <1>5, <3>1, <3>2 DEF Kept, Running, StillDue, StillListed
  <2>. QED
    BY <1>17, <2>1, <2>2 DEF ReminderFails
<1>18. CASE ProjectFails
  <2>0. inbox' = inbox
    BY <1>18 DEF ProjectFails
  <2>1. CASE job.at = "projects" /\ \E q \in Projects : job' = [job EXCEPT !.listed[q] = {}]
                                                          /\ Spoil(Ids(job.listed[q]))
    <3>1. PICK q \in Projects : job' = [job EXCEPT !.listed[q] = {}] /\ Spoil(Ids(job.listed[q]))
      BY <2>1
    <3>2. job'.at = "projects" /\ \A x \in Projects \ {q} : job'.listed[x] = job.listed[x]
      BY <1>1, <2>1, <3>1 DEF Jobs
    <3>3. r \notin job.listed[q]
      BY <1>6, <3>1 DEF Ids
    <3>4. ~BeingSent(p, r) /\ ~StillDue(p, r)
      BY <2>1 DEF BeingSent, Sending, StillDue, Running
    <3>. QED
      BY <1>2, <1>5, <2>0, <3>2, <3>3, <3>4 DEF Kept, StillListed
  <2>2. CASE /\ job.at = "reminders" /\ job.due = {}
             /\ job' = [NoJob EXCEPT !.at = "projects", !.listed = job.listed]
    <3>1. job'.at = "projects" /\ job'.listed = job.listed
      BY <2>2 DEF NoJob
    <3>2. ~StillDue(p, r) /\ ~BeingSent(p, r)
      BY <2>2 DEF StillDue, BeingSent, Sending
    <3>. QED
      BY <1>2, <1>5, <2>0, <3>1, <3>2 DEF Kept, StillListed
  <2>. QED
    BY <1>18, <2>1, <2>2 DEF ProjectFails
<1>. QED
  BY <1>7, <1>8, <1>9, <1>10, <1>11, <1>12, <1>13, <1>14, <1>15, <1>16, <1>17, <1>18 DEF Job

(* A row that a request does not spoil was there before, and so were the   *)
(* settings of its project.                                                *)
LEMMA UserSpoils ==
  ASSUME UsersOK, ranOn = today, NEW u \in Users, UserStep(u),
         NEW p \in Projects, NEW r \in rows'[p], r.id \notin spoilt'
  PROVE  r \in rows[p] /\ r.id \notin spoilt /\ project'[p] = project[p]
<1> DEFINE q == request[u]
<1>1. RequestOK(q, nextId)
  BY DEF UsersOK
<1>2. ASSUME NEW ids, Spoil(ids)
      PROVE  r.id \notin ids /\ r.id \notin spoilt
  BY <1>2 DEF Spoil
<1>3. CASE SettingsPosted(u) \/ DeletePosted(u)
  BY <1>3 DEF SettingsPosted, DeletePosted, Starts
<1>4. CASE DeleteRows(u)
  BY <1>4 DEF DeleteRows, UsersOK
<1>5. CASE FetchRows(u) \/ RequestFails(u)
  BY <1>5 DEF FetchRows, RequestFails
<1>6. CASE InsertRow(u)
  <2>1. PICK k \in q.todo :
          rows' = [rows EXCEPT ![q.project] = @ \cup {[id |-> nextId, mode |-> k.mode, day |-> k.day]}]
    BY <1>6 DEF InsertRow
  <2>2. Spoil({nextId}) /\ project' = project
    BY <1>6 DEF InsertRow
  <2>3. r.id # nextId /\ r.id \notin spoilt
    BY <1>2, <2>2
  <2>. QED
    BY <2>1, <2>2, <2>3 DEF UsersOK
<1>7. CASE VoidReminder(u)
  <2>1. PICK x \in q.todo : rows' = [rows EXCEPT ![q.project] = @ \cup {x}] /\ Spoil({x.id})
    BY <1>7 DEF VoidReminder
  <2>2. project' = project
    BY <1>7 DEF VoidReminder
  <2>3. r # x /\ r.id \notin spoilt
    BY <1>2, <2>1
  <2>. QED
    BY <2>1, <2>2, <2>3 DEF UsersOK
<1>8. ASSUME NEW doc, SaveDocument(u, doc)
      PROVE  r \in rows[p] /\ r.id \notin spoilt /\ project'[p] = project[p]
  <2>1. Spoil(Ids(rows[q.project])) /\ rows' = rows
        /\ \/ project' = [project EXCEPT ![q.project] = [doc EXCEPT !.rev = @ + 1]]
           \/ project' = project
    BY <1>8 DEF SaveDocument
  <2>2. r.id \notin Ids(rows[q.project]) /\ r.id \notin spoilt
    BY <1>2, <2>1
  <2>3. p # q.project
    BY <2>1, <2>2 DEF Ids
  <2>. QED
    BY <2>1, <2>2, <2>3 DEF UsersOK
<1>9. CASE SaveSettings(u) \/ SetVoid(u)
  BY <1>8, <1>9 DEF SaveSettings, SetVoid
<1>. QED
  BY <1>3, <1>4, <1>5, <1>6, <1>7, <1>9 DEF UserStep

ForgottenInv == OnceInv /\ NothingForgotten

LEMMA ForgottenStep == ForgottenInv /\ [Next]_vars => NothingForgotten'
<1>. SUFFICES ASSUME ForgottenInv, [Next]_vars, ranOn' = today', NEW p \in Projects,
                     NEW r \in rows'[p], r.id \notin spoilt'
              PROVE  Kept(p, r)'
  BY DEF NothingForgotten, Kept
<1>1. OnceInv /\ TypeOK /\ UsersOK
  BY DEF ForgottenInv, OnceInv, TypeOK, UsersOK
<1>2. ASSUME ranOn = today, r \in rows[p], r.id \notin spoilt
      PROVE  Kept(p, r)
  BY <1>2 DEF ForgottenInv, NothingForgotten, Kept
<1>3. ASSUME today' = today, submitted \subseteq submitted', inbox' = inbox, job' = job,
             project'[p] = project[p], Kept(p, r)
      PROVE  Kept(p, r)'
  <2>1. Arrived(p, r) => Arrived(p, r)'
    BY <1>1, <1>3, ArrivedStays
  <2>2. BeingSent(p, r) => BeingSent(p, r)'
    <3>1. BeingSent(p, r) => Sending'
      BY <1>3 DEF BeingSent, Sending
    <3>. QED
      BY <1>1, <1>3, <3>1, BeingSentStays
  <2>. QED
    BY <1>3, <2>1, <2>2 DEF Kept, StillListed, StillDue, Running
<1>4. CASE StartNight
  <2>1. rows' = rows /\ job'.at = "projects" /\ job'.listed = rows
    BY <1>4 DEF StartNight, NoJob, userVars
  <2>. QED
    BY <2>1 DEF Kept, StillListed
<1>5. CASE Job /\ ~StartNight
  <2>1. job.at # "idle" /\ UNCHANGED <<today, ranOn, rows>> /\ (spoilt \subseteq spoilt')
    <3>1. job.at # "idle" /\ ranOn' = ranOn
      BY <1>1, <1>5 DEF Job, EndNight, Log, ReminderDone, CountReminders, LoadProject,
         FetchSenders, Send, Refused, ReminderFails, ProjectFails, JobDies
    <3>2. \E ids : spoilt' \in {spoilt, spoilt \cup ids}
      BY <1>5 DEF Job, EndNight, Log, ReminderDone, CountReminders, LoadProject,
         FetchSenders, Send, Refused, ReminderFails, ProjectFails, JobDies, Spoil
    <3>. QED
      BY <1>5, <3>1, <3>2, NightLeaves DEF userVars
  <2>2. Kept(p, r)
    BY <1>2, <2>1
  <2>. QED
    BY <1>1, <1>5, <2>1, <2>2, KeptByJob
<1>6. ASSUME NEW u \in Users, UserStep(u)
      PROVE  Kept(p, r)'
  <2>1. UNCHANGED <<today, submitted, ranOn, inbox, job>>
    BY <1>6, UserLeaves DEF jobVars
  <2>2. r \in rows[p] /\ r.id \notin spoilt /\ project'[p] = project[p]
    BY <1>1, <1>6, <2>1, UserSpoils
  <2>. QED
    BY <1>2, <1>3, <2>1, <2>2
<1>7. CASE \E s \in Senders, q \in Projects : Submit(s, q)
  BY <1>2, <1>3, <1>7 DEF Submit, jobVars, userVars
<1>8. CASE NextDay
  BY <1>1, <1>8, Settled DEF NextDay, jobVars
<1>9. CASE UNCHANGED vars
  BY <1>2, <1>3, <1>9 DEF vars, jobVars, userVars
<1>. QED
  BY <1>4, <1>5, <1>6, <1>7, <1>8, <1>9 DEF Next

(* scheduler.py and Reminder in models.py: when a night is over, each      *)
(* reminder that was due and met no failure and no edit has reached every  *)
(* late data sender, whatever happened to the other ones.                  *)
THEOREM LateOnesReminded == Spec => []LateAreReminded
<1>1. Init => NothingForgotten
  BY Settled, TypeInit DEF Init, NothingForgotten
<1>2. ForgottenInv => LateAreReminded
  <2>. SUFFICES ASSUME ForgottenInv, NightOver, NEW p \in Projects, Remindable(project[p].form),
                       NEW r \in rows[p], r.id \notin spoilt
                PROVE  \A n \in Around : Due(project[p].form.deadline, r, n)
                         => \A s \in Late(p, project[p].form, n) : Reached(s, p, r, n)
    BY DEF LateAreReminded, AllReached, Remindable, Around
  <2>. QED
    BY DEF ForgottenInv, NothingForgotten, NightOver, StillListed, StillDue, BeingSent,
           Running, Sending, Arrived
<1>3. ForgottenInv /\ [Next]_vars => ForgottenInv'
  BY ForgottenStep, OnceStep DEF ForgottenInv
<1>4. Init => ForgottenInv
  BY <1>1, OnceInit DEF ForgottenInv
<1>. QED
  BY <1>2, <1>3, <1>4, PTL DEF Spec
=============================================================================
