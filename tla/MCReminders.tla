---------------------------- MODULE MCReminders ----------------------------
EXTENDS Reminders, TLC

(* The first days of the months from November 2011, a Tuesday, to April    *)
(* 2013: a leap year, and a February of 28 days.                           *)
MCCalendar ==
  <<1, 31, 62, 93, 122, 153, 183, 214, 244,
    275, 306, 336, 367, 397, 428, 459, 487, 518>>

(* The second of the month and the Wednesday, which are the same day in    *)
(* May 2012: reminders on the day before, the day itself and the day after.*)
MCForms ==
  {[deadline |-> [frequency |-> "month", day |-> 2, mode |-> "Same"], toAll |-> FALSE,
    kinds |-> {[mode |-> "before", day |-> 1], [mode |-> "after", day |-> 1]}],
   [deadline |-> [frequency |-> "week", day |-> 3, mode |-> "Following"], toAll |-> TRUE,
    kinds |-> {[mode |-> "on", day |-> 0]}]}

(* A deadline on the last day of every month.                              *)
MCLastDay ==
  {[deadline |-> [frequency |-> "month", day |-> 31, mode |-> "Same"], toAll |-> FALSE,
    kinds |-> {[mode |-> "on", day |-> 0]}]}

(* Every deadline that the form offers.                                    *)
MCEveryDeadline == [deadline : Deadlines, toAll : {FALSE}, kinds : {{}}]

(* The days alone.                                                         *)
DaysSpec == Init /\ [][NextDay]_vars

Symmetric == Permutations(Users)
=============================================================================
