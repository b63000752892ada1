--------------------------- MODULE MCTimeCondition ---------------------------
(* Conditions for the runs of TimeCondition. *)
EXTENDS TimeCondition

Lengths == <<2, 3>>

Of(types, compares, times1, times2) ==
  [timeType : types, compare : compares, time1 : times1, time2 : times2]

\* time1 is a value the field has in every month and year.  A dayYear condition
\* with less is left out: see the README.
WellFormed ==
  Of({"hourMinSec"}, {"equals", "less", "greater", "notEquals", "inRange"}, {1, 5, 8, 16}, {0, 1, 9})
    \cup Of({"hour"}, Operators, {1, 2}, {0, 1})
    \cup Of({"dayWeek"}, Operators, {1, 2}, {0, 1})
    \cup Of({"dayMonth"}, Operators \ {"less"}, {1, 2}, {0, 1})
    \cup Of({"dayMonth"}, {"less"}, {2, 3}, {0})
    \cup Of({"dayYear"}, Operators \ {"less"}, {0, 1, 4}, {0, 1})
    \cup Of({"month"}, Operators, {1}, {0, 1})
    \cup Of({"month"}, Operators \ {"less"}, {0}, {0})
    \cup Of({"year"}, Operators, {1, 2, 3}, {0})
    \cup Of({"absolute"}, Operators, {1, 30, 95}, {0, 2})

HalfHour == Of({"hourMinSec"}, {"equals"}, {6}, {2})
Ranges == Of({"hour"}, {"inRange"}, {0, 1, 2}, {0, 1, 2})
=============================================================================
