------------------------------ MODULE TimedRules ------------------------------
(***************************************************************************)
(* Rules whose condition looks at the clock (api/Rule.cpp and the helpers  *)
(* at the top of events/RuleEventHandler.cpp).                             *)
(*                                                                         *)
(* An instant is a number of seconds: "now" is strictly inside second      *)
(* number t, so an execution time t has been reached, and is in the past,  *)
(* as soon as the clock shows t.  0 is the epoch, the code's "never".      *)
(* A day has Day seconds and times of day are chosen such that adding      *)
(* time2 borrows from no minute or hour (TimeCondition covers the borrow). *)
(***************************************************************************)
EXTENDS Integers, FiniteSets

CONSTANT Day
ASSUME DayAssumption == Day \in Nat /\ Day > 0

Never == 0

\* hourMinSec and absolute stand for the eight time types: one that recurs
\* every day and one that comes only once.
TimeCondition ==
  [timeType : {"hourMinSec", "absolute"}, compare : {"equals", "greater", "less"},
   time1 : Nat, time2 : Nat]

\* A condition tree is kept as the set of its time conditions and their operator.
IsRule(r) ==
  /\ r.id \in Nat \ {0} /\ r.enabled \in BOOLEAN /\ r.op \in {"AND", "OR"}
  /\ r.conditions # {} /\ r.conditions \subseteq TimeCondition

ConditionIsSatisfied(c, t) ==
  LET cmpTime == IF c.timeType = "hourMinSec" THEN t % Day ELSE t
  IN  CASE c.compare = "equals"  -> /\ c.time1 - c.time2 <= cmpTime
                                    /\ cmpTime <= c.time1 + c.time2
        [] c.compare = "greater" -> cmpTime > c.time1
        [] c.compare = "less"    -> cmpTime < c.time1

\* A disabled rule is never satisfied.
IsSatisfied(r, t) ==
  /\ r.enabled
  /\ IF r.op = "AND" THEN \A c \in r.conditions : ConditionIsSatisfied(c, t)
                     ELSE \E c \in r.conditions : ConditionIsSatisfied(c, t)

LastMidnight(t) == t - (t % Day)

GetNextExecutionTime(c, t) ==
  LET today == LastMidnight(t) + c.time1
  IN  CASE c.timeType = "hourMinSec" /\ c.compare = "less" -> LastMidnight(t) + Day
        [] c.timeType = "hourMinSec" /\ c.compare # "less" ->
             IF today <= t THEN today + Day ELSE today
        [] c.timeType = "absolute" /\ c.compare = "less" -> Never
        [] c.timeType = "absolute" /\ c.compare # "less" ->
             IF c.time1 <= t THEN Never ELSE c.time1

\* The earliest execution time of its time conditions, disabled or not.
NextExecutionTime(r, t) ==
  LET times == {GetNextExecutionTime(c, t) : c \in r.conditions} \ {Never}
  IN  IF times = {} THEN Never
      ELSE CHOOSE n \in times : \A m \in times : n <= m

Recurs(r) == \E c \in r.conditions : c.timeType = "hourMinSec"

\* t is an execution time of r, and r wants to run then.
IsDue(r, t) == t > 0 /\ NextExecutionTime(r, t - 1) = t /\ IsSatisfied(r, t)
=============================================================================
