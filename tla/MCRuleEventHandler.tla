------------------------- MODULE MCRuleEventHandler -------------------------
(* Small sets of rules for the runs of RuleEventHandler. *)
EXTENDS RuleEventHandler

Condition(type, cmp, t, w) ==
  [timeType |-> type, compare |-> cmp, time1 |-> t, time2 |-> w]
Daily(t, w) == Condition("hourMinSec", "equals", t, w)
Once(t, w) == Condition("absolute", "equals", t, w)

Rule(i, cs) ==
  [id |-> i, enabled |-> TRUE, op |-> "OR", conditions |-> cs]

\* With a day of four seconds.
Conditions ==
  {{Daily(t, w)} : t \in {1, 2, 3}, w \in {0, 1}}
    \cup {{Condition("hourMinSec", "less", 2, 0)}}
    \cup {{Once(t, w)} : t \in {1, 3, 6}, w \in {0, 1}}
    \cup {{Daily(1, 0), Daily(3, 0)}}

\* The times of day at which conditions c want to be checked.
TimesOfDay(c) == {IF x.compare = "less" THEN 0 ELSE x.time1 % 4 : x \in c}

\* Up to three enabled rules at different times of the day, one recurring.
DistinctTimes ==
  {s \in UNION {[1..n -> Conditions] : n \in 1..3} :
     /\ \A i, j \in DOMAIN s : i # j => TimesOfDay(s[i]) \cap TimesOfDay(s[j]) = {}
     /\ \E i \in DOMAIN s : \E c \in s[i] : c.timeType = "hourMinSec"}

ScheduleConfigurations == {[i \in DOMAIN s |-> Rule(i, s[i])] : s \in DistinctTimes}

\* Two daily rules, an edited version of the first, a new one.
TwoDaily == {<<Rule(1, {Daily(1, 1)}), Rule(2, {Daily(2, 0)})>>}
EditedAndNew == {Rule(1, {Daily(2, 0)}), Rule(3, {Daily(1, 0)})}

\* A time that has passed before the start.
Expired == Condition("absolute", "less", 0, 0)

\* No rule at all, one that comes once, and one that has expired beside a daily one.
Mixed ==
  TwoDaily \cup {<<>>, <<Rule(4, {Once(1, 0)})>>, <<Rule(4, {Expired}), Rule(2, {Daily(2, 0)})>>}

\* An edited version of the first, and one that comes once: new where its id is not taken.
EditedAndOnce == {Rule(1, {Daily(2, 0)}), Rule(4, {Once(3, 0)})}

\* The smallest sets of rules in which the timer goes wrong.
OnlyOnce == {<<Rule(1, {Once(1, 0)})>>}
ExpiredBesideDaily == {<<Rule(1, {Once(1, 0)}), Rule(2, {Daily(1, 0)})>>}
DisabledBesideDaily == {<<[Rule(1, {Daily(1, 0)}) EXCEPT !.enabled = FALSE], Rule(2, {Daily(2, 0)})>>}
SameTime == {<<Rule(1, {Daily(1, 0)}), Rule(2, {Daily(1, 0)})>>}
WideWindow == {<<Rule(1, {Daily(2, 1)})>>}
=============================================================================
