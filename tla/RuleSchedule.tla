----------------------------- MODULE RuleSchedule -----------------------------
(***************************************************************************)
(* What the timer of RuleEventHandler promises: a timed rule runs at each  *)
(* of its execution times, never while its condition is false, and not     *)
(* twice for one execution time.                                           *)
(***************************************************************************)
EXTENDS TimedRules, Sequences

VARIABLES
  rules,  \* the rules there are (none is added or removed)
  now,    \* the clock
  fired   \* when the effect of each rule was executed

LastOf(s) == s[Len(s)]

SpecInit == now = 0 /\ \A id \in DOMAIN fired : fired[id] = <<>>

\* Since its last run, if any, the rule has come to another execution time.
MayRunAgain(r) ==
  fired[r.id] # <<>> =>
    \E t \in (LastOf(fired[r.id]) + 1)..now : NextExecutionTime(r, t - 1) = t

Fire(r) ==
  /\ IsSatisfied(r, now)
  /\ MayRunAgain(r)
  /\ fired' = [fired EXCEPT ![r.id] = Append(@, now)]
  /\ UNCHANGED <<rules, now>>

\* The clock does not move past a rule that is due.
Tick ==
  /\ \A r \in rules : IsDue(r, now) => fired[r.id] # <<>> /\ LastOf(fired[r.id]) = now
  /\ now' = now + 1
  /\ UNCHANGED <<rules, fired>>

Schedule == SpecInit /\ [][(\E r \in rules : Fire(r)) \/ Tick]_<<rules, now, fired>>
=============================================================================
