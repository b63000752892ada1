--------------------------- MODULE RuleEventHandler ---------------------------
(***************************************************************************)
(* The timer thread for rules and its event handler                        *)
(* (events/RuleEventHandler.cpp).                                          *)
(*                                                                         *)
(* m_timedRules is a binary heap by next execution time.  The keys are     *)
(* computed from the clock at each comparison, so they change under the    *)
(* heap.  Only its front is ever looked at: the model keeps the front at   *)
(* the head of a sequence and lets the rest be in any order.               *)
(***************************************************************************)
EXTENDS TimedRules, Sequences, SequencesExt

CONSTANTS
  Configurations,   \* the sequences of rules the database may hold at the start
  Changed,          \* rules that events may carry
  ChangeFields,     \* which RuleFields occur in events
  MaxEvents,        \* bound: rule change events and spurious wakeups
  MaxTime,          \* bound: where the clock stops
  MaxTimeSlow,      \* bound: where it stops if it does not wait for the threads
  Prompts,          \* whether the clock waits for the threads to finish their work
  SpuriousWakeups,  \* whether waits may end for no reason
  EffectsThrow,     \* whether executing an effect may throw
  Destroyed         \* whether the handler is destroyed at some time

\* A rule's id is its primary key in the database.
ASSUME RuleEventHandlerAssumption ==
  /\ \A s \in Configurations :
       /\ s \in Seq(ToSet(s)) /\ \A i \in DOMAIN s : IsRule(s[i])
       /\ \A i, j \in DOMAIN s : s[i].id = s[j].id => i = j
  /\ \A r \in Changed : IsRule(r)
  /\ ChangeFields \subseteq {"ADD", "REMOVE", "CONDITION", "ALL"}
  /\ MaxEvents \in Nat /\ MaxTime \in Nat /\ MaxTimeSlow \in 0..MaxTime
  /\ Prompts \cup {SpuriousWakeups, EffectsThrow, Destroyed} \subseteq BOOLEAN

VARIABLES
  m_timedRules,
  m_shutdownThread,
  pc,         \* where Run() is
  copy,       \* sequence of the one rule the thread took out to execute, or empty
  nextCheck,  \* the local variable of Run()
  db,         \* the rules in the database
  hpc,        \* where HandleEvent is: "idle", "effect", "schedule", "check"
  changing,   \* sequence of the rule whose change HandleEvent has still to schedule, or empty
  dpc,        \* the destructor: "alive", "flagSet", "joining"
  events,     \* number of events and spurious wakeups (bound)
  now,        \* the system clock
  fired,      \* history: when the effect of each rule was executed
  overtaken,  \* history: ids that were changed or reused while the thread executed the rule
  prompt      \* one of Prompts

timerVars == <<m_timedRules, pc, copy, nextCheck>>
clock == <<now, prompt, overtaken>>
vars == <<timerVars, m_shutdownThread, db, hpc, changing, dpc, events, clock, fired>>

AllRules == (UNION {ToSet(s) : s \in Configurations}) \cup Changed
Ids == {r.id : r \in AllRules}

\* m_mutex is held by the thread.  Every other holder keeps it for one step.
Locked == pc \in {"check", "next", "decide"}

Key(r) == NextExecutionTime(r, now)

-----------------------------------------------------------------------------
\* The heap.  Where keys are equal or more than four rules are stored, the code
\* of the standard library may put any of several rules in front.

MinimalAt(s, i) == \A j \in DOMAIN s : Key(s[i]) <= Key(s[j])

ToFront(s, i) == <<s[i]>> \o SubSeq(s, 1, i - 1) \o SubSeq(s, i + 1, Len(s))

\* make_heap compares every rule.
MakeHeap(s) == IF s = <<>> THEN {s} ELSE {ToFront(s, i) : i \in {j \in DOMAIN s : MinimalAt(s, j)}}

\* pop_heap and pop_back; of a small rest it finds the least key.
PopHeap(s) ==
  LET rest == Tail(s)
  IN  IF Len(rest) <= 3 THEN MakeHeap(rest)
      ELSE {ToFront(rest, i) : i \in DOMAIN rest}

\* push_back and push_heap: the new rule rises past rules whose key is greater.
\* On its way to the front it may meet a rule with a lesser key, if the keys have
\* changed since that rule was put below the front.
PushHeap(s, r) ==
  LET less    == s # <<>> => Key(r) < Key(Head(s))
      blocked == Len(s) > 2 /\ \E i \in DOMAIN s : Key(s[i]) <= Key(r)
  IN  (IF less THEN {<<r>> \o s} ELSE {}) \cup (IF less /\ ~blocked THEN {} ELSE {Append(s, r)})

\* find_if by id, then replace or push_back.
Upsert(s, r) ==
  IF \E i \in DOMAIN s : s[i].id = r.id
  THEN LET i == SelectInSeq(s, LAMBDA x : x.id = r.id) IN [s EXCEPT ![i] = r]
  ELSE Append(s, r)

EraseId(s, id) ==
  IF \E i \in DOMAIN s : s[i].id = id
  THEN RemoveAt(s, SelectInSeq(s, LAMBDA x : x.id = id))
  ELSE s

-----------------------------------------------------------------------------
\* RemoveRule emits its event with a default constructed Rule as changed rule.
RemovedId(r) == 0

\* notify_all
NobodyWoken == pc
Woken == IF pc = "waiting" THEN "woken" ELSE pc

Executed(ids) == [i \in Ids |-> IF i \in ids THEN Append(fired[i], now) ELSE fired[i]]

\* The thread pushes a rule back only if it will run again.
AlwaysPushedBack(r) == TRUE
NeverPushedBack(r) == FALSE
RunsAgain(r) == Key(r) > now

\* What the local variable copy holds after the rule was moved back.
KeptInCopy == copy
MovedOut == <<>>

\* The condition of the loop.
StopWhenEmpty == m_shutdownThread /\ m_timedRules = <<>>
StopRequested == m_shutdownThread

\* Whether Run() waits before it goes on with its loop.
MustWait == nextCheck > now \/ nextCheck = Never

Init ==
  /\ \E s \in Configurations :
       /\ db = ToSet(s)
       /\ now = 0
       /\ m_timedRules \in MakeHeap(s)
  /\ m_shutdownThread = FALSE
  /\ pc = "woken"
  /\ copy = <<>>
  /\ nextCheck = Never
  /\ hpc = "idle" /\ changing = <<>>
  /\ dpc = "alive"
  /\ events = 0
  /\ fired = [i \in Ids |-> <<>>]
  /\ overtaken = {}
  /\ prompt \in Prompts

-----------------------------------------------------------------------------
\* Run(): the loop test, then either take the front rule out to execute it, or
\* go on to compute when to check next.
Check ==
  /\ pc \in {"woken", "check"}
  /\ \/ /\ StopRequested
        /\ pc' = "done"
        /\ UNCHANGED <<m_timedRules, copy, nextCheck, fired>>
     \/ /\ ~StopRequested /\ m_timedRules = <<>>
        /\ pc' = "decide"
        /\ nextCheck' = Never
        /\ UNCHANGED <<m_timedRules, copy, fired>>
     \/ /\ ~StopRequested /\ m_timedRules # <<>>
        /\ IsSatisfied(Head(m_timedRules), now)
        /\ pc' = "executing"
        /\ copy' = <<Head(m_timedRules)>>
        /\ m_timedRules' \in PopHeap(m_timedRules)
        /\ fired' = Executed({Head(m_timedRules).id})
        /\ UNCHANGED nextCheck
     \/ /\ ~StopRequested /\ m_timedRules # <<>>
        /\ ~IsSatisfied(Head(m_timedRules), now)
        /\ pc' = "next"
        /\ UNCHANGED <<m_timedRules, copy, nextCheck, fired>>
  /\ UNCHANGED <<m_shutdownThread, db, hpc, changing, dpc, events, clock>>

\* The effect is done, or has thrown: lock again and put the rule back.
ExecuteDone ==
  /\ pc = "executing"
  /\ IF RunsAgain(copy[1])
     THEN m_timedRules' \in PushHeap(m_timedRules, copy[1])
     ELSE UNCHANGED m_timedRules
  /\ copy' = MovedOut
  /\ pc' = "next"
  /\ UNCHANGED <<nextCheck, m_shutdownThread, db, hpc, changing, dpc, events, clock, fired>>

\* nextCheck is the execution time of the front rule.  front() of an empty
\* vector is undefined: what it reads is the rule that was moved from, whose
\* condition is null.
ComputeNext ==
  /\ pc = "next"
  /\ \/ /\ m_timedRules = <<>>
        /\ pc' = "crashed"
        /\ UNCHANGED nextCheck
     \/ /\ m_timedRules # <<>>
        /\ pc' = "decide"
        /\ nextCheck' = Key(Head(m_timedRules))
  /\ UNCHANGED <<m_timedRules, copy, m_shutdownThread, db, hpc, changing, dpc, events, clock, fired>>

\* wait_until, wait, or go on with the loop.
Decide ==
  /\ pc = "decide"
  /\ pc' = IF MustWait THEN "waiting" ELSE "check"
  /\ UNCHANGED <<m_timedRules, copy, nextCheck, m_shutdownThread, db, hpc, changing, dpc, events,
                 clock, fired>>

\* wait_until returns at its deadline; wait has none.
Timeout ==
  /\ pc = "waiting"
  /\ nextCheck # Never /\ nextCheck <= now
  /\ pc' = "woken"
  /\ UNCHANGED <<m_timedRules, copy, nextCheck, m_shutdownThread, db, hpc, changing, dpc, events,
                 clock, fired>>

SpuriousWakeup ==
  /\ SpuriousWakeups /\ pc = "waiting"
  /\ events < MaxEvents
  /\ events' = events + 1
  /\ pc' = "woken"
  /\ UNCHANGED <<m_timedRules, copy, nextCheck, m_shutdownThread, db, hpc, changing, dpc, clock, fired>>

-----------------------------------------------------------------------------
\* The rule storage changes the database, then HandleEvent gets the event.

Replaced(r) == {x \in db : x.id # r.id} \cup {r}

BeginEvent(field, then) ==
  /\ field \in ChangeFields
  /\ hpc = "idle" /\ dpc = "alive" /\ pc # "crashed"
  /\ events < MaxEvents
  /\ events' = events + 1
  /\ hpc' = then
  /\ UNCHANGED <<copy, nextCheck, m_shutdownThread, dpc, now, prompt>>

\* The part of HandleEvent under the mutex, for ADD and for CONDITION.
ScheduleChanged(r) ==
  /\ ~Locked
  /\ m_timedRules' \in MakeHeap(Upsert(m_timedRules, r))
  /\ pc' = IF Head(m_timedRules').id = r.id THEN Woken ELSE pc
  /\ overtaken' = overtaken \cup ({copy[i].id : i \in DOMAIN copy} \cap {r.id})

RuleAdded(r) ==
  /\ BeginEvent("ADD", "check")
  /\ \A x \in db : x.id # r.id
  /\ db' = db \cup {r}
  /\ ScheduleChanged(r)
  /\ UNCHANGED <<changing, fired>>

\* If the changed rule is satisfied its effect is executed at once, without the mutex,
\* before the change reaches the heap.
RuleConditionChanged(r) ==
  /\ BeginEvent("CONDITION", IF IsSatisfied(r, now) THEN "effect" ELSE "schedule")
  /\ \E x \in db : x.id = r.id
  /\ db' = Replaced(r)
  /\ changing' = <<r>>
  /\ fired' = IF IsSatisfied(r, now) THEN Executed({r.id}) ELSE fired
  /\ UNCHANGED <<m_timedRules, pc, overtaken>>

\* An effect that throws ends HandleEvent: the heap keeps the old rule, and CheckRules
\* is not called.
ChangedEffectDone ==
  /\ hpc = "effect"
  /\ \/ hpc' = "schedule" /\ UNCHANGED changing
     \/ EffectsThrow /\ hpc' = "idle" /\ changing' = <<>>
  /\ UNCHANGED <<timerVars, m_shutdownThread, db, dpc, events, clock, fired>>

ConditionScheduled ==
  /\ hpc = "schedule"
  /\ ScheduleChanged(changing[1])
  /\ hpc' = "check" /\ changing' = <<>>
  /\ UNCHANGED <<copy, nextCheck, m_shutdownThread, db, dpc, events, now, prompt, fired>>

RuleRemoved(r) ==
  /\ BeginEvent("REMOVE", "check")
  /\ r \in db
  /\ ~Locked
  /\ db' = db \ {r}
  /\ m_timedRules' \in MakeHeap(EraseId(m_timedRules, RemovedId(r)))
  /\ UNCHANGED <<pc, changing, fired, overtaken>>

\* What UpdateRule emits: no branch of HandleEvent is for it.
RuleUpdated(r) ==
  /\ BeginEvent("ALL", "check")
  /\ \E x \in db : x.id = r.id
  /\ db' = Replaced(r)
  /\ UNCHANGED <<m_timedRules, pc, changing, fired, overtaken>>

\* CheckRules: time conditions are checked on every event.  An effect that
\* throws ends the loop, so rules after it are not executed.
CheckRules ==
  /\ hpc = "check"
  /\ hpc' = "idle"
  /\ \E last \in Ids :
       /\ EffectsThrow \/ \A i \in Ids : i <= last
       /\ fired' = Executed({r.id : r \in {x \in db : IsSatisfied(x, now) /\ x.id <= last}})
  /\ UNCHANGED <<timerVars, m_shutdownThread, db, changing, dpc, events, clock>>

-----------------------------------------------------------------------------
SetShutdown ==
  /\ Destroyed /\ dpc = "alive" /\ hpc = "idle" /\ ~Locked
  /\ now + 2 * Day <= MaxTime   \* leaves the time that DestructorReturns needs
  /\ m_shutdownThread' = TRUE
  /\ dpc' = "flagSet"
  /\ UNCHANGED <<timerVars, db, hpc, changing, events, clock, fired>>

NotifyShutdown ==
  /\ dpc = "flagSet"
  /\ pc' = Woken
  /\ dpc' = "joining"
  /\ UNCHANGED <<m_timedRules, copy, nextCheck, m_shutdownThread, db, hpc, changing, events, clock, fired>>

\* With prompt threads the machine is fast compared with the clock.
Idle ==
  /\ hpc = "idle" /\ dpc # "flagSet"
  /\ pc \in {"done", "crashed"} \/ (pc = "waiting" /\ (nextCheck = Never \/ nextCheck > now))

LastTick == IF prompt THEN MaxTime ELSE MaxTimeSlow

Tick ==
  /\ now < LastTick
  /\ prompt => Idle
  /\ now' = now + 1
  /\ UNCHANGED <<prompt, overtaken, timerVars, m_shutdownThread, db, hpc, changing, dpc, events, fired>>

\* The end of the model's time, not a deadlock of the code.
Horizon ==
  /\ now = LastTick /\ Idle
  /\ UNCHANGED vars

Thread == Check \/ ExecuteDone \/ ComputeNext \/ Decide \/ Timeout

\* The rest of HandleEvent, in the thread that emitted the event.
Handling == ChangedEffectDone \/ ConditionScheduled \/ CheckRules

Next ==
  \/ Thread
  \/ SpuriousWakeup
  \/ \E r \in Changed : RuleAdded(r) \/ RuleConditionChanged(r) \/ RuleUpdated(r)
  \/ \E r \in db : RuleRemoved(r)
  \/ Handling
  \/ SetShutdown
  \/ NotifyShutdown
  \/ Tick
  \/ Horizon

Spec == Init /\ [][Next]_vars

\* The threads are scheduled and the clock runs.
FairSpec ==
  Spec /\ WF_vars(Thread) /\ WF_vars(Handling) /\ WF_vars(NotifyShutdown) /\ WF_vars(Tick)

-----------------------------------------------------------------------------
\* What the handler's members and the thread's locals may hold.
TypeOK ==
  /\ \A i \in DOMAIN m_timedRules : IsRule(m_timedRules[i])
  /\ m_shutdownThread \in BOOLEAN
  /\ pc \in {"woken", "check", "executing", "next", "decide", "waiting", "done", "crashed"}
  /\ Len(copy) = IF pc = "executing" THEN 1 ELSE 0
  /\ nextCheck \in Nat /\ now \in 0..MaxTime
  /\ \A r \in db : IsRule(r)
  /\ hpc \in {"idle", "effect", "schedule", "check"}
  /\ Len(changing) = IF hpc \in {"effect", "schedule"} THEN 1 ELSE 0
  /\ \A i \in DOMAIN changing : IsRule(changing[i])
  /\ dpc \in {"alive", "flagSet", "joining"}
  /\ m_shutdownThread <=> dpc # "alive"
  /\ \A id \in Ids : \A i \in DOMAIN fired[id] : fired[id][i] \in 0..now

\* The thread waits for "the lowest execution time" (RuleEventHandler.cpp:127):
\* its deadline is not later than the next execution time of any timed rule, also
\* of one that comes while it waits.  (If the threads are slow, the keys change
\* under the heap.)
WaitsForLowest ==
  prompt /\ pc = "waiting" /\ nextCheck # Never =>
    \A i \in DOMAIN m_timedRules :
      Key(m_timedRules[i]) # Never => nextCheck <= Key(m_timedRules[i])

\* The thread waits without a deadline only if "no rule should be checked"
\* (RuleEventHandler.cpp:260).
SleepsOnlyWhenIdle ==
  pc = "waiting" /\ nextCheck = Never =>
    \A i \in DOMAIN m_timedRules : Key(m_timedRules[i]) = Never

\* It sleeps without a deadline over recurring rules only beside one that comes once: a
\* rule that has expired, whose key 0 hides the others (line 258).  A rule that comes to
\* an empty timer wakes it.
SleepExplained ==
  pc = "waiting" /\ nextCheck = Never =>
    m_timedRules = <<>> \/ \E i \in DOMAIN m_timedRules : ~Recurs(m_timedRules[i])

\* The thread never reads the front of an empty vector.  It does after the last rule
\* that comes only once (line 242).
NoCrash == pc # "crashed"

\* It does so only then: not while any recurring rule is in the database.
CrashExplained == pc = "crashed" => \A r \in db : ~Recurs(r)

\* Every recurring rule that was there at the start, or that was added, is in
\* the heap or in the hands of the thread: none is lost between the two.
TimedRulesKept ==
  \A r \in db :
    Recurs(r) =>
      \/ \E i \in DOMAIN m_timedRules : m_timedRules[i].id = r.id
      \/ \E i \in DOMAIN copy : copy[i].id = r.id

\* A rule is in the heap twice, or in the heap while the thread will put it back,
\* only if it was changed, or its id reused, while the thread executed it.
TwiceIfOvertaken ==
  LET all == m_timedRules \o copy
  IN  \A i, j \in DOMAIN all : all[i].id = all[j].id => i = j \/ all[i].id \in overtaken

\* Together, for the time that the mutex is released (line 221): whatever events change
\* the heap then, no recurring rule is lost, and none comes twice but those that such
\* an event was about.
RulesInTimer == TimedRulesKept /\ TwiceIfOvertaken

\* A rule that was due has run, when the clock has gone on.
NoMissedExecution ==
  \A r \in db : \A t \in 1..(now - 1) :
    IsDue(r, t) => \E i \in DOMAIN fired[r.id] : fired[r.id][i] = t

\* A rule runs at most once for one of its execution times.
OncePerExecutionTime ==
  \A r \in db : \A i \in 2..Len(fired[r.id]) :
    \E t \in (fired[r.id][i - 1] + 1)..fired[r.id][i] : NextExecutionTime(r, t - 1) = t

\* After an event that changed a rule, the timer goes by the changed rule
\* ("Check rule again, because it might have changed", RuleEventHandler.cpp:95).
TimerKnowsChanges ==
  hpc = "idle" => \A r \in db : \A i \in DOMAIN m_timedRules :
                    m_timedRules[i].id = r.id => m_timedRules[i] = r

\* The implementation refines the schedule of RuleSchedule: with rules that all
\* run at different times of the day, none is missed and none runs twice.
Promise == INSTANCE RuleSchedule WITH rules <- db
ScheduleKept == Promise!Schedule

\* The thread always comes back to a wait, it does not spin with the mutex held.
MutexReleased == []<>(~Locked)

\* The destructor's join returns, unless the thread has crashed or sleeps without a
\* deadline: it missed the notification, which came while it executed an effect.  With a
\* deadline it sees the flag when that has come.
DestructorReturns ==
  prompt /\ dpc = "joining" ~>
    pc \in {"done", "crashed"} \/ (pc = "waiting" /\ nextCheck = Never)
=============================================================================
