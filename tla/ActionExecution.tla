---------------------------- MODULE ActionExecution ----------------------------
(***************************************************************************)
(* The execution of actions (api/Action.cpp, api/SubActionImpls.h and      *)
(* .cpp).  The websocket thread executes them for a client                 *)
(* (events/ActionsSocketHandler.cpp), the rule timer as effects            *)
(* (events/RuleEventHandler.cpp).  An action is a list of sub-actions; one *)
(* that runs another action goes one level deeper; one with a timeout runs *)
(* later in a detached thread.                                             *)
(*                                                                         *)
(* A thread's stack holds a frame for each action it is in.  Threads whose *)
(* timeout has not passed are tasks in the bag `later`.                    *)
(***************************************************************************)
EXTENDS Naturals, Sequences, FiniteSets, SequencesExt, Bags

CONSTANTS
  Devices,       \* each with one property that is 0 or 1
  Ids,           \* of the actions
  Programs,      \* what the actions may be, see SubActionImpls
  s_maxRecursion,
  Detached,      \* bound on the detached threads that are awake at a time
  MaxRequests    \* bound on the executions that are started from outside

\* The kinds of sub-actions, with what each of them acts on.
SubActionImpls ==
  [kind : {"set", "toggle"}, target : Devices, delayed : BOOLEAN]
  \cup [kind : {"run"}, target : Ids, delayed : BOOLEAN]
  \cup [kind : {"notify"}, target : {0}, delayed : BOOLEAN]

ASSUME ActionExecutionAssumption ==
  /\ Programs \subseteq [Ids -> Seq(SubActionImpls)]
  /\ s_maxRecursion \in Nat /\ MaxRequests \in Nat
  /\ Detached \cap {"socket", "timer"} = {}

Callers == {"socket", "timer"}
Threads == Callers \cup Detached
None == 2

VARIABLES
  program,  \* the actions in the database
  value,    \* of each device's property
  stack,    \* of each thread: frames [body, next, depth]
  task,     \* history: the frame that a thread began with, and its request
  done,     \* history: what a thread has done since
  read,     \* the value a thread has read for a toggle, or None
  later,    \* the bag of tasks that sleep
  by,       \* history: the caller of each request and the action
  over,     \* history: requests whose caller has returned
  server,   \* "up", "destroyed" (the end of main's block) or "exited"
  ended,    \* how the process ended: "no", "exception" or "undefined"
  expected, \* history: the value by the writes alone
  raced     \* history: whether a write came between a toggle's read and its write

threads == <<stack, task, done, read, later>>
writes == <<value, expected, raced>>
vars == <<program, threads, writes, by, over, server, ended>>

Init ==
  /\ program \in Programs
  /\ value = [d \in Devices |-> 0] /\ expected = value /\ raced = [d \in Devices |-> FALSE]
  /\ stack = [t \in Threads |-> <<>>] /\ task = stack /\ done = stack
  /\ read = [t \in Threads |-> None] /\ later = EmptyBag
  /\ by = <<>> /\ over = {} /\ server = "up" /\ ended = "no"

-----------------------------------------------------------------------------
Frame(body, depth) == [body |-> body, next |-> 1, depth |-> depth]
Top(t) == Last(stack[t])
Current(t) == Top(t).body[Top(t).next]
Up == server = "up" /\ ended = "no"
Busy(t) == stack[t] # <<>> /\ Up
AtSubAction(t) == Busy(t) /\ Top(t).next <= Len(Top(t).body)
At(t, kind) == AtSubAction(t) /\ ~Current(t).delayed /\ Current(t).kind = kind

Advance(f) == [f EXCEPT !.next = @ + 1]
Advanced(t) == Append(Front(stack[t]), Advance(Top(t)))

\* Doing the current sub-action completes it.
Complete(t) ==
  /\ stack' = [stack EXCEPT ![t] = Advanced(t)]
  /\ done' = [done EXCEPT ![t] = Append(@, <<Current(t).kind, Current(t).target>>)]

Idle(ts) ==
  /\ task' = [t \in Threads |-> IF t \in ts THEN <<>> ELSE task[t]]
  /\ done' = [t \in Threads |-> IF t \in ts THEN <<>> ELSE done[t]]

-----------------------------------------------------------------------------
(* Callers *)

Execute(t, id) ==
  /\ t \in Callers /\ Up /\ stack[t] = <<>> /\ Len(by) < MaxRequests
  /\ stack' = [stack EXCEPT ![t] = <<Frame(program[id], 0)>>]
  /\ task' = [task EXCEPT ![t] = [frame |-> Frame(program[id], 0), request |-> Len(by) + 1]]
  /\ by' = Append(by, [caller |-> t, id |-> id])
  /\ UNCHANGED <<program, done, read, later, writes, over, server, ended>>

\* A caller that returns, or that catches an exception, destroys its locals.
Return(t) == over' = IF t \in Callers THEN over \cup {task[t].request} ELSE over

-----------------------------------------------------------------------------
(* Sub-actions *)

\* The reference to a channel is to a local copy if the rule timer is the caller.
CopiesChannel == {"timer"}

ChannelDead(request) == request \in over /\ by[request].caller \in CopiesChannel

DeviceSet(t) ==
  LET d == Current(t).target
  IN  /\ At(t, "set")
      /\ value' = [value EXCEPT ![d] = 1] /\ expected' = [expected EXCEPT ![d] = 1]
      /\ raced' = [raced EXCEPT ![d] =
           @ \/ \E u \in Threads \ {t} : At(u, "toggle") /\ Current(u).target = d /\ read[u] # None]
      /\ Complete(t)
      /\ UNCHANGED <<program, task, read, later, by, over, server, ended>>

\* DeviceToggle: Get and Set of the property are two steps.
ToggleRead(t) ==
  /\ At(t, "toggle") /\ read[t] = None
  /\ read' = [read EXCEPT ![t] = value[Current(t).target]]
  /\ UNCHANGED <<program, stack, task, done, later, writes, by, over, server, ended>>

AsRead(t) == read[t]
Toggled(t) == 1 - read[t]

ToggleWrite(t) ==
  LET d == Current(t).target
  IN  /\ At(t, "toggle") /\ read[t] # None
      /\ value' = [value EXCEPT ![d] = Toggled(t)] /\ expected' = [expected EXCEPT ![d] = 1 - @]
      /\ raced' = [raced EXCEPT ![d] =
           @ \/ \E u \in Threads \ {t} : At(u, "toggle") /\ Current(u).target = d /\ read[u] # None]
      /\ read' = [read EXCEPT ![t] = None]
      /\ Complete(t)
      /\ UNCHANGED <<program, task, later, by, over, server, ended>>

\* Broadcasting to a channel that is destroyed is undefined.
Notification(t) ==
  /\ At(t, "notify")
  /\ Complete(t)
  /\ ended' \in IF ChannelDead(task[t].request) THEN {"no", "undefined"} ELSE {"no"}
  /\ UNCHANGED <<program, task, read, later, writes, by, over, server>>

\* RecursiveAction: the other action is copied from the database.
AtLimit(depth) == depth >= s_maxRecursion
TooDeep(depth) == depth > s_maxRecursion

RecursiveAction(t) ==
  LET deeper == Frame(program[Current(t).target], Top(t).depth + 1)
  IN  /\ At(t, "run")
      /\ stack' = [stack EXCEPT ![t] =
           IF TooDeep(deeper.depth) THEN Advanced(t) ELSE Append(Advanced(t), deeper)]
      /\ UNCHANGED <<program, task, done, read, later, writes, by, over, server, ended>>

\* BaseImpl::Execute of a sub-action with a timeout.
FromZero(t) == 0
CopiedDepth(t) == Top(t).depth

Delay(t) ==
  /\ AtSubAction(t) /\ Current(t).delayed
  /\ later' = later (+) SetToBag({[sub |-> [Current(t) EXCEPT !.delayed = FALSE],
                                   depth |-> CopiedDepth(t), request |-> task[t].request]})
  /\ stack' = [stack EXCEPT ![t] = Advanced(t)]
  /\ done' = [done EXCEPT ![t] = Append(@, <<"later", Current(t).target>>)]
  /\ UNCHANGED <<program, task, read, writes, by, over, server, ended>>

\* A detached thread wakes. The user that it passes on is the parameter of an Execute
\* that returned long ago, captured by reference: to read it is undefined.
Wake(t) ==
  /\ t \in Detached /\ Up /\ stack[t] = <<>>
  /\ \E x \in BagToSet(later) :
       LET f == Frame(<<x.sub>>, x.depth)
       IN  /\ stack' = [stack EXCEPT ![t] = <<f>>]
           /\ task' = [task EXCEPT ![t] = [frame |-> f, request |-> x.request]]
           /\ later' = later (-) SetToBag({x})
           /\ ended' \in {"no", "undefined"}
  /\ UNCHANGED <<program, done, read, writes, by, over, server>>

FrameEnds(t) ==
  /\ Busy(t) /\ Top(t).next > Len(Top(t).body)
  /\ stack' = [stack EXCEPT ![t] = Front(@)]
  /\ IF Len(stack[t]) = 1
     THEN Idle({t}) /\ Return(t)
     ELSE UNCHANGED <<task, done, over>>
  /\ UNCHANGED <<program, read, later, writes, by, server, ended>>

\* A device or an action is gone, the database or a broadcast fails: the exception
\* ends the whole execution.  Both callers catch it; a detached thread does not.
OnlySocketCatches == {"socket"}
Catching == Callers

Throw(t) ==
  /\ AtSubAction(t) /\ ~Current(t).delayed
  /\ stack' = [stack EXCEPT ![t] = <<>>]
  /\ read' = [read EXCEPT ![t] = None]
  /\ Idle({t}) /\ Return(t)
  /\ ended' = IF t \in Catching THEN "no" ELSE "exception"
  /\ UNCHANGED <<program, later, writes, by, server>>

-----------------------------------------------------------------------------
(* The end of the program: main waits for the websocket thread only. *)

Destroy ==
  /\ Up /\ stack["socket"] = <<>>
  /\ server' = "destroyed"
  /\ UNCHANGED <<program, threads, writes, by, over, ended>>

\* A thread that executes then, or begins to, uses what is destroyed.
UseDestroyed ==
  /\ server = "destroyed" /\ ended = "no"
  /\ \/ later # EmptyBag \/ Len(by) < MaxRequests
     \/ \E t \in Threads : stack[t] # <<>>
  /\ ended' = "undefined"
  /\ UNCHANGED <<program, threads, writes, by, over, server>>

Exit ==
  /\ server = "destroyed" /\ ended = "no" /\ server' = "exited"
  /\ UNCHANGED <<program, threads, writes, by, over, ended>>

-----------------------------------------------------------------------------
SubActionStep(t) ==
  \/ DeviceSet(t) \/ ToggleRead(t) \/ ToggleWrite(t) \/ Notification(t)
  \/ RecursiveAction(t) \/ Delay(t) \/ FrameEnds(t) \/ Throw(t)

Next ==
  \/ \E t \in Threads : SubActionStep(t) \/ Wake(t)
  \/ \E t \in Callers, id \in Ids : Execute(t, id)
  \/ Destroy \/ UseDestroyed \/ Exit
  \/ (ended # "no" \/ server = "exited") /\ UNCHANGED vars

Spec == Init /\ [][Next]_vars

\* Every thread goes on, and every timeout passes.
FairSpec ==
  /\ Spec
  /\ \A t \in Threads : WF_vars(SubActionStep(t) \/ Wake(t))

-----------------------------------------------------------------------------
(* What an action does, by recursion on the levels that are left. *)

SubEffects(sub, deeper) ==
  IF sub.delayed THEN << <<"later", sub.target>> >>
  ELSE IF sub.kind = "run" THEN deeper[sub.target]
  ELSE << <<sub.kind, sub.target>> >>

BodyEffects(body, deeper) == FlattenSeq([i \in DOMAIN body |-> SubEffects(body[i], deeper)])

Effects[n \in 0..(s_maxRecursion + 1)] ==
  [id \in Ids |-> IF n = 0 THEN <<>> ELSE BodyEffects(program[id], Effects[n - 1])]

\* The levels below a frame. The deepest task that sleeps has no level left.
Below(f) == Effects[s_maxRecursion - f.depth]
Rest(f) == BodyEffects(SubSeq(f.body, f.next, Len(f.body)), Below(f))

\* Frames stay within their bodies, and the stack within the recursion limit:
\* "The maximum number of stacked sub-calls" (Action.h:247) lie on the first one.
TypeOK ==
  /\ \A t \in Threads :
       /\ Len(stack[t]) <= s_maxRecursion + 1
       /\ \A i \in DOMAIN stack[t] :
            stack[t][i].depth \in 0..s_maxRecursion /\ stack[t][i].next \in 1..(Len(stack[t][i].body) + 1)
       /\ read[t] # None => At(t, "toggle") \/ ~Up
  /\ value \in [Devices -> {0, 1}] /\ read \in [Threads -> {0, 1, None}]
  /\ \A x \in BagToSet(later) : x.depth \in 0..s_maxRecursion
  /\ over \subseteq DOMAIN by /\ ended \in {"no", "exception", "undefined"}

\* What a thread has done and what its stack has left to do are together what the
\* action does level by level, in order, up to the recursion limit.
ExecutesInOrder ==
  \A t \in Threads : stack[t] # <<>> =>
    done[t] \o FlattenSeq(Reverse([i \in DOMAIN stack[t] |-> Rest(stack[t][i])])) = Rest(task[t].frame)

\* A set or a toggle is lost only if it comes between a toggle's read and its write
\* in another thread.
LostOnlyByRace == \A d \in Devices : ~raced[d] => value[d] = expected[d]

\* Whether an action has a sub-action with a timeout, itself or in what it runs at once
\* within the recursion limit.
Delays(id) == LET e == Effects[s_maxRecursion + 1][id] IN \E k \in DOMAIN e : e[k][1] = "later"

\* Whatever fails, the process ends while the server is up only if one of the actions
\* that were asked for delays a sub-action: then the thread may use what is destroyed,
\* the user (SubActionImpls.h:148) or the rule timer's channel, or throw.  Without
\* timeouts every exception is caught and everything that is used is there.
EndExplained == ended # "no" /\ server = "up" => \E r \in DOMAIN by : Delays(by[r].id)

\* Everything that was started ends, also actions that run themselves, at once or
\* with a delay, unless the program ends.
EverythingEnds ==
  <>[](ended # "no" \/ server # "up" \/ (later = EmptyBag /\ \A t \in Threads : stack[t] = <<>>))

\* Delayed sub-actions refer to nothing "already ... deleted when the thread runs"
\* (SubActionImpls.h:144).
NothingDeleted == \A t \in Detached : stack[t] # <<>> => ~ChannelDead(task[t].request)
=============================================================================
