------------------------ MODULE ActionExecutionProofs ------------------------
(***************************************************************************)
(* For any actions, recursion limit, detached threads and requests: the    *)
(* stack of sub-calls is bounded, a toggle is lost only by a race, an      *)
(* action does what its sub-actions say, in their order, and the process   *)
(* ends only if one that was asked for delays a sub-action.                *)
(***************************************************************************)
EXTENDS ActionExecution, SequenceTheorems, FiniteSetTheorems, TLAPS

Frames ==
  {f \in [body : Seq(SubActionImpls), next : Nat \ {0}, depth : 0..s_maxRecursion] :
     f.next <= Len(f.body) + 1}

\* Every level of a stack is at least as deep as its place.
WellStacked(s) == \A i \in DOMAIN s : i <= s[i].depth + 1

StackInv ==
  /\ program \in [Ids -> Seq(SubActionImpls)]
  /\ stack \in [Threads -> Seq(Frames)]
  /\ \A t \in Threads : WellStacked(stack[t])

\* A thread that has read a value is at its toggle, and nobody has written the device
\* since, or the device is marked.
InToggle(t) ==
  /\ stack[t] # <<>> /\ Top(t).next <= Len(Top(t).body)
  /\ Current(t).kind = "toggle" /\ ~Current(t).delayed

ReadInv ==
  /\ value \in [Devices -> {0, 1}] /\ expected \in [Devices -> {0, 1}]
  /\ raced \in [Devices -> BOOLEAN] /\ read \in [Threads -> {0, 1, None}]
  /\ \A t \in Threads : read[t] # None =>
       InToggle(t) /\ (~raced[Current(t).target] => read[t] = value[Current(t).target])
  /\ LostOnlyByRace

\* What sleeps has no timeout any more, and its depth is that of some frame.
TasksOrigin ==
  \A x \in BagToSet(later) :
    x.sub \in SubActionImpls /\ ~x.sub.delayed /\ x.depth \in 0..s_maxRecursion

\* A caller that executes has not returned from its request, and began with its action.
Request(t) ==
  LET q == task[t].request
  IN  /\ q \in DOMAIN by \ over /\ by[q].caller = t
      /\ task[t].frame = Frame(program[by[q].id], 0)

RequestInv ==
  /\ by \in Seq([caller : Callers, id : Ids]) /\ over \subseteq DOMAIN by /\ DOMAIN task = Threads
  /\ \A t \in Callers : stack[t] # <<>> => Request(t)

Ends == {"no", "exception", "undefined"}

IInv == StackInv /\ ReadInv /\ TasksOrigin /\ RequestInv /\ ended \in Ends

-----------------------------------------------------------------------------
LEMMA CallersAreNotDetached == Callers \cap Detached = {} /\ Threads = Callers \cup Detached
  BY ActionExecutionAssumption DEF Callers, Threads

\* The frame that a thread executes.
LEMMA TopIsFrame ==
  ASSUME StackInv, NEW t \in Threads, stack[t] # <<>>
  PROVE  /\ stack[t] \in Seq(Frames) /\ Len(stack[t]) \in Nat \ {0}
         /\ Top(t) = stack[t][Len(stack[t])] /\ Top(t) \in Frames
         /\ Top(t).depth \in Nat
<1>1. stack[t] \in Seq(Frames)
  BY DEF StackInv
<1>2. Len(stack[t]) \in Nat \ {0}
  BY <1>1
<1>3. Top(t) = stack[t][Len(stack[t])]
  BY DEF Top, Last
<1>4. Top(t) \in Frames
  BY <1>1, <1>2, <1>3
<1>5. Top(t).depth \in Nat
  BY <1>4, ActionExecutionAssumption DEF Frames
<1> QED  BY <1>1, <1>2, <1>3, <1>4, <1>5

LEMMA CurrentIsSubAction ==
  ASSUME StackInv, NEW t \in Threads, stack[t] # <<>>, Top(t).next <= Len(Top(t).body)
  PROVE  Current(t) \in SubActionImpls
<1>1. Top(t) \in [body : Seq(SubActionImpls), next : Nat \ {0}, depth : 0..s_maxRecursion]
  BY TopIsFrame DEF Frames
<1> QED  BY <1>1 DEF Current

\* Going on to the next sub-action leaves the bodies and depths alone.
LEMMA AdvancedKeeps ==
  ASSUME StackInv, NEW t \in Threads, AtSubAction(t)
  PROVE  /\ Advanced(t) \in Seq(Frames) /\ Len(Advanced(t)) = Len(stack[t])
         /\ \A i \in DOMAIN stack[t] :
              /\ Advanced(t)[i].body = stack[t][i].body
              /\ Advanced(t)[i].depth = stack[t][i].depth
<1>1. stack[t] # <<>> /\ Top(t).next <= Len(Top(t).body)
  BY DEF AtSubAction, Busy
<1> DEFINE n == Len(stack[t])
<1>2. /\ stack[t] \in Seq(Frames) /\ n \in Nat \ {0}
      /\ Top(t) = stack[t][n] /\ Top(t) \in Frames
  BY <1>1, TopIsFrame
<1>3. Advance(Top(t)) \in Frames
  <2>1. Top(t) = [body |-> Top(t).body, next |-> Top(t).next, depth |-> Top(t).depth]
    BY <1>2 DEF Frames
  <2>2. Top(t).next + 1 <= Len(Top(t).body) + 1 /\ Top(t).next + 1 \in Nat \ {0}
    BY <1>1, <1>2 DEF Frames
  <2> QED  BY <1>2, <2>1, <2>2 DEF Frames, Advance
<1>4. Advance(Top(t)).body = Top(t).body /\ Advance(Top(t)).depth = Top(t).depth
  BY <1>2 DEF Advance, Frames
<1>5. /\ Front(stack[t]) \in Seq(Frames) /\ Len(Front(stack[t])) = n - 1
      /\ \A i \in 1..(n - 1) : Front(stack[t])[i] = stack[t][i]
  BY <1>2 DEF Front
<1>6. Advanced(t) = Append(Front(stack[t]), Advance(Top(t)))
  BY DEF Advanced
<1> HIDE DEF n
<1>7. /\ Advanced(t) \in Seq(Frames) /\ Len(Advanced(t)) = n
      /\ \A i \in 1..(n - 1) : Advanced(t)[i] = stack[t][i]
      /\ Advanced(t)[n] = Advance(Top(t))
  BY <1>2, <1>3, <1>5, <1>6
<1>8. DOMAIN stack[t] = 1..n
  BY <1>2 DEF n
<1>9. \A i \in DOMAIN stack[t] : i \in 1..(n - 1) \/ i = n
  BY <1>2, <1>8
<1> QED  BY <1>2, <1>4, <1>7, <1>9 DEF n

-----------------------------------------------------------------------------
(* The stacks *)

LEMMA StackChanged ==
  ASSUME StackInv, program' = program, NEW t \in Threads, NEW s \in Seq(Frames),
         WellStacked(s), stack' = [stack EXCEPT ![t] = s]
  PROVE  StackInv'
<1>1. stack' \in [Threads -> Seq(Frames)]
  BY DEF StackInv
<1>2. \A u \in Threads : WellStacked(stack'[u])
  BY DEF StackInv
<1>3. \A u \in Threads : WellStacked(stack[u])'
  BY <1>2 DEF WellStacked
<1> QED  BY <1>1, <1>3 DEF StackInv

LEMMA AdvancedStacked ==
  ASSUME StackInv, NEW t \in Threads, AtSubAction(t)
  PROVE  Advanced(t) \in Seq(Frames) /\ WellStacked(Advanced(t))
<1>1. stack[t] \in Seq(Frames) /\ WellStacked(stack[t])
  BY DEF StackInv
<1>2. DOMAIN Advanced(t) = DOMAIN stack[t]
  BY <1>1, AdvancedKeeps
<1> QED  BY <1>1, <1>2, AdvancedKeeps DEF WellStacked

\* A frame of an action one level deeper than the top.
LEMMA DeeperStacked ==
  ASSUME StackInv, NEW t \in Threads, AtSubAction(t), Current(t).kind = "run", ~Current(t).delayed,
         ~TooDeep(Top(t).depth + 1)
  PROVE  LET s == Append(Advanced(t), Frame(program[Current(t).target], Top(t).depth + 1))
         IN  s \in Seq(Frames) /\ WellStacked(s)
<1> DEFINE f == Frame(program[Current(t).target], Top(t).depth + 1)
           a == Advanced(t)
           n == Len(a)
<1>1. stack[t] # <<>> /\ Top(t).next <= Len(Top(t).body)
  BY DEF AtSubAction, Busy
<1>2. Current(t) \in SubActionImpls /\ Current(t).target \in Ids
  BY <1>1, CurrentIsSubAction DEF SubActionImpls
<1>3. program[Current(t).target] \in Seq(SubActionImpls)
  BY <1>2 DEF StackInv
<1>4. f \in Frames /\ f.body = program[Current(t).target] /\ f.depth = Top(t).depth + 1
  <2>1. Top(t).depth + 1 \in 0..s_maxRecursion
    BY <1>1, TopIsFrame, ActionExecutionAssumption DEF TooDeep
  <2> QED  BY <1>3, <2>1 DEF Frame, Frames
<1>5. a \in Seq(Frames) /\ WellStacked(a) /\ n = Len(stack[t]) /\ n \in Nat \ {0}
  BY <1>1, AdvancedStacked, AdvancedKeeps, TopIsFrame
<1>6. n <= Top(t).depth + 1
  <2>1. WellStacked(stack[t]) /\ Len(stack[t]) \in DOMAIN stack[t]
    BY <1>1, TopIsFrame DEF StackInv
  <2> QED  BY <1>1, <1>5, <2>1, TopIsFrame DEF WellStacked
<1> HIDE DEF f, a, n
<1> DEFINE s == Append(a, f)
<1>8. /\ s \in Seq(Frames) /\ Len(s) = n + 1 /\ s[n + 1] = f
      /\ \A i \in 1..n : s[i] = a[i] /\ i \in DOMAIN a
  BY <1>4, <1>5 DEF n
<1>9. \A i \in DOMAIN s : i \in 1..n \/ i = n + 1
  BY <1>5, <1>8
<1>11. n + 1 <= f.depth + 1 /\ n + 1 # 1
  <2>1. Top(t).depth \in Nat
    BY <1>1, TopIsFrame
  <2> QED  BY <1>4, <1>5, <1>6, <2>1
<1>12. WellStacked(s)
  BY <1>5, <1>8, <1>9, <1>11 DEF WellStacked
<1> QED  BY <1>8, <1>12 DEF s, a, f

LEMMA FrontStacked ==
  ASSUME StackInv, NEW t \in Threads, stack[t] # <<>>
  PROVE  /\ Front(stack[t]) \in Seq(Frames) /\ WellStacked(Front(stack[t]))
         /\ Len(stack[t]) # 1 => Front(stack[t]) # <<>>
<1> DEFINE f == Front(stack[t])
           n == Len(stack[t])
<1>1. stack[t] \in Seq(Frames) /\ WellStacked(stack[t]) /\ n \in Nat \ {0}
  BY TopIsFrame DEF StackInv
<1>2. f \in Seq(Frames) /\ Len(f) = n - 1 /\ \A i \in 1..(n - 1) : f[i] = stack[t][i]
  BY <1>1 DEF Front
<1> HIDE DEF f, n
<1>3. DOMAIN f = 1..(n - 1) /\ DOMAIN f \subseteq DOMAIN stack[t]
  BY <1>1, <1>2 DEF n
<1>4. WellStacked(f)
  BY <1>1, <1>2, <1>3 DEF WellStacked, n
<1>5. n # 1 => f # <<>>
  BY <1>1, <1>2
<1> QED  BY <1>2, <1>4, <1>5 DEF f, n

LEMMA EmptyStacked == \A t \in Threads : <<>> \in Seq(Frames) /\ WellStacked(<<>>)
  BY DEF WellStacked

\* The first frame of a caller, and of a detached thread.
LEMMA ActionStacked ==
  ASSUME StackInv, NEW t \in Callers, NEW id \in Ids
  PROVE  <<Frame(program[id], 0)>> \in Seq(Frames) /\ WellStacked(<<Frame(program[id], 0)>>)
<1>1. Frame(program[id], 0) \in Frames
  BY ActionExecutionAssumption DEF StackInv, Frame, Frames
<1>2. Frame(program[id], 0).body = program[id] /\ Frame(program[id], 0).depth = 0
  BY DEF Frame
<1> QED  BY <1>1, <1>2 DEF WellStacked

LEMMA TaskStacked ==
  ASSUME StackInv, TasksOrigin, NEW t \in Detached, NEW x \in BagToSet(later)
  PROVE  /\ <<Frame(<<x.sub>>, x.depth)>> \in Seq(Frames)
         /\ WellStacked(<<Frame(<<x.sub>>, x.depth)>>)
<1> DEFINE f == Frame(<<x.sub>>, x.depth)
<1>1. x.sub \in SubActionImpls /\ x.depth \in 0..s_maxRecursion
  BY DEF TasksOrigin
<1>2. f \in Frames /\ f.body = <<x.sub>> /\ f.depth = x.depth
  BY <1>1 DEF Frame, Frames
<1> HIDE DEF f
<1>4. 1 <= f.depth + 1
  BY <1>1, <1>2
<1>5. <<f>> \in Seq(Frames) /\ WellStacked(<<f>>)
  BY <1>2, <1>4 DEF WellStacked
<1> QED  BY <1>5 DEF f

LEMMA NextStack ==
  ASSUME StackInv, TasksOrigin, [Next]_vars
  PROVE  StackInv'
<1>1. CASE UNCHANGED <<program, stack>>
  BY <1>1 DEF StackInv, WellStacked
<1>2. ASSUME NEW t \in Threads, NEW s \in Seq(Frames), WellStacked(s),
             stack' = [stack EXCEPT ![t] = s], program' = program
      PROVE  StackInv'
  BY <1>2, StackChanged
<1>3. ASSUME NEW t \in Threads, AtSubAction(t), stack' = [stack EXCEPT ![t] = Advanced(t)], program' = program
      PROVE  StackInv'
  BY <1>2, <1>3, AdvancedStacked
<1>4. ASSUME NEW t \in Threads, DeviceSet(t) \/ ToggleWrite(t) \/ Notification(t) \/ Delay(t)
      PROVE  StackInv'
  BY <1>3, <1>4 DEF DeviceSet, ToggleWrite, Notification, Delay, Complete, At
<1>5. ASSUME NEW t \in Threads, RecursiveAction(t)
      PROVE  StackInv'
  <2> DEFINE f == Frame(program[Current(t).target], Top(t).depth + 1)
  <2>1. /\ AtSubAction(t) /\ Current(t).kind = "run" /\ ~Current(t).delayed /\ program' = program
        /\ stack' = [stack EXCEPT ![t] = IF TooDeep(f.depth) THEN Advanced(t) ELSE Append(Advanced(t), f)]
        /\ f.depth = Top(t).depth + 1
    BY <1>5 DEF RecursiveAction, At, Frame
  <2>2. CASE TooDeep(f.depth)
    BY <1>3, <2>1, <2>2
  <2>3. CASE ~TooDeep(f.depth)
    <3>1. Append(Advanced(t), f) \in Seq(Frames) /\ WellStacked(Append(Advanced(t), f))
      BY <2>1, <2>3, DeeperStacked
    <3> QED  BY <1>2, <2>1, <2>3, <3>1
  <2> QED  BY <2>2, <2>3
<1>6. ASSUME NEW t \in Threads, FrameEnds(t)
      PROVE  StackInv'
  <2>1. stack[t] # <<>> /\ stack' = [stack EXCEPT ![t] = Front(stack[t])] /\ program' = program
    BY <1>6 DEF FrameEnds, Busy
  <2> QED  BY <1>2, <2>1, FrontStacked
<1>7. ASSUME NEW t \in Threads, Throw(t)
      PROVE  StackInv'
  BY <1>2, <1>7, EmptyStacked DEF Throw
<1>8. ASSUME NEW t \in Threads, Wake(t)
      PROVE  StackInv'
  <2>1. PICK x \in BagToSet(later) : stack' = [stack EXCEPT ![t] = <<Frame(<<x.sub>>, x.depth)>>]
    BY <1>8 DEF Wake
  <2>2. t \in Detached /\ program' = program
    BY <1>8 DEF Wake
  <2> QED  BY <1>2, <2>1, <2>2, TaskStacked
<1>9. ASSUME NEW t \in Callers, NEW id \in Ids, Execute(t, id)
      PROVE  StackInv'
  BY <1>2, <1>9, ActionStacked, CallersAreNotDetached DEF Execute
<1>10. ASSUME NEW t \in Threads, ToggleRead(t)
       PROVE  UNCHANGED <<program, stack>>
  BY <1>10 DEF ToggleRead
<1>11. CASE Destroy \/ UseDestroyed \/ Exit \/ UNCHANGED vars
  BY <1>1, <1>11 DEF Destroy, UseDestroyed, Exit, vars, threads
<1> QED
  BY <1>1, <1>4, <1>5, <1>6, <1>7, <1>8, <1>9, <1>10, <1>11 DEF Next, SubActionStep

-----------------------------------------------------------------------------
(* What sleeps *)

LEMMA BagOfOneMore == ASSUME NEW b, NEW x PROVE BagToSet(b (+) SetToBag({x})) = BagToSet(b) \cup {x}
  BY DEF BagToSet, SetToBag, (+)

LEMMA BagOfOneLess == ASSUME NEW b, NEW x PROVE BagToSet(b (-) SetToBag({x})) \subseteq BagToSet(b)
  BY DEF BagToSet, SetToBag, (-)

LEMMA NextTasks ==
  ASSUME StackInv, TasksOrigin, [Next]_vars
  PROVE  TasksOrigin'
<1>1. program' = program
  BY DEF Next, SubActionStep, DeviceSet, ToggleRead, ToggleWrite, Notification, RecursiveAction, Delay, FrameEnds,
         Throw, Wake, Execute, Destroy, UseDestroyed, Exit, vars
<1>2. ASSUME BagToSet(later') \subseteq BagToSet(later) PROVE TasksOrigin'
  BY <1>1, <1>2 DEF TasksOrigin
<1>3. CASE later' = later
  BY <1>2, <1>3
<1>4. ASSUME NEW t \in Threads, Delay(t) PROVE TasksOrigin'
  <2> DEFINE x == [sub |-> [Current(t) EXCEPT !.delayed = FALSE], depth |-> CopiedDepth(t),
                   request |-> task[t].request]
  <2>1. AtSubAction(t) /\ Current(t).delayed /\ later' = later (+) SetToBag({x})
    BY <1>4 DEF Delay
  <2>2. stack[t] # <<>> /\ Top(t).next <= Len(Top(t).body)
    BY <2>1 DEF AtSubAction, Busy
  <2>3. x.sub \in SubActionImpls /\ ~x.sub.delayed /\ x.sub.kind = Current(t).kind
    <3>1. Current(t) \in SubActionImpls
      BY <2>2, CurrentIsSubAction
    <3> QED  BY <3>1 DEF SubActionImpls
  <2>4. x.depth \in 0..s_maxRecursion
    BY <2>2, TopIsFrame DEF CopiedDepth, Frames
  <2>6. BagToSet(later') = BagToSet(later) \cup {x}
    BY <2>1, BagOfOneMore
  <2> HIDE DEF x
  <2>7. \A y \in BagToSet(later') : y \in BagToSet(later) \/ y = x
    BY <2>6
  <2> QED  BY <2>3, <2>4, <2>7 DEF TasksOrigin
<1>5. ASSUME NEW t \in Threads, Wake(t) PROVE TasksOrigin'
  <2>1. PICK x : later' = later (-) SetToBag({x})
    BY <1>5 DEF Wake
  <2> QED  BY <1>2, <2>1, BagOfOneLess
<1> QED
  BY <1>3, <1>4, <1>5 DEF Next, SubActionStep, DeviceSet, ToggleRead, ToggleWrite, Notification, RecursiveAction,
     FrameEnds, Throw, Execute, Destroy, UseDestroyed, Exit, vars, threads

-----------------------------------------------------------------------------
(* The requests *)

\* What leaves a thread's first frame and its task alone keeps its request.
LEMMA RequestKept ==
  ASSUME RequestInv, program' = program, by' = by, over' = over, task' = task,
         \A t \in Callers : stack'[t] # <<>> => stack[t] # <<>>
  PROVE  RequestInv'
  BY DEF RequestInv, Request

LEMMA RequestReturns ==
  ASSUME RequestInv, NEW t \in Threads, stack[t] # <<>>, UNCHANGED <<program, by>>, Idle({t}), Return(t),
         \A u \in Callers : stack'[u] # <<>> => stack[u] # <<>> /\ u # t
  PROVE  RequestInv'
<1>1. over' \subseteq DOMAIN by /\ by' \in Seq([caller : Callers, id : Ids])
  BY DEF RequestInv, Request, Return
<1>2. /\ DOMAIN task' = Threads
      /\ \A u \in Threads \ {t} : task'[u] = task[u]
  BY DEF Idle
<1>3. ASSUME NEW u \in Callers, stack'[u] # <<>>
      PROVE  Request(u)'
  <2>1. u # t /\ stack[u] # <<>> /\ task'[u] = task[u]
    BY <1>2, <1>3, CallersAreNotDetached
  <2>2. Request(u)
    BY <2>1 DEF RequestInv
  <2>3. t \in Callers => by[task[t].request].caller = t
    BY DEF RequestInv, Request
  <2>4. task[u].request \notin over'
    BY <2>1, <2>2, <2>3 DEF Return, Request
  <2> QED  BY <2>1, <2>2, <2>4 DEF Request
<1> QED  BY <1>1, <1>2, <1>3 DEF RequestInv

LEMMA NextRequest ==
  ASSUME StackInv, RequestInv, [Next]_vars
  PROVE  RequestInv'
<1>1. ASSUME NEW t \in Threads, NEW s, stack' = [stack EXCEPT ![t] = s], stack[t] # <<>> \/ t \in Detached,
             UNCHANGED <<program, by, over, task>>
      PROVE  RequestInv'
  BY <1>1, RequestKept, CallersAreNotDetached DEF StackInv
<1>2. ASSUME NEW t \in Threads,
             \/ DeviceSet(t) \/ ToggleWrite(t) \/ Notification(t) \/ RecursiveAction(t) \/ Delay(t)
      PROVE  RequestInv'
  <2>1. stack[t] # <<>> /\ UNCHANGED <<program, by, over, task>>
    BY <1>2 DEF DeviceSet, ToggleWrite, Notification, RecursiveAction, Delay, At, AtSubAction, Busy
  <2>2. \E s : stack' = [stack EXCEPT ![t] = s]
    BY <1>2 DEF DeviceSet, ToggleWrite, Notification, RecursiveAction, Delay, Complete
  <2> QED  BY <1>1, <2>1, <2>2
<1>3. ASSUME NEW t \in Threads, Wake(t) PROVE RequestInv'
  <2>1. /\ t \in Detached /\ UNCHANGED <<program, by, over>>
        /\ \E s : stack' = [stack EXCEPT ![t] = s]
        /\ \E r : task' = [task EXCEPT ![t] = r]
    BY <1>3 DEF Wake
  <2>2. /\ DOMAIN task' = DOMAIN task
        /\ \A u \in Callers : stack'[u] = stack[u] /\ task'[u] = task[u]
    BY <2>1, CallersAreNotDetached
  <2> QED  BY <2>1, <2>2 DEF RequestInv, Request
<1>4. ASSUME NEW t \in Threads, FrameEnds(t) PROVE RequestInv'
  <2>1. stack[t] # <<>> /\ stack' = [stack EXCEPT ![t] = Front(stack[t])] /\ UNCHANGED <<program, by>>
    BY <1>4 DEF FrameEnds, Busy
  <2>2. CASE Len(stack[t]) = 1
    <3>1. Idle({t}) /\ Return(t)
      BY <1>4, <2>2 DEF FrameEnds
    <3>2. stack'[t] = <<>>
      <4>1. stack[t] \in Seq(Frames) /\ stack'[t] = Front(stack[t])
        BY <2>1 DEF StackInv
      <4> QED  BY <2>2, <4>1 DEF Front
    <3> QED  BY <2>1, <3>1, <3>2, RequestReturns, CallersAreNotDetached DEF StackInv
  <2>3. CASE Len(stack[t]) # 1
    BY <1>1, <1>4, <2>1, <2>3 DEF FrameEnds
  <2> QED  BY <2>2, <2>3
<1>5. ASSUME NEW t \in Threads, Throw(t) PROVE RequestInv'
  <2>1. /\ stack[t] # <<>> /\ stack' = [stack EXCEPT ![t] = <<>>] /\ UNCHANGED <<program, by>>
        /\ Idle({t}) /\ Return(t)
    BY <1>5 DEF Throw, AtSubAction, Busy
  <2> QED  BY <2>1, RequestReturns, CallersAreNotDetached DEF StackInv
<1>6. ASSUME NEW t \in Callers, NEW id \in Ids, Execute(t, id) PROVE RequestInv'
  <2> DEFINE r == Len(by) + 1
  <2>1. /\ by' = Append(by, [caller |-> t, id |-> id]) /\ over' = over /\ program' = program
        /\ task' = [task EXCEPT ![t] = [frame |-> Frame(program[id], 0), request |-> r]]
        /\ \E s : stack' = [stack EXCEPT ![t] = s]
    BY <1>6 DEF Execute
  <2>2. /\ by' \in Seq([caller : Callers, id : Ids])
        /\ DOMAIN by' = DOMAIN by \cup {r} /\ r \notin DOMAIN by
        /\ by'[r] = [caller |-> t, id |-> id] /\ \A i \in DOMAIN by : by'[i] = by[i]
    BY <2>1 DEF RequestInv
  <2>3. /\ DOMAIN task' = Threads /\ t \in Threads
        /\ task'[t] = [frame |-> Frame(program[id], 0), request |-> r]
    BY <2>1, CallersAreNotDetached DEF RequestInv
  <2>4. Request(t)'
    BY <2>1, <2>2, <2>3 DEF RequestInv, Request
  <2>5. ASSUME NEW u \in Callers \ {t}, stack'[u] # <<>> PROVE Request(u)'
    <3>1. stack'[u] = stack[u] /\ task'[u] = task[u]
      BY <2>1, CallersAreNotDetached DEF RequestInv, StackInv
    <3> QED  BY <2>1, <2>2, <2>5, <3>1 DEF RequestInv, Request
  <2>6. over' \subseteq DOMAIN by'
    BY <2>1, <2>2 DEF RequestInv
  <2> QED  BY <2>2, <2>3, <2>4, <2>5, <2>6 DEF RequestInv
<1>7. CASE (\E t \in Threads : ToggleRead(t)) \/ Destroy \/ UseDestroyed \/ Exit \/ UNCHANGED vars
  BY <1>7 DEF RequestInv, Request, ToggleRead, Destroy, UseDestroyed, Exit, vars, threads
<1> QED
  BY <1>2, <1>3, <1>4, <1>5, <1>6, <1>7 DEF Next, SubActionStep

-----------------------------------------------------------------------------
(* Toggles *)

\* Where a thread stands depends on its own stack alone.
LEMMA SamePlace ==
  ASSUME NEW u, stack'[u] = stack[u]
  PROVE  Top(u)' = Top(u) /\ Current(u)' = Current(u) /\ InToggle(u)' = InToggle(u)
  BY DEF Top, Current, InToggle

\* A step of t that writes nothing and after which t has not read.
LEMMA ReadsKept ==
  ASSUME ReadInv, UNCHANGED writes, NEW t \in Threads, read'[t] = None,
         read' \in [Threads -> {0, 1, None}],
         \A u \in Threads \ {t} : stack'[u] = stack[u] /\ read'[u] = read[u]
  PROVE  ReadInv'
<1>1. ASSUME NEW u \in Threads, read'[u] # None
      PROVE  InToggle(u)' /\ (~raced'[Current(u)'.target] => read'[u] = value'[Current(u)'.target])
  <2>1. u # t /\ stack'[u] = stack[u] /\ read'[u] = read[u]
    BY <1>1
  <2>2. InToggle(u) /\ (~raced[Current(u).target] => read[u] = value[Current(u).target])
    BY <1>1, <2>1 DEF ReadInv
  <2> QED  BY <2>1, <2>2, SamePlace DEF writes
<1>2. LostOnlyByRace'
  BY DEF ReadInv, LostOnlyByRace, writes
<1> QED  BY <1>1, <1>2 DEF ReadInv, writes

\* A step of t that writes its device marks the device if another thread is between
\* the two steps of a toggle.
LEMMA ReadsMarked ==
  ASSUME ReadInv, StackInv, Up, NEW t \in Threads, NEW d \in Devices, NEW v \in {0, 1}, NEW w \in {0, 1},
         value' = [value EXCEPT ![d] = v], expected' = [expected EXCEPT ![d] = w],
         ~raced[d] => v = w,
         raced' = [raced EXCEPT ![d] =
           raced[d] \/ \E u \in Threads \ {t} : At(u, "toggle") /\ Current(u).target = d /\ read[u] # None],
         read'[t] = None, read' \in [Threads -> {0, 1, None}],
         \A u \in Threads \ {t} : stack'[u] = stack[u] /\ read'[u] = read[u]
  PROVE  ReadInv'
<1>1. /\ value' \in [Devices -> {0, 1}] /\ expected' \in [Devices -> {0, 1}] /\ raced' \in [Devices -> BOOLEAN]
      /\ value'[d] = v /\ expected'[d] = w
      /\ \A e \in Devices \ {d} : value'[e] = value[e] /\ expected'[e] = expected[e] /\ raced'[e] = raced[e]
  BY DEF ReadInv
<1>2. ~raced'[d] =>
        ~raced[d] /\ \A u \in Threads \ {t} : At(u, "toggle") /\ read[u] # None => Current(u).target # d
  BY DEF ReadInv
<1>3. ASSUME NEW u \in Threads, read'[u] # None
      PROVE  InToggle(u)' /\ (~raced'[Current(u)'.target] => read'[u] = value'[Current(u)'.target])
  <2>1. u # t /\ stack'[u] = stack[u] /\ read'[u] = read[u]
    BY <1>3
  <2>2. InToggle(u) /\ (~raced[Current(u).target] => read[u] = value[Current(u).target])
    BY <1>3, <2>1 DEF ReadInv
  <2>3. At(u, "toggle")
    BY <2>2 DEF InToggle, At, AtSubAction, Busy
  <2>4. Current(u).target \in Devices
    BY <2>2, CurrentIsSubAction DEF InToggle, SubActionImpls
  <2>5. InToggle(u)' /\ Current(u)' = Current(u)
    BY <2>1, <2>2, SamePlace
  <2>6. CASE Current(u).target = d
    BY <1>2, <1>3, <2>1, <2>3, <2>5, <2>6
  <2>7. CASE Current(u).target # d
    BY <1>1, <2>1, <2>2, <2>4, <2>5, <2>7
  <2> QED  BY <2>6, <2>7
<1>4. LostOnlyByRace'
  BY <1>1, <1>2 DEF ReadInv, LostOnlyByRace
<1> QED  BY <1>1, <1>3, <1>4 DEF ReadInv

LEMMA NextRead ==
  ASSUME StackInv, ReadInv, [Next]_vars
  PROVE  ReadInv'
<1>1. ASSUME NEW t \in Threads, NEW s, stack' = [stack EXCEPT ![t] = s]
      PROVE  \A u \in Threads \ {t} : stack'[u] = stack[u]
  BY <1>1 DEF StackInv
<1>2. ASSUME NEW t \in Threads, ~InToggle(t)
      PROVE  read[t] = None
  BY <1>2 DEF ReadInv
<1>3. ASSUME NEW t \in Threads, NEW s, stack' = [stack EXCEPT ![t] = s],
             ~InToggle(t), read' = read, UNCHANGED writes
      PROVE  ReadInv'
  <2>1. read'[t] = None /\ read' \in [Threads -> {0, 1, None}]
    BY <1>2, <1>3 DEF ReadInv
  <2> QED  BY <1>1, <1>3, <2>1, ReadsKept
<1>4. ASSUME NEW t \in Threads, DeviceSet(t) PROVE ReadInv'
  <2> DEFINE d == Current(t).target
  <2>1. /\ At(t, "set") /\ read' = read
        /\ value' = [value EXCEPT ![d] = 1] /\ expected' = [expected EXCEPT ![d] = 1]
        /\ raced' = [raced EXCEPT ![d] =
             raced[d] \/ \E u \in Threads \ {t} : At(u, "toggle") /\ Current(u).target = d /\ read[u] # None]
        /\ stack' = [stack EXCEPT ![t] = Advanced(t)]
    BY <1>4 DEF DeviceSet, Complete
  <2>2. d \in Devices /\ Up
    BY <2>1, CurrentIsSubAction DEF At, AtSubAction, Busy, SubActionImpls
  <2>3. ~InToggle(t)
    BY <2>1 DEF At, InToggle
  <2>4. read'[t] = None /\ read' \in [Threads -> {0, 1, None}]
    BY <1>2, <2>1, <2>3 DEF ReadInv
  <2>5. \A u \in Threads \ {t} : stack'[u] = stack[u] /\ read'[u] = read[u]
    BY <1>1, <2>1
  <2> HIDE DEF d
  <2> QED  BY <2>1, <2>2, <2>4, <2>5, ReadsMarked
<1>5. ASSUME NEW t \in Threads, ToggleWrite(t) PROVE ReadInv'
  <2> DEFINE d == Current(t).target
  <2>1. /\ At(t, "toggle") /\ read[t] # None /\ read' = [read EXCEPT ![t] = None]
        /\ value' = [value EXCEPT ![d] = 1 - read[t]] /\ expected' = [expected EXCEPT ![d] = 1 - expected[d]]
        /\ raced' = [raced EXCEPT ![d] =
             raced[d] \/ \E u \in Threads \ {t} : At(u, "toggle") /\ Current(u).target = d /\ read[u] # None]
        /\ stack' = [stack EXCEPT ![t] = Advanced(t)]
    BY <1>5 DEF ToggleWrite, Complete, Toggled
  <2>2. d \in Devices /\ Up
    BY <2>1, CurrentIsSubAction DEF At, AtSubAction, Busy, SubActionImpls
  <2>3. ~raced[d] => read[t] = expected[d]
    BY <2>1, <2>2 DEF ReadInv, LostOnlyByRace
  <2>4. 1 - read[t] \in {0, 1} /\ 1 - expected[d] \in {0, 1}
    BY <2>1, <2>2 DEF ReadInv, None
  <2>5. read'[t] = None /\ read' \in [Threads -> {0, 1, None}] /\ \A u \in Threads \ {t} : read'[u] = read[u]
    BY <2>1 DEF ReadInv
  <2>6. \A u \in Threads \ {t} : stack'[u] = stack[u]
    BY <1>1, <2>1
  <2> HIDE DEF d
  <2>7. ~raced[d] => 1 - read[t] = 1 - expected[d]
    BY <2>3
  <2> QED  BY <2>1, <2>2, <2>4, <2>5, <2>6, <2>7, ReadsMarked
<1>6. ASSUME NEW t \in Threads, ToggleRead(t) PROVE ReadInv'
  <2>1. /\ At(t, "toggle") /\ read' = [read EXCEPT ![t] = value[Current(t).target]]
        /\ stack' = stack /\ UNCHANGED writes
    BY <1>6 DEF ToggleRead
  <2>2. InToggle(t)
    BY <2>1 DEF At, AtSubAction, Busy, InToggle
  <2>3. Current(t).target \in Devices
    BY <2>2, CurrentIsSubAction DEF InToggle, SubActionImpls
  <2>4. /\ read' \in [Threads -> {0, 1, None}] /\ read'[t] = value[Current(t).target]
        /\ \A u \in Threads \ {t} : read'[u] = read[u]
    BY <2>1, <2>3 DEF ReadInv
  <2>5. ASSUME NEW u \in Threads, read'[u] # None
        PROVE  InToggle(u)' /\ (~raced'[Current(u)'.target] => read'[u] = value'[Current(u)'.target])
    <3>1. InToggle(u) /\ (~raced[Current(u).target] => read'[u] = value[Current(u).target])
      BY <2>2, <2>4, <2>5 DEF ReadInv
    <3> QED  BY <2>1, <3>1, SamePlace DEF writes
  <2>6. LostOnlyByRace'
    BY <2>1 DEF ReadInv, LostOnlyByRace, writes
  <2> QED  BY <2>1, <2>4, <2>5, <2>6 DEF ReadInv, writes
<1>7. ASSUME NEW t \in Threads, Notification(t) \/ RecursiveAction(t) \/ Delay(t) \/ FrameEnds(t) PROVE ReadInv'
  <2>1. read' = read /\ UNCHANGED writes
    BY <1>7 DEF Notification, RecursiveAction, Delay, FrameEnds
  <2>2. \E s : stack' = [stack EXCEPT ![t] = s]
    BY <1>7 DEF Notification, RecursiveAction, Delay, FrameEnds, Complete
  <2>3. ~InToggle(t)
    <3>1. CASE FrameEnds(t)
      <4>1. stack[t] # <<>> /\ Top(t).next > Len(Top(t).body)
        BY <3>1 DEF FrameEnds, Busy
      <4>2. Top(t).next \in Nat /\ Len(Top(t).body) \in Nat
        <5>1. Top(t) \in Frames
          BY <4>1, TopIsFrame
        <5> QED  BY <5>1 DEF Frames
      <4> QED  BY <4>1, <4>2 DEF InToggle
    <3>2. CASE Notification(t) \/ RecursiveAction(t) \/ Delay(t)
      BY <3>2 DEF Notification, RecursiveAction, Delay, At, InToggle
    <3> QED  BY <1>7, <3>1, <3>2
  <2> QED  BY <1>3, <2>1, <2>2, <2>3
<1>8. ASSUME NEW t \in Threads, Wake(t) \/ \E id \in Ids : Execute(t, id) PROVE ReadInv'
  <2>1. stack[t] = <<>> /\ read' = read /\ UNCHANGED writes
    BY <1>8 DEF Wake, Execute
  <2>2. \E s : stack' = [stack EXCEPT ![t] = s]
    BY <1>8 DEF Wake, Execute
  <2> QED  BY <1>3, <2>1, <2>2 DEF InToggle
<1>9. ASSUME NEW t \in Threads, Throw(t) PROVE ReadInv'
  <2>1. stack' = [stack EXCEPT ![t] = <<>>] /\ read' = [read EXCEPT ![t] = None] /\ UNCHANGED writes
    BY <1>9 DEF Throw
  <2>2. /\ read'[t] = None /\ read' \in [Threads -> {0, 1, None}]
        /\ \A u \in Threads \ {t} : read'[u] = read[u]
    BY <2>1 DEF ReadInv
  <2> QED  BY <1>1, <2>1, <2>2, ReadsKept
<1>10. CASE Destroy \/ UseDestroyed \/ Exit \/ UNCHANGED vars
  <2>1. UNCHANGED <<threads, writes>>
    BY <1>10 DEF Destroy, UseDestroyed, Exit, vars
  <2> QED  BY <2>1 DEF ReadInv, LostOnlyByRace, InToggle, Top, Current, threads, writes
<1> QED
  BY <1>4, <1>5, <1>6, <1>7, <1>8, <1>9, <1>10, CallersAreNotDetached DEF Next, SubActionStep

-----------------------------------------------------------------------------
LEMMA InitIInv == Init => IInv
<1> SUFFICES ASSUME Init PROVE IInv
  OBVIOUS
<1>1. StackInv
  <2>1. program \in [Ids -> Seq(SubActionImpls)]
    BY ActionExecutionAssumption DEF Init
  <2>2. stack \in [Threads -> Seq(Frames)] /\ \A t \in Threads : WellStacked(stack[t])
    BY EmptyStacked DEF Init
  <2> QED  BY <2>1, <2>2 DEF StackInv
<1>2. ReadInv
  BY DEF Init, ReadInv, LostOnlyByRace
<1>3. TasksOrigin
  BY DEF Init, TasksOrigin, BagToSet, EmptyBag, SetToBag
<1>4. RequestInv
  BY CallersAreNotDetached DEF Init, RequestInv, Request
<1>5. ended \in Ends
  BY DEF Init, Ends
<1> QED  BY <1>1, <1>2, <1>3, <1>4, <1>5 DEF IInv

LEMMA NextEnds == ended \in Ends /\ [Next]_vars => ended' \in Ends
  BY DEF Ends, Next, SubActionStep, DeviceSet, ToggleRead, ToggleWrite, Notification, RecursiveAction, Delay, FrameEnds,
         Throw, Wake, Execute, Destroy, UseDestroyed, Exit, vars

LEMMA NextIInv == IInv /\ [Next]_vars => IInv'
  BY NextStack, NextTasks, NextRequest, NextRead, NextEnds DEF IInv

\* The inductive invariant holds in every reachable state.
THEOREM ExecutionInvariant == Spec => []IInv
<1> QED  BY InitIInv, NextIInv, PTL DEF Spec

\* A stack never holds more than s_maxRecursion sub-calls on the first one, frames stay
\* within their actions, and a thread that has read for a toggle is still at it.
THEOREM ExecutionTypeCorrect == Spec => []TypeOK
<1>1. IInv => TypeOK
  <2> SUFFICES ASSUME IInv PROVE TypeOK
    OBVIOUS
  <2>1. ASSUME NEW t \in Threads, NEW i \in DOMAIN stack[t]
        PROVE  /\ stack[t][i].depth \in 0..s_maxRecursion
               /\ stack[t][i].next \in 1..(Len(stack[t][i].body) + 1)
               /\ i <= s_maxRecursion + 1
    <3>1. stack[t] \in Seq(Frames) /\ i \in Nat /\ i <= stack[t][i].depth + 1
      BY DEF IInv, StackInv, WellStacked
    <3>2. \A f \in Frames :
            f.depth \in 0..s_maxRecursion /\ f.next \in 1..(Len(f.body) + 1)
      BY DEF Frames
    <3>3. stack[t][i].depth \in 0..s_maxRecursion /\ stack[t][i].next \in 1..(Len(stack[t][i].body) + 1)
      BY <3>1, <3>2
    <3> QED  BY <3>1, <3>3, ActionExecutionAssumption
  <2>2. ASSUME NEW t \in Threads
        PROVE  Len(stack[t]) <= s_maxRecursion + 1
    <3>1. stack[t] \in Seq(Frames)
      BY DEF IInv, StackInv
    <3>2. CASE Len(stack[t]) = 0
      BY <3>2, ActionExecutionAssumption
    <3>3. CASE Len(stack[t]) # 0
      <4>1. Len(stack[t]) \in DOMAIN stack[t]
        BY <3>1, <3>3
      <4> QED  BY <2>1, <4>1
    <3> QED  BY <3>2, <3>3
  <2>3. ASSUME NEW t \in Threads, read[t] # None
        PROVE  At(t, "toggle") \/ ~Up
    BY <2>3 DEF IInv, ReadInv, InToggle, At, AtSubAction, Busy
  <2>4. \A x \in BagToSet(later) : x.depth \in 0..s_maxRecursion
    BY DEF IInv, TasksOrigin
  <2> QED  BY <2>1, <2>2, <2>3, <2>4 DEF TypeOK, IInv, ReadInv, RequestInv, Ends
<1> QED  BY ExecutionInvariant, <1>1, PTL

\* A set or a toggle is lost only if it comes between the two steps of a toggle in
\* another thread, however many threads execute whatever actions (DeviceToggle).
THEOREM OnlyRacesLose == Spec => []LostOnlyByRace
<1>1. IInv => LostOnlyByRace
  BY DEF IInv, ReadInv
<1> QED  BY ExecutionInvariant, <1>1, PTL

-----------------------------------------------------------------------------
(* Numbers *)

\* A non-empty set of numbers has a least one.
LEMMA LeastExists ==
  ASSUME NEW S \in SUBSET Nat, S # {}
  PROVE  \E x \in S : \A y \in S : x <= y
<1> DEFINE T == {0..x : x \in S}
<1>1. T \subseteq FiniteSubsetsOf(Nat) /\ T # {}
  <2>1. \A x \in S : IsFiniteSet(0..x) /\ 0..x \in SUBSET Nat
    BY FS_Interval
  <2>2. \A x \in S : 0..x \in FiniteSubsetsOf(Nat)
    BY <2>1 DEF FiniteSubsetsOf
  <2> QED  BY <2>2
<1>2. PICK x \in S : \A y \in S : <<0..y, 0..x>> \notin StrictSubsetOrdering(Nat)
  <2> HIDE DEF T
  <2>1. PICK s \in T : \A u \in T : <<u, s>> \notin StrictSubsetOrdering(Nat)
    BY <1>1, FS_StrictSubsetOrderingWellFounded, WFMin
  <2> QED  BY <2>1 DEF T
<1>3. \A y \in S : x <= y
  <2> SUFFICES ASSUME NEW y \in S, y < x PROVE FALSE
    OBVIOUS
  <2>1. /\ 0..y \in SUBSET Nat /\ 0..x \in SUBSET Nat
        /\ 0..y \subseteq 0..x /\ x \in 0..x /\ x \notin 0..y
    OBVIOUS
  <2>2. <<0..y, 0..x>> \in StrictSubsetOrdering(Nat)
    BY <2>1 DEF StrictSubsetOrdering
  <2> QED  BY <2>2, <1>2
<1> QED  BY <1>3

\* Induction up to a bound, over a set instead of a predicate.
LEMMA Induction ==
  ASSUME NEW k \in Nat, NEW S, 0 \in S, \A n \in 0..(k - 1) : n \in S => n + 1 \in S
  PROVE  0..k \subseteq S
<1> DEFINE T == (0..k) \ S
<1> SUFFICES ASSUME T # {} PROVE FALSE
  OBVIOUS
<1>1. PICK x \in T : \A y \in T : x <= y
  <2>1. T \in SUBSET Nat
    OBVIOUS
  <2> HIDE DEF T
  <2> QED  BY <2>1, LeastExists
<1>2. x - 1 \in 0..(k - 1) /\ (x - 1) + 1 = x
  BY <1>1
<1>3. x - 1 \in S
  BY <1>1, <1>2
<1> QED  BY <1>1, <1>2, <1>3

-----------------------------------------------------------------------------
(* Sequences, one after the other *)

Joined(f, ss, n) == f = [i \in 1..n |-> IF i = 1 THEN ss[i] ELSE f[i - 1] \o ss[i]]

LEMMA JoinedExist ==
  ASSUME NEW ss, NEW k \in Nat
  PROVE  \E f : Joined(f, ss, k)
<1> DEFINE S == {n \in 0..k : \E f : Joined(f, ss, n)}
<1>1. 0 \in S
  <2> DEFINE f == [i \in 1..0 |-> ss[i]]
  <2>1. Joined(f, ss, 0)
    <3>1. \A i \in 1..0 : FALSE
      OBVIOUS
    <3> QED  BY <3>1 DEF Joined
  <2> QED  BY <2>1
<1>2. ASSUME NEW n \in 0..(k - 1), n \in S PROVE n + 1 \in S
  <2>1. PICK f : Joined(f, ss, n)
    BY <1>2
  <2> DEFINE g == [i \in 1..(n + 1) |->
                     IF i = n + 1 THEN IF n = 0 THEN ss[1] ELSE f[n] \o ss[n + 1] ELSE f[i]]
             h == [i \in 1..(n + 1) |-> IF i = 1 THEN ss[i] ELSE g[i - 1] \o ss[i]]
  <2>2. \A i \in 1..(n + 1) : g[i] = h[i]
    <3> SUFFICES ASSUME NEW i \in 1..(n + 1) PROVE g[i] = h[i]
      OBVIOUS
    <3>1. CASE i = n + 1 /\ n = 0
      BY <3>1
    <3>2. CASE i = n + 1 /\ n # 0
      <4>1. n \in 1..(n + 1) /\ n # n + 1 /\ i # 1 /\ i - 1 = n
        BY <3>2
      <4>2. g[n] = f[n] /\ h[i] = g[n] \o ss[n + 1]
        BY <3>2, <4>1
      <4>3. g[i] = f[n] \o ss[n + 1]
        BY <3>2
      <4> QED  BY <4>2, <4>3
    <3>3. CASE i \in 1..n /\ i = 1
      <4>1. f[i] = ss[i]
        BY <2>1, <3>3 DEF Joined
      <4> QED  BY <3>3, <4>1
    <3>4. CASE i \in 1..n /\ i # 1
      <4>1. i - 1 \in 1..(n + 1) /\ i - 1 # n + 1 /\ i # n + 1
        BY <3>4
      <4>2. f[i] = f[i - 1] \o ss[i]
        BY <2>1, <3>4 DEF Joined
      <4>3. g[i] = f[i] /\ g[i - 1] = f[i - 1]
        BY <4>1
      <4>4. h[i] = g[i - 1] \o ss[i]
        BY <3>4
      <4> QED  BY <4>2, <4>3, <4>4
    <3> QED  BY <3>1, <3>2, <3>3, <3>4
  <2>3. Joined(g, ss, n + 1)
    <3>1. g = h
      <4> HIDE DEF g
      <4>1. g = [i \in 1..(n + 1) |-> g[i]]
        BY DEF g
      <4> QED  BY <2>2, <4>1
    <3> QED  BY <3>1 DEF Joined
  <2> QED  BY <2>3
<1> HIDE DEF S
<1>3. 0..k \subseteq S
  BY <1>1, <1>2, Induction
<1> QED  BY <1>3 DEF S

\* FlattenSeq by the prefixes of the result.
LEMMA FlattenIsPrefix ==
  ASSUME NEW E, NEW ss \in Seq(Seq(E)), ss # <<>>
  PROVE  \E f : /\ FlattenSeq(ss) = f[Len(ss)] /\ f[1] = ss[1]
                /\ \A i \in 1..(Len(ss) - 1) : f[i + 1] = f[i] \o ss[i + 1]
                /\ \A i \in 1..Len(ss) : f[i] \in Seq(E)
<1> DEFINE n == Len(ss)
           f == CHOOSE g : Joined(g, ss, n)
<1>1. n \in Nat /\ n # 0
  OBVIOUS
<1>2. FlattenSeq(ss) = f[n]
  BY <1>1 DEF FlattenSeq, Joined
<1>3. Joined(f, ss, n)
  <2> HIDE DEF n
  <2> QED  BY <1>1, JoinedExist
<1>4. \A i \in 1..n : ss[i] \in Seq(E)
  OBVIOUS
<1> HIDE DEF f, n
<1>5. f[1] = ss[1]
  <2>1. 1 \in 1..n
    BY <1>1
  <2> QED  BY <1>3, <2>1 DEF Joined
<1>6. \A i \in 1..(n - 1) : f[i + 1] = f[i] \o ss[i + 1]
  <2>1. \A i \in 1..(n - 1) : i + 1 \in 1..n /\ i + 1 # 1 /\ (i + 1) - 1 = i
    BY <1>1
  <2> QED  BY <1>3, <2>1 DEF Joined
<1> DEFINE S == {i \in 0..(n - 1) : f[i + 1] \in Seq(E)}
<1>7. 0 \in S
  <2>1. 1 \in 1..n /\ 0 \in 0..(n - 1) /\ 0 + 1 = 1
    BY <1>1
  <2> QED  BY <1>4, <1>5, <2>1
<1>8. ASSUME NEW i \in 0..((n - 1) - 1), i \in S PROVE i + 1 \in S
  <2>1. i + 1 \in 1..(n - 1) /\ (i + 1) + 1 \in 1..n /\ i + 1 \in 0..(n - 1)
    BY <1>1
  <2>2. f[(i + 1) + 1] = f[i + 1] \o ss[(i + 1) + 1]
    BY <1>6, <2>1
  <2>3. f[i + 1] \in Seq(E) /\ ss[(i + 1) + 1] \in Seq(E)
    BY <1>4, <1>8, <2>1
  <2>4. f[(i + 1) + 1] \in Seq(E)
    BY <2>2, <2>3
  <2> QED  BY <2>1, <2>4
<1>9. \A i \in 1..n : f[i] \in Seq(E)
  <2> HIDE DEF S
  <2>1. n - 1 \in Nat
    BY <1>1
  <2>2. 0..(n - 1) \subseteq S
    BY <1>7, <1>8, <2>1, Induction
  <2>3. \A i \in 1..n : i - 1 \in 0..(n - 1) /\ (i - 1) + 1 = i
    BY <1>1
  <2> QED  BY <2>2, <2>3 DEF S
<1> QED  BY <1>2, <1>5, <1>6, <1>9 DEF n

LEMMA FlattenEmpty == FlattenSeq(<<>>) = <<>>
BY DEF FlattenSeq

LEMMA FlattenType ==
  ASSUME NEW E, NEW ss \in Seq(Seq(E))
  PROVE  FlattenSeq(ss) \in Seq(E)
<1>1. CASE ss = <<>>
  <2>1. FlattenSeq(ss) = <<>>
    BY <1>1, FlattenEmpty
  <2> QED  BY <2>1
<1>2. CASE ss # <<>>
  <2>1. Len(ss) \in 1..Len(ss)
    BY <1>2
  <2> QED  BY <1>2, <2>1, FlattenIsPrefix
<1> QED  BY <1>1, <1>2

\* The first of the sequences is the first part of the result.
LEMMA FlattenFirst ==
  ASSUME NEW E, NEW s \in Seq(E), NEW ss \in Seq(Seq(E))
  PROVE  FlattenSeq(<<s>> \o ss) = s \o FlattenSeq(ss)
<1> DEFINE n == Len(ss)
           tt == <<s>> \o ss
<1>1. /\ tt \in Seq(Seq(E)) /\ tt # <<>> /\ Len(tt) = n + 1 /\ n \in Nat /\ tt[1] = s
      /\ \A i \in 1..n : tt[i + 1] = ss[i] /\ ss[i] \in Seq(E)
  OBVIOUS
<1> HIDE DEF tt
<1>2. PICK g : /\ FlattenSeq(tt) = g[n + 1] /\ g[1] = s
               /\ \A i \in 1..n : g[i + 1] = g[i] \o ss[i]
  <2>1. PICK g : /\ FlattenSeq(tt) = g[Len(tt)] /\ g[1] = tt[1]
                 /\ \A i \in 1..(Len(tt) - 1) : g[i + 1] = g[i] \o tt[i + 1]
                 /\ \A i \in 1..Len(tt) : g[i] \in Seq(E)
    BY <1>1, FlattenIsPrefix
  <2>2. Len(tt) - 1 = n
    BY <1>1
  <2>3. FlattenSeq(tt) = g[n + 1] /\ g[1] = s
    BY <1>1, <2>1
  <2>4. \A i \in 1..n : g[i + 1] = g[i] \o ss[i]
    BY <1>1, <2>1, <2>2
  <2> QED  BY <2>3, <2>4
<1>3. CASE ss = <<>>
  <2>1. n = 0 /\ FlattenSeq(ss) = <<>> /\ s \o <<>> = s
    BY <1>3, FlattenEmpty
  <2> QED  BY <1>2, <2>1 DEF tt
<1>4. CASE ss # <<>>
  <2>1. PICK f : /\ FlattenSeq(ss) = f[n] /\ f[1] = ss[1]
                 /\ \A i \in 1..(n - 1) : f[i + 1] = f[i] \o ss[i + 1]
                 /\ \A i \in 1..n : f[i] \in Seq(E)
    BY <1>4, FlattenIsPrefix
  <2>2. n \in Nat \ {0}
    BY <1>1, <1>4
  <2> DEFINE S == {i \in 0..(n - 1) : g[(i + 1) + 1] = s \o f[i + 1]}
  <2> HIDE DEF n
  <2>3. 0 \in S
    <3>1. 1 \in 1..n /\ 0 \in 0..(n - 1) /\ 0 + 1 = 1
      BY <2>2
    <3>2. g[1 + 1] = g[1] \o ss[1]
      BY <1>2, <3>1
    <3> QED  BY <1>2, <2>1, <3>1, <3>2
  <2>4. ASSUME NEW i \in 0..((n - 1) - 1), i \in S PROVE i + 1 \in S
    <3>1. i + 1 \in 1..(n - 1) /\ (i + 1) + 1 \in 1..n /\ i + 1 \in 0..(n - 1) /\ i + 1 \in 1..n
      BY <2>2
    <3>2. g[((i + 1) + 1) + 1] = g[(i + 1) + 1] \o ss[(i + 1) + 1]
      BY <1>2, <3>1
    <3>3. g[(i + 1) + 1] = s \o f[i + 1]
      BY <2>4
    <3>4. f[(i + 1) + 1] = f[i + 1] \o ss[(i + 1) + 1]
      BY <2>1, <3>1
    <3>5. f[i + 1] \in Seq(E) /\ ss[(i + 1) + 1] \in Seq(E)
      BY <1>1, <2>1, <3>1
    <3>6. (s \o f[i + 1]) \o ss[(i + 1) + 1] = s \o (f[i + 1] \o ss[(i + 1) + 1])
      <4>1. \A b, c \in Seq(E) : (s \o b) \o c = s \o (b \o c)
        BY ConcatAssociative
      <4> QED  BY <3>5, <4>1, Zenon
    <3> QED  BY <3>1, <3>2, <3>3, <3>4, <3>6
  <2>5. n - 1 \in S
    <3> HIDE DEF S
    <3>1. n - 1 \in Nat /\ n - 1 \in 0..(n - 1)
      BY <2>2
    <3>2. 0..(n - 1) \subseteq S
      BY <2>3, <2>4, <3>1, Induction
    <3> QED  BY <3>1, <3>2
  <2>6. (n - 1) + 1 = n
    BY <2>2
  <2>7. g[n + 1] = s \o f[n]
    BY <2>5, <2>6
  <2> QED  BY <1>2, <2>1, <2>7 DEF tt
<1> QED  BY <1>3, <1>4

-----------------------------------------------------------------------------
(* What an action does *)

EffectKinds == {"set", "toggle", "notify", "later"}
Effect == EffectKinds \X (Devices \cup Ids \cup {0})

\* Effects and Rest of given actions.
ByLevels(e, p, n) ==
  e = [m \in 0..n |-> [id \in Ids |-> IF m = 0 THEN <<>> ELSE BodyEffects(p[id], e[m - 1])]]
EffectsOf(p) == CHOOSE e : ByLevels(e, p, s_maxRecursion + 1)
RestOf(p, f) == BodyEffects(SubSeq(f.body, f.next, Len(f.body)), EffectsOf(p)[s_maxRecursion - f.depth])

LEMMA RestIsOf == \A f : Rest(f) = RestOf(program, f)
BY DEF Rest, RestOf, Below, Effects, EffectsOf, ByLevels

LEMMA NextRestIsOf == ASSUME NEW f PROVE Rest(f)' = RestOf(program', f)
BY DEF Rest, RestOf, Below, Effects, EffectsOf, ByLevels

LEMMA LevelsExist ==
  ASSUME NEW p, NEW k \in Nat
  PROVE  \E e : ByLevels(e, p, k)
<1> DEFINE S == {n \in 0..k : \E e : ByLevels(e, p, n)}
           Nothing == [id \in Ids |-> <<>>]
           Deeper(d) == [id \in Ids |-> BodyEffects(p[id], d)]
<1>1. 0 \in S
  <2> DEFINE e == [m \in 0..0 |-> Nothing]
  <2>1. ByLevels(e, p, 0)
    <3>1. \A m \in 0..0 : m = 0
      OBVIOUS
    <3> QED  BY <3>1 DEF ByLevels
  <2> QED  BY <2>1
<1>2. ASSUME NEW n \in 0..(k - 1), n \in S PROVE n + 1 \in S
  <2>1. PICK e : ByLevels(e, p, n)
    BY <1>2
  <2> DEFINE g == [m \in 0..(n + 1) |-> IF m = n + 1 THEN Deeper(e[n]) ELSE e[m]]
             h == [m \in 0..(n + 1) |-> [id \in Ids |-> IF m = 0 THEN <<>> ELSE BodyEffects(p[id], g[m - 1])]]
  <2>2. \A m \in 0..(n + 1) : g[m] = h[m]
    <3> SUFFICES ASSUME NEW m \in 0..(n + 1) PROVE g[m] = h[m]
      OBVIOUS
    <3>1. CASE m = n + 1
      <4>1. n \in 0..(n + 1) /\ n # n + 1 /\ m # 0 /\ m - 1 = n
        BY <3>1
      <4>2. g[n] = e[n]
        BY <4>1
      <4>3. h[m] = Deeper(g[n])
        BY <4>1
      <4>4. g[m] = Deeper(e[n])
        BY <3>1
      <4> QED  BY <4>2, <4>3, <4>4
    <3>2. CASE m = 0
      <4>1. 0 \in 0..n /\ 0 # n + 1
        OBVIOUS
      <4>2. e[0] = Nothing
        BY <2>1, <4>1 DEF ByLevels
      <4>3. g[m] = e[0] /\ h[m] = Nothing
        BY <3>2, <4>1
      <4> QED  BY <4>2, <4>3
    <3>3. CASE m \in 1..n
      <4>1. m \in 0..n /\ m - 1 \in 0..(n + 1) /\ m - 1 # n + 1 /\ m # 0 /\ m # n + 1
        BY <3>3
      <4>2. e[m] = Deeper(e[m - 1])
        BY <2>1, <4>1 DEF ByLevels
      <4>3. g[m] = e[m] /\ g[m - 1] = e[m - 1]
        BY <4>1
      <4>4. h[m] = Deeper(g[m - 1])
        BY <4>1
      <4> QED  BY <4>2, <4>3, <4>4
    <3> QED  BY <3>1, <3>2, <3>3
  <2>3. ByLevels(g, p, n + 1)
    <3>1. g = h
      <4> HIDE DEF g
      <4>1. g = [m \in 0..(n + 1) |-> g[m]]
        BY DEF g
      <4> QED  BY <2>2, <4>1
    <3> QED  BY <3>1 DEF ByLevels
  <2> QED  BY <2>3
<1> HIDE DEF S
<1>3. 0..k \subseteq S
  BY <1>1, <1>2, Induction
<1> QED  BY <1>3 DEF S

\* The effects of the sub-actions one by one.
OneByOne(body, deeper) == [i \in DOMAIN body |-> SubEffects(body[i], deeper)]

LEMMA SubEffectsType ==
  ASSUME NEW deeper \in [Ids -> Seq(Effect)], NEW sub \in SubActionImpls
  PROVE  SubEffects(sub, deeper) \in Seq(Effect)
<1>1. CASE sub.delayed
  <2>1. <<"later", sub.target>> \in Effect
    BY DEF Effect, EffectKinds, SubActionImpls
  <2> QED  BY <1>1, <2>1 DEF SubEffects
<1>2. CASE ~sub.delayed /\ sub.kind = "run"
  <2>1. sub.target \in Ids
    BY <1>2 DEF SubActionImpls
  <2> QED  BY <1>2, <2>1 DEF SubEffects
<1>3. CASE ~sub.delayed /\ sub.kind # "run"
  <2>1. <<sub.kind, sub.target>> \in Effect
    BY <1>3 DEF Effect, EffectKinds, SubActionImpls
  <2> QED  BY <1>3, <2>1 DEF SubEffects
<1> QED  BY <1>1, <1>2, <1>3

LEMMA OneByOneType ==
  ASSUME NEW deeper \in [Ids -> Seq(Effect)], NEW body \in Seq(SubActionImpls)
  PROVE  /\ OneByOne(body, deeper) \in Seq(Seq(Effect)) /\ Len(OneByOne(body, deeper)) = Len(body)
         /\ BodyEffects(body, deeper) = FlattenSeq(OneByOne(body, deeper))
<1> DEFINE n == Len(body)
           o == OneByOne(body, deeper)
<1>1. n \in Nat /\ DOMAIN body = 1..n /\ \A i \in 1..n : body[i] \in SubActionImpls
  OBVIOUS
<1> HIDE DEF n
<1>2. o \in [1..n -> Seq(Effect)]
  BY <1>1, SubEffectsType DEF OneByOne
<1> HIDE DEF o
<1>3. o \in Seq(Seq(Effect)) /\ Len(o) = n
  BY <1>1, <1>2, SeqDef
<1>4. BodyEffects(body, deeper) = FlattenSeq(o)
  BY DEF BodyEffects, OneByOne, o
<1> QED  BY <1>3, <1>4 DEF o, n

LEMMA BodyEffectsType ==
  ASSUME NEW deeper \in [Ids -> Seq(Effect)], NEW body \in Seq(SubActionImpls)
  PROVE  BodyEffects(body, deeper) \in Seq(Effect)
BY OneByOneType, FlattenType

LEMMA EffectsByLevel ==
  ASSUME NEW p \in [Ids -> Seq(SubActionImpls)]
  PROVE  /\ \A n \in 0..(s_maxRecursion + 1) : EffectsOf(p)[n] \in [Ids -> Seq(Effect)]
         /\ \A id \in Ids : EffectsOf(p)[0][id] = <<>>
         /\ \A n \in 1..(s_maxRecursion + 1) : \A id \in Ids :
              EffectsOf(p)[n][id] = BodyEffects(p[id], EffectsOf(p)[n - 1])
<1> DEFINE e == EffectsOf(p)
           k == s_maxRecursion + 1
<1>0. k \in Nat
  BY ActionExecutionAssumption
<1>1. ByLevels(e, p, k)
  <2> HIDE DEF k
  <2>1. \E f : ByLevels(f, p, k)
    BY <1>0, LevelsExist
  <2> QED  BY <2>1 DEF EffectsOf, k
<1> HIDE DEF e, k
<1>2. \A id \in Ids : e[0][id] = <<>>
  <2>1. 0 \in 0..k
    BY <1>0
  <2> QED  BY <1>1, <2>1 DEF ByLevels
<1>3. \A n \in 1..k : e[n] = [id \in Ids |-> BodyEffects(p[id], e[n - 1])]
  <2>1. \A n \in 1..k : n \in 0..k /\ n # 0
    BY <1>0
  <2> QED  BY <1>1, <2>1 DEF ByLevels
<1> DEFINE S == {n \in 0..k : e[n] \in [Ids -> Seq(Effect)]}
<1>4. 0 \in S
  <2>1. e[0] = [id \in Ids |-> <<>>]
    <3>1. 0 \in 0..k
      BY <1>0
    <3> QED  BY <1>1, <3>1 DEF ByLevels
  <2>2. <<>> \in Seq(Effect) /\ 0 \in 0..k
    BY <1>0
  <2>3. e[0] \in [Ids -> Seq(Effect)]
    BY <2>1, <2>2
  <2> QED  BY <2>2, <2>3
<1>5. ASSUME NEW n \in 0..(k - 1), n \in S PROVE n + 1 \in S
  <2>1. n + 1 \in 1..k /\ n + 1 \in 0..k /\ (n + 1) - 1 = n
    BY <1>0
  <2>2. e[n + 1] = [id \in Ids |-> BodyEffects(p[id], e[n])]
    BY <1>3, <2>1
  <2>3. \A id \in Ids : BodyEffects(p[id], e[n]) \in Seq(Effect)
    BY <1>5, BodyEffectsType
  <2>4. e[n + 1] \in [Ids -> Seq(Effect)]
    BY <2>2, <2>3
  <2> QED  BY <2>1, <2>4
<1> HIDE DEF S
<1>6. 0..k \subseteq S
  BY <1>0, <1>4, <1>5, Induction
<1>7. \A n \in 0..k : e[n] \in [Ids -> Seq(Effect)]
  BY <1>6 DEF S
<1> QED  BY <1>2, <1>3, <1>7 DEF e, k

\* The levels below a frame.
LEMMA LevelsBelow ==
  ASSUME NEW p \in [Ids -> Seq(SubActionImpls)], NEW f \in Frames
  PROVE  EffectsOf(p)[s_maxRecursion - f.depth] \in [Ids -> Seq(Effect)]
<1>1. s_maxRecursion - f.depth \in 0..(s_maxRecursion + 1)
  BY ActionExecutionAssumption DEF Frames
<1> QED  BY <1>1, EffectsByLevel

LEMMA RestType ==
  ASSUME NEW p \in [Ids -> Seq(SubActionImpls)], NEW f \in Frames
  PROVE  RestOf(p, f) \in Seq(Effect)
<1>1. SubSeq(f.body, f.next, Len(f.body)) \in Seq(SubActionImpls)
  <2>1. f.body \in Seq(SubActionImpls) /\ f.next \in Nat \ {0}
    BY DEF Frames
  <2>2. \A i \in f.next..Len(f.body) : i \in 1..Len(f.body)
    BY <2>1
  <2>3. \A i \in f.next..Len(f.body) : f.body[i] \in SubActionImpls
    BY <2>1, <2>2
  <2> QED  BY <2>1, <2>3, SubSeqProperties
<1> QED  BY <1>1, LevelsBelow, BodyEffectsType DEF RestOf

\* A frame at its end has nothing left to do.
LEMMA RestAtEnd ==
  ASSUME NEW p, NEW f \in Frames, f.next > Len(f.body)
  PROVE  RestOf(p, f) = <<>>
<1>1. f.body \in Seq(SubActionImpls) /\ f.next = Len(f.body) + 1
  BY DEF Frames
<1>2. SubSeq(f.body, f.next, Len(f.body)) = <<>>
  BY <1>1
<1>3. BodyEffects(<<>>, EffectsOf(p)[s_maxRecursion - f.depth]) = <<>>
  <2>1. \A d : [i \in DOMAIN <<>> |-> SubEffects(<<>>[i], d)] = <<>>
    OBVIOUS
  <2> QED  BY <2>1, FlattenEmpty DEF BodyEffects
<1> QED  BY <1>2, <1>3 DEF RestOf

\* Otherwise it does its current sub-action, and then the rest.
LEMMA RestByStep ==
  ASSUME NEW p \in [Ids -> Seq(SubActionImpls)], NEW f \in Frames, f.next <= Len(f.body)
  PROVE  /\ Advance(f) \in Frames
         /\ RestOf(p, f) = SubEffects(f.body[f.next], EffectsOf(p)[s_maxRecursion - f.depth]) \o RestOf(p, Advance(f))
<1> DEFINE d == EffectsOf(p)[s_maxRecursion - f.depth]
           b == f.body
           n == Len(f.body)
           k == f.next
           rest == SubSeq(b, k + 1, n)
<1>1. b \in Seq(SubActionImpls) /\ n \in Nat /\ k \in Nat \ {0} /\ k <= n /\ f.depth \in 0..s_maxRecursion
  BY DEF Frames
<1>2. Advance(f) \in Frames /\ Advance(f).body = b /\ Advance(f).next = k + 1 /\ Advance(f).depth = f.depth
  <2>1. f = [body |-> f.body, next |-> f.next, depth |-> f.depth]
    BY DEF Frames
  <2>2. Advance(f) = [body |-> b, next |-> k + 1, depth |-> f.depth]
    BY <2>1 DEF Advance
  <2> QED  BY <1>1, <2>2 DEF Frames
<1>3. d \in [Ids -> Seq(Effect)]
  BY LevelsBelow
<1>4. b[k] \in SubActionImpls
  BY <1>1
<1> HIDE DEF d, b, n, k
<1>5. rest \in Seq(SubActionImpls) /\ SubSeq(b, k, n) = <<b[k]>> \o rest
  <2>1. rest \in Seq(SubActionImpls)
    <3>1. \A i \in (k + 1)..n : b[i] \in SubActionImpls
      BY <1>1 DEF n, b
    <3> QED  BY <1>1, <3>1, SubSeqProperties
  <2>2. SubSeq(b, k, n) = <<b[k]>> \o rest
    BY <1>1 DEF n, b
  <2> QED  BY <2>1, <2>2
<1> HIDE DEF rest
<1>6. OneByOne(<<b[k]>> \o rest, d) = <<SubEffects(b[k], d)>> \o OneByOne(rest, d)
  <2> DEFINE t == <<b[k]>> \o rest
             o == OneByOne(rest, d)
             m == Len(rest)
  <2>1. /\ t \in Seq(SubActionImpls) /\ Len(t) = m + 1 /\ t[1] = b[k] /\ m \in Nat
        /\ \A i \in 2..(m + 1) : t[i] = rest[i - 1] /\ i - 1 \in 1..m
    BY <1>4, <1>5
  <2>2. o \in Seq(Seq(Effect)) /\ Len(o) = m /\ \A i \in 1..m : o[i] = SubEffects(rest[i], d)
    BY <1>3, <1>5, OneByOneType DEF OneByOne
  <2>3. SubEffects(b[k], d) \in Seq(Effect)
    BY <1>3, <1>4, SubEffectsType
  <2> HIDE DEF t, o, m
  <2>4. OneByOne(t, d) \in Seq(Seq(Effect)) /\ Len(OneByOne(t, d)) = m + 1
        /\ \A i \in 1..(m + 1) : OneByOne(t, d)[i] = SubEffects(t[i], d)
    <3>1. OneByOne(t, d) \in Seq(Seq(Effect)) /\ Len(OneByOne(t, d)) = m + 1
      BY <1>3, <2>1, OneByOneType
    <3>2. DOMAIN t = 1..(m + 1)
      BY <2>1
    <3> QED  BY <3>1, <3>2 DEF OneByOne
  <2> DEFINE u == OneByOne(t, d)
             v == <<SubEffects(b[k], d)>> \o o
  <2>5. /\ v \in Seq(Seq(Effect)) /\ Len(v) = m + 1 /\ v[1] = SubEffects(b[k], d)
        /\ \A i \in 2..(m + 1) : v[i] = o[i - 1]
    BY <2>1, <2>2, <2>3
  <2> HIDE DEF u, v
  <2>6. \A i \in 1..(m + 1) : i = 1 \/ i \in 2..(m + 1)
    BY <2>1
  <2>7. \A i \in 1..(m + 1) : u[i] = v[i]
    BY <2>1, <2>2, <2>4, <2>5, <2>6 DEF u
  <2>8. u = v
    BY <2>4, <2>5, <2>7, SeqEqual DEF u
  <2> QED  BY <2>8 DEF t, u, v, o
<1>7. FlattenSeq(<<SubEffects(b[k], d)>> \o OneByOne(rest, d)) = SubEffects(b[k], d) \o FlattenSeq(OneByOne(rest, d))
  BY <1>3, <1>4, <1>5, SubEffectsType, OneByOneType, FlattenFirst
<1>8. BodyEffects(<<b[k]>> \o rest, d) = SubEffects(b[k], d) \o BodyEffects(rest, d)
  BY <1>6, <1>7 DEF BodyEffects, OneByOne
<1>9. RestOf(p, f) = BodyEffects(SubSeq(b, k, n), d)
  BY DEF RestOf, b, k, n, d
<1>10. RestOf(p, Advance(f)) = BodyEffects(rest, d)
  BY <1>2 DEF RestOf, rest, d, n, b
<1> QED  BY <1>2, <1>5, <1>8, <1>9, <1>10 DEF b, k, d

-----------------------------------------------------------------------------
(* What a stack has left to do *)

StackRest(p, s) == FlattenSeq(Reverse([i \in DOMAIN s |-> RestOf(p, s[i])]))

LEMMA StackRestEmpty == ASSUME NEW p PROVE StackRest(p, <<>>) = <<>>
<1>1. Reverse([i \in DOMAIN <<>> |-> RestOf(p, <<>>[i])]) = <<>>
  <2>1. [i \in DOMAIN <<>> |-> RestOf(p, <<>>[i])] = <<>>
    OBVIOUS
  <2>2. Reverse(<<>>) = <<>>
    BY DEF Reverse
  <2> QED  BY <2>1, <2>2
<1> QED  BY <1>1, FlattenEmpty DEF StackRest

\* The top of the stack comes first.
LEMMA StackRestTop ==
  ASSUME NEW p \in [Ids -> Seq(SubActionImpls)], NEW s \in Seq(Frames), NEW f \in Frames
  PROVE  StackRest(p, Append(s, f)) = RestOf(p, f) \o StackRest(p, s)
<1> DEFINE n == Len(s)
           a == Append(s, f)
           r == [i \in DOMAIN s |-> RestOf(p, s[i])]
           q == [i \in DOMAIN a |-> RestOf(p, a[i])]
<1>1. /\ n \in Nat /\ DOMAIN s = 1..n /\ \A i \in 1..n : s[i] \in Frames
      /\ DOMAIN a = 1..(n + 1) /\ a[n + 1] = f /\ \A i \in 1..n : a[i] = s[i]
  OBVIOUS
<1>2. RestOf(p, f) \in Seq(Effect) /\ \A i \in 1..n : RestOf(p, s[i]) \in Seq(Effect)
  BY <1>1, RestType
<1> HIDE DEF n, a
<1>3. DOMAIN r = 1..n /\ \A i \in 1..n : r[i] \in Seq(Effect)
  BY <1>1, <1>2
<1>4. r \in Seq(Seq(Effect)) /\ Len(r) = n
  <2>1. r \in [1..n -> Seq(Effect)]
    BY <1>1, <1>3
  <2> HIDE DEF r
  <2> QED  BY <1>1, <2>1, SeqDef
<1>5. DOMAIN q = 1..(n + 1) /\ q[n + 1] = RestOf(p, f) /\ \A i \in 1..n : q[i] = r[i]
  BY <1>1
<1>6. q \in Seq(Seq(Effect)) /\ Len(q) = n + 1
  <2>1. \A i \in 1..(n + 1) : i \in 1..n \/ i = n + 1
    BY <1>1
  <2>2. q \in [1..(n + 1) -> Seq(Effect)]
    BY <1>1, <1>2, <1>3, <1>5, <2>1
  <2> HIDE DEF q
  <2> QED  BY <1>1, <2>2, SeqDef
<1> HIDE DEF r, q
<1>7. Reverse(r) \in Seq(Seq(Effect)) /\ Len(Reverse(r)) = n /\ \A i \in 1..n : Reverse(r)[i] = r[(n - i) + 1]
  <2>1. Reverse(r) = [i \in 1..n |-> r[(n - i) + 1]]
    BY <1>4 DEF Reverse
  <2>2. \A i \in 1..n : (n - i) + 1 \in 1..n
    BY <1>1
  <2>3. Reverse(r) \in [1..n -> Seq(Effect)]
    BY <1>3, <2>1, <2>2
  <2> QED  BY <1>1, <2>1, <2>3, SeqDef
<1>8. Reverse(q) \in Seq(Seq(Effect)) /\ Len(Reverse(q)) = n + 1
      /\ \A i \in 1..(n + 1) : Reverse(q)[i] = q[((n + 1) - i) + 1]
  <2>1. Reverse(q) = [i \in 1..(n + 1) |-> q[((n + 1) - i) + 1]]
    BY <1>6 DEF Reverse
  <2>2. \A i \in 1..(n + 1) : ((n + 1) - i) + 1 \in 1..(n + 1)
    BY <1>1
  <2>3. Reverse(q) \in [1..(n + 1) -> Seq(Effect)]
    <3>1. \A i \in 1..(n + 1) : q[i] \in Seq(Effect)
      BY <1>1, <1>6
    <3> QED  BY <2>1, <2>2, <3>1
  <2> QED  BY <1>1, <2>1, <2>3, SeqDef
<1>9. Reverse(q) = <<RestOf(p, f)>> \o Reverse(r)
  <2> DEFINE v == <<RestOf(p, f)>> \o Reverse(r)
  <2>1. /\ v \in Seq(Seq(Effect)) /\ Len(v) = n + 1 /\ v[1] = RestOf(p, f)
        /\ \A i \in 2..(n + 1) : v[i] = Reverse(r)[i - 1]
    BY <1>1, <1>2, <1>7
  <2> HIDE DEF v
  <2>2. \A i \in 2..(n + 1) : Reverse(q)[i] = v[i]
    <3> SUFFICES ASSUME NEW i \in 2..(n + 1) PROVE Reverse(q)[i] = v[i]
      OBVIOUS
    <3> DEFINE j == ((n + 1) - i) + 1
    <3>1. /\ i - 1 \in 1..n /\ i \in 1..(n + 1) /\ j \in 1..n /\ (n - (i - 1)) + 1 = j
      BY <1>1
    <3>2. Reverse(q)[i] = q[j] /\ v[i] = r[j]
      BY <1>7, <1>8, <2>1, <3>1
    <3> QED  BY <1>5, <3>1, <3>2
  <2>3. Reverse(q)[1] = v[1]
    <3>1. 1 \in 1..(n + 1) /\ ((n + 1) - 1) + 1 = n + 1
      BY <1>1
    <3> QED  BY <1>5, <1>8, <2>1, <3>1
  <2>4. \A i \in 1..(n + 1) : Reverse(q)[i] = v[i]
    <3>1. \A i \in 1..(n + 1) : i = 1 \/ i \in 2..(n + 1)
      BY <1>1
    <3> QED  BY <2>2, <2>3, <3>1
  <2>5. Reverse(q) = v
    BY <1>8, <2>1, <2>4, SeqEqual
  <2> QED  BY <2>5 DEF v
<1>10. FlattenSeq(<<RestOf(p, f)>> \o Reverse(r)) = RestOf(p, f) \o FlattenSeq(Reverse(r))
  BY <1>2, <1>7, FlattenFirst
<1> QED  BY <1>9, <1>10 DEF StackRest, q, r, a

LEMMA StackRestType ==
  ASSUME NEW p \in [Ids -> Seq(SubActionImpls)], NEW s \in Seq(Frames)
  PROVE  StackRest(p, s) \in Seq(Effect)
<1> DEFINE r == [i \in DOMAIN s |-> RestOf(p, s[i])]
           n == Len(s)
<1>1. n \in Nat /\ DOMAIN s = 1..n /\ \A i \in 1..n : RestOf(p, s[i]) \in Seq(Effect)
  BY RestType
<1> HIDE DEF n
<1>2. r \in Seq(Seq(Effect)) /\ Len(r) = n
  <2>1. r \in [1..n -> Seq(Effect)]
    BY <1>1
  <2> HIDE DEF r
  <2> QED  BY <1>1, <2>1, SeqDef
<1> HIDE DEF r
<1>3. Reverse(r) \in Seq(Seq(Effect))
  <2>1. Reverse(r) = [i \in 1..n |-> r[(n - i) + 1]]
    BY <1>2 DEF Reverse
  <2>2. \A i \in 1..n : (n - i) + 1 \in 1..n
    BY <1>1
  <2>3. \A i \in 1..n : r[i] \in Seq(Effect)
    BY <1>1, <1>2
  <2>4. Reverse(r) \in [1..n -> Seq(Effect)]
    BY <2>1, <2>2, <2>3
  <2> QED  BY <1>1, <2>4, SeqDef
<1> QED  BY <1>3, FlattenType DEF StackRest, r

LEMMA TopAndFront ==
  ASSUME StackInv, NEW t \in Threads, stack[t] # <<>>
  PROVE  /\ Front(stack[t]) \in Seq(Frames) /\ Top(t) \in Frames
         /\ stack[t] = Append(Front(stack[t]), Top(t))
         /\ Len(stack[t]) = 1 => Front(stack[t]) = <<>>
<1> DEFINE s == stack[t]
           n == Len(s)
           a == Append(Front(s), Top(t))
<1>1. s \in Seq(Frames) /\ n \in Nat \ {0} /\ Top(t) = s[n] /\ Top(t) \in Frames
  BY TopIsFrame
<1>2. Front(s) \in Seq(Frames) /\ Len(Front(s)) = n - 1 /\ \A i \in 1..(n - 1) : Front(s)[i] = s[i]
  BY <1>1 DEF Front
<1> HIDE DEF s, n
<1>3. a \in Seq(Frames) /\ Len(a) = n /\ a[n] = Top(t) /\ \A i \in 1..(n - 1) : a[i] = s[i]
  BY <1>1, <1>2
<1>4. \A i \in 1..n : i = n \/ i \in 1..(n - 1)
  BY <1>1
<1> HIDE DEF a
<1>5. \A i \in 1..n : a[i] = s[i]
  BY <1>1, <1>3, <1>4
<1>6. a = s
  BY <1>1, <1>3, <1>5, SeqEqual DEF n
<1>7. n = 1 => Front(s) = <<>>
  BY <1>2
<1> QED  BY <1>1, <1>2, <1>6, <1>7 DEF a, s, n

\* A stack does its current sub-action, and then what is left of it.
LEMMA StackByStep ==
  ASSUME StackInv, NEW t \in Threads, AtSubAction(t)
  PROVE  /\ Advanced(t) \in Seq(Frames) /\ Advanced(t) # <<>>
         /\ StackRest(program, stack[t]) =
              SubEffects(Current(t), EffectsOf(program)[s_maxRecursion - Top(t).depth]) \o StackRest(program, Advanced(t))
         /\ SubEffects(Current(t), EffectsOf(program)[s_maxRecursion - Top(t).depth]) \in Seq(Effect)
<1> DEFINE f == Top(t)
           front == Front(stack[t])
           sub == SubEffects(Current(t), EffectsOf(program)[s_maxRecursion - f.depth])
<1>1. stack[t] # <<>> /\ f.next <= Len(f.body) /\ program \in [Ids -> Seq(SubActionImpls)]
  BY DEF AtSubAction, Busy, StackInv
<1>2. front \in Seq(Frames) /\ f \in Frames /\ stack[t] = Append(front, f)
  BY <1>1, TopAndFront
<1>3. sub \in Seq(Effect)
  BY <1>1, <1>2, CurrentIsSubAction, LevelsBelow, SubEffectsType
<1>4. Advance(f) \in Frames /\ RestOf(program, f) = sub \o RestOf(program, Advance(f))
  BY <1>1, <1>2, RestByStep DEF Current
<1>5. Advanced(t) = Append(front, Advance(f))
  BY DEF Advanced
<1> HIDE DEF f, front, sub
<1>6. StackRest(program, stack[t]) = RestOf(program, f) \o StackRest(program, front)
  BY <1>1, <1>2, StackRestTop
<1>7. StackRest(program, Advanced(t)) = RestOf(program, Advance(f)) \o StackRest(program, front)
  BY <1>1, <1>2, <1>4, <1>5, StackRestTop
<1>8. RestOf(program, Advance(f)) \in Seq(Effect) /\ StackRest(program, front) \in Seq(Effect)
  BY <1>1, <1>2, <1>4, RestType, StackRestType
<1>9. (sub \o RestOf(program, Advance(f))) \o StackRest(program, front)
        = sub \o (RestOf(program, Advance(f)) \o StackRest(program, front))
  BY <1>3, <1>8, ConcatAssociative
<1>10. Advanced(t) \in Seq(Frames) /\ Advanced(t) # <<>>
  BY <1>2, <1>4, <1>5
<1> QED  BY <1>3, <1>4, <1>6, <1>7, <1>9, <1>10 DEF sub, f

\* What is done, and what is left.
InOrder(p, d, s, frame) ==
  IF s = <<>> THEN d = <<>> ELSE d \o StackRest(p, s) = RestOf(p, frame)

OrderInv ==
  /\ done \in [Threads -> Seq(Effect)]
  /\ \A t \in Threads : InOrder(program, done[t], stack[t], task[t].frame)

LEMMA OrderChanged ==
  ASSUME OrderInv, program' = program, NEW t \in Threads, NEW s, NEW d \in Seq(Effect),
         stack \in [Threads -> Seq(Frames)],
         stack' = [stack EXCEPT ![t] = s], done' = [done EXCEPT ![t] = d],
         \A u \in Threads \ {t} : task'[u] = task[u],
         InOrder(program, d, s, task'[t].frame)
  PROVE  OrderInv'
<1>1. done' \in [Threads -> Seq(Effect)]
  BY DEF OrderInv
<1>2. ASSUME NEW u \in Threads PROVE InOrder(program', done'[u], stack'[u], task'[u].frame)
  <2>1. CASE u = t
    <3>1. done'[u] = d /\ stack'[u] = s
      BY <2>1 DEF OrderInv
    <3> QED  BY <2>1, <3>1
  <2>2. CASE u # t
    <3>1. done'[u] = done[u] /\ stack'[u] = stack[u] /\ task'[u] = task[u]
      BY <2>2 DEF OrderInv
    <3> QED  BY <3>1 DEF OrderInv
  <2> QED  BY <2>1, <2>2
<1> QED  BY <1>1, <1>2 DEF OrderInv

\* A sub-action that is done is the next of what was left.
LEMMA OrderDone ==
  ASSUME StackInv, OrderInv, NEW t \in Threads, AtSubAction(t), NEW e \in Effect,
         SubEffects(Current(t), EffectsOf(program)[s_maxRecursion - Top(t).depth]) = <<e>>,
         program' = program, task' = task,
         stack' = [stack EXCEPT ![t] = Advanced(t)], done' = [done EXCEPT ![t] = Append(@, e)]
  PROVE  OrderInv'
<1> DEFINE d == done[t]
           left == StackRest(program, Advanced(t))
<1>1. stack[t] # <<>> /\ stack \in [Threads -> Seq(Frames)] /\ program \in [Ids -> Seq(SubActionImpls)]
  BY DEF AtSubAction, Busy, StackInv
<1>2. Advanced(t) \in Seq(Frames) /\ Advanced(t) # <<>> /\ StackRest(program, stack[t]) = <<e>> \o left
  BY StackByStep
<1>3. d \in Seq(Effect) /\ left \in Seq(Effect) /\ <<e>> \in Seq(Effect)
  <2>1. d \in Seq(Effect)
    BY DEF OrderInv
  <2>2. left \in Seq(Effect)
    BY <1>1, <1>2, StackRestType
  <2> QED  BY <2>1, <2>2
<1>4. d \o (<<e>> \o left) = RestOf(program, task[t].frame)
  BY <1>1, <1>2 DEF OrderInv, InOrder
<1> HIDE DEF d, left
<1>5. Append(d, e) = d \o <<e>> /\ Append(d, e) \in Seq(Effect)
  BY <1>3
<1>6. (d \o <<e>>) \o left = d \o (<<e>> \o left)
  BY <1>3, ConcatAssociative
<1>7. InOrder(program, Append(d, e), Advanced(t), task'[t].frame)
  BY <1>2, <1>4, <1>5, <1>6 DEF InOrder, left
<1>8. done' = [done EXCEPT ![t] = Append(d, e)]
  BY DEF d
<1> QED  BY <1>1, <1>5, <1>7, <1>8, OrderChanged

\* A run of an action does what that action does one level deeper, or nothing
\* beyond the limit.
LEMMA OrderRun ==
  ASSUME StackInv, OrderInv, NEW t \in Threads, RecursiveAction(t)
  PROVE  OrderInv'
<1> DEFINE f == Top(t)
           id == Current(t).target
           deeper == Frame(program[id], f.depth + 1)
           sub == SubEffects(Current(t), EffectsOf(program)[s_maxRecursion - f.depth])
           s == IF TooDeep(deeper.depth) THEN Advanced(t) ELSE Append(Advanced(t), deeper)
<1>1. /\ AtSubAction(t) /\ ~Current(t).delayed /\ Current(t).kind = "run"
      /\ stack' = [stack EXCEPT ![t] = s]
      /\ program' = program /\ task' = task /\ done' = done
  BY DEF RecursiveAction, At
<1>2. stack[t] # <<>> /\ stack \in [Threads -> Seq(Frames)] /\ program \in [Ids -> Seq(SubActionImpls)]
  BY <1>1 DEF AtSubAction, Busy, StackInv
<1>3. id \in Ids
  <2>1. Current(t) \in SubActionImpls
    BY <1>1, CurrentIsSubAction DEF AtSubAction, Busy
  <2> QED  BY <1>1, <2>1 DEF SubActionImpls
<1>4. sub = EffectsOf(program)[s_maxRecursion - f.depth][id]
  BY <1>1 DEF SubEffects
<1>5. f.depth \in 0..s_maxRecursion /\ deeper.depth = f.depth + 1 /\ s_maxRecursion \in Nat
  BY <1>2, TopIsFrame, ActionExecutionAssumption DEF Frame, Frames
<1>6. /\ Advanced(t) \in Seq(Frames) /\ Advanced(t) # <<>> /\ sub \in Seq(Effect)
      /\ StackRest(program, stack[t]) = sub \o StackRest(program, Advanced(t))
  BY <1>1, StackByStep
<1>7. s \in Seq(Frames) /\ s # <<>> /\ StackRest(program, s) = StackRest(program, stack[t])
  <2>1. CASE TooDeep(deeper.depth)
    <3>1. s_maxRecursion - f.depth = 0
      BY <1>5, <2>1 DEF TooDeep
    <3>2. sub = <<>>
      BY <1>2, <1>3, <1>4, <3>1, EffectsByLevel
    <3>3. StackRest(program, Advanced(t)) \in Seq(Effect)
      BY <1>2, <1>6, StackRestType
    <3>4. <<>> \o StackRest(program, Advanced(t)) = StackRest(program, Advanced(t))
      BY <3>3
    <3> QED  BY <1>6, <2>1, <3>2, <3>4
  <2>2. CASE ~TooDeep(deeper.depth)
    <3>1. /\ s_maxRecursion - f.depth \in 1..(s_maxRecursion + 1)
          /\ (s_maxRecursion - f.depth) - 1 = s_maxRecursion - deeper.depth
          /\ deeper.depth \in 0..s_maxRecursion
      BY <1>5, <2>2 DEF TooDeep
    <3>2. sub = BodyEffects(program[id], EffectsOf(program)[s_maxRecursion - deeper.depth])
      BY <1>2, <1>3, <1>4, <3>1, EffectsByLevel
    <3>3. program[id] \in Seq(SubActionImpls)
      BY <1>2, <1>3
    <3>4. /\ deeper \in Frames /\ deeper.body = program[id] /\ deeper.next = 1
      BY <3>1, <3>3 DEF Frame, Frames
    <3>5. SubSeq(program[id], 1, Len(program[id])) = program[id]
      BY <3>3
    <3> HIDE DEF deeper, f, id
    <3>6. RestOf(program, deeper) = sub
      BY <3>2, <3>4, <3>5 DEF RestOf
    <3>7. StackRest(program, Append(Advanced(t), deeper)) = sub \o StackRest(program, Advanced(t))
      BY <1>2, <1>6, <3>4, <3>6, StackRestTop
    <3>8. ASSUME NEW a \in Seq(Frames) PROVE Append(a, deeper) \in Seq(Frames) /\ Append(a, deeper) # <<>>
      BY <3>4, AppendProperties
    <3>9. Append(Advanced(t), deeper) \in Seq(Frames) /\ Append(Advanced(t), deeper) # <<>>
      BY <1>6, <3>8
    <3> QED  BY <1>6, <2>2, <3>7, <3>9
  <2> QED  BY <2>1, <2>2
<1> HIDE DEF s
<1>8. InOrder(program, done[t], s, task'[t].frame)
  BY <1>1, <1>2, <1>7 DEF OrderInv, InOrder
<1>9. done' = [done EXCEPT ![t] = done[t]] /\ done[t] \in Seq(Effect)
  BY <1>1 DEF OrderInv
<1> QED  BY <1>1, <1>2, <1>8, <1>9, OrderChanged

\* A thread without frames forgets what it did.
LEMMA OrderIdle ==
  ASSUME StackInv, OrderInv, NEW t \in Threads, program' = program,
         stack' = [stack EXCEPT ![t] = <<>>], Idle({t})
  PROVE  OrderInv'
<1>1. done' = [done EXCEPT ![t] = <<>>]
  BY DEF Idle, OrderInv
<1>2. \A u \in Threads \ {t} : task'[u] = task[u]
  BY DEF Idle
<1>3. <<>> \in Seq(Effect) /\ InOrder(program, <<>>, <<>>, task'[t].frame)
  BY DEF InOrder
<1>4. stack \in [Threads -> Seq(Frames)]
  BY DEF StackInv
<1> QED  BY <1>1, <1>2, <1>3, <1>4, OrderChanged

LEMMA OrderFrameEnds ==
  ASSUME StackInv, OrderInv, NEW t \in Threads, FrameEnds(t)
  PROVE  OrderInv'
<1> DEFINE f == Top(t)
           front == Front(stack[t])
<1>1. stack[t] # <<>> /\ f.next > Len(f.body) /\ program' = program /\ stack' = [stack EXCEPT ![t] = front]
  BY DEF FrameEnds, Busy
<1>2. /\ front \in Seq(Frames) /\ f \in Frames /\ stack[t] = Append(front, f)
      /\ Len(stack[t]) = 1 => front = <<>>
  BY <1>1, TopAndFront
<1>3. CASE Len(stack[t]) = 1
  BY <1>1, <1>2, <1>3, OrderIdle DEF FrameEnds
<1>4. CASE Len(stack[t]) # 1
  <2>1. task' = task /\ done' = done
    BY <1>4 DEF FrameEnds
  <2>2. front # <<>>
    BY <1>1, <1>4, FrontStacked
  <2>3. stack \in [Threads -> Seq(Frames)] /\ program \in [Ids -> Seq(SubActionImpls)]
    BY DEF StackInv
  <2>4. StackRest(program, stack[t]) = StackRest(program, front)
    <3>1. RestOf(program, f) = <<>>
      BY <1>1, <1>2, RestAtEnd
    <3>2. StackRest(program, stack[t]) = <<>> \o StackRest(program, front)
      BY <1>2, <2>3, <3>1, StackRestTop
    <3>3. StackRest(program, front) \in Seq(Effect)
      BY <1>2, <2>3, StackRestType
    <3> QED  BY <3>2, <3>3
  <2> HIDE DEF front, f
  <2>5. InOrder(program, done[t], front, task'[t].frame)
    BY <1>1, <2>1, <2>2, <2>4 DEF OrderInv, InOrder
  <2>6. done' = [done EXCEPT ![t] = done[t]] /\ done[t] \in Seq(Effect)
    BY <2>1 DEF OrderInv
  <2> QED  BY <1>1, <2>1, <2>3, <2>5, <2>6, OrderChanged
<1> QED  BY <1>3, <1>4

\* A thread that begins has everything left to do.
LEMMA OrderBegins ==
  ASSUME StackInv, OrderInv, NEW t \in Threads, stack[t] = <<>>, NEW f \in Frames, NEW r,
         DOMAIN task = Threads, program' = program, done' = done,
         stack' = [stack EXCEPT ![t] = <<f>>], task' = [task EXCEPT ![t] = [frame |-> f, request |-> r]]
  PROVE  OrderInv'
<1>1. stack \in [Threads -> Seq(Frames)] /\ program \in [Ids -> Seq(SubActionImpls)]
  BY DEF StackInv
<1>2. done[t] = <<>>
  BY DEF OrderInv, InOrder
<1>3. task'[t].frame = f /\ \A u \in Threads \ {t} : task'[u] = task[u]
  OBVIOUS
<1>4. StackRest(program, <<f>>) = RestOf(program, f)
  <2>1. <<>> \in Seq(Frames) /\ Append(<<>>, f) = <<f>>
    OBVIOUS
  <2>2. StackRest(program, Append(<<>>, f)) = RestOf(program, f) \o StackRest(program, <<>>)
    BY <1>1, <2>1, StackRestTop
  <2>3. RestOf(program, f) \in Seq(Effect)
    BY <1>1, RestType
  <2>4. RestOf(program, f) \o <<>> = RestOf(program, f)
    BY <2>3
  <2> QED  BY <2>1, <2>2, <2>4, StackRestEmpty
<1>5. RestOf(program, f) \in Seq(Effect)
  BY <1>1, RestType
<1>6. <<>> \o RestOf(program, f) = RestOf(program, f)
  BY <1>5
<1>7. <<f>> # <<>>
  OBVIOUS
<1>8. InOrder(program, done[t], <<f>>, task'[t].frame)
  BY <1>2, <1>3, <1>4, <1>6, <1>7 DEF InOrder
<1>9. done' = [done EXCEPT ![t] = done[t]] /\ done[t] \in Seq(Effect)
  BY DEF OrderInv
<1> QED  BY <1>1, <1>3, <1>8, <1>9, OrderChanged

LEMMA NextOrder ==
  ASSUME StackInv, TasksOrigin, RequestInv, OrderInv, [Next]_vars
  PROVE  OrderInv'
<1>1. CASE UNCHANGED <<program, stack, done, task>>
  BY <1>1 DEF OrderInv
<1>2. ASSUME NEW t \in Threads, AtSubAction(t) PROVE Current(t) \in SubActionImpls
  BY <1>2, CurrentIsSubAction DEF AtSubAction, Busy
<1>3. ASSUME NEW t \in Threads, DeviceSet(t) \/ ToggleWrite(t) \/ Notification(t)
      PROVE  OrderInv'
  <2> DEFINE e == <<Current(t).kind, Current(t).target>>
  <2>1. /\ AtSubAction(t) /\ ~Current(t).delayed /\ Current(t).kind \in {"set", "toggle", "notify"}
        /\ Complete(t) /\ program' = program /\ task' = task
    BY <1>3 DEF DeviceSet, ToggleWrite, Notification, At
  <2>2. e \in Effect
    BY <1>2, <2>1 DEF Effect, EffectKinds, SubActionImpls
  <2>3. SubEffects(Current(t), EffectsOf(program)[s_maxRecursion - Top(t).depth]) = <<e>>
    BY <2>1 DEF SubEffects
  <2>4. stack' = [stack EXCEPT ![t] = Advanced(t)] /\ done' = [done EXCEPT ![t] = Append(@, e)]
    BY <2>1 DEF Complete
  <2> HIDE DEF e
  <2> QED  BY <2>1, <2>2, <2>3, <2>4, OrderDone
<1>4. ASSUME NEW t \in Threads, Delay(t)
      PROVE  OrderInv'
  <2> DEFINE e == <<"later", Current(t).target>>
  <2>1. /\ AtSubAction(t) /\ Current(t).delayed /\ program' = program /\ task' = task
        /\ stack' = [stack EXCEPT ![t] = Advanced(t)] /\ done' = [done EXCEPT ![t] = Append(@, e)]
    BY <1>4 DEF Delay
  <2>2. e \in Effect
    BY <1>2, <2>1 DEF Effect, EffectKinds, SubActionImpls
  <2>3. SubEffects(Current(t), EffectsOf(program)[s_maxRecursion - Top(t).depth]) = <<e>>
    BY <2>1 DEF SubEffects
  <2> HIDE DEF e
  <2> QED  BY <2>1, <2>2, <2>3, OrderDone
<1>5. ASSUME NEW t \in Threads, RecursiveAction(t)
      PROVE  OrderInv'
  BY <1>5, OrderRun
<1>6. ASSUME NEW t \in Threads, FrameEnds(t)
      PROVE  OrderInv'
  BY <1>6, OrderFrameEnds
<1>7. ASSUME NEW t \in Threads, Throw(t)
      PROVE  OrderInv'
  BY <1>7, OrderIdle DEF Throw
<1>8. ASSUME NEW t \in Threads, Wake(t)
      PROVE  OrderInv'
  <2>1. PICK x \in BagToSet(later) :
          /\ stack' = [stack EXCEPT ![t] = <<Frame(<<x.sub>>, x.depth)>>]
          /\ task' = [task EXCEPT ![t] = [frame |-> Frame(<<x.sub>>, x.depth), request |-> x.request]]
    BY <1>8 DEF Wake
  <2>2. stack[t] = <<>> /\ program' = program /\ done' = done
    BY <1>8 DEF Wake
  <2>3. Frame(<<x.sub>>, x.depth) \in Frames
    <3>1. x.sub \in SubActionImpls /\ x.depth \in 0..s_maxRecursion
      BY DEF TasksOrigin
    <3> QED  BY <3>1 DEF Frame, Frames
  <2> QED  BY <2>1, <2>2, <2>3, OrderBegins DEF RequestInv
<1>9. ASSUME NEW t \in Callers, NEW id \in Ids, Execute(t, id)
      PROVE  OrderInv'
  <2>1. t \in Threads
    BY CallersAreNotDetached
  <2>2. Frame(program[id], 0) \in Frames
    BY ActionExecutionAssumption DEF StackInv, Frame, Frames
  <2> QED  BY <1>9, <2>1, <2>2, OrderBegins DEF Execute, RequestInv
<1>10. ASSUME NEW t \in Threads, ToggleRead(t)
       PROVE  UNCHANGED <<program, stack, done, task>>
  BY <1>10 DEF ToggleRead
<1>11. CASE Destroy \/ UseDestroyed \/ Exit \/ UNCHANGED vars
  BY <1>1, <1>11 DEF Destroy, UseDestroyed, Exit, vars, threads
<1> QED
  BY <1>1, <1>3, <1>4, <1>5, <1>6, <1>7, <1>8, <1>9, <1>10, <1>11 DEF Next, SubActionStep

\* Whatever threads do in between, what one has done and what its stack has left to do
\* are together what its action does level by level, in order, up to the limit.
THEOREM ActionsInOrder == Spec => []ExecutesInOrder
<1>1. Init => OrderInv
  BY DEF Init, OrderInv, InOrder
<1>2. StackInv /\ TasksOrigin /\ RequestInv /\ OrderInv /\ [Next]_vars => OrderInv'
  BY NextOrder
<1>3. StackInv /\ OrderInv => ExecutesInOrder
  <2> SUFFICES ASSUME StackInv, OrderInv, NEW t \in Threads, stack[t] # <<>>
               PROVE  done[t] \o FlattenSeq(Reverse([i \in DOMAIN stack[t] |-> Rest(stack[t][i])])) = Rest(task[t].frame)
    BY DEF ExecutesInOrder
  <2>1. [i \in DOMAIN stack[t] |-> Rest(stack[t][i])] = [i \in DOMAIN stack[t] |-> RestOf(program, stack[t][i])]
    BY RestIsOf
  <2>2. Rest(task[t].frame) = RestOf(program, task[t].frame)
    BY RestIsOf
  <2>3. done[t] \o StackRest(program, stack[t]) = RestOf(program, task[t].frame)
    BY DEF OrderInv, InOrder
  <2> QED  BY <2>1, <2>2, <2>3 DEF StackRest
<1>4. IInv => StackInv /\ TasksOrigin /\ RequestInv
  BY DEF IInv
<1> QED  BY <1>1, <1>2, <1>3, <1>4, ExecutionInvariant, PTL DEF Spec

-----------------------------------------------------------------------------
(* The end of the process *)

DelaysOf(p, id) ==
  \E k \in DOMAIN EffectsOf(p)[s_maxRecursion + 1][id] : EffectsOf(p)[s_maxRecursion + 1][id][k][1] = "later"

SomeRequestDelays == \E r \in DOMAIN by : Delays(by[r].id)

LEMMA SomeIsOf == SomeRequestDelays <=> \E r \in DOMAIN by : DelaysOf(program, by[r].id)
BY DEF SomeRequestDelays, Delays, DelaysOf, Effects, EffectsOf, ByLevels

LEMMA NextSomeIsOf == SomeRequestDelays' <=> \E r \in DOMAIN by' : DelaysOf(program', by'[r].id)
BY DEF SomeRequestDelays, Delays, DelaysOf, Effects, EffectsOf, ByLevels

\* A task that sleeps, a detached thread and an end of the process all go back to a
\* request that delays.
EndInv ==
  \/ BagToSet(later) # {}
  \/ \E t \in Detached : stack[t] # <<>>
  \/ ended # "no" /\ server = "up"
  => SomeRequestDelays

\* A request is never forgotten, and no action changes.
LEMMA RequestsStay ==
  ASSUME RequestInv, SomeRequestDelays, [Next]_vars
  PROVE  SomeRequestDelays'
<1>1. PICK r \in DOMAIN by : DelaysOf(program, by[r].id)
  BY SomeIsOf
<1>2. program' = program /\ (by' = by \/ \E q \in [caller : Callers, id : Ids] : by' = Append(by, q))
  BY DEF Next, SubActionStep, DeviceSet, ToggleRead, ToggleWrite, Notification, RecursiveAction, Delay, FrameEnds,
         Throw, Wake, Execute, Destroy, UseDestroyed, Exit, vars, threads
<1>3. r \in DOMAIN by' /\ by'[r] = by[r]
  BY <1>1, <1>2 DEF RequestInv
<1> QED  BY <1>1, <1>2, <1>3, NextSomeIsOf

\* What a caller delays is among what its action does.
LEMMA CallerDelays ==
  ASSUME StackInv, RequestInv, OrderInv, OrderInv', NEW t \in Callers, Delay(t)
  PROVE  SomeRequestDelays
<1> DEFINE q == task[t].request
           id == by[q].id
           f == Frame(program[id], 0)
           e == <<"later", Current(t).target>>
           all == EffectsOf(program)[s_maxRecursion + 1][id]
<1>1. /\ t \in Threads /\ stack[t] # <<>> /\ AtSubAction(t) /\ program' = program /\ task' = task
      /\ stack' = [stack EXCEPT ![t] = Advanced(t)] /\ done' = [done EXCEPT ![t] = Append(@, e)]
  BY CallersAreNotDetached DEF Delay, AtSubAction, Busy
<1>2. Request(t)
  BY <1>1 DEF RequestInv
<1>3. q \in DOMAIN by /\ id \in Ids /\ task[t].frame = f
  <2>1. q \in DOMAIN by /\ task[t].frame = Frame(program[by[q].id], 0)
    BY <1>2 DEF Request
  <2>2. by \in Seq([caller : Callers, id : Ids])
    BY DEF RequestInv
  <2> HIDE DEF q
  <2>3. by[q] \in [caller : Callers, id : Ids]
    <3>1. ASSUME NEW S, NEW b \in Seq(S), NEW i \in DOMAIN b PROVE b[i] \in S
      OBVIOUS
    <3> QED  BY <2>1, <2>2, <3>1, Zenon
  <2> QED  BY <2>1, <2>3
<1>4. RestOf(program, f) = all
  <2>1. program \in [Ids -> Seq(SubActionImpls)]
    BY DEF StackInv
  <2>2. f.body = program[id] /\ f.next = 1 /\ f.depth = 0
    BY DEF Frame
  <2>3. SubSeq(program[id], 1, Len(program[id])) = program[id]
    BY <1>3, <2>1
  <2>4. s_maxRecursion + 1 \in 1..(s_maxRecursion + 1) /\ (s_maxRecursion + 1) - 1 = s_maxRecursion - 0
    BY ActionExecutionAssumption
  <2>5. all = BodyEffects(program[id], EffectsOf(program)[s_maxRecursion - 0])
    BY <1>3, <2>1, <2>4, EffectsByLevel
  <2> HIDE DEF f, id, all
  <2> QED  BY <2>2, <2>3, <2>5 DEF RestOf
<1>5. stack'[t] = Advanced(t) /\ Advanced(t) \in Seq(Frames) /\ Advanced(t) # <<>>
  <2>1. stack'[t] = Advanced(t)
    BY <1>1 DEF StackInv
  <2>2. Advanced(t) \in Seq(Frames) /\ Len(Advanced(t)) \in Nat \ {0}
    BY <1>1, AdvancedKeeps, TopIsFrame
  <2> QED  BY <2>1, <2>2
<1>6. InOrder(program, done'[t], Advanced(t), f)
  BY <1>1, <1>3, <1>5 DEF OrderInv
<1>7. done'[t] \o StackRest(program, Advanced(t)) = all
  BY <1>4, <1>5, <1>6 DEF InOrder
<1>8. StackRest(program, Advanced(t)) \in Seq(Effect)
  BY <1>5, StackRestType DEF StackInv
<1>9. done[t] \in Seq(Effect) /\ done'[t] = Append(done[t], e)
  BY <1>1 DEF OrderInv
<1> HIDE DEF all, e, f
<1>10. Len(done[t]) + 1 \in DOMAIN all /\ all[Len(done[t]) + 1] = e
  <2>1. ASSUME NEW a \in Seq(Effect), NEW b \in Seq(Effect), NEW x \in Effect
        PROVE  Len(a) + 1 \in DOMAIN (Append(a, x) \o b) /\ (Append(a, x) \o b)[Len(a) + 1] = x
    OBVIOUS
  <2>2. e \in Effect
    <3>1. Current(t) \in SubActionImpls
      BY <1>1, CurrentIsSubAction DEF AtSubAction, Busy
    <3> QED  BY <3>1 DEF e, Effect, EffectKinds, SubActionImpls
  <2>3. /\ Len(done[t]) + 1 \in DOMAIN (Append(done[t], e) \o StackRest(program, Advanced(t)))
        /\ (Append(done[t], e) \o StackRest(program, Advanced(t)))[Len(done[t]) + 1] = e
    <3>1. done[t] \in Seq(Effect)
      BY <1>9
    <3> QED  BY <1>8, <2>1, <2>2, <3>1, Zenon
  <2>4. Append(done[t], e) \o StackRest(program, Advanced(t)) = all
    BY <1>7, <1>9
  <2> QED  BY <2>3, <2>4
<1>11. DelaysOf(program, id)
  <2>1. e[1] = "later"
    BY DEF e
  <2>2. \E k \in DOMAIN all : all[k][1] = "later"
    BY <1>10, <2>1
  <2> HIDE DEF id
  <2> QED  BY <2>2 DEF DelaysOf, all
<1> QED  BY <1>3, <1>11, SomeIsOf

LEMMA NextEnd ==
  ASSUME IInv, OrderInv, OrderInv', EndInv, [Next]_vars
  PROVE  EndInv'
<1> USE DEF IInv
<1>1. ASSUME SomeRequestDelays PROVE EndInv'
  BY <1>1, RequestsStay DEF EndInv
<1>2. ASSUME BagToSet(later) = {}, \A t \in Detached : stack[t] = <<>>, ended = "no" \/ server # "up",
             ~ \E t \in Callers : Delay(t)
      PROVE  /\ BagToSet(later') = {} /\ \A t \in Detached : stack'[t] = <<>>
             /\ ended' = "no" \/ server' # "up"
  <2>1. ASSUME NEW t \in Threads, SubActionStep(t)
        PROVE  t \in Callers /\ stack[t] # <<>> /\ Up
    BY <1>2, <2>1, CallersAreNotDetached
       DEF SubActionStep, DeviceSet, ToggleRead, ToggleWrite, Notification, RecursiveAction, Delay, FrameEnds,
           Throw, At, AtSubAction, Busy
  <2>2. ASSUME NEW t \in Threads, SubActionStep(t)
        PROVE  later' = later /\ \E s : stack' = [stack EXCEPT ![t] = s]
    <3>1. ~Delay(t)
      BY <1>2, <2>1, <2>2
    <3>2. CASE ToggleRead(t)
      <4>1. later' = later /\ stack' = stack
        BY <3>2 DEF ToggleRead
      <4>2. stack = [stack EXCEPT ![t] = stack[t]]
        BY DEF StackInv
      <4> QED  BY <4>1, <4>2
    <3>3. CASE ~ToggleRead(t)
      BY <2>2, <3>1, <3>3
         DEF SubActionStep, DeviceSet, ToggleWrite, Notification, RecursiveAction, FrameEnds, Throw, Complete
    <3> QED  BY <3>2, <3>3
  <2>3. ASSUME NEW t \in Threads, SubActionStep(t)
        PROVE  ended' = "no"
    <3>1. t \in Callers /\ ended = "no"
      BY <2>1, <2>3 DEF Up
    <3>2. ASSUME Notification(t) PROVE ended' = "no"
      <4>1. Request(t)
        BY <2>1, <2>3 DEF RequestInv
      <4>2. ~ChannelDead(task[t].request)
        BY <4>1 DEF Request, ChannelDead
      <4> QED  BY <3>2, <4>2 DEF Notification
    <3> QED
      BY <2>3, <3>1, <3>2
         DEF SubActionStep, DeviceSet, ToggleRead, ToggleWrite, RecursiveAction, Delay, FrameEnds, Throw, Catching
  <2>4. ASSUME NEW t \in Threads, SubActionStep(t)
        PROVE  \A u \in Detached : stack'[u] = <<>>
    BY <1>2, <2>1, <2>2, <2>4, CallersAreNotDetached DEF StackInv
  <2>5. ASSUME NEW t \in Threads, Wake(t) PROVE FALSE
    BY <1>2, <2>5 DEF Wake
  <2>6. ASSUME NEW t \in Callers, NEW id \in Ids, Execute(t, id)
        PROVE  /\ later' = later /\ ended' = ended /\ server' = server
               /\ \A u \in Detached : stack'[u] = stack[u]
    BY <2>6, CallersAreNotDetached DEF Execute, StackInv
  <2>7. CASE Destroy \/ UseDestroyed \/ Exit \/ UNCHANGED vars
    BY <1>2, <2>7 DEF Destroy, UseDestroyed, Exit, vars, threads
  <2> QED  BY <1>2, <2>2, <2>3, <2>4, <2>5, <2>6, <2>7 DEF Next
<1>3. CASE \E t \in Callers : Delay(t)
  BY <1>1, <1>3, CallerDelays
<1>4. CASE ~ \E t \in Callers : Delay(t)
  BY <1>1, <1>2, <1>4 DEF EndInv
<1> QED  BY <1>3, <1>4

\* The process ends while the server is up only if one of the actions that were asked
\* for delays a sub-action, itself or in what it runs within the recursion limit: then
\* a detached thread reads a user that is gone, may use the rule timer's channel, or
\* throws (BaseImpl::Execute and its callers).
THEOREM EndsAreExplained == Spec => []EndExplained
<1>1. Init => OrderInv /\ EndInv
  <2>1. Init => OrderInv
    BY DEF Init, OrderInv, InOrder
  <2>2. Init => BagToSet(later) = {} /\ \A t \in Detached : stack[t] = <<>>
    BY CallersAreNotDetached DEF Init, BagToSet, EmptyBag, SetToBag
  <2>3. Init => ended = "no"
    BY DEF Init
  <2> QED  BY <2>1, <2>2, <2>3 DEF EndInv
<1>2. IInv /\ OrderInv /\ EndInv /\ [Next]_vars => OrderInv' /\ EndInv'
  BY NextOrder, NextEnd DEF IInv
<1>3. EndInv => EndExplained
  BY DEF EndInv, EndExplained, SomeRequestDelays
<1> QED  BY <1>1, <1>2, <1>3, ExecutionInvariant, PTL DEF Spec
=============================================================================
