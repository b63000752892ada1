---------------------------- MODULE EventSystemProofs ----------------------------
(***************************************************************************)
(* Theorems about the event bus, for every set of threads and handlers and *)
(* every bound.                                                            *)
(***************************************************************************)
EXTENDS EventSystem, SequenceTheorems, TLAPS

\* The shape of the stack of activations, which the safety of the iterators
\* rests on: the outermost activation alone is not an inner one, every
\* activation below the top is inside a handler, and m_inLoop says that some
\* activation has not left its loop.
StackShape ==
  /\ owner = NoThread <=> frames = <<>>
  /\ \A i \in 1..Len(frames) : frames[i].innerLoop <=> i > 1
  /\ \A i \in 1..Len(frames) : i < Len(frames) => frames[i].phase = "handler"
  /\ m_inLoop <=> frames # <<>> /\ (Len(frames) > 1 \/ frames[1].phase # "apply")

IInv == TypeOK /\ StackShape /\ RunningHandlerAlive /\ NothingDeferredAtRest

-----------------------------------------------------------------------------
\* Cutting any one element out of a list of handlers leaves a list of handlers.
LEMMA CutOutType ==
  ASSUME NEW s \in Seq(Handlers), NEW k \in 1..Len(s)
  PROVE  SubSeq(s, 1, k - 1) \o SubSeq(s, k + 1, Len(s)) \in Seq(Handlers)
<1>1. \A j \in 1..Len(s) : s[j] \in Handlers
  BY ElementOfSeq
<1>2. SubSeq(s, 1, k - 1) \in Seq(Handlers)
  BY <1>1, SubSeqProperties
<1>3. SubSeq(s, k + 1, Len(s)) \in Seq(Handlers)
  BY <1>1, SubSeqProperties
<1>4. QED
  BY <1>2, <1>3, ConcatProperties

\* Erasing a handler leaves a list of handlers.
LEMMA EraseType ==
  ASSUME NEW s \in Seq(Handlers), NEW h \in Handlers
  PROVE  Erase(s, h) \in Seq(Handlers)
<1>1. CASE \E i \in DOMAIN s : IsFirst(s, h, i)
  <2>1. (CHOOSE i \in DOMAIN s : IsFirst(s, h, i)) \in 1..Len(s)
    BY <1>1
  <2>2. QED
    BY <1>1, <2>1, CutOutType DEF Erase
<1>2. CASE ~ \E i \in DOMAIN s : IsFirst(s, h, i)
  BY <1>2 DEF Erase
<1>3. QED
  BY <1>1, <1>2

\* The initial state satisfies the invariant.
LEMMA InitIInv == Init => IInv
<1> SUFFICES ASSUME Init
             PROVE  IInv
  OBVIOUS
<1>1. TypeOK
  BY EmptySeq DEF Init, TypeOK
<1>2. StackShape
  BY DEF Init, StackShape
<1>3. RunningHandlerAlive /\ NothingDeferredAtRest
  BY DEF Init, RunningHandlerAlive, NothingDeferredAtRest
<1>4. QED
  BY <1>1, <1>2, <1>3 DEF IInv

-----------------------------------------------------------------------------
\* The top activation is an activation, and replacing it by another one leaves
\* a stack that differs in the top only.
LEMMA TopProperties ==
  ASSUME frames \in Seq(Frame), frames # <<>>
  PROVE  /\ Len(frames) \in Nat /\ Len(frames) > 0
         /\ DOMAIN frames = 1..Len(frames)
         /\ Top \in Frame
         /\ \A f \in Frame :
              /\ SetTop(f) \in Seq(Frame)
              /\ DOMAIN SetTop(f) = 1..Len(frames)
              /\ Len(SetTop(f)) = Len(frames)
              /\ SetTop(f)[Len(frames)] = f
              /\ \A i \in 1..Len(frames) : i # Len(frames) => SetTop(f)[i] = frames[i]
<1>1. Len(frames) \in Nat /\ Len(frames) > 0 /\ DOMAIN frames = 1..Len(frames)
  BY EmptySeq
<1>2. Top \in Frame
  BY <1>1, ElementOfSeq DEF Top
<1>3. ASSUME NEW f \in Frame
      PROVE  /\ SetTop(f) \in Seq(Frame)
             /\ DOMAIN SetTop(f) = 1..Len(frames)
             /\ Len(SetTop(f)) = Len(frames)
             /\ SetTop(f)[Len(frames)] = f
             /\ \A i \in 1..Len(frames) : i # Len(frames) => SetTop(f)[i] = frames[i]
  <2>1. Len(frames) \in 1..Len(frames)
    BY <1>1
  <2>2. SetTop(f) \in Seq(Frame) /\ Len(SetTop(f)) = Len(frames)
    BY <2>1, ExceptSeq DEF SetTop
  <2>3. \A j \in 1..Len(frames) :
          SetTop(f)[j] = IF j = Len(frames) THEN f ELSE frames[j]
    BY <2>1, ExceptSeq DEF SetTop
  <2>4. DOMAIN SetTop(f) = 1..Len(frames)
    BY <2>2, LenProperties
  <2>5. QED
    BY <2>1, <2>2, <2>3, <2>4
<1>4. QED
  BY <1>1, <1>2, <1>3

\* Facts about numbers, stated without sequences: the provers need them so.
LEMMA NonzeroInRange == \A n \in Nat : n > 0 => n \in 1..n
  OBVIOUS

LEMMA NotMoreThanOne == \A n \in Nat : n > 0 /\ ~(n > 1) => n = 1
  OBVIOUS

LEMMA LastIndex ==
  \A n \in Nat : n > 0 => (IF 1 <= n - 1 THEN (n - 1) - 1 + 1 ELSE 0) = n - 1
  OBVIOUS

\* Only the outermost activation is not an inner one.
LEMMA TopInnerLoop ==
  ASSUME frames \in Seq(Frame), frames # <<>>, StackShape
  PROVE  Top.innerLoop <=> Len(frames) > 1
<1>1. Len(frames) \in 1..Len(frames)
  BY TopProperties, NonzeroInRange
<1>2. frames[Len(frames)].innerLoop <=> Len(frames) > 1
  BY <1>1 DEF StackShape
<1>3. QED
  BY <1>2 DEF Top

\* A step that replaces the top activation keeps the shape of the stack, if it
\* keeps innerLoop and sets m_inLoop to what the new phase calls for.
LEMMA ReplaceTopKeepsShape ==
  ASSUME frames \in Seq(Frame), frames # <<>>, StackShape,
         NEW f \in Frame, f.innerLoop = Top.innerLoop,
         frames' = SetTop(f), owner' = owner,
         m_inLoop' <=> (Len(frames) > 1 \/ f.phase # "apply")
  PROVE  StackShape'
<1>1. /\ Len(frames) \in Nat /\ Len(frames) > 0
      /\ Len(frames') = Len(frames)
      /\ frames'[Len(frames)] = f
      /\ \A i \in 1..Len(frames) : i # Len(frames) => frames'[i] = frames[i]
      /\ frames' # <<>>
  BY TopProperties, EmptySeq
<1>2. (owner' = NoThread) <=> (frames' = <<>>)
  BY <1>1 DEF StackShape
<1>3. \A i \in 1..Len(frames') : frames'[i].innerLoop <=> i > 1
  BY <1>1 DEF StackShape, Top
<1>4. \A i \in 1..Len(frames') : i < Len(frames') => frames'[i].phase = "handler"
  BY <1>1 DEF StackShape
<1>5. m_inLoop' <=> frames' # <<>> /\ (Len(frames') > 1 \/ frames'[1].phase # "apply")
  BY <1>1
<1>6. QED
  BY <1>2, <1>3, <1>4, <1>5 DEF StackShape

\* Every step of the bus preserves the invariant.
LEMMA NextIInv == IInv /\ [Next]_vars => IInv'
<1> SUFFICES ASSUME IInv, [Next]_vars
             PROVE  IInv'
  OBVIOUS
<1> USE DEF IInv
<1>1. ASSUME NEW t \in Threads, NEW h \in Handlers, AddHandler(t, h)
      PROVE  IInv'
  <2>1. TypeOK'
    <3>1. Append(m_handlers, h) \in Seq(Handlers) /\ Append(m_deferredAdd, h) \in Seq(Handlers)
          /\ Append(intended, h) \in Seq(Handlers)
      BY AppendProperties DEF TypeOK
    <3>2. QED
      BY <1>1, <3>1 DEF AddHandler, TypeOK
  <2>2. StackShape'
    BY <1>1 DEF AddHandler, StackShape
  <2>3. RunningHandlerAlive'
    BY <1>1 DEF AddHandler, RunningHandlerAlive, StackShape, Deferring, MayEnter, InHandler, TypeOK
  <2>4. NothingDeferredAtRest'
    BY <1>1 DEF AddHandler, NothingDeferredAtRest, MayEnter, InHandler, Deferring, StackShape
  <2>5. QED
    BY <2>1, <2>2, <2>3, <2>4
<1>2. ASSUME NEW t \in Threads, NEW h \in Handlers, RemoveHandler(t, h)
      PROVE  IInv'
  <2>1. TypeOK'
    <3>1. Append(m_deferredRemove, h) \in Seq(Handlers) /\ Erase(m_handlers, h) \in Seq(Handlers)
          /\ Erase(intended, h) \in Seq(Handlers)
      BY AppendProperties, EraseType DEF TypeOK
    <3>2. reordered' \in BOOLEAN
      BY <1>2 DEF RemoveHandler, TypeOK, Occurs
    <3>3. QED
      BY <1>2, <3>1, <3>2 DEF RemoveHandler, TypeOK
  <2>2. StackShape'
    BY <1>2 DEF RemoveHandler, StackShape
  <2>3. RunningHandlerAlive'
    BY <1>2 DEF RemoveHandler, RunningHandlerAlive, StackShape, Deferring, MayEnter, InHandler, TypeOK
  <2>4. NothingDeferredAtRest'
    BY <1>2 DEF RemoveHandler, NothingDeferredAtRest, MayEnter, InHandler, Deferring, StackShape
  <2>5. QED
    BY <2>1, <2>2, <2>3, <2>4
<1>3. ASSUME NEW t \in Threads, HandleEvent(t)
      PROVE  IInv'
  <2> DEFINE f == [it |-> 1, innerLoop |-> m_inLoop, phase |-> "next", current |-> NoHandler]
  <2>1. f \in Frame
    BY DEF Frame, TypeOK
  <2>2. /\ frames' \in Seq(Frame)
        /\ Len(frames') = Len(frames) + 1
        /\ Len(frames) \in Nat
        /\ frames'[Len(frames) + 1] = f
        /\ \A i \in 1..Len(frames) : frames'[i] = frames[i]
    BY <1>3, <2>1 DEF HandleEvent, TypeOK
  <2>3. frames = <<>> \/ Top.phase = "handler"
    BY <1>3 DEF HandleEvent, MayEnter, InHandler, StackShape
  <2>4. m_inLoop <=> Len(frames) > 0
    BY <2>2, <2>3 DEF StackShape, Top
  <2>5. TypeOK'
    BY <1>3, <2>2 DEF HandleEvent, TypeOK
  <2>6. StackShape'
    BY <1>3, <2>2, <2>3, <2>4, EventSystemAssumption DEF HandleEvent, StackShape, Top
  <2>7. RunningHandlerAlive'
    BY <1>3, <2>2 DEF HandleEvent, RunningHandlerAlive
  <2>8. NothingDeferredAtRest'
    BY <1>3, EventSystemAssumption DEF HandleEvent, NothingDeferredAtRest
  <2>9. QED
    BY <2>5, <2>6, <2>7, <2>8
<1>4. ASSUME NEW t \in Threads, CallHandler(t)
      PROVE  IInv'
  <2> DEFINE f == [Top EXCEPT !.phase = "handler", !.current = m_handlers[Top.it]]
  <2>1. frames # <<>> /\ frames \in Seq(Frame) /\ Top.phase = "next" /\ frames' = SetTop(f)
    BY <1>4 DEF CallHandler, TypeOK
  <2>2. Top.it \in 1..Len(m_handlers) /\ m_handlers[Top.it] \in Handlers
    BY <1>4, <2>1, TopProperties, ElementOfSeq DEF CallHandler, Frame, TypeOK
  <2>3. f \in Frame /\ f.innerLoop = Top.innerLoop
    BY <2>1, <2>2, TopProperties DEF Frame
  <2>4. /\ Len(frames) \in Nat /\ Len(frames) > 0
        /\ frames' \in Seq(Frame)
        /\ Len(frames') = Len(frames)
        /\ DOMAIN frames = 1..Len(frames) /\ DOMAIN frames' = 1..Len(frames)
        /\ frames'[Len(frames)] = f
        /\ \A i \in 1..Len(frames) : i # Len(frames) => frames'[i] = frames[i]
    BY <2>1, <2>3, TopProperties
  <2>5. TypeOK'
    BY <1>4, <2>4 DEF CallHandler, TypeOK
  <2>6. StackShape'
    <3>1. m_inLoop' /\ owner' = owner
      BY <1>4, <2>1, <2>4 DEF CallHandler, StackShape, Top
    <3>2. f.phase # "apply"
      BY <2>1, TopProperties DEF Frame
    <3>3. QED
      BY <2>1, <2>3, <3>1, <3>2, ReplaceTopKeepsShape
  <2>7. RunningHandlerAlive'
    <3>1. f.it = Top.it /\ f.current = m_handlers[Top.it] /\ m_handlers' = m_handlers
      BY <1>4, <2>1, TopProperties DEF CallHandler, Frame
    <3>2. f.it \in DOMAIN m_handlers
      BY <2>2, <3>1 DEF TypeOK
    <3> HIDE DEF f
    <3>3. QED
      BY <2>1, <2>4, <3>1, <3>2 DEF RunningHandlerAlive
  <2>8. NothingDeferredAtRest'
    BY <1>4 DEF CallHandler, NothingDeferredAtRest
  <2>9. QED
    BY <2>5, <2>6, <2>7, <2>8
<1>5. ASSUME NEW t \in Threads, NEW remove \in BOOLEAN, NEW consume \in BOOLEAN,
             HandlerReturns(t, remove, consume)
      PROVE  IInv'
  <2> DEFINE f == [Top EXCEPT !.phase = IF consume THEN "apply" ELSE "next",
                              !.it = Advance(consume),
                              !.current = NoHandler]
  <2>1. frames # <<>> /\ frames \in Seq(Frame) /\ Top.phase = "handler" /\ frames' = SetTop(f)
    BY <1>5 DEF HandlerReturns, InHandler, TypeOK
  <2>2. /\ f \in Frame
        /\ f.innerLoop = Top.innerLoop
        /\ f.phase = IF consume THEN "apply" ELSE "next"
    <3>1. Advance(consume) \in Nat \ {0}
      BY <2>1, TopProperties DEF Frame, Advance
    <3>2. QED
      BY <2>1, <3>1, TopProperties DEF Frame
  <2>3. /\ Len(frames) \in Nat /\ Len(frames) > 0
        /\ frames' \in Seq(Frame)
        /\ Len(frames') = Len(frames)
        /\ DOMAIN frames = 1..Len(frames) /\ DOMAIN frames' = 1..Len(frames)
        /\ frames'[Len(frames)] = f
        /\ \A i \in 1..Len(frames) : i # Len(frames) => frames'[i] = frames[i]
    BY <2>1, <2>2, TopProperties
  <2>4. Top.current \in Handlers
    <3>1. m_handlers[Top.it] = Top.current /\ Top.it \in DOMAIN m_handlers
      BY <2>1, <2>3 DEF RunningHandlerAlive, Top
    <3>2. QED
      BY <3>1, ElementOfSeq DEF TypeOK
  <2>5. m_inLoop' \in BOOLEAN
    BY <1>5, <2>1, TopProperties DEF HandlerReturns, InLoopAfter, Frame, TypeOK
  <2>6. TypeOK'
    BY <1>5, <2>3, <2>4, <2>5, EraseType DEF HandlerReturns, PutOnRemoveList, TypeOK
  <2>7. m_inLoop /\ (Top.innerLoop <=> Len(frames) > 1)
    BY <2>1, <2>3, TopInnerLoop DEF StackShape, Top
  <2>8. StackShape'
    <3>1. m_inLoop' <=> (Len(frames) > 1 \/ f.phase # "apply")
      BY <1>5, <2>2, <2>7 DEF HandlerReturns, InLoopAfter
    <3>2. owner' = owner
      BY <1>5 DEF HandlerReturns
    <3> HIDE DEF f
    <3>3. QED
      BY <2>1, <2>2, <3>1, <3>2, ReplaceTopKeepsShape
  <2>9. RunningHandlerAlive'
    <3>1. m_handlers' = m_handlers
      BY <1>5 DEF HandlerReturns
    <3>2. f.phase # "handler"
      BY <2>2
    <3> HIDE DEF f
    <3>3. QED
      BY <2>1, <2>3, <3>1, <3>2 DEF RunningHandlerAlive
  <2>10. NothingDeferredAtRest'
    BY <1>5, EventSystemAssumption DEF HandlerReturns, InHandler, NothingDeferredAtRest
  <2>11. QED
    BY <2>6, <2>8, <2>9, <2>10
<1>6. ASSUME NEW t \in Threads, EndOfHandlers(t)
      PROVE  IInv'
  <2> DEFINE f == [Top EXCEPT !.phase = "apply"]
  <2>1. frames # <<>> /\ frames \in Seq(Frame) /\ Top.phase = "next" /\ frames' = SetTop(f)
    BY <1>6 DEF EndOfHandlers, TypeOK
  <2>2. f \in Frame /\ f.innerLoop = Top.innerLoop /\ f.phase = "apply"
    BY <2>1, TopProperties DEF Frame
  <2>3. /\ Len(frames) \in Nat /\ Len(frames) > 0
        /\ frames' \in Seq(Frame)
        /\ Len(frames') = Len(frames)
        /\ DOMAIN frames = 1..Len(frames) /\ DOMAIN frames' = 1..Len(frames)
        /\ frames'[Len(frames)] = f
        /\ \A i \in 1..Len(frames) : i # Len(frames) => frames'[i] = frames[i]
    BY <2>1, <2>2, TopProperties
  <2>4. Top.innerLoop <=> Len(frames) > 1
    BY <2>1, TopInnerLoop
  <2>5. TypeOK'
    BY <1>6, <2>1, <2>3, TopProperties DEF EndOfHandlers, InLoopAfter, Frame, TypeOK
  <2>6. StackShape'
    <3>1. m_inLoop' <=> (Len(frames) > 1 \/ f.phase # "apply")
      BY <1>6, <2>2, <2>4 DEF EndOfHandlers, InLoopAfter
    <3>2. owner' = owner
      BY <1>6 DEF EndOfHandlers
    <3> HIDE DEF f
    <3>3. QED
      BY <2>1, <2>2, <3>1, <3>2, ReplaceTopKeepsShape
  <2>7. RunningHandlerAlive'
    <3>1. m_handlers' = m_handlers
      BY <1>6 DEF EndOfHandlers
    <3> HIDE DEF f
    <3>2. QED
      BY <2>1, <2>2, <2>3, <3>1 DEF RunningHandlerAlive
  <2>8. NothingDeferredAtRest'
    BY <1>6, EventSystemAssumption DEF EndOfHandlers, NothingDeferredAtRest
  <2>9. QED
    BY <2>5, <2>6, <2>7, <2>8
<1>7. ASSUME NEW t \in Threads, ApplyRemove(t)
      PROVE  IInv'
  <2>1. Len(frames) = 1 /\ frames[1].phase = "apply"
    <3>1. frames # <<>> /\ frames \in Seq(Frame) /\ Top.phase = "apply" /\ ~Top.innerLoop
      BY <1>7 DEF ApplyRemove, TypeOK
    <3>2. Len(frames) \in Nat /\ Len(frames) > 0
      BY <3>1, TopProperties
    <3>3. ~(Len(frames) > 1)
      BY <3>1, TopInnerLoop
    <3>4. Len(frames) = 1
      BY <3>2, <3>3, NotMoreThanOne
    <3>5. QED
      BY <3>1, <3>4 DEF Top
  <2>2. TypeOK'
    BY <1>7, EraseType, HeadTailProperties DEF ApplyRemove, TypeOK
  <2>3. StackShape'
    BY <1>7 DEF ApplyRemove, StackShape
  <2>4. RunningHandlerAlive'
    BY <1>7, <2>1 DEF ApplyRemove, RunningHandlerAlive, TypeOK
  <2>5. NothingDeferredAtRest'
    BY <1>7, EventSystemAssumption DEF ApplyRemove, NothingDeferredAtRest
  <2>6. QED
    BY <2>2, <2>3, <2>4, <2>5
<1>8. ASSUME NEW t \in Threads, Leave(t)
      PROVE  IInv'
  <2>1. frames # <<>> /\ frames \in Seq(Frame) /\ Top.phase = "apply" /\ frames' = Pop
    BY <1>8 DEF Leave, TypeOK
  <2>2. Len(frames) \in Nat /\ Len(frames) > 0 /\ (Top.innerLoop <=> Len(frames) > 1)
    BY <2>1, TopProperties, TopInnerLoop
  <2>3. /\ frames' \in Seq(Frame)
        /\ Len(frames') = Len(frames) - 1
        /\ \A i \in 1..(Len(frames) - 1) : frames'[i] = frames[i]
    <3>1. \A i \in 1..(Len(frames) - 1) : frames[i] \in Frame
      BY <2>1, <2>2, ElementOfSeq
    <3>2. Pop \in Seq(Frame) /\ Len(Pop) = Len(frames) - 1
      <4>1. 1 \in Int /\ Len(frames) - 1 \in Int
        BY <2>2
      <4>2. Len(Pop) = IF 1 <= Len(frames) - 1 THEN (Len(frames) - 1) - 1 + 1 ELSE 0
        BY <3>1, <4>1, SubSeqProperties DEF Pop
      <4>3. Pop \in Seq(Frame)
        BY <3>1, <4>1, SubSeqProperties DEF Pop
      <4>4. QED
        BY <2>2, <4>2, <4>3, LastIndex
    <3>3. \A i \in 1..(Len(frames) - 1) : Pop[i] = frames[i]
      BY <2>2, <3>1, SubSeqProperties DEF Pop
    <3>4. QED
      BY <2>1, <3>2, <3>3
  <2>4. TypeOK'
    BY <1>8, <2>3, ConcatProperties, EmptySeq DEF Leave, TypeOK
  <2>5. CASE Top.innerLoop
    <3>1. UNCHANGED <<m_handlers, m_inLoop, m_deferredRemove, m_deferredAdd, owner>>
      BY <1>8, <2>5 DEF Leave
    <3>2. m_inLoop /\ frames' # <<>> /\ frames'[Len(frames')].phase = "handler"
      BY <2>2, <2>3, <2>5 DEF StackShape
    <3>3. StackShape'
      BY <2>1, <2>2, <2>3, <2>5, <3>1, <3>2 DEF StackShape
    <3>4. RunningHandlerAlive'
      BY <2>2, <2>3, <3>1 DEF RunningHandlerAlive
    <3>5. NothingDeferredAtRest'
      BY <3>1 DEF NothingDeferredAtRest
    <3>6. QED
      BY <2>4, <3>3, <3>4, <3>5
  <2>6. CASE ~Top.innerLoop
    <3>1. Len(frames) = 1 /\ frames' = <<>>
      BY <2>2, <2>3, <2>6, EmptySeq
    <3>2. ~m_inLoop /\ ~m_inLoop' /\ owner' = NoThread
      BY <1>8, <2>1, <2>6, <3>1 DEF Leave, StackShape, Top
    <3>3. m_deferredRemove' = <<>> /\ m_deferredAdd' = <<>>
      BY <1>8, <2>6 DEF Leave, RemovesDone
    <3>4. StackShape' /\ RunningHandlerAlive' /\ NothingDeferredAtRest'
      BY <3>1, <3>2, <3>3 DEF StackShape, RunningHandlerAlive, NothingDeferredAtRest
    <3>5. QED
      BY <2>4, <3>4
  <2>7. QED
    BY <2>5, <2>6
<1>9. CASE UNCHANGED vars
  BY <1>9 DEF vars, TypeOK, StackShape, RunningHandlerAlive, NothingDeferredAtRest
<1>10. QED
  BY <1>1, <1>2, <1>3, <1>4, <1>5, <1>6, <1>7, <1>8, <1>9 DEF Next

-----------------------------------------------------------------------------
\* The bus keeps its invariant in every behaviour.
THEOREM BusInvariant == Spec => []IInv
<1>1. Init => IInv
  BY InitIInv
<1>2. IInv /\ [Next]_vars => IInv'
  BY NextIInv
<1>3. QED
  BY <1>1, <1>2, PTL DEF Spec

\* Type correctness of the state of the bus.
THEOREM BusTypeCorrect == Spec => []TypeOK
<1>1. IInv => TypeOK
  BY DEF IInv
<1>2. QED
  BY <1>1, BusInvariant, PTL

\* However handlers add, remove and raise events from inside one another, a
\* handler on the stack is still where its iterator points: HandleEvent never
\* runs on through a list that was changed, or a handler destroyed, under it.
THEOREM IteratorSafety == Spec => []RunningHandlerAlive
<1>1. IInv => RunningHandlerAlive
  BY DEF IInv
<1>2. QED
  BY <1>1, BusInvariant, PTL

\* The deferred lists never outlive the outermost call of HandleEvent.
THEOREM NoRequestLeftBehind == Spec => []NothingDeferredAtRest
<1>1. IInv => NothingDeferredAtRest
  BY DEF IInv
<1>2. QED
  BY <1>1, BusInvariant, PTL
-----------------------------------------------------------------------------
(* The list of a walk is not changed under it. *)

\* Only the outermost activation applies what was deferred, after its loop, and a
\* thread that is let in while no walk is in progress finds nothing running.
ListStep == m_inLoop /\ m_inLoop' => m_handlers' = m_handlers

LEMMA StepKeepsList ==
  ASSUME IInv, [Next]_vars
  PROVE  ListStep
<1>1. ASSUME NEW t \in Threads, owner = t, frames # <<>>, Top.phase = "apply", ~Top.innerLoop
      PROVE  ~m_inLoop
  <2>1. Len(frames) \in Nat /\ Len(frames) > 0 /\ ~(Len(frames) > 1)
    BY <1>1, TopProperties, TopInnerLoop DEF IInv, TypeOK
  <2> QED  BY <1>1, <2>1, NotMoreThanOne DEF IInv, StackShape, Top
<1>2. ASSUME NEW t \in Threads, ApplyRemove(t) PROVE ListStep
  BY <1>1, <1>2 DEF ApplyRemove, ListStep
<1>3. ASSUME NEW t \in Threads, Leave(t) PROVE ListStep
  BY <1>1, <1>3 DEF Leave, ListStep
<1>4. ASSUME NEW t \in Threads, NEW h \in Handlers, AddHandler(t, h) \/ RemoveHandler(t, h)
      PROVE  ListStep
  BY <1>4 DEF AddHandler, RemoveHandler, Deferring, ListStep
<1>5. ASSUME NEW t \in Threads,
             \/ HandleEvent(t) \/ CallHandler(t) \/ EndOfHandlers(t)
             \/ \E remove, consume \in BOOLEAN : HandlerReturns(t, remove, consume)
      PROVE  ListStep
  BY <1>5 DEF HandleEvent, CallHandler, EndOfHandlers, HandlerReturns, ListStep
<1>6. CASE UNCHANGED vars
  BY <1>6 DEF vars, ListStep
<1> QED  BY <1>2, <1>3, <1>4, <1>5, <1>6 DEF Next

\* An event is handled by the list of handlers it found, however deep the calls nest
\* and whatever the handlers ask for meanwhile.
THEOREM WalksUndisturbed == Spec => ListFrozenInLoop
<1>1. IInv /\ [Next]_vars => [ListStep]_vars
  BY StepKeepsList
<1>2. Spec => [][ListStep]_vars
  BY <1>1, BusInvariant, PTL DEF Spec
<1> QED  BY <1>2 DEF ListFrozenInLoop, ListStep

-----------------------------------------------------------------------------
(* Requests are honoured in the order they were made. *)

\* A list without its k-th element.
CutOut(s, k) == SubSeq(s, 1, k - 1) \o SubSeq(s, k + 1, Len(s))

LEMMA CutOutProperties ==
  ASSUME NEW s \in Seq(Handlers), NEW k \in 1..Len(s)
  PROVE  /\ CutOut(s, k) \in Seq(Handlers) /\ Len(CutOut(s, k)) = Len(s) - 1
         /\ \A j \in 1..(Len(s) - 1) : CutOut(s, k)[j] = IF j < k THEN s[j] ELSE s[j + 1]
<1> DEFINE before == SubSeq(s, 1, k - 1)
           after  == SubSeq(s, k + 1, Len(s))
<1>1. Len(s) \in Nat /\ \A j \in 1..Len(s) : s[j] \in Handlers
  BY ElementOfSeq, LenProperties
<1>2. /\ before \in Seq(Handlers) /\ Len(before) = k - 1
      /\ \A j \in 1..(k - 1) : before[j] = s[j]
  BY <1>1, SubSeqProperties
<1>3. /\ after \in Seq(Handlers) /\ Len(after) = Len(s) - k
      /\ \A j \in 1..(Len(s) - k) : after[j] = s[k + j]
  BY <1>1, SubSeqProperties
<1> HIDE DEF before, after
<1>4. /\ before \o after \in Seq(Handlers)
      /\ Len(before \o after) = Len(s) - 1
  <2>1. before \o after \in Seq(Handlers) /\ Len(before \o after) = Len(before) + Len(after)
    BY <1>2, <1>3, ConcatProperties
  <2>2. \A m \in Nat : \A i \in 1..m : (i - 1) + (m - i) = m - 1
    OBVIOUS
  <2> QED  BY <1>1, <1>2, <1>3, <2>1, <2>2
<1>5. ASSUME NEW j \in 1..(Len(s) - 1)
      PROVE  (before \o after)[j] = IF j < k THEN s[j] ELSE s[j + 1]
  <2>1. (before \o after)[j] = IF j <= k - 1 THEN before[j] ELSE after[j - (k - 1)]
    BY <1>1, <1>2, <1>3, ConcatProperties
  <2>2. CASE j < k
    BY <1>1, <1>2, <2>1, <2>2
  <2>3. CASE ~(j < k)
    <3>1. j - (k - 1) \in 1..(Len(s) - k) /\ k + (j - (k - 1)) = j + 1
      BY <1>1, <2>3
    <3> QED  BY <1>1, <1>3, <2>1, <2>3, <3>1
  <2> QED  BY <2>2, <2>3
<1> QED  BY <1>4, <1>5 DEF before, after, CutOut

\* Erase takes out the first occurrence, the one there is.
LEMMA EraseAt ==
  ASSUME NEW s \in Seq(Handlers), NEW h, NEW k \in 1..Len(s), IsFirst(s, h, k)
  PROVE  Erase(s, h) = CutOut(s, k)
<1>1. DOMAIN s = 1..Len(s) /\ Len(s) \in Nat
  BY LenProperties
<1>2. \A i \in 1..Len(s) : IsFirst(s, h, i) => i = k
  BY <1>1 DEF IsFirst
<1>3. (CHOOSE i \in DOMAIN s : IsFirst(s, h, i)) = k
  BY <1>1, <1>2
<1> QED  BY <1>1, <1>3 DEF Erase, CutOut

\* A handler that does not occur in the second of two lists is erased from the first.
LEMMA EraseConcat ==
  ASSUME NEW s \in Seq(Handlers), NEW t \in Seq(Handlers), NEW h \in Handlers, ~Occurs(t, h)
  PROVE  Erase(s \o t, h) = Erase(s, h) \o t
<1>1. /\ Len(s) \in Nat /\ Len(t) \in Nat
      /\ DOMAIN s = 1..Len(s) /\ DOMAIN t = 1..Len(t)
  BY LenProperties
<1>2. /\ s \o t \in Seq(Handlers) /\ Len(s \o t) = Len(s) + Len(t)
      /\ DOMAIN (s \o t) = 1..(Len(s) + Len(t))
      /\ \A i \in 1..(Len(s) + Len(t)) : (s \o t)[i] = IF i <= Len(s) THEN s[i] ELSE t[i - Len(s)]
  BY ConcatProperties, LenProperties
<1>3. CASE \E k \in 1..Len(s) : IsFirst(s, h, k)
  <2>1. PICK k \in 1..Len(s) : IsFirst(s, h, k)
    BY <1>3
  <2>2. IsFirst(s \o t, h, k) /\ k \in 1..Len(s \o t)
    BY <1>1, <1>2, <2>1 DEF IsFirst
  <2>3. /\ Erase(s, h) \in Seq(Handlers) /\ Len(Erase(s, h)) = Len(s) - 1
        /\ \A j \in 1..(Len(s) - 1) : Erase(s, h)[j] = IF j < k THEN s[j] ELSE s[j + 1]
    BY <2>1, EraseAt, CutOutProperties
  <2>4. /\ Erase(s \o t, h) \in Seq(Handlers) /\ Len(Erase(s \o t, h)) = Len(s) + Len(t) - 1
        /\ \A j \in 1..(Len(s) + Len(t) - 1) :
             Erase(s \o t, h)[j] = IF j < k THEN (s \o t)[j] ELSE (s \o t)[j + 1]
    <3>1. Erase(s \o t, h) = CutOut(s \o t, k)
      BY <1>2, <2>2, EraseAt
    <3>2. /\ CutOut(s \o t, k) \in Seq(Handlers) /\ Len(CutOut(s \o t, k)) = Len(s \o t) - 1
          /\ \A j \in 1..(Len(s \o t) - 1) :
               CutOut(s \o t, k)[j] = IF j < k THEN (s \o t)[j] ELSE (s \o t)[j + 1]
      BY <1>2, <2>2, CutOutProperties
    <3> QED  BY <1>2, <3>1, <3>2
  <2>5. /\ Erase(s, h) \o t \in Seq(Handlers)
        /\ Len(Erase(s, h) \o t) = Len(s) + Len(t) - 1
        /\ \A j \in 1..(Len(s) + Len(t) - 1) :
             (Erase(s, h) \o t)[j] = IF j <= Len(s) - 1 THEN Erase(s, h)[j] ELSE t[j - (Len(s) - 1)]
    <3>1. /\ Erase(s, h) \o t \in Seq(Handlers)
          /\ Len(Erase(s, h) \o t) = Len(Erase(s, h)) + Len(t)
          /\ \A j \in 1..(Len(Erase(s, h)) + Len(t)) :
               (Erase(s, h) \o t)[j] =
                 IF j <= Len(Erase(s, h)) THEN Erase(s, h)[j] ELSE t[j - Len(Erase(s, h))]
      BY <2>3, ConcatProperties
    <3>2. Len(Erase(s, h)) = Len(s) - 1 /\ (Len(s) - 1) + Len(t) = Len(s) + Len(t) - 1
      BY <1>1, <2>3
    <3> QED  BY <3>1, <3>2
  <2>6. ASSUME NEW j \in 1..(Len(s) + Len(t) - 1)
        PROVE  Erase(s \o t, h)[j] = (Erase(s, h) \o t)[j]
    <3>1. CASE j < k
      BY <1>1, <1>2, <2>3, <2>4, <2>5, <3>1
    <3>2. CASE k <= j /\ j <= Len(s) - 1
      BY <1>1, <1>2, <2>3, <2>4, <2>5, <3>2
    <3>3. CASE j > Len(s) - 1
      <4>1. j + 1 \in 1..(Len(s) + Len(t)) /\ ~(j + 1 <= Len(s)) /\ ~(j < k)
        BY <1>1, <3>3
      <4>2. (j + 1) - Len(s) = j - (Len(s) - 1)
        BY <1>1
      <4> QED  BY <1>1, <1>2, <2>4, <2>5, <3>3, <4>1, <4>2
    <3>4. j < k \/ (k <= j /\ j <= Len(s) - 1) \/ j > Len(s) - 1
      BY <1>1
    <3> QED  BY <3>1, <3>2, <3>3, <3>4
  <2> QED  BY <2>4, <2>5, <2>6, SeqEqual
<1>4. CASE ~ \E k \in 1..Len(s) : IsFirst(s, h, k)
  <2>1. ASSUME NEW i \in 1..(Len(s) + Len(t)), IsFirst(s \o t, h, i)
        PROVE  FALSE
    <3>1. CASE i <= Len(s)
      BY <1>1, <1>2, <1>4, <2>1, <3>1 DEF IsFirst
    <3>2. CASE ~(i <= Len(s))
      <4>1. i - Len(s) \in 1..Len(t) /\ t[i - Len(s)] = h
        BY <1>1, <1>2, <2>1, <3>2 DEF IsFirst
      <4> QED  BY <1>1, <4>1 DEF Occurs
    <3> QED  BY <3>1, <3>2
  <2> QED  BY <1>1, <1>2, <1>4, <2>1 DEF Erase
<1> QED  BY <1>3, <1>4

LEMMA AppendToConcat ==
  ASSUME NEW s \in Seq(Handlers), NEW t \in Seq(Handlers), NEW h \in Handlers
  PROVE  Append(s \o t, h) = s \o Append(t, h)
<1>1. Append(s \o t, h) = (s \o t) \o <<h>>
  BY ConcatProperties, AppendIsConcat
<1>2. Append(t, h) = t \o <<h>>
  BY AppendIsConcat
<1> QED  BY <1>1, <1>2, ConcatAssociative

\* What the bus still owes: applying the deferred removals one by one, then adding what
\* waits to be added, gives the handlers asked for.  The lists in between are named by
\* the function lists, so that no induction is needed.
LeadsTo(handlers, removals, additions, asked) ==
  \E lists \in [0..Len(removals) -> Seq(Handlers)] :
    /\ lists[0] = handlers
    /\ \A i \in 1..Len(removals) : lists[i] = Erase(lists[i - 1], removals[i])
    /\ asked = lists[Len(removals)] \o additions

Owed == reordered \/ LeadsTo(m_handlers, m_deferredRemove, m_deferredAdd, intended)

\* Where nothing waits.
LEMMA NothingOwed ==
  ASSUME NEW handlers \in Seq(Handlers), NEW asked
  PROVE  LeadsTo(handlers, <<>>, <<>>, asked) <=> handlers = asked
<1>1. handlers \o <<>> = handlers
  BY ConcatEmptySeq
<1>2. Len(<<>>) = 0 /\ 0..0 = {0} /\ 1..0 = {}
  OBVIOUS
<1>3. ASSUME handlers = asked PROVE LeadsTo(handlers, <<>>, <<>>, asked)
  <2> DEFINE lists == [i \in 0..0 |-> handlers]
  <2>1. lists \in [0..0 -> Seq(Handlers)] /\ lists[0] = handlers
    OBVIOUS
  <2> QED  BY <1>1, <1>2, <1>3, <2>1 DEF LeadsTo
<1>4. ASSUME LeadsTo(handlers, <<>>, <<>>, asked) PROVE handlers = asked
  BY <1>1, <1>2, <1>4 DEF LeadsTo
<1> QED  BY <1>3, <1>4

LEMMA RemovalOwed ==
  ASSUME TypeOK, Owed, NEW h \in Handlers,
         m_deferredRemove' = Append(m_deferredRemove, h),
         intended' = Erase(intended, h),
         reordered' = (reordered \/ Occurs(m_deferredAdd, h)),
         UNCHANGED <<m_handlers, m_deferredAdd>>
  PROVE  Owed'
<1> SUFFICES ASSUME ~reordered, ~Occurs(m_deferredAdd, h)
             PROVE  Owed'
  BY DEF Owed
<1> DEFINE n == Len(m_deferredRemove)
<1>0. n \in Nat
  BY LenProperties DEF TypeOK
<1>1. Len(m_deferredRemove') = n + 1 /\ m_deferredRemove'[n + 1] = h
      /\ \A i \in 1..n : m_deferredRemove'[i] = m_deferredRemove[i]
  BY AppendProperties, LenProperties DEF TypeOK
<1>2. PICK lists \in [0..n -> Seq(Handlers)] :
        /\ lists[0] = m_handlers
        /\ \A i \in 1..n : lists[i] = Erase(lists[i - 1], m_deferredRemove[i])
        /\ intended = lists[n] \o m_deferredAdd
  BY DEF Owed, LeadsTo
<1> HIDE DEF n
<1> DEFINE longer == [i \in 0..(n + 1) |-> IF i = n + 1 THEN Erase(lists[n], h) ELSE lists[i]]
<1>3. lists[n] \in Seq(Handlers) /\ \A i \in 0..n : lists[i] \in Seq(Handlers)
  BY <1>0
<1>4. Erase(lists[n], h) \in Seq(Handlers)
  BY <1>3, EraseType
<1>5. longer \in [0..(n + 1) -> Seq(Handlers)]
  BY <1>0, <1>3, <1>4
<1>6. longer[0] = m_handlers /\ longer[n] = lists[n] /\ longer[n + 1] = Erase(lists[n], h)
      /\ \A i \in 1..n : longer[i] = lists[i] /\ longer[i - 1] = lists[i - 1]
  BY <1>0, <1>2
<1> HIDE DEF longer
<1>7. \A i \in 1..(n + 1) : longer[i] = Erase(longer[i - 1], m_deferredRemove'[i])
  <2> TAKE i \in 1..(n + 1)
  <2>1. CASE i = n + 1
    <3>1. i - 1 = n
      BY <1>0, <2>1
    <3> QED  BY <1>1, <1>6, <2>1, <3>1
  <2>2. CASE i # n + 1
    <3>1. i \in 1..n
      BY <1>0, <2>2
    <3> QED  BY <1>1, <1>2, <1>6, <3>1
  <2> QED  BY <2>1, <2>2
<1>8. intended' = longer[n + 1] \o m_deferredAdd'
  <2>1. Erase(lists[n] \o m_deferredAdd, h) = Erase(lists[n], h) \o m_deferredAdd
    BY <1>3, EraseConcat DEF TypeOK
  <2> QED  BY <1>2, <1>6, <2>1
<1> QED  BY <1>1, <1>5, <1>6, <1>7, <1>8 DEF Owed, LeadsTo, n

LEMMA OwedInit == Init => Owed
BY NothingOwed, EmptySeq DEF Init, Owed

LEMMA OwedStep ==
  ASSUME IInv, Owed, [Next]_vars
  PROVE  Owed'
<1> USE DEF IInv
\* A thread that is let in while no walk is in progress finds the bus at rest.
<1>1. ASSUME NEW t \in Threads, MayEnter(t), ~m_inLoop
      PROVE  m_deferredRemove = <<>> /\ m_deferredAdd = <<>>
  BY <1>1 DEF MayEnter, InHandler, StackShape, Top, NothingDeferredAtRest
<1>2. ASSUME NEW t \in Threads, NEW h \in Handlers, AddHandler(t, h)
      PROVE  Owed'
  <2>1. CASE m_inLoop
    <3>1. UNCHANGED <<m_handlers, m_deferredRemove, reordered>>
          /\ m_deferredAdd' = Append(m_deferredAdd, h) /\ intended' = Append(intended, h)
      BY <1>2, <2>1 DEF AddHandler, Deferring
    <3>2. SUFFICES ASSUME ~reordered PROVE Owed'
      BY <3>1 DEF Owed
    <3> DEFINE n == Len(m_deferredRemove)
    <3>3. n \in Nat
      BY LenProperties DEF TypeOK
    <3>4. PICK lists \in [0..n -> Seq(Handlers)] :
            /\ lists[0] = m_handlers
            /\ \A i \in 1..n : lists[i] = Erase(lists[i - 1], m_deferredRemove[i])
            /\ intended = lists[n] \o m_deferredAdd
      BY <3>2 DEF Owed, LeadsTo
    <3>5. lists[n] \in Seq(Handlers)
      <4> HIDE DEF n
      <4> QED  BY <3>3
    <3>6. intended' = lists[n] \o m_deferredAdd'
      <4> HIDE DEF n
      <4> QED  BY <3>1, <3>4, <3>5, AppendToConcat DEF TypeOK
    <3> QED  BY <3>1, <3>4, <3>6 DEF Owed, LeadsTo
  <2>2. CASE ~m_inLoop
    <3>1. UNCHANGED <<m_deferredRemove, m_deferredAdd, reordered>>
          /\ m_handlers' = Append(m_handlers, h) /\ intended' = Append(intended, h)
          /\ MayEnter(t)
      BY <1>2, <2>2 DEF AddHandler, Deferring
    <3>2. m_deferredRemove = <<>> /\ m_deferredAdd = <<>>
      BY <1>1, <2>2, <3>1
    <3>3. reordered \/ m_handlers' = intended'
      BY <3>1, <3>2, NothingOwed DEF TypeOK, Owed
    <3>4. m_handlers' \in Seq(Handlers)
      BY <3>1, AppendProperties DEF TypeOK
    <3>5. reordered' => Owed'
      BY DEF Owed
    <3>6. m_handlers' = intended' => Owed'
      BY <3>1, <3>2, <3>4, NothingOwed DEF Owed
    <3> QED  BY <3>1, <3>3, <3>5, <3>6
  <2> QED  BY <2>1, <2>2
<1>3. ASSUME NEW t \in Threads, NEW h \in Handlers, RemoveHandler(t, h)
      PROVE  Owed'
  <2>1. CASE m_inLoop
    BY <1>3, <2>1, RemovalOwed DEF RemoveHandler, Deferring
  <2>2. CASE ~m_inLoop
    <3>1. UNCHANGED <<m_deferredRemove, m_deferredAdd>> /\ (reordered => reordered')
          /\ m_handlers' = Erase(m_handlers, h) /\ intended' = Erase(intended, h)
          /\ MayEnter(t)
      BY <1>3, <2>2 DEF RemoveHandler, Deferring
    <3>2. m_deferredRemove = <<>> /\ m_deferredAdd = <<>>
      BY <1>1, <2>2, <3>1
    <3>3. reordered \/ m_handlers' = intended'
      BY <3>1, <3>2, NothingOwed DEF TypeOK, Owed
    <3>4. m_handlers' \in Seq(Handlers)
      BY <3>1, EraseType DEF TypeOK
    <3>5. reordered' => Owed'
      BY DEF Owed
    <3>6. m_handlers' = intended' => Owed'
      BY <3>1, <3>2, <3>4, NothingOwed DEF Owed
    <3> QED  BY <3>1, <3>3, <3>5, <3>6
  <2> QED  BY <2>1, <2>2
<1>4. ASSUME NEW t \in Threads, HandleEvent(t) \/ CallHandler(t) \/ EndOfHandlers(t)
      PROVE  Owed'
  BY <1>4 DEF HandleEvent, CallHandler, EndOfHandlers, Owed
<1>5. ASSUME NEW t \in Threads, NEW remove \in BOOLEAN, NEW consume \in BOOLEAN,
             HandlerReturns(t, remove, consume)
      PROVE  Owed'
  <2>1. UNCHANGED <<m_handlers, m_deferredAdd>>
    BY <1>5 DEF HandlerReturns
  <2>2. CASE ~remove
    BY <1>5, <2>1, <2>2 DEF HandlerReturns, PutOnRemoveList, Owed, TypeOK
  <2>3. CASE remove
    <3>1. Top.current \in Handlers
      <4>1. frames # <<>> /\ frames \in Seq(Frame) /\ Top.phase = "handler"
        BY <1>5 DEF HandlerReturns, InHandler, TypeOK
      <4>2. Len(frames) \in DOMAIN frames
        BY <4>1, TopProperties, NonzeroInRange
      <4>3. m_handlers[Top.it] = Top.current /\ Top.it \in DOMAIN m_handlers
        BY <4>1, <4>2 DEF RunningHandlerAlive, Top
      <4> QED  BY <4>3, ElementOfSeq DEF TypeOK
    <3>2. /\ m_deferredRemove' = Append(m_deferredRemove, Top.current)
          /\ intended' = Erase(intended, Top.current)
          /\ reordered' = (reordered \/ Occurs(m_deferredAdd, Top.current))
      BY <1>5, <2>3 DEF HandlerReturns, PutOnRemoveList
    <3> QED  BY <2>1, <3>1, <3>2, RemovalOwed
  <2> QED  BY <2>2, <2>3
<1>6. ASSUME NEW t \in Threads, ApplyRemove(t)
      PROVE  Owed'
  <2>1. /\ m_deferredRemove # <<>>
        /\ m_handlers' = Erase(m_handlers, Head(m_deferredRemove))
        /\ m_deferredRemove' = Tail(m_deferredRemove)
        /\ UNCHANGED <<m_deferredAdd, intended, reordered>>
    BY <1>6 DEF ApplyRemove
  <2>2. SUFFICES ASSUME ~reordered PROVE Owed'
    BY <2>1 DEF Owed
  <2> DEFINE n == Len(m_deferredRemove)
  <2>3. /\ n \in Nat \ {0} /\ Len(m_deferredRemove') = n - 1
        /\ Head(m_deferredRemove) = m_deferredRemove[1]
        /\ \A i \in 1..(n - 1) : m_deferredRemove'[i] = m_deferredRemove[i + 1]
    BY <2>1, HeadTailProperties, EmptySeq, LenProperties DEF TypeOK
  <2>4. PICK lists \in [0..n -> Seq(Handlers)] :
          /\ lists[0] = m_handlers
          /\ \A i \in 1..n : lists[i] = Erase(lists[i - 1], m_deferredRemove[i])
          /\ intended = lists[n] \o m_deferredAdd
    BY <2>2 DEF Owed, LeadsTo
  <2> HIDE DEF n
  <2> DEFINE rest == [i \in 0..(n - 1) |-> lists[i + 1]]
  <2>5. rest \in [0..(n - 1) -> Seq(Handlers)]
    BY <2>3, <2>4
  <2>6. rest[0] = m_handlers' /\ rest[n - 1] = lists[n]
    BY <2>1, <2>3, <2>4
  <2>7. \A i \in 1..(n - 1) : rest[i] = Erase(rest[i - 1], m_deferredRemove'[i])
    <3> TAKE i \in 1..(n - 1)
    <3>1. rest[i] = lists[i + 1] /\ rest[i - 1] = lists[i] /\ i + 1 \in 1..n /\ (i + 1) - 1 = i
      BY <2>3
    <3> QED  BY <2>3, <2>4, <3>1
  <2> HIDE DEF rest
  <2> QED  BY <2>1, <2>3, <2>4, <2>5, <2>6, <2>7 DEF Owed, LeadsTo, n
<1>7. ASSUME NEW t \in Threads, Leave(t)
      PROVE  Owed'
  <2>1. UNCHANGED <<m_deferredRemove, intended, reordered>>
    BY <1>7 DEF Leave
  <2>2. CASE Top.innerLoop
    BY <1>7, <2>1, <2>2 DEF Leave, Owed
  <2>3. CASE ~Top.innerLoop
    <3>1. /\ m_deferredRemove = <<>> /\ m_deferredAdd' = <<>>
          /\ m_handlers' = m_handlers \o m_deferredAdd
      BY <1>7, <2>3 DEF Leave, RemovesDone
    <3>2. reordered \/ m_handlers' = intended'
      <4>1. Len(m_deferredRemove) = 0
        BY <3>1
      <4> QED  BY <2>1, <3>1, <4>1 DEF Owed, LeadsTo
    <3>3. m_handlers' \in Seq(Handlers)
      BY <3>1, ConcatProperties DEF TypeOK
    <3>4. reordered' => Owed'
      BY DEF Owed
    <3>5. m_handlers' = intended' => Owed'
      BY <2>1, <3>1, <3>3, NothingOwed DEF Owed
    <3> QED  BY <2>1, <3>2, <3>4, <3>5
  <2> QED  BY <2>2, <2>3
<1>8. CASE UNCHANGED vars
  BY <1>8 DEF vars, Owed
<1> QED  BY <1>2, <1>3, <1>4, <1>5, <1>6, <1>7, <1>8 DEF Next

\* At rest the bus holds the handlers its callers asked for, in the order they asked,
\* unless one was removed while its own addition waited.
THEOREM RequestsHonoured == Spec => []RegistrationsHonoured
<1>1. Spec => []Owed
  BY OwedInit, OwedStep, BusInvariant, PTL DEF Spec
<1>2. IInv /\ Owed => RegistrationsHonoured
  <2> SUFFICES ASSUME IInv, Owed, owner = NoThread, ~reordered PROVE m_handlers = intended
    BY DEF RegistrationsHonoured
  <2>1. m_deferredRemove = <<>> /\ m_deferredAdd = <<>> /\ m_handlers \in Seq(Handlers)
    BY DEF IInv, NothingDeferredAtRest, TypeOK
  <2> QED  BY <2>1, NothingOwed DEF Owed
<1> QED  BY <1>1, <1>2, BusInvariant, PTL
=============================================================================
