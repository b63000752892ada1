------------------------------ MODULE EventSystem ------------------------------
(***************************************************************************)
(* The synchronous event bus (events/EventSystem.h, EventSystem.cpp).      *)
(*                                                                         *)
(* Threads call AddHandler, RemoveHandler and HandleEvent under one        *)
(* recursive mutex.  HandleEvent walks m_handlers with a raw iterator and  *)
(* runs handlers that may call back into the bus; additions and removals   *)
(* asked for meanwhile are deferred to the end of the outermost walk.      *)
(***************************************************************************)
EXTENDS Naturals, Sequences

CONSTANTS
  Threads,      \* threads that use the bus
  Handlers,     \* handler objects (the pointers RemoveHandler compares)
  NoThread,     \* the mutex is free
  NoHandler,    \* no handler runs in this activation
  MaxEvents,    \* bound: events raised in a behaviour
  MaxHandlers,  \* bound: m_handlers and m_deferredAdd together
  MaxRemoves    \* bound: length of m_deferredRemove

ASSUME EventSystemAssumption ==
  /\ NoThread \notin Threads
  /\ NoHandler \notin Handlers
  /\ MaxEvents \in Nat
  /\ MaxHandlers \in Nat
  /\ MaxRemoves \in Nat

VARIABLES
  m_handlers,        \* registered handlers, in call order
  m_inLoop,          \* some walk over m_handlers is in progress
  m_deferredRemove,
  m_deferredAdd,
  owner,             \* thread that holds the recursive mutex, or NoThread
  frames,            \* the owner's active HandleEvent calls, outermost first
  events,            \* number of events raised so far (bound)
  intended,          \* history: m_handlers had every request been applied at once
  reordered          \* history: a handler was removed while its addition waited

vars == <<m_handlers, m_inLoop, m_deferredRemove, m_deferredAdd, owner, frames,
          events, intended, reordered>>

\* One activation of HandleEvent.  phase is "next" before the loop test,
\* "handler" while the handler at it runs, "apply" in the part after the loop.
\* current is the object whose HandleEvent runs: m_handlers holds the only
\* reference that is sure to keep it alive.
Frame == [it : Nat \ {0}, innerLoop : BOOLEAN, phase : {"next", "handler", "apply"},
          current : Handlers \cup {NoHandler}]

Top == frames[Len(frames)]
Pop == SubSeq(frames, 1, Len(frames) - 1)
SetTop(f) == [frames EXCEPT ![Len(frames)] = f]

InHandler(t) == owner = t /\ frames # <<>> /\ Top.phase = "handler"

\* The recursive mutex lets t in when it is free, or when t already holds it,
\* which is the case exactly while t runs a handler.
MayEnter(t) == owner = NoThread \/ InHandler(t)

IsFirst(s, h, i) == s[i] = h /\ \A j \in 1..(i - 1) : s[j] # h

\* find_if followed by erase: the first occurrence of h goes, if there is one.
Erase(s, h) ==
  IF \E i \in DOMAIN s : IsFirst(s, h, i)
  THEN LET i == CHOOSE i \in DOMAIN s : IsFirst(s, h, i)
       IN  SubSeq(s, 1, i - 1) \o SubSeq(s, i + 1, Len(s))
  ELSE s

Occurs(s, h) == \E i \in DOMAIN s : s[i] = h

\* Whether AddHandler and RemoveHandler must wait for the walk to end.
NeverDeferring == FALSE
Deferring == m_inLoop

\* m_inLoop when the top activation leaves its loop: lines 93-96.
ForgetOuterLoop == FALSE
InLoopAfter == Top.innerLoop

\* The loop over m_deferredRemove is over.
StopBeforeLast == Len(m_deferredRemove) <= 1
RemovesDone == m_deferredRemove = <<>>

\* Whether the returned state puts the handler on m_deferredRemove, which the
\* code looks at before it breaks out for a consumed event.
BreakFirst(shouldRemove, consumeEvent) == shouldRemove /\ ~consumeEvent
PutOnRemoveList(shouldRemove, consumeEvent) == shouldRemove

\* Where the iterator of the top activation goes when its handler has returned.
StayPut(consumeEvent) == Top.it
Advance(consumeEvent) == IF consumeEvent THEN Top.it ELSE Top.it + 1

Init ==
  /\ m_handlers = <<>>
  /\ m_inLoop = FALSE
  /\ m_deferredRemove = <<>>
  /\ m_deferredAdd = <<>>
  /\ owner = NoThread
  /\ frames = <<>>
  /\ events = 0
  /\ intended = <<>>
  /\ reordered = FALSE

(***************************************************************************)
(* AddHandler and RemoveHandler hold the mutex only for their own body, so *)
(* each is one step.  A null handler is ignored by the code: no step.      *)
(***************************************************************************)
AddHandler(t, h) ==
  /\ MayEnter(t)
  /\ Len(m_handlers) + Len(m_deferredAdd) < MaxHandlers
  /\ \/ /\ Deferring
        /\ m_deferredAdd' = Append(m_deferredAdd, h)
        /\ UNCHANGED m_handlers
     \/ /\ ~Deferring
        /\ m_handlers' = Append(m_handlers, h)
        /\ UNCHANGED m_deferredAdd
  /\ intended' = Append(intended, h)
  /\ UNCHANGED <<m_inLoop, m_deferredRemove, owner, frames, events, reordered>>

RemoveHandler(t, h) ==
  /\ MayEnter(t)
  /\ \/ /\ Deferring
        /\ Len(m_deferredRemove) < MaxRemoves
        /\ m_deferredRemove' = Append(m_deferredRemove, h)
        /\ UNCHANGED m_handlers
     \/ /\ ~Deferring
        /\ m_handlers' = Erase(m_handlers, h)
        /\ UNCHANGED m_deferredRemove
  /\ intended' = Erase(intended, h)
  /\ reordered' = (reordered \/ Occurs(m_deferredAdd, h))
  /\ UNCHANGED <<m_inLoop, m_deferredAdd, owner, frames, events>>

(***************************************************************************)
(* HandleEvent.                                                            *)
(***************************************************************************)
HandleEvent(t) ==
  /\ MayEnter(t)
  /\ events < MaxEvents
  /\ events' = events + 1
  /\ owner' = t
  /\ m_inLoop' = TRUE
  /\ frames' = Append(frames, [it |-> 1, innerLoop |-> m_inLoop, phase |-> "next",
                               current |-> NoHandler])
  /\ UNCHANGED <<m_handlers, m_deferredRemove, m_deferredAdd, intended, reordered>>

CallHandler(t) ==
  /\ owner = t /\ frames # <<>> /\ Top.phase = "next"
  /\ Top.it <= Len(m_handlers)
  /\ frames' = SetTop([Top EXCEPT !.phase = "handler", !.current = m_handlers[Top.it]])
  /\ UNCHANGED <<m_handlers, m_inLoop, m_deferredRemove, m_deferredAdd, owner, events,
                 intended, reordered>>

\* The handler returns its PostEventState.  Throwing is caught by the loop and
\* is the case ~shouldRemove /\ ~consumeEvent.
HandlerReturns(t, shouldRemove, consumeEvent) ==
  /\ InHandler(t)
  /\ Len(m_deferredRemove) < MaxRemoves \/ ~shouldRemove
  /\ m_deferredRemove' = IF PutOnRemoveList(shouldRemove, consumeEvent)
                         THEN Append(m_deferredRemove, Top.current)
                         ELSE m_deferredRemove
  /\ intended' = IF shouldRemove THEN Erase(intended, Top.current) ELSE intended
  /\ reordered' = (reordered \/ (shouldRemove /\ Occurs(m_deferredAdd, Top.current)))
  /\ frames' = SetTop([Top EXCEPT
                 !.phase = IF consumeEvent THEN "apply" ELSE "next",
                 !.it = Advance(consumeEvent),
                 !.current = NoHandler])
  /\ m_inLoop' = IF consumeEvent THEN InLoopAfter ELSE m_inLoop
  /\ UNCHANGED <<m_handlers, m_deferredAdd, owner, events>>

\* The iterator reached the end: the loop is left.
EndOfHandlers(t) ==
  /\ owner = t /\ frames # <<>> /\ Top.phase = "next"
  /\ Top.it > Len(m_handlers)
  /\ frames' = SetTop([Top EXCEPT !.phase = "apply"])
  /\ m_inLoop' = InLoopAfter
  /\ UNCHANGED <<m_handlers, m_deferredRemove, m_deferredAdd, owner, events,
                 intended, reordered>>

\* One iteration of the loop over m_deferredRemove, in an outermost activation.
ApplyRemove(t) ==
  /\ owner = t /\ frames # <<>> /\ Top.phase = "apply" /\ ~Top.innerLoop
  /\ m_deferredRemove # <<>>
  /\ m_handlers' = Erase(m_handlers, Head(m_deferredRemove))
  /\ m_deferredRemove' = Tail(m_deferredRemove)
  /\ UNCHANGED <<m_inLoop, m_deferredAdd, owner, frames, events, intended, reordered>>

\* Return from HandleEvent: an outermost activation adds what was deferred and
\* frees the mutex, an inner one leaves both to its caller.
Leave(t) ==
  /\ owner = t /\ frames # <<>> /\ Top.phase = "apply"
  /\ frames' = Pop
  /\ IF Top.innerLoop
     THEN UNCHANGED <<m_handlers, m_deferredAdd, owner>>
     ELSE /\ RemovesDone
          /\ m_handlers' = m_handlers \o m_deferredAdd
          /\ m_deferredAdd' = <<>>
          /\ owner' = NoThread
  /\ UNCHANGED <<m_inLoop, m_deferredRemove, events, intended, reordered>>

Next ==
  \E t \in Threads :
    \/ \E h \in Handlers : AddHandler(t, h) \/ RemoveHandler(t, h)
    \/ HandleEvent(t)
    \/ CallHandler(t)
    \/ \E remove, consume \in BOOLEAN : HandlerReturns(t, remove, consume)
    \/ EndOfHandlers(t)
    \/ ApplyRemove(t)
    \/ Leave(t)

\* What a thread inside HandleEvent does by itself; that a handler returns is the
\* assumption the bus makes on its handlers.
Proceed(t) ==
  \/ CallHandler(t)
  \/ HandlerReturns(t, FALSE, FALSE)
  \/ EndOfHandlers(t)
  \/ ApplyRemove(t)
  \/ Leave(t)

Spec == Init /\ [][Next]_vars

FairSpec == Spec /\ \A t \in Threads : WF_vars(Proceed(t))

-----------------------------------------------------------------------------
\* What the members of the bus and the stack of its calls may hold.
TypeOK ==
  /\ m_handlers \in Seq(Handlers)
  /\ m_inLoop \in BOOLEAN
  /\ m_deferredRemove \in Seq(Handlers)
  /\ m_deferredAdd \in Seq(Handlers)
  /\ owner \in Threads \cup {NoThread}
  /\ frames \in Seq(Frame)
  /\ events \in Nat
  /\ intended \in Seq(Handlers)
  /\ reordered \in BOOLEAN

\* A handler whose HandleEvent is on the stack, in any activation, is still at
\* the place its iterator points to: it was neither moved nor destroyed under
\* its own feet by requests made from this or from a nested call.
RunningHandlerAlive ==
  \A i \in DOMAIN frames :
    frames[i].phase = "handler" =>
      /\ frames[i].it \in DOMAIN m_handlers
      /\ m_handlers[frames[i].it] = frames[i].current

\* Once no thread is in the bus, no request waits in a deferred list, whatever
\* way the outermost call was left (end of list, consumed event, exception).
NothingDeferredAtRest ==
  owner = NoThread => ~m_inLoop /\ m_deferredRemove = <<>> /\ m_deferredAdd = <<>>

\* At rest the bus holds the handlers its callers asked for, in order, provided
\* that no handler was removed while its own addition still waited.
RegistrationsHonoured ==
  owner = NoThread /\ ~reordered => m_handlers = intended

\* RemoveHandler "Removes handler" (EventSystem.h:138) without that proviso.
RemovedHandlerIsGone ==
  owner = NoThread => m_handlers = intended

\* Every call of HandleEvent returns and frees the mutex, so a thread that waits
\* to enter the bus is not kept out for ever, nested calls or not.
BusReleased == owner # NoThread ~> owner = NoThread

\* An event being handled is handled by the list it found: no handler that is
\* added or removed meanwhile changes who is called.
ListFrozenInLoop ==
  [][m_inLoop /\ m_inLoop' => m_handlers' = m_handlers]_vars
=============================================================================
