--------------------------- MODULE MCActionExecution ---------------------------
(* Small programs of two actions for the runs of ActionExecution. *)
EXTENDS ActionExecution

Sub(kind, target, delayed) == [kind |-> kind, target |-> target, delayed |-> delayed]

\* Sub-actions on one device, notifications, and runs of either action.
SubActions ==
  {Sub("toggle", 1, FALSE), Sub("notify", 0, TRUE), Sub("run", 2, FALSE), Sub("run", 1, TRUE)}

Bodies(subs, n) == UNION {[1..k -> subs] : k \in 0..n}

\* The actions may run each other, and themselves at once or later.
AllPrograms ==
  {[id \in {1, 2} |-> IF id = 1 THEN b1 ELSE b2] :
     b1 \in {b \in Bodies(SubActions, 2) : IsInjective(b)},
     b2 \in Bodies({Sub("set", 1, FALSE), Sub("run", 1, FALSE)}, 1)}

\* One notification with a timeout.
Reminder == {[id \in {1, 2} |-> <<Sub("notify", 0, TRUE)>>]}
=============================================================================
