------------------------------- MODULE RuleStore -------------------------------
(***************************************************************************)
(* The rules in the database: database/DBRuleSerialize.cpp and             *)
(* database/DBActionSerialize.cpp, called by api/RuleStorage.cpp and       *)
(* api/ActionStorage.cpp for the commands of events/RulesSocketHandler.cpp *)
(* and events/ActionsSocketHandler.cpp.                                    *)
(*                                                                         *)
(* A client reads a rule, edits it (also its condition, as JSON text) and  *)
(* sends all of it back with ADD_RULE.  A condition is a tree with a row   *)
(* for every node; the row of a node holds the ids of its children.  An id *)
(* of 0 asks the database for the next free one.  Each command is one      *)
(* transaction: an exception leaves the tables as they were.               *)
(*                                                                         *)
(* A tree that a client sends is a root with leaves.                       *)
(***************************************************************************)
EXTENDS Naturals, FiniteSets, FiniteSetsExt, SequencesExt

CONSTANTS
  Stale,          \* whether clients save copies that others have changed since
  MaxRules,       \* bound: rule ids
  MaxConditions,  \* bound: condition ids
  MaxActions,     \* bound: action ids
  MaxChildren     \* bound: leaves of a condition

ASSUME RuleStoreAssumption ==
  /\ Stale \in BOOLEAN
  /\ {MaxRules, MaxConditions, MaxActions, MaxChildren} \subseteq Nat

VARIABLES
  rules,       \* id |-> [condition, action], 0 for NULL
  conditions,  \* id |-> the ids of the children
  actions,     \* ids
  copy,        \* a rule as a client read it, or None
  answer       \* history: the last save

vars == <<rules, conditions, actions, copy, answer>>

None == [id |-> 0]
NoAnswer == [ok |-> TRUE, sent |-> None]
Next1(S) == IF S = {} THEN 1 ELSE Max(S) + 1

\* Every command ends with an event to all clients, which changes or drops
\* their copies.  A stale copy is one that is saved before the event is there.
Told == copy' = IF Stale THEN copy ELSE None

Init ==
  /\ rules = <<>> /\ conditions = <<>> /\ actions = {}
  /\ copy = None /\ answer = NoAnswer

-----------------------------------------------------------------------------
\* Reading.  A client's copy has two levels; if its row is overwritten with
\* another tree, there is a third.
Children(c) == IF c \in DOMAIN conditions THEN Range(conditions[c]) ELSE {}
Nodes(c) == {c} \cup Children(c) \cup UNION {Children(d) : d \in Children(c)}

\* GetRuleCondition throws for the first row that is not there.
Readable(r) == Nodes(rules[r].condition) \subseteq DOMAIN conditions

TwoLevels(c) == \A d \in Children(c) : Children(d) = {}

Read(r) ==
  [id |-> r, root |-> rules[r].condition,
   children |-> conditions[rules[r].condition], action |-> rules[r].action]

GetRule(r) ==
  /\ Readable(r) /\ TwoLevels(rules[r].condition)
  /\ copy' = Read(r) /\ answer' = NoAnswer
  /\ UNCHANGED <<rules, conditions, actions>>

-----------------------------------------------------------------------------
\* Deleting rows: a rule that refers to one gets NULL (ON DELETE SET NULL).
Without(f, S) == [i \in DOMAIN f \ S |-> f[i]]
ConditionsNulled(rs, S) ==
  [r \in DOMAIN rs |-> IF rs[r].condition \in S THEN [rs[r] EXCEPT !.condition = 0] ELSE rs[r]]
AsTheyWere(rs, S) == rs
ActionsNulled(rs, S) ==
  [r \in DOMAIN rs |-> IF rs[r].action \in S THEN [rs[r] EXCEPT !.action = 0] ELSE rs[r]]

\* RemoveRuleCondition before a save, which AddRule calls if the root has an
\* id: the rows of all the ids in the tree that was sent.
RootOnly(rule) == {rule.root} \ {0}
Replaced(rule) ==
  IF rule.root = 0 THEN {} ELSE ({rule.root} \cup Range(rule.children)) \ {0}

\* One step of the recursion in InsertRuleCondition: the row of a node, with
\* the id it has or the next one.  The primary key refuses an id that is there.
NoNode(rows) == [ok |-> TRUE, rows |-> rows, ids |-> <<>>]
With(f, i, x) == [j \in DOMAIN f \cup {i} |-> IF j = i THEN x ELSE f[j]]
NewId(acc, id) == IF id = 0 THEN Next1(DOMAIN acc.rows) ELSE id

InsertedOrReplaced(acc, id, children) ==
  [acc EXCEPT !.rows = With(@, NewId(acc, id), children), !.ids = Append(@, NewId(acc, id))]
Inserted(acc, id, children) ==
  [ok   |-> acc.ok /\ NewId(acc, id) \notin DOMAIN acc.rows,
   rows |-> With(acc.rows, NewId(acc, id), children),
   ids  |-> Append(acc.ids, NewId(acc, id))]

\* The leaves from the first to the last.
Leaves(start, rule) ==
  LET upTo[n \in 0..Len(rule.children)] ==
        IF n = 0 THEN start ELSE Inserted(upTo[n - 1], rule.children[n], <<>>)
  IN  upTo[Len(rule.children)]

\* The children first, "because fields might depend on them".
RootFirst(rule, rows) ==
  LET root == Inserted(NoNode(rows), rule.root, rule.children)
  IN  [Leaves(root, rule) EXCEPT !.ids = root.ids]
InsertedTree(rule, rows) ==
  LET leaves == Leaves(NoNode(rows), rule)
  IN  Inserted(leaves, rule.root, leaves.ids)

ActionId(rule) == IF rule.action = 0 THEN Next1(actions) ELSE rule.action
LastRule(rule) == IF rule.id = 0 /\ rules # <<>> THEN Max(DOMAIN rules) ELSE Next1(DOMAIN rules)
RuleId(rule) == IF rule.id = 0 THEN Next1(DOMAIN rules) ELSE rule.id

Save(rule) ==
  LET tree == InsertedTree(rule, Without(conditions, Replaced(rule)))
      root == Last(tree.ids)
      id == RuleId(rule)
  IN  /\ DOMAIN tree.rows \subseteq 1..MaxConditions
      /\ ActionId(rule) <= MaxActions /\ id <= MaxRules
      /\ answer' = [ok |-> tree.ok, sent |-> rule]
      /\ IF tree.ok
         THEN /\ conditions' = tree.rows
              /\ actions' = actions \cup {ActionId(rule)}
              /\ rules' = With(ConditionsNulled(rules, Replaced(rule)), id,
                             [condition |-> root, action |-> ActionId(rule)])
         ELSE UNCHANGED <<rules, conditions, actions>>
      /\ Told

AddRule ==
  \E n \in 0..MaxChildren :
    Save([id |-> 0, root |-> 0, children |-> [i \in 1..n |-> 0], action |-> 0])

\* What a client can make of the condition of its copy: nodes dropped, added,
\* moved, or wrapped in a new one.
Edits(rule) ==
  LET ids == {rule.root} \cup Range(rule.children)
      Once(s) == \A i, j \in DOMAIN s : s[i] = s[j] => i = j \/ s[i] = 0
  IN  UNION {{[rule EXCEPT !.root = r, !.children = s] :
              s \in {q \in SeqOf((ids \ {r}) \cup {0}, MaxChildren) : Once(q)}} : r \in ids \cup {0}}

SaveRule ==
  /\ copy # None
  /\ \E rule \in Edits(copy) : Save(rule)

\* RemoveRule reads the rule first.  An unreadable one is an exception, one
\* that does not exist a warning.
ReadFirst(r) == r \in DOMAIN rules /\ Readable(r)
RemovedNodes(r) == Nodes(rules[r].condition)

RemoveRule(r) ==
  /\ IF ReadFirst(r)
     THEN /\ rules' = ActionsNulled(ConditionsNulled(Without(rules, {r}), RemovedNodes(r)),
                                    {rules[r].action})
          /\ conditions' = Without(conditions, RemovedNodes(r))
          /\ actions' = actions \ {rules[r].action}
     ELSE UNCHANGED <<rules, conditions, actions>>
  /\ answer' = NoAnswer
  /\ Told

\* The commands on actions; those of rules are actions as any other.
AddAction ==
  /\ Next1(actions) <= MaxActions
  /\ actions' = actions \cup {Next1(actions)}
  /\ answer' = NoAnswer
  /\ Told
  /\ UNCHANGED <<rules, conditions>>

RemoveAction(a) ==
  /\ actions' = actions \ {a}
  /\ rules' = ActionsNulled(rules, {a})
  /\ answer' = NoAnswer
  /\ Told
  /\ UNCHANGED conditions

Next ==
  \/ AddRule
  \/ SaveRule
  \/ \E r \in 1..MaxRules : RemoveRule(r)
  \/ \E r \in DOMAIN rules : GetRule(r)
  \/ AddAction
  \/ \E a \in actions : RemoveAction(a)

Spec == Init /\ [][Next]_vars

-----------------------------------------------------------------------------
\* The tables hold rows of their kind, and every reference that is declared
\* to the database is to a row that exists.
TypeOK ==
  /\ DOMAIN rules \subseteq 1..MaxRules
  /\ DOMAIN conditions \subseteq 1..MaxConditions
  /\ \A c \in DOMAIN conditions : conditions[c] \in BoundedSeq(1..MaxConditions, MaxChildren)
  /\ actions \subseteq 1..MaxActions
  /\ \A r \in DOMAIN rules :
       /\ rules[r].condition \in DOMAIN conditions \cup {0}
       /\ rules[r].action \in actions \cup {0}

\* GetAllRules, which the timer calls at its start and every client for its
\* list, fails as a whole if one rule cannot be read.
EveryRuleReadable == \A r \in DOMAIN rules : Readable(r)

\* What RemoveRule and a save delete by id belongs to no other rule.
NothingShared ==
  \A r, q \in DOMAIN rules : r # q =>
    /\ Nodes(rules[r].condition) \cap Nodes(rules[q].condition) = {}
    /\ rules[r].action = rules[q].action => rules[r].action = 0

\* Together: the rows of every rule are there and are its own.
RulesIntact == EveryRuleReadable /\ NothingShared

\* A save that was accepted is what the database gives back: the nodes that
\* had an id keep it, the new ones got ids of their own, the rest is gone
\* from the rule.
SavedAsSent ==
  (answer.ok /\ answer.sent # None) =>
    \E r \in DOMAIN rules :
      /\ answer.sent.id \in {0, r}
      /\ answer.sent.root \in {0, rules[r].condition}
      /\ Readable(r)
      /\ LET children == conditions[rules[r].condition]
         IN  /\ Len(children) = Len(answer.sent.children)
             /\ \A i \in DOMAIN children : answer.sent.children[i] \in {0, children[i]}
             /\ Cardinality(Nodes(rules[r].condition)) = Len(children) + 1

\* A save is refused only if it mixes nodes that have an id with new ones:
\* then an id that was just freed goes to a new node, or a node that is kept
\* was not deleted first.
RefusedOnlyIfMixed ==
  ~answer.ok =>
    LET ids == {answer.sent.root} \cup Range(answer.sent.children)
    IN  0 \in ids /\ ids # {0}

\* A command leaves the conditions and the actions of the other
\* rules alone.
View(r) == <<rules[r], [c \in Nodes(rules[r].condition) \cap DOMAIN conditions |-> conditions[c]]>>
OthersUntouched ==
  [][LET changed == {r \in DOMAIN rules : r \notin DOMAIN rules' \/ View(r)' # View(r)}
     IN  /\ Cardinality(changed) <= 1
         /\ answer'.sent # None => changed \subseteq {answer'.sent.id}]_vars

\* api/IRuleSerialize.h says of RemoveRule "Removes the Rule and all
\* RuleConditions".  It removes the nodes the rule still refers to: those an
\* earlier save dropped or replaced stay as rows for ever.
AllConditionsRemoved == rules = <<>> => conditions = <<>>

\* No save is refused ("Inserts/updates condition", api/IRuleSerialize.h).
SavesAccepted == answer.ok
=============================================================================
