---------------------------- MODULE RuleStoreProofs ----------------------------
(***************************************************************************)
(* That rules keep their rows to themselves and are stored as they are     *)
(* sent, for any number of rules, conditions and leaves.                   *)
(***************************************************************************)
EXTENDS RuleStore, FiniteSetTheorems, SequenceTheorems, TLAPS

Bounded(S) == \E n \in Nat : S \subseteq 1..n

\* What has been inserted into rows for the first n of the ids in cs, 0 for a new one.
\* If all are new, or none is and they are different and free, none is refused.
AllNew(cs, n) == \A i \in 1..n : cs[i] = 0
AllFree(cs, n, rows) ==
  /\ \A i \in 1..n : cs[i] # 0 /\ cs[i] \notin DOMAIN rows
  /\ \A i, j \in 1..n : cs[i] = cs[j] => i = j

Grown(rows, cs, n, acc) ==
  /\ acc.ok \in BOOLEAN /\ acc.ids \in Seq(Nat \ {0}) /\ Len(acc.ids) = n
  /\ Bounded(DOMAIN acc.rows)
  /\ DOMAIN acc.rows = DOMAIN rows \cup {acc.ids[i] : i \in 1..n}
  /\ \A i \in 1..n : cs[i] \in {0, acc.ids[i]}
  /\ acc.ok =>
       /\ \A i \in 1..n : acc.ids[i] \notin DOMAIN rows
       /\ \A i, j \in 1..n : acc.ids[i] = acc.ids[j] => i = j
       /\ \A c \in DOMAIN rows : acc.rows[c] = rows[c]
  /\ AllNew(cs, n) \/ AllFree(cs, n, rows) => acc.ok

-----------------------------------------------------------------------------
(* Numbers. *)

\* A non-empty set of numbers has a least one.
LEMMA LeastExists ==
  ASSUME NEW S \in SUBSET Nat, S # {}
  PROVE  \E x \in S : \A y \in S : x <= y
<1> DEFINE T == {0..x : x \in S}
<1>1. T \subseteq FiniteSubsetsOf(Nat) /\ T # {}
  <2>1. \A x \in S : IsFiniteSet(0..x) /\ 0..x \in SUBSET Nat
    BY FS_Interval
  <2>2. \A x \in S : 0..x \in FiniteSubsetsOf(Nat)
    BY <2>1 DEF FiniteSubsetsOf
  <2> QED  BY <2>2
<1>2. PICK x \in S : \A y \in S : <<0..y, 0..x>> \notin StrictSubsetOrdering(Nat)
  <2> HIDE DEF T
  <2>1. PICK s \in T : \A u \in T : <<u, s>> \notin StrictSubsetOrdering(Nat)
    BY <1>1, FS_StrictSubsetOrderingWellFounded, WFMin
  <2> QED  BY <2>1 DEF T
<1>3. \A y \in S : x <= y
  <2> SUFFICES ASSUME NEW y \in S, y < x PROVE FALSE
    OBVIOUS
  <2>1. /\ 0..y \in SUBSET Nat /\ 0..x \in SUBSET Nat
        /\ 0..y \subseteq 0..x /\ x \in 0..x /\ x \notin 0..y
    OBVIOUS
  <2>2. <<0..y, 0..x>> \in StrictSubsetOrdering(Nat)
    BY <2>1 DEF StrictSubsetOrdering
  <2> QED  BY <2>2, <1>2
<1> QED  BY <1>3

\* Induction up to a bound, over a set instead of a predicate.
LEMMA Induction ==
  ASSUME NEW k \in Nat, NEW S, 0 \in S, \A n \in 0..(k - 1) : n \in S => n + 1 \in S
  PROVE  0..k \subseteq S
<1> DEFINE T == (0..k) \ S
<1> SUFFICES ASSUME T # {} PROVE FALSE
  OBVIOUS
<1>1. PICK x \in T : \A y \in T : x <= y
  <2>1. T \in SUBSET Nat
    OBVIOUS
  <2> HIDE DEF T
  <2> QED  BY <2>1, LeastExists
<1>2. x - 1 \in 0..(k - 1) /\ (x - 1) + 1 = x
  BY <1>1
<1>3. x - 1 \in S
  BY <1>1, <1>2
<1> QED  BY <1>1, <1>2, <1>3

\* A non-empty bounded set of numbers has a greatest one.
LEMMA MaxExists ==
  ASSUME NEW n \in Nat, NEW S \in SUBSET (1..n), S # {}
  PROVE  Max(S) \in S /\ \A y \in S : Max(S) >= y
<1> DEFINE T == {n - y : y \in S}
<1>1. T \in SUBSET Nat /\ T # {}
  <2>1. \A y \in S : n - y \in Nat
    OBVIOUS
  <2> QED  BY <2>1
<1>2. PICK x \in S : \A y \in S : x >= y
  <2>1. \E m \in T : \A k \in T : m <= k
    <3> HIDE DEF T
    <3> QED  BY <1>1, LeastExists
  <2> QED  BY <2>1
<1> QED  BY <1>2 DEF Max

\* The id that SQLite gives is nobody's.
LEMMA NextIsNew ==
  ASSUME NEW S, Bounded(S)
  PROVE  Next1(S) \in Nat \ {0} /\ Next1(S) \notin S
<1>1. PICK n \in Nat : S \in SUBSET (1..n)
  BY DEF Bounded
<1>2. CASE S = {}
  BY <1>2 DEF Next1
<1>3. CASE S # {}
  <2>1. Max(S) \in 1..n /\ \A y \in S : Max(S) >= y
    BY <1>1, <1>3, MaxExists
  <2>2. Next1(S) = Max(S) + 1
    BY <1>3 DEF Next1
  <2>3. \A y \in S : y \in Nat
    BY <1>1
  <2> QED  BY <2>1, <2>2, <2>3
<1> QED  BY <1>2, <1>3

LEMMA BoundedAdd ==
  ASSUME NEW S, Bounded(S), NEW x \in Nat \ {0}
  PROVE  Bounded(S \cup {x})
<1>1. PICK n \in Nat : S \subseteq 1..n
  BY DEF Bounded
<1>2. n + x \in Nat /\ 1..n \subseteq 1..(n + x) /\ x \in 1..(n + x)
  OBVIOUS
<1> QED  BY <1>1, <1>2 DEF Bounded

LEMMA BoundedSubset ==
  ASSUME NEW S, Bounded(S), NEW T \in SUBSET S
  PROVE  Bounded(T)
BY DEF Bounded

-----------------------------------------------------------------------------
(* Inserting a condition. *)

LEMMA InsertedGrows ==
  ASSUME NEW rows, NEW cs \in Seq(Nat), NEW n \in Nat, n < Len(cs), NEW acc, Grown(rows, cs, n, acc),
         NEW children
  PROVE  Grown(rows, cs, n + 1, Inserted(acc, cs[n + 1], children))
<1> DEFINE id == NewId(acc, cs[n + 1])
           next == Inserted(acc, cs[n + 1], children)
<1>1. n + 1 \in 1..Len(cs) /\ cs[n + 1] \in Nat
  <2>1. n + 1 \in 1..Len(cs)
    OBVIOUS
  <2> QED  BY <2>1, ElementOfSeq
<1>2. id \in Nat \ {0} /\ cs[n + 1] \in {0, id} /\ (cs[n + 1] = 0 => id \notin DOMAIN acc.rows)
  BY <1>1, NextIsNew DEF Grown, NewId
<1>3. /\ next.ok = (acc.ok /\ id \notin DOMAIN acc.rows)
      /\ next.rows = With(acc.rows, id, children)
      /\ next.ids = Append(acc.ids, id)
  BY DEF Inserted
<1>4. /\ next.ids \in Seq(Nat \ {0}) /\ Len(next.ids) = n + 1
      /\ \A i \in 1..n : next.ids[i] = acc.ids[i]
      /\ next.ids[n + 1] = id
  <2>1. acc.ids \in Seq(Nat \ {0}) /\ Len(acc.ids) = n
    BY DEF Grown
  <2> HIDE DEF id, next
  <2>2. /\ Append(acc.ids, id) \in Seq(Nat \ {0}) /\ Len(Append(acc.ids, id)) = n + 1
        /\ \A i \in 1..n : Append(acc.ids, id)[i] = acc.ids[i]
        /\ Append(acc.ids, id)[n + 1] = id
    BY <1>2, <2>1
  <2> QED  BY <1>3, <2>2
<1>5. \A i \in 1..(n + 1) : i \in 1..n \/ i = n + 1
  OBVIOUS
<1>6. n + 1 \in 1..(n + 1) /\ 1..n \subseteq 1..(n + 1) /\ n + 1 \notin 1..n
  OBVIOUS
<1>7. DOMAIN next.rows = DOMAIN acc.rows \cup {id}
  BY <1>3 DEF With
<1> HIDE DEF id, next
<1>8. DOMAIN next.rows = DOMAIN rows \cup {next.ids[i] : i \in 1..(n + 1)}
  <2>1. DOMAIN acc.rows = DOMAIN rows \cup {acc.ids[i] : i \in 1..n}
    BY DEF Grown
  <2>2. {next.ids[i] : i \in 1..(n + 1)} = {acc.ids[i] : i \in 1..n} \cup {id}
    BY <1>4, <1>5, <1>6
  <2> QED  BY <1>7, <2>1, <2>2
<1>9. Bounded(DOMAIN next.rows)
  <2>1. Bounded(DOMAIN acc.rows)
    BY DEF Grown
  <2>2. Bounded(DOMAIN acc.rows \cup {id})
    BY <1>2, <2>1, BoundedAdd
  <2> QED  BY <1>7, <2>2
<1>10. \A i \in 1..(n + 1) : cs[i] \in {0, next.ids[i]}
  BY <1>2, <1>4, <1>5 DEF Grown
<1>11. ASSUME next.ok
       PROVE  /\ \A i \in 1..(n + 1) : next.ids[i] \notin DOMAIN rows
              /\ \A i, j \in 1..(n + 1) : next.ids[i] = next.ids[j] => i = j
              /\ \A c \in DOMAIN rows : next.rows[c] = rows[c]
  <2>1. acc.ok /\ id \notin DOMAIN acc.rows /\ id \notin DOMAIN rows
    BY <1>3, <1>11 DEF Grown
  <2>2. \A i \in 1..n : acc.ids[i] # id
    BY <2>1 DEF Grown
  <2>3. \A i, j \in 1..(n + 1) : next.ids[i] = next.ids[j] => i = j
    <3>1. \A i, j \in 1..n : acc.ids[i] = acc.ids[j] => i = j
      BY <2>1 DEF Grown
    <3>2. \A i, j \in 1..n : next.ids[i] = next.ids[j] => i = j
      BY <1>4, <3>1
    <3>3. \A i \in 1..n : next.ids[i] # next.ids[n + 1]
      BY <1>4, <2>2
    <3> QED  BY <1>5, <3>2, <3>3
  <2>4. \A c \in DOMAIN rows : next.rows[c] = rows[c]
    BY <1>3, <2>1 DEF Grown, With
  <2> QED  BY <1>4, <1>5, <2>1, <2>3, <2>4 DEF Grown
<1>12. ASSUME AllNew(cs, n + 1)
       PROVE  next.ok
  BY <1>2, <1>3, <1>6, <1>12 DEF Grown, AllNew
<1>13. ASSUME AllFree(cs, n + 1, rows)
       PROVE  next.ok
  <2>1. acc.ok
    BY <1>6, <1>13 DEF Grown, AllFree
  <2>2. \A i \in 1..n : acc.ids[i] = cs[i] /\ cs[i] # cs[n + 1]
    BY <1>6, <1>13 DEF Grown, AllFree
  <2>3. id = cs[n + 1] /\ id \notin DOMAIN rows
    BY <1>2, <1>6, <1>13 DEF AllFree
  <2>4. \A i \in 1..n : acc.ids[i] # id
    BY <2>2, <2>3
  <2>5. id \notin DOMAIN acc.rows
    BY <2>3, <2>4 DEF Grown
  <2> QED  BY <1>3, <2>1, <2>5
<1> QED  BY <1>3, <1>4, <1>8, <1>9, <1>10, <1>11, <1>12, <1>13 DEF Grown, next

\* A leaf gets a row without children; as long as nothing is refused,
\* no later one overwrites it.
LeafRows(n, acc) == acc.ok => \A i \in 1..n : acc.rows[acc.ids[i]] = <<>>

LEMMA LeafRowsKept ==
  ASSUME NEW rows, NEW cs \in Seq(Nat), NEW n \in Nat, n < Len(cs), NEW acc, Grown(rows, cs, n, acc),
         LeafRows(n, acc)
  PROVE  LeafRows(n + 1, Inserted(acc, cs[n + 1], <<>>))
<1> DEFINE id == NewId(acc, cs[n + 1])
           next == Inserted(acc, cs[n + 1], <<>>)
<1>1. /\ next.ok = (acc.ok /\ id \notin DOMAIN acc.rows)
      /\ next.rows = With(acc.rows, id, <<>>)
      /\ next.ids = Append(acc.ids, id)
  BY DEF Inserted
<1>2. acc.ids \in Seq(Nat \ {0}) /\ Len(acc.ids) = n
  BY DEF Grown
<1> HIDE DEF id, next
<1>3. /\ \A i \in 1..n : Append(acc.ids, id)[i] = acc.ids[i]
      /\ Append(acc.ids, id)[n + 1] = id
  BY <1>2
<1> SUFFICES ASSUME next.ok, NEW i \in 1..(n + 1) PROVE next.rows[next.ids[i]] = <<>>
  BY DEF LeafRows, next
<1>4. CASE i = n + 1
  <2>1. next.ids[i] = id
    BY <1>1, <1>3, <1>4
  <2>2. With(acc.rows, id, <<>>)[id] = <<>>
    BY DEF With
  <2> QED  BY <1>1, <2>1, <2>2
<1>5. CASE i \in 1..n
  <2>1. acc.ids[i] \in DOMAIN acc.rows /\ acc.rows[acc.ids[i]] = <<>>
    BY <1>1, <1>5 DEF Grown, LeafRows
  <2>2. acc.ids[i] # id /\ next.ids[i] = acc.ids[i]
    BY <1>1, <1>3, <1>5, <2>1
  <2>3. With(acc.rows, id, <<>>)[acc.ids[i]] = <<>>
    BY <2>1, <2>2 DEF With
  <2> QED  BY <1>1, <2>2, <2>3
<1> QED  BY <1>4, <1>5

\* The function that inserts the leaves one by one exists.
LeafByLeaf(g, start, ids, n) ==
  g = [m \in 0..n |-> IF m = 0 THEN start ELSE Inserted(g[m - 1], ids[m], <<>>)]

LEMMA LeafByLeafExists ==
  ASSUME NEW start, NEW ids, NEW k \in Nat
  PROVE  \E g : LeafByLeaf(g, start, ids, k)
<1> DEFINE S == {n \in 0..k : \E g : LeafByLeaf(g, start, ids, n)}
<1>1. 0 \in S
  <2> DEFINE g == [m \in 0..0 |-> start]
  <2>1. LeafByLeaf(g, start, ids, 0)
    <3>1. \A m \in 0..0 : m = 0
      OBVIOUS
    <3> QED  BY <3>1 DEF LeafByLeaf
  <2> QED  BY <2>1
<1>2. ASSUME NEW n \in 0..(k - 1), n \in S PROVE n + 1 \in S
  <2>1. PICK g : LeafByLeaf(g, start, ids, n)
    BY <1>2
  <2> DEFINE h == [m \in 0..(n + 1) |-> IF m = n + 1 THEN Inserted(g[n], ids[n + 1], <<>>) ELSE g[m]]
             s == [m \in 0..(n + 1) |-> IF m = 0 THEN start ELSE Inserted(h[m - 1], ids[m], <<>>)]
  <2>2. \A m \in 0..(n + 1) : h[m] = s[m]
    <3> SUFFICES ASSUME NEW m \in 0..(n + 1) PROVE h[m] = s[m]
      OBVIOUS
    <3>1. n \in 0..(n + 1) /\ n # n + 1 /\ h[n] = g[n] /\ n + 1 # 0 /\ (n + 1) - 1 = n
      OBVIOUS
    <3>2. CASE m = n + 1
      <4>1. s[m] = Inserted(h[n], ids[n + 1], <<>>)
        BY <3>1, <3>2
      <4>2. h[m] = Inserted(g[n], ids[n + 1], <<>>)
        BY <3>2
      <4> QED  BY <3>1, <4>1, <4>2
    <3>3. CASE m = 0
      <4>1. 0 \in 0..n /\ 0 # n + 1
        OBVIOUS
      <4> QED  BY <2>1, <3>3, <4>1 DEF LeafByLeaf
    <3>4. CASE m \in 1..n
      <4>1. m \in 0..n /\ m - 1 \in 0..(n + 1) /\ m - 1 # n + 1 /\ m # 0 /\ m # n + 1
        BY <3>4
      <4>2. h[m] = g[m] /\ h[m - 1] = g[m - 1]
        BY <4>1
      <4>3. g[m] = Inserted(g[m - 1], ids[m], <<>>)
        BY <2>1, <4>1 DEF LeafByLeaf
      <4>4. s[m] = Inserted(h[m - 1], ids[m], <<>>)
        BY <4>1
      <4> QED  BY <4>2, <4>3, <4>4
    <3> QED  BY <3>2, <3>3, <3>4
  <2>3. LeafByLeaf(h, start, ids, n + 1)
    <3>1. h = s
      <4> HIDE DEF h
      <4>1. h = [m \in 0..(n + 1) |-> h[m]]
        BY DEF h
      <4> QED  BY <2>2, <4>1
    <3> QED  BY <3>1 DEF LeafByLeaf
  <2> QED  BY <2>3
<1> HIDE DEF S
<1>3. 0..k \subseteq S
  BY <1>1, <1>2, Induction
<1> QED  BY <1>3 DEF S

LEMMA LeavesGrow ==
  ASSUME NEW rows, Bounded(DOMAIN rows), NEW rule, rule.children \in Seq(Nat), rule.root \in Nat
  PROVE  LET cs == Append(rule.children, rule.root)
             k == Len(rule.children)
         IN  /\ Grown(rows, cs, k, Leaves(NoNode(rows), rule))
             /\ LeafRows(k, Leaves(NoNode(rows), rule))
<1> DEFINE cs == Append(rule.children, rule.root)
           k == Len(rule.children)
           upTo == CHOOSE g : LeafByLeaf(g, NoNode(rows), rule.children, k)
           S == {n \in 0..k : Grown(rows, cs, n, upTo[n]) /\ LeafRows(n, upTo[n])}
<1>1. /\ k \in Nat /\ cs \in Seq(Nat) /\ Len(cs) = k + 1
      /\ \A i \in 1..k : cs[i] = rule.children[i]
  OBVIOUS
<1>2. LeafByLeaf(upTo, NoNode(rows), rule.children, k)
  <2> HIDE DEF k
  <2> QED  BY <1>1, LeafByLeafExists
<1>3. Leaves(NoNode(rows), rule) = upTo[k]
  BY DEF Leaves, LeafByLeaf
<1> HIDE DEF upTo, cs, k
<1>4. upTo[0] = NoNode(rows) /\ \A n \in 1..k : upTo[n] = Inserted(upTo[n - 1], rule.children[n], <<>>)
  <2>1. 0 \in 0..k /\ \A n \in 1..k : n \in 0..k /\ n # 0
    BY <1>1
  <2> QED  BY <1>2, <2>1 DEF LeafByLeaf
<1>5. 0 \in S
  <2>1. upTo[0].ok = TRUE /\ upTo[0].rows = rows /\ upTo[0].ids = <<>>
    BY <1>4 DEF NoNode
  <2>2. \A i \in 1..0 : FALSE
    OBVIOUS
  <2>3. {upTo[0].ids[i] : i \in 1..0} = {}
    BY <2>2
  <2>4. Grown(rows, cs, 0, upTo[0])
    <3>1. upTo[0].ids \in Seq(Nat \ {0}) /\ Len(upTo[0].ids) = 0
      BY <2>1
    <3>2. Bounded(DOMAIN upTo[0].rows) /\ DOMAIN upTo[0].rows = DOMAIN rows \cup {upTo[0].ids[i] : i \in 1..0}
      BY <2>1, <2>3
    <3> QED  BY <2>1, <2>2, <3>1, <3>2 DEF Grown
  <2>5. LeafRows(0, upTo[0])
    BY <2>2 DEF LeafRows
  <2> QED  BY <1>1, <2>4, <2>5
<1>6. ASSUME NEW n \in 0..(k - 1), n \in S PROVE n + 1 \in S
  <2>1. n + 1 \in 1..k /\ (n + 1) - 1 = n /\ n \in Nat /\ n < Len(cs)
    BY <1>1
  <2>2. upTo[n + 1] = Inserted(upTo[n], cs[n + 1], <<>>)
    BY <1>1, <1>4, <2>1
  <2>3. Grown(rows, cs, n + 1, upTo[n + 1])
    BY <1>1, <1>6, <2>1, <2>2, InsertedGrows
  <2>4. LeafRows(n + 1, upTo[n + 1])
    BY <1>1, <1>6, <2>1, <2>2, LeafRowsKept
  <2> QED  BY <2>1, <2>3, <2>4
<1>7. k \in S
  <2> HIDE DEF S
  <2>1. 0..k \subseteq S
    BY <1>1, <1>5, <1>6, Induction
  <2> QED  BY <1>1, <2>1
<1> QED  BY <1>3, <1>7 DEF cs, k

\* A row was added for the root, whose children are the leaves, and one for each leaf.
\* All have ids of their own, or the tree was refused.
Stored(rule, rows, tree, root, kids) ==
  /\ tree.ok \in BOOLEAN /\ root = Last(tree.ids)
  /\ root \in Nat \ {0} /\ kids \in Seq(Nat \ {0}) /\ Len(kids) = Len(rule.children)
  /\ DOMAIN tree.rows = DOMAIN rows \cup Range(kids) \cup {root}
  /\ tree.rows[root] = kids
  /\ rule.root \in {0, root}
  /\ \A i \in 1..Len(kids) : rule.children[i] \in {0, kids[i]}
  /\ tree.ok =>
       /\ root \notin DOMAIN rows \cup Range(kids)
       /\ \A c \in Range(kids) : c \notin DOMAIN rows /\ tree.rows[c] = <<>>
       /\ \A i, j \in 1..Len(kids) : kids[i] = kids[j] => i = j
       /\ \A c \in DOMAIN rows : tree.rows[c] = rows[c]

LEMMA TreeStored ==
  ASSUME NEW rows, Bounded(DOMAIN rows), NEW rule, rule.children \in Seq(Nat), rule.root \in Nat
  PROVE  \E root, kids : Stored(rule, rows, InsertedTree(rule, rows), root, kids)
<1> DEFINE cs == Append(rule.children, rule.root)
           k == Len(rule.children)
           leaves == Leaves(NoNode(rows), rule)
           tree == Inserted(leaves, rule.root, leaves.ids)
           root == NewId(leaves, rule.root)
           kids == leaves.ids
<1>1. /\ k \in Nat /\ cs \in Seq(Nat) /\ Len(cs) = k + 1 /\ cs[k + 1] = rule.root
      /\ \A i \in 1..k : cs[i] = rule.children[i]
  OBVIOUS
<1>2. Grown(rows, cs, k, leaves) /\ LeafRows(k, leaves)
  BY LeavesGrow
<1>3. InsertedTree(rule, rows) = tree
  BY DEF InsertedTree
<1>4. /\ tree.ok = (leaves.ok /\ root \notin DOMAIN leaves.rows)
      /\ tree.rows = With(leaves.rows, root, kids)
      /\ tree.ids = Append(kids, root)
  BY DEF Inserted
<1> HIDE DEF cs, k, leaves, tree
<1>5. Grown(rows, cs, k + 1, tree)
  <2>1. k < Len(cs) /\ tree = Inserted(leaves, cs[k + 1], leaves.ids)
    BY <1>1 DEF tree
  <2> QED  BY <1>1, <1>2, <2>1, InsertedGrows
<1> HIDE DEF root, kids
<1>6. kids \in Seq(Nat \ {0}) /\ Len(kids) = k
  BY <1>2 DEF Grown, kids
<1>7. /\ \A i \in 1..k : tree.ids[i] = kids[i]
      /\ tree.ids[k + 1] = root /\ Len(tree.ids) = k + 1
  BY <1>1, <1>4, <1>6
<1>8. k + 1 \in 1..(k + 1) /\ 1..k \subseteq 1..(k + 1)
  BY <1>1
<1>9. root \in Nat \ {0} /\ tree.ok \in BOOLEAN
  <2>1. tree.ids \in Seq(Nat \ {0})
    BY <1>5 DEF Grown
  <2>2. \A i \in 1..(k + 1) : tree.ids[i] \in Nat \ {0}
    BY <1>7, <2>1, ElementOfSeq
  <2> QED  BY <1>5, <1>7, <1>8, <2>2 DEF Grown
<1>10. Range(kids) = {kids[i] : i \in 1..k}
  BY <1>6 DEF Range
<1>11. DOMAIN tree.rows = DOMAIN rows \cup Range(kids) \cup {root}
  <2>1. DOMAIN tree.rows = DOMAIN leaves.rows \cup {root}
    BY <1>4 DEF With
  <2>2. DOMAIN leaves.rows = DOMAIN rows \cup {kids[i] : i \in 1..k}
    BY <1>2 DEF Grown, kids
  <2> QED  BY <1>10, <2>1, <2>2
<1>12. tree.rows[root] = kids
  BY <1>4 DEF With
<1>13. rule.root \in {0, root} /\ \A i \in 1..k : rule.children[i] \in {0, kids[i]}
  BY <1>1, <1>5, <1>7, <1>8 DEF Grown
<1>14. ASSUME tree.ok
       PROVE  /\ root \notin DOMAIN rows \cup Range(kids)
              /\ \A c \in Range(kids) : c \notin DOMAIN rows /\ tree.rows[c] = <<>>
              /\ \A i, j \in 1..k : kids[i] = kids[j] => i = j
              /\ \A c \in DOMAIN rows : tree.rows[c] = rows[c]
  <2>1. leaves.ok /\ root \notin DOMAIN leaves.rows
    BY <1>4, <1>14
  <2>2. root \notin DOMAIN rows \cup Range(kids)
    BY <1>10, <2>1, <1>2 DEF Grown, kids
  <2>3. \A i, j \in 1..k : kids[i] = kids[j] => i = j
    BY <2>1, <1>2 DEF Grown, kids
  <2>4. \A c \in Range(kids) : c \notin DOMAIN rows /\ c \in DOMAIN leaves.rows /\ leaves.rows[c] = <<>>
    BY <1>10, <2>1, <1>2 DEF Grown, LeafRows, kids
  <2>5. \A c \in Range(kids) : tree.rows[c] = <<>>
    BY <1>4, <2>1, <2>4 DEF With
  <2>6. \A c \in DOMAIN rows : tree.rows[c] = rows[c]
    BY <1>5, <1>14 DEF Grown
  <2> QED  BY <2>2, <2>3, <2>4, <2>5, <2>6
<1> QED
  <2>1. root = Last(tree.ids)
    BY <1>7 DEF Last
  <2>2. Stored(rule, rows, tree, root, kids)
    BY <1>6, <1>9, <1>11, <1>12, <1>13, <1>14, <2>1 DEF Stored, k
  <2> QED  BY <1>3, <2>2

\* A tree of new nodes only is not refused, nor is one of different ids that are free.
LEMMA TreeAccepted ==
  ASSUME NEW rows, Bounded(DOMAIN rows), NEW rule, rule.children \in Seq(Nat), rule.root \in Nat,
         \/ rule.root = 0 /\ \A i \in 1..Len(rule.children) : rule.children[i] = 0
         \/ /\ rule.root # 0 /\ rule.root \notin DOMAIN rows
            /\ \A i \in 1..Len(rule.children) :
                 rule.children[i] # 0 /\ rule.children[i] # rule.root /\ rule.children[i] \notin DOMAIN rows
            /\ \A i, j \in 1..Len(rule.children) : rule.children[i] = rule.children[j] => i = j
  PROVE  InsertedTree(rule, rows).ok
<1> DEFINE cs == Append(rule.children, rule.root)
           k == Len(rule.children)
           leaves == Leaves(NoNode(rows), rule)
<1>1. /\ k \in Nat /\ cs \in Seq(Nat) /\ Len(cs) = k + 1 /\ cs[k + 1] = rule.root
      /\ \A i \in 1..k : cs[i] = rule.children[i]
  OBVIOUS
<1>2. Grown(rows, cs, k, leaves)
  BY LeavesGrow
<1>3. InsertedTree(rule, rows) = Inserted(leaves, rule.root, leaves.ids)
  BY DEF InsertedTree
<1>4. AllNew(cs, k + 1) \/ AllFree(cs, k + 1, rows)
  <2> HIDE DEF cs, leaves
  <2>1. \A i \in 1..(k + 1) : i \in 1..k \/ i = k + 1
    BY <1>1
  <2>2. CASE rule.root = 0 /\ \A i \in 1..k : rule.children[i] = 0
    BY <1>1, <2>1, <2>2 DEF AllNew
  <2>3. CASE /\ rule.root # 0 /\ rule.root \notin DOMAIN rows
             /\ \A i \in 1..k :
                  rule.children[i] # 0 /\ rule.children[i] # rule.root /\ rule.children[i] \notin DOMAIN rows
             /\ \A i, j \in 1..k : rule.children[i] = rule.children[j] => i = j
    <3> HIDE DEF k
    <3>1. \A i \in 1..(k + 1) : cs[i] # 0 /\ cs[i] \notin DOMAIN rows
      BY <1>1, <2>1, <2>3
    <3>2. \A i, j \in 1..(k + 1) : cs[i] = cs[j] => i = j
      BY <1>1, <2>1, <2>3
    <3> QED  BY <3>1, <3>2 DEF AllFree
  <2> QED  BY <2>2, <2>3
<1>5. Grown(rows, cs, k + 1, InsertedTree(rule, rows))
  <2> HIDE DEF cs, k, leaves
  <2>1. k < Len(cs) /\ InsertedTree(rule, rows) = Inserted(leaves, cs[k + 1], leaves.ids)
    BY <1>1, <1>3
  <2>2. Grown(rows, cs, k + 1, Inserted(leaves, cs[k + 1], leaves.ids))
    BY <1>1, <1>2, <2>1, InsertedGrows
  <2> QED  BY <2>1, <2>2
<1> QED  BY <1>4, <1>5 DEF Grown

-----------------------------------------------------------------------------
(* The invariant. *)

\* The rows of a condition, if it is a root with leaves.
Family(cs, c) == {c} \cup Range(cs[c])
Flat(cs, c) ==
  /\ c \in DOMAIN cs
  /\ \A d \in Range(cs[c]) : d \in DOMAIN cs /\ cs[d] = <<>>

\* Every rule has its rows and its action to itself.
Own(rs, cs) ==
  /\ \A r \in DOMAIN rs : Flat(cs, rs[r].condition)
  /\ \A r, q \in DOMAIN rs : r # q =>
       /\ Family(cs, rs[r].condition) \cap Family(cs, rs[q].condition) = {}
       /\ rs[r].action = rs[q].action => rs[r].action = 0

Copies ==
  [id : 1..MaxRules, root : 1..MaxConditions,
   children : BoundedSeq(1..MaxConditions, MaxChildren), action : 0..MaxActions]

Rows ==
  /\ TypeOK
  /\ \A r \in DOMAIN rules : rules[r] \in [condition : Nat, action : Nat]
  /\ copy \in Copies \cup {None}

CopyIsRule == copy # None => copy.id \in DOMAIN rules /\ copy = Read(copy.id)

IInv == Rows /\ (~Stale => Own(rules, conditions) /\ CopyIsRule)

\* What a client can send: a rule with ids, 0 for a new one, none twice.
Sendable(rule) ==
  /\ rule.id \in Nat /\ rule.root \in Nat /\ rule.action \in Nat
  /\ rule.children \in Seq(Nat) /\ Len(rule.children) <= MaxChildren
  /\ \A i, j \in 1..Len(rule.children) :
       rule.children[i] = rule.children[j] => i = j \/ rule.children[i] = 0
  /\ \A i \in 1..Len(rule.children) : rule.children[i] = rule.root => rule.root = 0

LEMMA BoundsAreNumbers ==
  /\ Stale \in BOOLEAN
  /\ MaxRules \in Nat /\ MaxConditions \in Nat /\ MaxActions \in Nat /\ MaxChildren \in Nat
BY RuleStoreAssumption

LEMMA SequencesOf ==
  ASSUME NEW S, NEW n \in Nat, NEW s
  PROVE  s \in SeqOf(S, n) <=> s \in Seq(S) /\ Len(s) <= n
<1>1. ASSUME s \in SeqOf(S, n) PROVE s \in Seq(S) /\ Len(s) <= n
  <2>1. PICK m \in 0..n : s \in [1..m -> S]
    BY <1>1 DEF SeqOf
  <2> QED  BY <2>1, SeqDef
<1>2. ASSUME s \in Seq(S), Len(s) <= n PROVE s \in SeqOf(S, n)
  <2>1. Len(s) \in 0..n /\ s \in [1..Len(s) -> S]
    BY <1>2
  <2> QED  BY <2>1 DEF SeqOf
<1> QED  BY <1>1, <1>2

LEMMA RangeOfSequence ==
  ASSUME NEW S, NEW s \in Seq(S)
  PROVE  Range(s) = {s[i] : i \in 1..Len(s)} /\ Range(s) \subseteq S
<1>1. DOMAIN s = 1..Len(s) /\ \A i \in 1..Len(s) : s[i] \in S
  OBVIOUS
<1>2. Range(s) = {s[i] : i \in 1..Len(s)}
  BY <1>1 DEF Range
<1>3. Range(s) \subseteq S
  BY <1>1, <1>2
<1> QED  BY <1>2, <1>3

LEMMA NumbersAreBounded ==
  ASSUME Rows
  PROVE  Bounded(DOMAIN rules) /\ Bounded(DOMAIN conditions) /\ Bounded(actions)
BY BoundsAreNumbers DEF Rows, TypeOK, Bounded

LEMMA NewRuleSendable ==
  ASSUME NEW n \in 0..MaxChildren
  PROVE  Sendable([id |-> 0, root |-> 0, children |-> [i \in 1..n |-> 0], action |-> 0])
<1> DEFINE s == [i \in 1..n |-> 0]
<1>1. n \in Nat /\ n <= MaxChildren
  BY BoundsAreNumbers
<1>2. s \in Seq(Nat) /\ Len(s) = n /\ \A i \in 1..n : s[i] = 0
  <2>1. s \in [1..n -> Nat]
    OBVIOUS
  <2> QED  BY <1>1, <2>1, SeqDef
<1> HIDE DEF s
<1>3. Sendable([id |-> 0, root |-> 0, children |-> s, action |-> 0])
  BY <1>1, <1>2 DEF Sendable
<1> QED  BY <1>3 DEF s

LEMMA EditsSendable ==
  ASSUME NEW old \in Copies, NEW rule \in Edits(old)
  PROVE  /\ Sendable(rule) /\ rule.id = old.id /\ rule.action = old.action
         /\ {rule.root} \cup Range(rule.children) \subseteq {0, old.root} \cup Range(old.children)
<1> DEFINE ids == {old.root} \cup Range(old.children)
           Once(s) == \A i, j \in DOMAIN s : s[i] = s[j] => i = j \/ s[i] = 0
<1>1. PICK r \in ids \cup {0} :
        rule \in {[old EXCEPT !.root = r, !.children = s] :
                  s \in {q \in SeqOf((ids \ {r}) \cup {0}, MaxChildren) : Once(q)}}
  BY DEF Edits
<1>2. PICK s \in SeqOf((ids \ {r}) \cup {0}, MaxChildren) :
        Once(s) /\ rule = [old EXCEPT !.root = r, !.children = s]
  BY <1>1
<1>3. s \in Seq((ids \ {r}) \cup {0}) /\ Len(s) <= MaxChildren
  BY BoundsAreNumbers, SequencesOf
<1>4. rule.root = r /\ rule.children = s /\ rule.id = old.id /\ rule.action = old.action
  BY <1>2 DEF Copies
<1>5. ids \subseteq Nat \ {0}
  <2>1. old.root \in 1..MaxConditions /\ old.children \in Seq(1..MaxConditions)
    BY BoundsAreNumbers, SequencesOf DEF Copies, BoundedSeq
  <2>2. Range(old.children) \subseteq 1..MaxConditions
    BY <2>1, RangeOfSequence
  <2> QED  BY <2>1, <2>2
<1>6. \A i \in 1..Len(s) : s[i] \in (ids \ {r}) \cup {0}
  BY <1>3, ElementOfSeq
<1>7. s \in Seq(Nat)
  <2>1. (ids \ {r}) \cup {0} \subseteq Nat
    BY <1>5
  <2> HIDE DEF ids
  <2> QED  BY <1>3, <2>1
<1>8. DOMAIN s = 1..Len(s)
  BY <1>3
<1>9. Range(s) \subseteq ids \cup {0}
  BY <1>6, <1>8 DEF Range
<1>10. old.id \in Nat /\ old.action \in Nat
  BY DEF Copies
<1>11. Sendable(rule)
  <2>1. \A i, j \in 1..Len(s) : s[i] = s[j] => i = j \/ s[i] = 0
    BY <1>2, <1>8
  <2>2. \A i \in 1..Len(s) : s[i] = r => r = 0
    BY <1>6
  <2>3. r \in Nat
    BY <1>5
  <2> HIDE DEF ids, Once
  <2> QED  BY <1>3, <1>4, <1>7, <1>10, <2>1, <2>2, <2>3 DEF Sendable
<1> QED  BY <1>4, <1>9, <1>11

\* A save, accepted or not.
Effect(rule, root, kids, id, action) ==
  LET left == Without(conditions, Replaced(rule))
      tree == InsertedTree(rule, left)
  IN  /\ id \in 1..MaxRules /\ rule.id \in {0, id} /\ (rule.id = 0 => id \notin DOMAIN rules)
      /\ action \in 1..MaxActions /\ rule.action \in {0, action} /\ (rule.action = 0 => action \notin actions)
      /\ answer'.sent = rule /\ answer'.ok \in BOOLEAN /\ answer'.ok = tree.ok
      /\ ~answer'.ok => UNCHANGED <<rules, conditions, actions>>
      /\ answer'.ok =>
           /\ Stored(rule, left, tree, root, kids)
           /\ conditions' = tree.rows
           /\ DOMAIN conditions' \subseteq 1..MaxConditions
           /\ actions' = actions \cup {action}
           /\ rules' = With(ConditionsNulled(rules, Replaced(rule)), id,
                            [condition |-> root, action |-> action])

LEMMA SaveEffect ==
  ASSUME Rows, NEW rule, Sendable(rule), Save(rule)
  PROVE  \E root, kids, id, action : Effect(rule, root, kids, id, action)
<1> DEFINE left == Without(conditions, Replaced(rule))
           tree == InsertedTree(rule, left)
           id == RuleId(rule)
           action == ActionId(rule)
<1>1. Bounded(DOMAIN left)
  BY NumbersAreBounded, BoundedSubset DEF Without
<1>2. PICK root, kids : Stored(rule, left, tree, root, kids)
  BY <1>1, TreeStored DEF Sendable
<1>3. /\ DOMAIN tree.rows \subseteq 1..MaxConditions
      /\ action <= MaxActions /\ id <= MaxRules
      /\ answer' = [ok |-> tree.ok, sent |-> rule]
      /\ IF tree.ok
         THEN /\ conditions' = tree.rows
              /\ actions' = actions \cup {action}
              /\ rules' = With(ConditionsNulled(rules, Replaced(rule)), id,
                               [condition |-> Last(tree.ids), action |-> action])
         ELSE UNCHANGED <<rules, conditions, actions>>
  BY DEF Save
<1>4. id \in 1..MaxRules /\ rule.id \in {0, id} /\ (rule.id = 0 => id \notin DOMAIN rules)
  BY <1>3, BoundsAreNumbers, NumbersAreBounded, NextIsNew DEF RuleId, Sendable
<1>5. action \in 1..MaxActions /\ rule.action \in {0, action} /\ (rule.action = 0 => action \notin actions)
  BY <1>3, BoundsAreNumbers, NumbersAreBounded, NextIsNew DEF ActionId, Sendable
<1>6. root = Last(tree.ids) /\ tree.ok \in BOOLEAN
  BY <1>2 DEF Stored
<1> HIDE DEF left, tree, id, action
<1>7. answer'.sent = rule /\ answer'.ok = tree.ok
  BY <1>3
<1>8. Effect(rule, root, kids, id, action)
  BY <1>2, <1>3, <1>4, <1>5, <1>6, <1>7 DEF Effect, left, tree
<1> QED  BY <1>8

LEMMA NulledCondition ==
  ASSUME NEW rs, NEW S, NEW r \in DOMAIN rs, rs[r] \in [condition : Nat, action : Nat]
  PROVE  /\ ConditionsNulled(rs, S)[r] \in [condition : Nat, action : Nat]
         /\ ConditionsNulled(rs, S)[r].action = rs[r].action
         /\ ConditionsNulled(rs, S)[r].condition = IF rs[r].condition \in S THEN 0 ELSE rs[r].condition
         /\ rs[r].condition \notin S => ConditionsNulled(rs, S)[r] = rs[r]
BY DEF ConditionsNulled

LEMMA NulledAction ==
  ASSUME NEW rs, NEW S, NEW r \in DOMAIN rs, rs[r] \in [condition : Nat, action : Nat]
  PROVE  /\ ActionsNulled(rs, S)[r] \in [condition : Nat, action : Nat]
         /\ ActionsNulled(rs, S)[r].condition = rs[r].condition
         /\ ActionsNulled(rs, S)[r].action = IF rs[r].action \in S THEN 0 ELSE rs[r].action
         /\ rs[r].action \notin S \ {0} => ActionsNulled(rs, S)[r] = rs[r]
BY DEF ActionsNulled

-----------------------------------------------------------------------------
(* Saving a rule. *)

LEMMA SaveRows ==
  ASSUME Rows, NEW rule, Sendable(rule), Save(rule)
  PROVE  Rows'
<1> DEFINE left == Without(conditions, Replaced(rule))
           tree == InsertedTree(rule, left)
           others == ConditionsNulled(rules, Replaced(rule))
<1>0. copy' \in Copies \cup {None}
  BY DEF Save, Told, Rows
<1>1. PICK root, kids, id, action : Effect(rule, root, kids, id, action)
  BY SaveEffect
<1>11. /\ id \in 1..MaxRules /\ action \in 1..MaxActions
       /\ answer'.ok \in BOOLEAN
       /\ ~answer'.ok => UNCHANGED <<rules, conditions, actions>>
       /\ answer'.ok =>
            /\ answer'.ok = tree.ok
            /\ Stored(rule, left, tree, root, kids)
            /\ conditions' = tree.rows
            /\ DOMAIN conditions' \subseteq 1..MaxConditions
            /\ actions' = actions \cup {action}
            /\ rules' = With(others, id, [condition |-> root, action |-> action])
  BY <1>1 DEF Effect
<1> HIDE DEF left, tree, others
<1>2. CASE ~answer'.ok
  BY <1>0, <1>11, <1>2 DEF Rows, TypeOK
<1>3. CASE answer'.ok
  <2>1. /\ conditions' = tree.rows /\ DOMAIN tree.rows \subseteq 1..MaxConditions
        /\ actions' = actions \cup {action} /\ actions' \subseteq 1..MaxActions
        /\ rules' = With(others, id, [condition |-> root, action |-> action])
    BY <1>11, <1>3 DEF Rows, TypeOK
  <2>2. /\ root \in Nat \ {0} /\ kids \in Seq(Nat \ {0}) /\ Len(kids) <= MaxChildren
        /\ DOMAIN tree.rows = DOMAIN left \cup Range(kids) \cup {root}
        /\ tree.rows[root] = kids
        /\ \A c \in Range(kids) : tree.rows[c] = <<>>
        /\ \A c \in DOMAIN left : tree.rows[c] = left[c]
    BY <1>11, <1>3 DEF Stored, Sendable
  <2>3. /\ DOMAIN left = DOMAIN conditions \ Replaced(rule)
        /\ \A c \in DOMAIN left : left[c] = conditions[c]
    BY DEF left, Without
  <2>4. DOMAIN others = DOMAIN rules
    BY DEF others, ConditionsNulled
  <2>5. \A r \in DOMAIN rules : rules'[r] =
          IF r = id THEN [condition |-> root, action |-> action] ELSE others[r]
    BY <2>1, <2>4 DEF With
  <2>6. rules'[id] = [condition |-> root, action |-> action] /\ DOMAIN rules' = DOMAIN rules \cup {id}
    BY <2>1, <2>4 DEF With
  <2>7. \A c \in DOMAIN conditions' : conditions'[c] \in BoundedSeq(1..MaxConditions, MaxChildren)
    <3> SUFFICES ASSUME NEW c \in DOMAIN conditions'
                 PROVE  conditions'[c] \in BoundedSeq(1..MaxConditions, MaxChildren)
      OBVIOUS
    <3>1. CASE c = root
      <4>1. Range(kids) \subseteq 1..MaxConditions
        BY <2>1, <2>2
      <4>2. kids \in Seq(1..MaxConditions)
        <5>1. \A i \in 1..Len(kids) : kids[i] \in 1..MaxConditions
          BY <2>2, <4>1, RangeOfSequence
        <5>2. kids \in [1..Len(kids) -> 1..MaxConditions] /\ Len(kids) \in Nat
          BY <2>2, <5>1
        <5> QED  BY <5>2, SeqDef
      <4> QED  BY <2>1, <2>2, <3>1, <4>2, SequencesOf, BoundsAreNumbers DEF BoundedSeq
    <3>2. CASE c \in Range(kids)
      <4>1. <<>> \in Seq(1..MaxConditions) /\ Len(<<>>) <= MaxChildren
        BY BoundsAreNumbers
      <4> QED  BY <2>1, <2>2, <3>2, <4>1, SequencesOf, BoundsAreNumbers DEF BoundedSeq
    <3>3. CASE c \in DOMAIN left
      BY <2>1, <2>2, <2>3, <3>3 DEF Rows, TypeOK
    <3> QED  BY <2>1, <2>2, <3>1, <3>2, <3>3
  <2>8. \A r \in DOMAIN rules' :
          /\ rules'[r] \in [condition : Nat, action : Nat]
          /\ rules'[r].condition \in DOMAIN conditions' \cup {0}
          /\ rules'[r].action \in actions' \cup {0}
    <3> SUFFICES ASSUME NEW r \in DOMAIN rules'
                 PROVE  /\ rules'[r] \in [condition : Nat, action : Nat]
                        /\ rules'[r].condition \in DOMAIN conditions' \cup {0}
                        /\ rules'[r].action \in actions' \cup {0}
      OBVIOUS
    <3>1. CASE r = id
      <4>1. action \in Nat
        BY <1>11
      <4> QED  BY <2>1, <2>2, <2>6, <3>1, <4>1
    <3>2. CASE r # id
      <4>1. r \in DOMAIN rules /\ rules'[r] = others[r]
        BY <2>5, <2>6, <3>2
      <4>2. /\ rules[r] \in [condition : Nat, action : Nat]
            /\ rules[r].condition \in DOMAIN conditions \cup {0}
            /\ rules[r].action \in actions \cup {0}
        BY <4>1 DEF Rows, TypeOK
      <4>3. /\ others[r] \in [condition : Nat, action : Nat]
            /\ others[r].action = rules[r].action
            /\ others[r].condition = IF rules[r].condition \in Replaced(rule) THEN 0 ELSE rules[r].condition
        BY <4>1, <4>2, NulledCondition DEF others
      <4> QED  BY <2>1, <2>2, <2>3, <4>1, <4>2, <4>3
    <3> QED  BY <3>1, <3>2
  <2>9. DOMAIN rules' \subseteq 1..MaxRules /\ DOMAIN conditions' \subseteq 1..MaxConditions
    BY <1>11, <2>1, <2>6 DEF Rows, TypeOK
  <2> QED  BY <1>0, <2>1, <2>7, <2>8, <2>9 DEF Rows, TypeOK
<1> QED  BY <1>11, <1>2, <1>3

\* The nodes of a condition in a given table.
NodesIn(cs, c) ==
  LET kids(d) == IF d \in DOMAIN cs THEN Range(cs[d]) ELSE {}
  IN  {c} \cup kids(c) \cup UNION {kids(d) : d \in kids(c)}

LEMMA FamilyIsNodes ==
  ASSUME NEW cs, NEW c, Flat(cs, c)
  PROVE  NodesIn(cs, c) = Family(cs, c) /\ Family(cs, c) \subseteq DOMAIN cs
<1> DEFINE kids(d) == IF d \in DOMAIN cs THEN Range(cs[d]) ELSE {}
<1>1. kids(c) = Range(cs[c])
  BY DEF Flat
<1>2. \A d \in Range(cs[c]) : kids(d) = {}
  <2>1. Range(<<>>) = {}
    BY DEF Range
  <2> QED  BY <2>1 DEF Flat
<1>3. UNION {kids(d) : d \in kids(c)} = {}
  BY <1>1, <1>2
<1>4. NodesIn(cs, c) = {c} \cup kids(c) \cup UNION {kids(d) : d \in kids(c)}
  BY DEF NodesIn
<1>5. Family(cs, c) \subseteq DOMAIN cs
  BY DEF Flat, Family
<1> HIDE DEF kids
<1> QED  BY <1>1, <1>3, <1>4, <1>5 DEF Family

LEMMA FamilySize ==
  ASSUME NEW c, NEW s \in Seq(Nat), \A i, j \in 1..Len(s) : s[i] = s[j] => i = j, c \notin Range(s)
  PROVE  Cardinality({c} \cup Range(s)) = Len(s) + 1
<1>1. Range(s) = {s[i] : i \in 1..Len(s)} /\ Len(s) \in Nat /\ s \in [1..Len(s) -> Nat]
  BY RangeOfSequence
<1>2. s \in Bijection(1..Len(s), Range(s))
  <2>1. s \in [1..Len(s) -> Range(s)]
    BY <1>1
  <2>2. \A t \in Range(s) : \E i \in 1..Len(s) : s[i] = t
    BY <1>1
  <2> QED  BY <2>1, <2>2 DEF Bijection, Injection, Surjection, IsInjective
<1>3. IsFiniteSet(1..Len(s)) /\ Cardinality(1..Len(s)) = Len(s)
  BY <1>1, FS_Interval
<1>4. IsFiniteSet(Range(s)) /\ Cardinality(Range(s)) = Len(s)
  BY <1>2, <1>3, FS_Bijection DEF ExistsBijection
<1>5. Cardinality(Range(s) \cup {c}) = Cardinality(Range(s)) + 1
  BY <1>4, FS_AddElement
<1>6. {c} \cup Range(s) = Range(s) \cup {c}
  OBVIOUS
<1> QED  BY <1>4, <1>5, <1>6

\* The database gives back what it accepted.
LEMMA SaveSent ==
  ASSUME Rows, NEW rule, Sendable(rule), Save(rule)
  PROVE  SavedAsSent'
<1> DEFINE left == Without(conditions, Replaced(rule))
           tree == InsertedTree(rule, left)
<1>1. PICK root, kids, id, action : Effect(rule, root, kids, id, action)
  BY SaveEffect
<1>2. /\ rule.id \in {0, id} /\ answer'.sent = rule /\ answer'.ok = tree.ok
      /\ answer'.ok =>
           /\ Stored(rule, left, tree, root, kids)
           /\ conditions' = tree.rows
           /\ rules' = With(ConditionsNulled(rules, Replaced(rule)), id,
                            [condition |-> root, action |-> action])
  BY <1>1 DEF Effect
<1> HIDE DEF left, tree
<1> SUFFICES ASSUME answer'.ok PROVE SavedAsSent'
  BY DEF SavedAsSent
<1>3. id \in DOMAIN rules' /\ rules'[id].condition = root
  BY <1>2 DEF With
<1>4. /\ root \in DOMAIN conditions' /\ conditions'[root] = kids
      /\ Range(kids) \subseteq DOMAIN conditions' /\ root \notin Range(kids)
      /\ \A c \in Range(kids) : conditions'[c] = <<>>
  BY <1>2 DEF Stored
<1>5. /\ kids \in Seq(Nat) /\ Len(kids) = Len(rule.children) /\ rule.root \in {0, root}
      /\ \A i \in 1..Len(kids) : rule.children[i] \in {0, kids[i]}
      /\ \A i, j \in 1..Len(kids) : kids[i] = kids[j] => i = j
  BY <1>2 DEF Stored
<1>6. Flat(conditions', root)
  BY <1>4 DEF Flat
<1>7. NodesIn(conditions', root) = {root} \cup Range(kids) /\ NodesIn(conditions', root) \subseteq DOMAIN conditions'
  BY <1>4, <1>6, FamilyIsNodes DEF Family
<1>8. Cardinality(NodesIn(conditions', root)) = Len(kids) + 1
  BY <1>4, <1>5, <1>7, FamilySize
<1>9. Nodes(rules[id].condition)' = NodesIn(conditions', root)
  BY <1>3 DEF Nodes, Children, NodesIn
<1>10. Readable(id)'
  BY <1>7, <1>9 DEF Readable
<1>11. DOMAIN kids = 1..Len(kids)
  BY <1>5
<1> QED
  <2>1. /\ answer'.sent.id \in {0, id}
        /\ answer'.sent.root \in {0, rules'[id].condition}
        /\ Len(conditions'[rules'[id].condition]) = Len(answer'.sent.children)
        /\ \A i \in DOMAIN conditions'[rules'[id].condition] :
             answer'.sent.children[i] \in {0, conditions'[rules'[id].condition][i]}
        /\ Cardinality(Nodes(rules[id].condition)') = Len(conditions'[rules'[id].condition]) + 1
    BY <1>2, <1>3, <1>4, <1>5, <1>8, <1>9, <1>11
  <2> QED  BY <1>3, <1>10, <2>1 DEF SavedAsSent

\* What is refused has both kinds of nodes.
LEMMA SaveRefused ==
  ASSUME Rows, NEW rule, Sendable(rule), Save(rule)
  PROVE  RefusedOnlyIfMixed'
<1> DEFINE left == Without(conditions, Replaced(rule))
           tree == InsertedTree(rule, left)
           ids == {rule.root} \cup Range(rule.children)
<1>1. answer'.sent = rule /\ answer'.ok = tree.ok
  <2>1. PICK root, kids, id, action : Effect(rule, root, kids, id, action)
    BY SaveEffect
  <2> QED  BY <2>1 DEF Effect
<1>2. Bounded(DOMAIN left) /\ DOMAIN left = DOMAIN conditions \ Replaced(rule)
  BY NumbersAreBounded, BoundedSubset DEF Without
<1>3. rule.children \in Seq(Nat) /\ rule.root \in Nat /\ Range(rule.children) = {rule.children[i] : i \in 1..Len(rule.children)}
  BY RangeOfSequence DEF Sendable
<1>4. ASSUME ids = {0} PROVE tree.ok
  <2>1. rule.root = 0 /\ \A i \in 1..Len(rule.children) : rule.children[i] = 0
    BY <1>3, <1>4
  <2> HIDE DEF left
  <2> QED  BY <1>2, <1>3, <2>1, TreeAccepted
<1>5. ASSUME 0 \notin ids PROVE tree.ok
  <2>1. rule.root # 0 /\ \A i \in 1..Len(rule.children) : rule.children[i] # 0
    BY <1>3, <1>5
  <2>2. Replaced(rule) = ids
    BY <1>5, <2>1 DEF Replaced
  <2>3. rule.root \notin DOMAIN left /\ \A i \in 1..Len(rule.children) : rule.children[i] \notin DOMAIN left
    BY <1>2, <1>3, <2>2
  <2>4. /\ \A i \in 1..Len(rule.children) : rule.children[i] # rule.root
        /\ \A i, j \in 1..Len(rule.children) : rule.children[i] = rule.children[j] => i = j
    BY <2>1 DEF Sendable
  <2> HIDE DEF left, ids
  <2> QED  BY <1>2, <1>3, <2>1, <2>3, <2>4, TreeAccepted
<1> HIDE DEF tree, left
<1> QED  BY <1>1, <1>4, <1>5 DEF RefusedOnlyIfMixed

-----------------------------------------------------------------------------
(* The rows of the other rules. *)

\* A rule and its rows are as they were.
Kept(rs, cs, rs2, cs2, q) ==
  /\ q \in DOMAIN rs2 /\ rs2[q] = rs[q]
  /\ \A c \in Family(cs, rs[q].condition) : c \in DOMAIN cs2 /\ cs2[c] = cs[c]

LEMMA KeptFamily ==
  ASSUME NEW rs, NEW cs, NEW rs2, NEW cs2, NEW q, Flat(cs, rs[q].condition), Kept(rs, cs, rs2, cs2, q)
  PROVE  /\ Flat(cs2, rs2[q].condition)
         /\ Family(cs2, rs2[q].condition) = Family(cs, rs[q].condition)
BY DEF Kept, Flat, Family

\* If all rules but one are kept, and this one has its own, so have all.
LEMMA OwnKept ==
  ASSUME NEW rs, NEW cs, NEW rs2, NEW cs2, Own(rs, cs), NEW x,
         \A q \in DOMAIN rs2 \ {x} : q \in DOMAIN rs /\ Kept(rs, cs, rs2, cs2, q),
         x \in DOMAIN rs2 =>
           /\ Flat(cs2, rs2[x].condition)
           /\ \A q \in DOMAIN rs2 \ {x} :
                /\ Family(cs2, rs2[x].condition) \cap Family(cs, rs[q].condition) = {}
                /\ rs2[x].action = rs[q].action => rs2[x].action = 0
  PROVE  Own(rs2, cs2)
<1>1. \A q \in DOMAIN rs2 \ {x} :
        /\ Flat(cs2, rs2[q].condition) /\ rs2[q].action = rs[q].action
        /\ Family(cs2, rs2[q].condition) = Family(cs, rs[q].condition)
  <2> SUFFICES ASSUME NEW q \in DOMAIN rs2 \ {x}
               PROVE  /\ Flat(cs2, rs2[q].condition) /\ rs2[q].action = rs[q].action
                      /\ Family(cs2, rs2[q].condition) = Family(cs, rs[q].condition)
    OBVIOUS
  <2>1. Kept(rs, cs, rs2, cs2, q) /\ Flat(cs, rs[q].condition)
    BY DEF Own
  <2> QED  BY <2>1, KeptFamily DEF Kept
<1>2. \A r \in DOMAIN rs2 : Flat(cs2, rs2[r].condition)
  BY <1>1
<1>3. ASSUME NEW r \in DOMAIN rs2, NEW q \in DOMAIN rs2, r # q
      PROVE  /\ Family(cs2, rs2[r].condition) \cap Family(cs2, rs2[q].condition) = {}
             /\ rs2[r].action = rs2[q].action => rs2[r].action = 0
  <2>1. CASE r # x /\ q # x
    BY <1>1, <1>3, <2>1 DEF Own
  <2>2. CASE r = x
    BY <1>1, <1>3, <2>2
  <2>3. CASE q = x
    BY <1>1, <1>3, <2>3
  <2> QED  BY <2>1, <2>2, <2>3
<1> QED  BY <1>2, <1>3 DEF Own

LEMMA SaveKeeps ==
  ASSUME Rows, Own(rules, conditions), NEW rule, Sendable(rule), Save(rule),
         \A q \in DOMAIN rules \ {rule.id} :
           /\ Replaced(rule) \cap Family(conditions, rules[q].condition) = {}
           /\ rules[q].action = rule.action => rule.action = 0
  PROVE  /\ Own(rules', conditions')
         /\ \A q \in DOMAIN rules \ {rule.id} : Kept(rules, conditions, rules', conditions', q)
<1> DEFINE left == Without(conditions, Replaced(rule))
           tree == InsertedTree(rule, left)
           others == ConditionsNulled(rules, Replaced(rule))
<1>1. PICK root, kids, id, action : Effect(rule, root, kids, id, action)
  BY SaveEffect
<1>2. /\ rule.id \in {0, id} /\ (rule.id = 0 => id \notin DOMAIN rules)
      /\ action \in 1..MaxActions /\ rule.action \in {0, action} /\ (rule.action = 0 => action \notin actions)
      /\ answer'.ok \in BOOLEAN
      /\ ~answer'.ok => UNCHANGED <<rules, conditions, actions>>
      /\ answer'.ok =>
           /\ answer'.ok = tree.ok
           /\ Stored(rule, left, tree, root, kids)
           /\ conditions' = tree.rows
           /\ rules' = With(others, id, [condition |-> root, action |-> action])
  BY <1>1 DEF Effect
<1>3. /\ DOMAIN left = DOMAIN conditions \ Replaced(rule)
      /\ \A c \in DOMAIN left : left[c] = conditions[c]
  BY DEF Without
<1>4. DOMAIN others = DOMAIN rules
  BY DEF ConditionsNulled
<1>5. \A q \in DOMAIN rules \ {rule.id} :
        /\ Family(conditions, rules[q].condition) \subseteq DOMAIN left
        /\ others[q] = rules[q]
  <2> SUFFICES ASSUME NEW q \in DOMAIN rules \ {rule.id}
               PROVE  Family(conditions, rules[q].condition) \subseteq DOMAIN left /\ others[q] = rules[q]
    OBVIOUS
  <2>1. Family(conditions, rules[q].condition) \subseteq DOMAIN conditions
    BY DEF Own, Flat, Family
  <2>2. rules[q].condition \notin Replaced(rule)
    BY DEF Family
  <2>3. others[q] = rules[q]
    BY <2>2, NulledCondition DEF Rows
  <2> QED  BY <1>3, <2>1, <2>3
<1>6. \A q \in DOMAIN rules : rules[q].action \in actions \cup {0}
  BY DEF Rows, TypeOK
<1> HIDE DEF left, tree, others
<1>7. CASE ~answer'.ok
  <2>1. rules' = rules /\ conditions' = conditions
    BY <1>2, <1>7
  <2>2. \A q \in DOMAIN rules \ {rule.id} : Kept(rules, conditions, rules, conditions, q)
    BY <1>3, <1>5 DEF Kept
  <2> QED  BY <2>1, <2>2
<1>8. CASE answer'.ok
  <2>1. DOMAIN rules' = DOMAIN rules \cup {id} /\ rules'[id] = [condition |-> root, action |-> action]
    BY <1>2, <1>4, <1>8 DEF With
  <2>2. \A q \in DOMAIN rules \ {rule.id} : q # id /\ rules'[q] = rules[q]
    BY <1>2, <1>4, <1>5, <1>8 DEF With
  <2>3. \A c \in DOMAIN left : c \in DOMAIN conditions' /\ conditions'[c] = left[c]
    BY <1>2, <1>8 DEF Stored
  <2>4. \A q \in DOMAIN rules \ {rule.id} : Kept(rules, conditions, rules', conditions', q)
    BY <1>3, <1>5, <2>1, <2>2, <2>3 DEF Kept
  <2>5. /\ root \in DOMAIN conditions' /\ conditions'[root] = kids
        /\ Range(kids) \subseteq DOMAIN conditions'
        /\ \A c \in Range(kids) : conditions'[c] = <<>>
        /\ DOMAIN left \cap ({root} \cup Range(kids)) = {}
    BY <1>2, <1>8 DEF Stored
  <2>6. Flat(conditions', rules'[id].condition) /\ Family(conditions', rules'[id].condition) = {root} \cup Range(kids)
    BY <2>1, <2>5 DEF Flat, Family
  <2>7. DOMAIN rules' \ {id} \subseteq DOMAIN rules \ {rule.id}
    <3>1. 0 \notin DOMAIN rules
      BY DEF Rows, TypeOK
    <3> QED  BY <1>2, <2>1, <3>1
  <2>8. ASSUME NEW q \in DOMAIN rules' \ {id}
        PROVE  /\ Family(conditions', rules'[id].condition) \cap Family(conditions, rules[q].condition) = {}
               /\ rules'[id].action = rules[q].action => rules'[id].action = 0
    <3>1. Family(conditions', rules'[id].condition) \cap Family(conditions, rules[q].condition) = {}
      BY <1>5, <2>5, <2>6, <2>7
    <3>2. rules'[id].action = action /\ action # 0
      BY <1>2, <2>1
    <3>3. rules[q].action # action
      BY <1>2, <1>6, <2>7, <3>2
    <3> QED  BY <3>1, <3>2, <3>3
  <2>9. Own(rules', conditions')
    BY <2>4, <2>6, <2>7, <2>8, OwnKept
  <2> QED  BY <2>4, <2>9
<1> QED  BY <1>2, <1>7, <1>8

\* What a command does to the rules if no client saves a stale copy: at most one is changed.
OneChanged ==
  /\ Own(rules', conditions')
  /\ \E x : /\ answer'.sent # None => x = answer'.sent.id
            /\ \A q \in DOMAIN rules \ {x} : Kept(rules, conditions, rules', conditions', q)

LEMMA AllKept ==
  ASSUME Own(rules, conditions)
  PROVE  \A q \in DOMAIN rules : Kept(rules, conditions, rules, conditions, q)
BY DEF Own, Kept, Flat, Family

LEMMA UnchangedKeeps ==
  ASSUME Own(rules, conditions), rules' = rules, conditions' = conditions
  PROVE  OneChanged
BY AllKept DEF OneChanged

LEMMA SentAnswer ==
  ASSUME NEW rule, Save(rule)
  PROVE  answer'.sent = rule
BY DEF Save

LEMMA AddRuleKeeps ==
  ASSUME Rows, Own(rules, conditions), AddRule
  PROVE  OneChanged
<1>1. PICK n \in 0..MaxChildren :
        Save([id |-> 0, root |-> 0, children |-> [i \in 1..n |-> 0], action |-> 0])
  BY DEF AddRule
<1> DEFINE rule == [id |-> 0, root |-> 0, children |-> [i \in 1..n |-> 0], action |-> 0]
<1>2. Sendable(rule) /\ Save(rule) /\ answer'.sent = rule
  BY <1>1, NewRuleSendable, SentAnswer
<1>3. Replaced(rule) = {} /\ rule.action = 0
  BY DEF Replaced
<1> HIDE DEF rule
<1> QED  BY <1>2, <1>3, SaveKeeps DEF OneChanged

LEMMA SaveRuleKeeps ==
  ASSUME Rows, Own(rules, conditions), CopyIsRule, SaveRule
  PROVE  OneChanged
<1>1. PICK rule \in Edits(copy) : Save(rule)
  BY DEF SaveRule
<1>2. copy \in Copies /\ copy.id \in DOMAIN rules /\ copy = Read(copy.id)
  BY DEF SaveRule, CopyIsRule, Rows
<1>3. /\ Sendable(rule) /\ rule.id = copy.id /\ rule.action = copy.action
      /\ {rule.root} \cup Range(rule.children) \subseteq {0, copy.root} \cup Range(copy.children)
  BY <1>2, EditsSendable
<1>4. /\ copy.root = rules[copy.id].condition /\ copy.children = conditions[copy.root]
      /\ copy.action = rules[copy.id].action
  BY <1>2 DEF Read
<1>5. Replaced(rule) \subseteq Family(conditions, rules[copy.id].condition)
  BY <1>3, <1>4 DEF Replaced, Family
<1>6. \A q \in DOMAIN rules \ {rule.id} :
        /\ Replaced(rule) \cap Family(conditions, rules[q].condition) = {}
        /\ rules[q].action = rule.action => rule.action = 0
  BY <1>2, <1>3, <1>4, <1>5 DEF Own
<1>7. answer'.sent = rule
  BY <1>1, SentAnswer
<1> QED  BY <1>1, <1>3, <1>6, <1>7, SaveKeeps DEF OneChanged

LEMMA RemoveRuleKeeps ==
  ASSUME Rows, Own(rules, conditions), NEW r, RemoveRule(r)
  PROVE  OneChanged
<1>1. CASE ~ReadFirst(r)
  BY <1>1, UnchangedKeeps DEF RemoveRule
<1>2. CASE ReadFirst(r)
  <2> DEFINE nodes == RemovedNodes(r)
             a == rules[r].action
             rest == Without(rules, {r})
             nulled == ConditionsNulled(rest, nodes)
  <2>1. /\ r \in DOMAIN rules
        /\ rules' = ActionsNulled(nulled, {a}) /\ conditions' = Without(conditions, nodes)
    BY <1>2 DEF RemoveRule, ReadFirst
  <2>2. nodes = Family(conditions, rules[r].condition)
    <3>1. nodes = NodesIn(conditions, rules[r].condition)
      BY DEF RemovedNodes, Nodes, Children, NodesIn
    <3> QED  BY <2>1, <3>1, FamilyIsNodes DEF Own
  <2>3. /\ DOMAIN rest = DOMAIN rules \ {r} /\ DOMAIN nulled = DOMAIN rules \ {r}
        /\ DOMAIN rules' = DOMAIN rules \ {r} /\ DOMAIN conditions' = DOMAIN conditions \ nodes
    BY <2>1 DEF Without, ConditionsNulled, ActionsNulled
  <2>4. \A c \in DOMAIN conditions' : conditions'[c] = conditions[c]
    BY <2>1 DEF Without
  <2> HIDE DEF nodes
  <2>5. ASSUME NEW q \in DOMAIN rules \ {r} PROVE Kept(rules, conditions, rules', conditions', q)
    <3>1. /\ Family(conditions, rules[r].condition) \cap Family(conditions, rules[q].condition) = {}
          /\ rules[r].action = rules[q].action => rules[r].action = 0
          /\ Family(conditions, rules[q].condition) \subseteq DOMAIN conditions
      BY <2>1 DEF Own, Flat, Family
    <3>2. rest[q] = rules[q] /\ rules[q] \in [condition : Nat, action : Nat] /\ q \in DOMAIN rest
      BY <2>3 DEF Without, Rows
    <3>3. rules[q].condition \notin nodes
      BY <2>2, <3>1 DEF Family
    <3>4. nulled[q] = rules[q]
      <4> HIDE DEF rest
      <4> QED  BY <3>2, <3>3, NulledCondition
    <3>5. rules[q].action \notin {a} \ {0}
      BY <3>1
    <3>6. rules'[q] = rules[q]
      <4> HIDE DEF nulled, a
      <4> QED  BY <2>1, <2>3, <3>2, <3>4, <3>5, NulledAction
    <3>7. \A c \in Family(conditions, rules[q].condition) : c \in DOMAIN conditions'
      BY <2>2, <2>3, <3>1
    <3> QED  BY <2>3, <2>4, <3>6, <3>7 DEF Kept
  <2>6. Own(rules', conditions')
    <3> HIDE DEF rest, nulled, a
    <3> QED  BY <2>3, <2>5, OwnKept
  <2>7. answer'.sent = None
    BY DEF RemoveRule, NoAnswer
  <2> HIDE DEF rest, nulled, a
  <2> QED  BY <2>5, <2>6, <2>7 DEF OneChanged
<1> QED  BY <1>1, <1>2

LEMMA RemoveActionKeeps ==
  ASSUME Rows, Own(rules, conditions), NEW a \in actions, RemoveAction(a)
  PROVE  OneChanged
<1>1. rules' = ActionsNulled(rules, {a}) /\ conditions' = conditions /\ answer'.sent = None
  BY DEF RemoveAction, NoAnswer
<1>2. a # 0
  BY DEF Rows, TypeOK
<1>3. DOMAIN rules' = DOMAIN rules
  BY <1>1 DEF ActionsNulled
<1>4. \A q \in DOMAIN rules :
        /\ rules'[q].condition = rules[q].condition
        /\ rules'[q].action = IF rules[q].action = a THEN 0 ELSE rules[q].action
        /\ rules[q].action # a => rules'[q] = rules[q]
  BY <1>1, NulledAction DEF Rows
<1>5. Own(rules', conditions')
  <2>1. \A r \in DOMAIN rules' : Flat(conditions', rules'[r].condition)
    BY <1>1, <1>3, <1>4 DEF Own
  <2>2. ASSUME NEW r \in DOMAIN rules', NEW q \in DOMAIN rules', r # q
        PROVE  /\ Family(conditions', rules'[r].condition) \cap Family(conditions', rules'[q].condition) = {}
               /\ rules'[r].action = rules'[q].action => rules'[r].action = 0
    <3>1. /\ Family(conditions, rules[r].condition) \cap Family(conditions, rules[q].condition) = {}
          /\ rules[r].action = rules[q].action => rules[r].action = 0
      BY <1>3, <2>2 DEF Own
    <3> QED  BY <1>1, <1>3, <1>4, <3>1
  <2> QED  BY <2>1, <2>2 DEF Own
<1>6. ASSUME NEW q \in DOMAIN rules, rules[q].action # a
      PROVE  Kept(rules, conditions, rules', conditions', q)
  BY <1>1, <1>3, <1>4, <1>6 DEF Own, Kept, Flat, Family
<1>7. CASE \E x \in DOMAIN rules : rules[x].action = a
  <2>1. PICK x \in DOMAIN rules : rules[x].action = a
    BY <1>7
  <2>2. \A q \in DOMAIN rules \ {x} : rules[q].action # a
    BY <1>2, <2>1 DEF Own
  <2> QED  BY <1>1, <1>5, <1>6, <2>2 DEF OneChanged
<1>8. CASE ~\E x \in DOMAIN rules : rules[x].action = a
  BY <1>1, <1>5, <1>6, <1>8 DEF OneChanged
<1> QED  BY <1>7, <1>8

-----------------------------------------------------------------------------
(* The invariant is one. *)

LEMMA RemoveRuleRows ==
  ASSUME Rows, NEW r, RemoveRule(r)
  PROVE  Rows'
<1>0. copy' \in Copies \cup {None}
  BY DEF RemoveRule, Told, Rows
<1>1. CASE ~ReadFirst(r)
  BY <1>0, <1>1 DEF RemoveRule, Rows, TypeOK
<1>2. CASE ReadFirst(r)
  <2> DEFINE nodes == RemovedNodes(r)
             a == rules[r].action
             rest == Without(rules, {r})
             nulled == ConditionsNulled(rest, nodes)
  <2>1. /\ rules' = ActionsNulled(nulled, {a})
        /\ conditions' = Without(conditions, nodes) /\ actions' = actions \ {a}
    BY <1>2 DEF RemoveRule
  <2>2. /\ DOMAIN rest = DOMAIN rules \ {r} /\ DOMAIN nulled = DOMAIN rules \ {r}
        /\ DOMAIN rules' = DOMAIN rules \ {r} /\ DOMAIN conditions' = DOMAIN conditions \ nodes
    BY <2>1 DEF Without, ConditionsNulled, ActionsNulled
  <2>3. \A c \in DOMAIN conditions' : conditions'[c] = conditions[c]
    BY <2>1 DEF Without
  <2>4. ASSUME NEW q \in DOMAIN rules'
        PROVE  /\ rules'[q] \in [condition : Nat, action : Nat]
               /\ rules'[q].condition \in DOMAIN conditions' \cup {0}
               /\ rules'[q].action \in actions' \cup {0}
    <3>1. /\ rest[q] = rules[q] /\ q \in DOMAIN rest /\ q \in DOMAIN rules
          /\ rules[q] \in [condition : Nat, action : Nat]
          /\ rules[q].condition \in DOMAIN conditions \cup {0}
          /\ rules[q].action \in actions \cup {0}
      BY <2>2 DEF Without, Rows, TypeOK
    <3> HIDE DEF rest
    <3>2. /\ nulled[q] \in [condition : Nat, action : Nat]
          /\ nulled[q].action = rules[q].action
          /\ nulled[q].condition = IF rules[q].condition \in nodes THEN 0 ELSE rules[q].condition
      BY <3>1, NulledCondition
    <3> HIDE DEF nulled, a
    <3>3. /\ rules'[q] \in [condition : Nat, action : Nat]
          /\ rules'[q].condition = nulled[q].condition
          /\ rules'[q].action = IF nulled[q].action \in {a} THEN 0 ELSE nulled[q].action
      BY <2>1, <2>2, <3>2, NulledAction
    <3> HIDE DEF nodes
    <3> QED  BY <2>1, <2>2, <3>1, <3>2, <3>3
  <2> HIDE DEF rest, nulled, a, nodes
  <2> QED  BY <1>0, <2>1, <2>2, <2>3, <2>4 DEF Rows, TypeOK
<1> QED  BY <1>1, <1>2

LEMMA RemoveActionRows ==
  ASSUME Rows, NEW a \in actions, RemoveAction(a)
  PROVE  Rows'
<1>1. rules' = ActionsNulled(rules, {a}) /\ conditions' = conditions /\ actions' = actions \ {a}
  BY DEF RemoveAction
<1>2. DOMAIN rules' = DOMAIN rules
  BY <1>1 DEF ActionsNulled
<1>3. \A q \in DOMAIN rules :
        /\ rules'[q] \in [condition : Nat, action : Nat]
        /\ rules'[q].condition = rules[q].condition
        /\ rules'[q].action = IF rules[q].action = a THEN 0 ELSE rules[q].action
  BY <1>1, NulledAction DEF Rows
<1>4. copy' \in Copies \cup {None}
  BY DEF RemoveAction, Told, Rows
<1> QED  BY <1>1, <1>2, <1>3, <1>4 DEF Rows, TypeOK

LEMMA AddActionRows ==
  ASSUME Rows, AddAction
  PROVE  Rows'
<1>1. Next1(actions) \in 1..MaxActions
  BY NumbersAreBounded, NextIsNew, BoundsAreNumbers DEF AddAction
<1>2. copy' \in Copies \cup {None}
  BY DEF AddAction, Told, Rows
<1> QED  BY <1>1, <1>2 DEF AddAction, Rows, TypeOK

LEMMA GetRuleRows ==
  ASSUME Rows, NEW r \in DOMAIN rules, GetRule(r)
  PROVE  Rows'
<1>1. rules[r].condition \in DOMAIN conditions
  BY DEF GetRule, Readable, Nodes
<1>2. Read(r) \in Copies
  <2>1. /\ r \in 1..MaxRules /\ rules[r].condition \in 1..MaxConditions
        /\ conditions[rules[r].condition] \in BoundedSeq(1..MaxConditions, MaxChildren)
    BY <1>1 DEF Rows, TypeOK
  <2>2. rules[r].action \in 0..MaxActions
    BY BoundsAreNumbers DEF Rows, TypeOK
  <2> QED  BY <2>1, <2>2 DEF Read, Copies
<1> QED  BY <1>2 DEF GetRule, Rows, TypeOK

LEMMA SaveRuleRows ==
  ASSUME Rows, NEW rule \in Edits(copy), copy # None, Save(rule)
  PROVE  Rows' /\ SavedAsSent' /\ RefusedOnlyIfMixed'
BY EditsSendable, SaveRows, SaveSent, SaveRefused DEF Rows

\* One step keeps the rows, and its answer is right.
LEMMA NextKeepsRows ==
  ASSUME Rows, Next
  PROVE  Rows' /\ SavedAsSent' /\ RefusedOnlyIfMixed'
<1>1. ASSUME answer' = NoAnswer PROVE SavedAsSent' /\ RefusedOnlyIfMixed'
  BY <1>1 DEF NoAnswer, SavedAsSent, RefusedOnlyIfMixed
<1>2. CASE AddRule
  <2>1. PICK n \in 0..MaxChildren :
          Save([id |-> 0, root |-> 0, children |-> [i \in 1..n |-> 0], action |-> 0])
    BY <1>2 DEF AddRule
  <2> QED  BY <2>1, NewRuleSendable, SaveRows, SaveSent, SaveRefused
<1>3. CASE SaveRule
  BY <1>3, SaveRuleRows DEF SaveRule
<1>4. ASSUME NEW r \in 1..MaxRules, RemoveRule(r) PROVE Rows' /\ answer' = NoAnswer
  BY <1>4, RemoveRuleRows DEF RemoveRule
<1>5. ASSUME NEW r \in DOMAIN rules, GetRule(r) PROVE Rows' /\ answer' = NoAnswer
  BY <1>5, GetRuleRows DEF GetRule
<1>6. CASE AddAction
  BY <1>1, <1>6, AddActionRows DEF AddAction
<1>7. ASSUME NEW a \in actions, RemoveAction(a) PROVE Rows' /\ answer' = NoAnswer
  BY <1>7, RemoveActionRows DEF RemoveAction
<1> QED  BY <1>1, <1>2, <1>3, <1>4, <1>5, <1>6, <1>7 DEF Next

LEMMA NextKeepsOwn ==
  ASSUME Rows, Own(rules, conditions), CopyIsRule, ~Stale, Next
  PROVE  OneChanged /\ CopyIsRule'
<1>1. CASE AddRule
  BY <1>1, AddRuleKeeps DEF AddRule, Save, Told, CopyIsRule
<1>2. CASE SaveRule
  BY <1>2, SaveRuleKeeps DEF SaveRule, Save, Told, CopyIsRule
<1>3. ASSUME NEW r \in 1..MaxRules, RemoveRule(r) PROVE OneChanged /\ CopyIsRule'
  BY <1>3, RemoveRuleKeeps DEF RemoveRule, Told, CopyIsRule
<1>4. ASSUME NEW r \in DOMAIN rules, GetRule(r) PROVE OneChanged /\ CopyIsRule'
  <2>1. OneChanged
    BY <1>4, UnchangedKeeps DEF GetRule
  <2>2. copy' = Read(r) /\ rules' = rules /\ conditions' = conditions
    BY <1>4 DEF GetRule
  <2>3. copy'.id = r /\ Read(r)' = Read(r)
    BY <2>2 DEF Read
  <2> QED  BY <2>1, <2>2, <2>3 DEF CopyIsRule, Read
<1>5. CASE AddAction
  BY <1>5, UnchangedKeeps DEF AddAction, Told, CopyIsRule
<1>6. ASSUME NEW a \in actions, RemoveAction(a) PROVE OneChanged /\ CopyIsRule'
  BY <1>6, RemoveActionKeeps DEF RemoveAction, Told, CopyIsRule
<1> QED  BY <1>1, <1>2, <1>3, <1>4, <1>5, <1>6 DEF Next

Correct == IInv /\ SavedAsSent /\ RefusedOnlyIfMixed

LEMMA InitCorrect == Init => Correct
<1> SUFFICES ASSUME Init PROVE Correct
  OBVIOUS
<1>1. DOMAIN rules = {} /\ DOMAIN conditions = {} /\ actions = {} /\ copy = None /\ answer = NoAnswer
  BY DEF Init
<1>2. Rows
  BY <1>1 DEF Rows, TypeOK
<1>3. Own(rules, conditions) /\ CopyIsRule
  BY <1>1 DEF Own, CopyIsRule
<1>4. SavedAsSent /\ RefusedOnlyIfMixed
  BY <1>1 DEF NoAnswer, SavedAsSent, RefusedOnlyIfMixed
<1> QED  BY <1>2, <1>3, <1>4 DEF Correct, IInv

LEMMA NextCorrect == Correct /\ [Next]_vars => Correct'
<1> SUFFICES ASSUME Correct, [Next]_vars PROVE Correct'
  OBVIOUS
<1>1. CASE Next
  <2>1. Rows' /\ SavedAsSent' /\ RefusedOnlyIfMixed'
    BY <1>1, NextKeepsRows DEF Correct, IInv
  <2>2. ~Stale => Own(rules', conditions') /\ CopyIsRule'
    BY <1>1, NextKeepsOwn DEF Correct, IInv, OneChanged
  <2> QED  BY <2>1, <2>2 DEF Correct, IInv
<1>2. CASE UNCHANGED vars
  <2>1. Rows'
    BY <1>2 DEF vars, Correct, IInv, Rows, TypeOK
  <2>2. ~Stale => Own(rules', conditions') /\ CopyIsRule'
    BY <1>2 DEF vars, Correct, IInv, CopyIsRule, Read
  <2>3. RefusedOnlyIfMixed'
    BY <1>2 DEF vars, Correct, RefusedOnlyIfMixed
  <2>4. SavedAsSent'
    <3>1. SavedAsSent' = SavedAsSent
      BY <1>2 DEF vars, SavedAsSent, Readable, Nodes, Children
    <3> QED  BY <3>1 DEF Correct
  <2> QED  BY <2>1, <2>2, <2>3, <2>4 DEF Correct, IInv
<1> QED  BY <1>1, <1>2

THEOREM AlwaysCorrect == Spec => []Correct
BY InitCorrect, NextCorrect, PTL DEF Spec

LEMMA OwnIntact ==
  ASSUME Own(rules, conditions)
  PROVE  RulesIntact
<1>1. \A r \in DOMAIN rules :
        /\ Nodes(rules[r].condition) = Family(conditions, rules[r].condition)
        /\ Nodes(rules[r].condition) \subseteq DOMAIN conditions
  <2> SUFFICES ASSUME NEW r \in DOMAIN rules
               PROVE  /\ Nodes(rules[r].condition) = Family(conditions, rules[r].condition)
                      /\ Nodes(rules[r].condition) \subseteq DOMAIN conditions
    OBVIOUS
  <2>1. Nodes(rules[r].condition) = NodesIn(conditions, rules[r].condition)
    BY DEF Nodes, Children, NodesIn
  <2>2. Flat(conditions, rules[r].condition)
    BY DEF Own
  <2> QED  BY <2>1, <2>2, FamilyIsNodes
<1>2. EveryRuleReadable
  BY <1>1 DEF EveryRuleReadable, Readable
<1>3. NothingShared
  BY <1>1 DEF Own, NothingShared
<1> QED  BY <1>2, <1>3 DEF RulesIntact

LEMMA KeptView ==
  ASSUME NEW q \in DOMAIN rules, Flat(conditions, rules[q].condition),
         Kept(rules, conditions, rules', conditions', q)
  PROVE  q \in DOMAIN rules' /\ View(q)' = View(q)
<1>1. /\ q \in DOMAIN rules' /\ rules'[q] = rules[q]
      /\ \A c \in Family(conditions, rules[q].condition) : c \in DOMAIN conditions' /\ conditions'[c] = conditions[c]
  BY DEF Kept
<1>2. /\ Flat(conditions', rules'[q].condition)
      /\ Family(conditions', rules'[q].condition) = Family(conditions, rules[q].condition)
  BY KeptFamily
<1>3. /\ NodesIn(conditions, rules[q].condition) = Family(conditions, rules[q].condition)
      /\ NodesIn(conditions', rules'[q].condition) = Family(conditions, rules[q].condition)
      /\ Family(conditions, rules[q].condition) \subseteq DOMAIN conditions
  BY <1>2, FamilyIsNodes
<1>4. Nodes(rules[q].condition) = Family(conditions, rules[q].condition)
  BY <1>3 DEF Nodes, Children, NodesIn
<1>5. Nodes(rules[q].condition)' = Family(conditions, rules[q].condition)
  BY <1>3 DEF Nodes, Children, NodesIn
<1> DEFINE family == Family(conditions, rules[q].condition)
<1>6. View(q) = <<rules[q], [c \in family |-> conditions[c]]>>
  BY <1>3, <1>4 DEF View
<1>7. View(q)' = <<rules'[q], [c \in family |-> conditions'[c]]>>
  BY <1>1, <1>5 DEF View
<1>8. [c \in family |-> conditions'[c]] = [c \in family |-> conditions[c]]
  BY <1>1
<1> QED  BY <1>1, <1>6, <1>7, <1>8

\* What one step changes, if no client saves a stale copy.
LEMMA StepChangesOne ==
  ASSUME ~Stale, Correct, Next
  PROVE  LET changed == {r \in DOMAIN rules : r \notin DOMAIN rules' \/ View(r)' # View(r)}
         IN  /\ Cardinality(changed) <= 1
             /\ answer'.sent # None => changed \subseteq {answer'.sent.id}
<1> DEFINE changed == {r \in DOMAIN rules : r \notin DOMAIN rules' \/ View(r)' # View(r)}
<1>1. OneChanged
  BY NextKeepsOwn DEF Correct, IInv
<1>2. PICK x : /\ answer'.sent # None => x = answer'.sent.id
               /\ \A q \in DOMAIN rules \ {x} : Kept(rules, conditions, rules', conditions', q)
  BY <1>1 DEF OneChanged
<1>3. \A q \in DOMAIN rules \ {x} : q \in DOMAIN rules' /\ View(q)' = View(q)
  BY <1>2, KeptView DEF Correct, IInv, Own
<1>4. changed \subseteq {x}
  BY <1>3
<1> HIDE DEF changed
<1>5. changed = {} \/ changed = {x}
  BY <1>4
<1>6. Cardinality(changed) \in {0, 1}
  BY <1>5, FS_EmptySet, FS_Singleton
<1> QED  BY <1>2, <1>4, <1>6 DEF changed

-----------------------------------------------------------------------------
(* The theorems. *)

\* The tables hold rows of their kind, and no reference that is declared dangles.
THEOREM TablesTyped == Spec => []TypeOK
<1>1. Correct => TypeOK
  BY DEF Correct, IInv, Rows
<1> QED  BY <1>1, AlwaysCorrect, PTL

\* The database gives back every rule it accepted as it was sent.
THEOREM AcceptedIsStored == Spec => []SavedAsSent
<1>1. Correct => SavedAsSent
  BY DEF Correct
<1> QED  BY <1>1, AlwaysCorrect, PTL

\* It refuses only conditions that mix new nodes with old ones.
THEOREM OnlyMixedRefused == Spec => []RefusedOnlyIfMixed
<1>1. Correct => RefusedOnlyIfMixed
  BY DEF Correct
<1> QED  BY <1>1, AlwaysCorrect, PTL

\* If no client saves a copy that is out of date, every rule can be read
\* and shares no row with another,
THEOREM FreshKeepsIntact ==
  ASSUME ~Stale
  PROVE  Spec => []RulesIntact
<1>1. Correct => RulesIntact
  BY OwnIntact DEF Correct, IInv
<1> QED  BY <1>1, AlwaysCorrect, PTL

\* and a command changes one rule at most, a save the one that it names.
THEOREM FreshLeavesOthers ==
  ASSUME ~Stale
  PROVE  Spec => OthersUntouched
<1>1. Correct /\ [Next]_vars =>
        [LET changed == {r \in DOMAIN rules : r \notin DOMAIN rules' \/ View(r)' # View(r)}
         IN  /\ Cardinality(changed) <= 1
             /\ answer'.sent # None => changed \subseteq {answer'.sent.id}]_vars
  BY StepChangesOne
<1> QED  BY <1>1, AlwaysCorrect, PTL DEF Spec, OthersUntouched

=============================================================================
