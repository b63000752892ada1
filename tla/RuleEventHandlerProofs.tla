------------------------ MODULE RuleEventHandlerProofs ------------------------
(***************************************************************************)
(* Theorems about the timer for rules, for every set of rules, every       *)
(* sequence of events and every schedule of the threads and the clock.     *)
(***************************************************************************)
EXTENDS RuleEventHandler, SequenceTheorems, FiniteSetTheorems, TLAPS

\* The members, with the types of the sequences.
Types ==
  /\ m_timedRules \in Seq(AllRules) /\ copy \in Seq(AllRules) /\ db \subseteq AllRules
  /\ Len(copy) = IF pc = "executing" THEN 1 ELSE 0
  /\ m_shutdownThread \in BOOLEAN
  /\ pc \in {"woken", "check", "executing", "next", "decide", "waiting", "done", "crashed"}
  /\ nextCheck \in Nat /\ now \in 0..MaxTime
  /\ hpc \in {"idle", "effect", "schedule", "check"} /\ dpc \in {"alive", "flagSet", "joining"}
  /\ changing \in Seq(AllRules) /\ Len(changing) = IF hpc \in {"effect", "schedule"} THEN 1 ELSE 0
  /\ m_shutdownThread <=> dpc # "alive"
  /\ fired \in [Ids -> Seq(0..now)]

\* No id is twice in s, but for those in ids.
Unique(s, ids) == \A i, j \in 1..Len(s) : s[i].id = s[j].id => i = j \/ s[i].id \in ids

\* The rule that the thread executes is not in the heap as well, unless it was changed.
NotInBoth ==
  \A x \in ToSet(m_timedRules), y \in ToSet(copy) : x.id = y.id => x.id \in overtaken

IInv == Types /\ Unique(m_timedRules, overtaken) /\ NotInBoth

-----------------------------------------------------------------------------
(* The clock. *)

\* A non-empty set of numbers has a least one.
LEMMA LeastExists ==
  ASSUME NEW S \in SUBSET Nat, S # {}
  PROVE  \E x \in S : \A y \in S : x <= y
<1> DEFINE T == {0..x : x \in S}
<1>1. T \subseteq FiniteSubsetsOf(Nat) /\ T # {}
  <2>1. \A x \in S : IsFiniteSet(0..x) /\ 0..x \in SUBSET Nat
    BY FS_Interval
  <2>2. \A x \in S : 0..x \in FiniteSubsetsOf(Nat)
    BY <2>1 DEF FiniteSubsetsOf
  <2> QED  BY <2>2
<1>2. PICK x \in S : \A y \in S : <<0..y, 0..x>> \notin StrictSubsetOrdering(Nat)
  <2> HIDE DEF T
  <2>1. PICK s \in T : \A u \in T : <<u, s>> \notin StrictSubsetOrdering(Nat)
    BY <1>1, FS_StrictSubsetOrderingWellFounded, WFMin
  <2> QED  BY <2>1 DEF T
<1>3. \A y \in S : x <= y
  <2> SUFFICES ASSUME NEW y \in S, y < x PROVE FALSE
    OBVIOUS
  <2>1. /\ 0..y \in SUBSET Nat /\ 0..x \in SUBSET Nat
        /\ 0..y \subseteq 0..x /\ x \in 0..x /\ x \notin 0..y
    OBVIOUS
  <2>2. <<0..y, 0..x>> \in StrictSubsetOrdering(Nat)
    BY <2>1 DEF StrictSubsetOrdering
  <2> QED  BY <2>2, <1>2
<1> QED  BY <1>3

\* The next execution time of a condition is in the future, or never.
LEMMA GetNextExecutionTimeIsLater ==
  ASSUME NEW c \in TimeCondition, NEW t \in Nat
  PROVE  /\ GetNextExecutionTime(c, t) \in Nat
         /\ GetNextExecutionTime(c, t) = Never \/ GetNextExecutionTime(c, t) > t
         /\ c.timeType = "hourMinSec" => GetNextExecutionTime(c, t) > t
<1>1. t % Day \in 0..(Day - 1) /\ t % Day <= t /\ Day \in Nat
  BY DayAssumption
<1>2. LastMidnight(t) \in Nat /\ LastMidnight(t) <= t /\ t < LastMidnight(t) + Day
  BY <1>1 DEF LastMidnight
<1>3. /\ c.time1 \in Nat /\ c.timeType \in {"hourMinSec", "absolute"}
      /\ c.compare \in {"equals", "greater", "less"}
  BY DEF TimeCondition
<1> QED  BY <1>1, <1>2, <1>3 DEF GetNextExecutionTime, Never

\* A rule that recurs runs again, whatever the clock shows.
LEMMA NextExecutionTimeIsLater ==
  ASSUME NEW r, IsRule(r), NEW t \in Nat
  PROVE  /\ NextExecutionTime(r, t) \in Nat
         /\ Recurs(r) => NextExecutionTime(r, t) > t
<1> DEFINE times == {GetNextExecutionTime(c, t) : c \in r.conditions} \ {Never}
<1>1. \A c \in r.conditions : c \in TimeCondition
  BY DEF IsRule
<1>2. times \in SUBSET Nat /\ \A n \in times : n > t
  BY <1>1, GetNextExecutionTimeIsLater
<1>3. Recurs(r) => times # {}
  <2> SUFFICES ASSUME NEW c \in r.conditions, c.timeType = "hourMinSec" PROVE times # {}
    BY DEF Recurs
  <2>1. GetNextExecutionTime(c, t) \in Nat /\ GetNextExecutionTime(c, t) > t
    BY <1>1, GetNextExecutionTimeIsLater
  <2>2. GetNextExecutionTime(c, t) # Never
    BY <2>1 DEF Never
  <2> QED  BY <2>2
<1>4. NextExecutionTime(r, t) = IF times = {} THEN Never
                                ELSE CHOOSE n \in times : \A m \in times : n <= m
  BY DEF NextExecutionTime
<1> HIDE DEF times
<1>5. CASE times = {}
  BY <1>3, <1>4, <1>5 DEF Never
<1>6. CASE times # {}
  <2>1. \E n \in times : \A m \in times : n <= m
    BY <1>2, <1>6, LeastExists
  <2>2. NextExecutionTime(r, t) \in times
    BY <1>4, <1>6, <2>1
  <2> QED  BY <1>2, <2>2
<1> QED  BY <1>5, <1>6

LEMMA AllAreRules == \A r \in AllRules : IsRule(r) /\ r.id \in Ids /\ r.id # 0
<1>1. \A s \in Configurations : \A r \in ToSet(s) : IsRule(r)
  BY RuleEventHandlerAssumption DEF ToSet
<1>2. \A r \in Changed : IsRule(r)
  BY RuleEventHandlerAssumption
<1> QED  BY <1>1, <1>2 DEF AllRules, Ids, IsRule

-----------------------------------------------------------------------------
(* The heap: what its operations do to the rules, apart from their order. *)

\* t is s in another order.
Rearranged(s, t) ==
  \E p \in [1..Len(s) -> 1..Len(s)] :
    /\ Len(t) = Len(s)
    /\ \A k \in 1..Len(s) : t[k] = s[p[k]]
    /\ \A j, k \in 1..Len(s) : p[j] = p[k] => j = k
    /\ \A i \in 1..Len(s) : \E k \in 1..Len(s) : p[k] = i

LEMMA RearrangedKeeps ==
  ASSUME NEW s \in Seq(AllRules), NEW t \in Seq(AllRules), Rearranged(s, t)
  PROVE  /\ ToSet(t) = ToSet(s) /\ Len(t) = Len(s)
         /\ \A ids : Unique(s, ids) => Unique(t, ids)
<1>1. /\ DOMAIN s = 1..Len(s) /\ DOMAIN t = 1..Len(t)
      /\ ToSet(s) = {s[i] : i \in 1..Len(s)} /\ ToSet(t) = {t[i] : i \in 1..Len(t)}
  BY LenProperties DEF ToSet
<1>2. PICK p \in [1..Len(s) -> 1..Len(s)] :
        /\ Len(t) = Len(s)
        /\ \A k \in 1..Len(s) : t[k] = s[p[k]]
        /\ \A j, k \in 1..Len(s) : p[j] = p[k] => j = k
        /\ \A i \in 1..Len(s) : \E k \in 1..Len(s) : p[k] = i
  BY DEF Rearranged
<1>3. \A k \in 1..Len(s) : p[k] \in 1..Len(s)
  OBVIOUS
<1>4. ToSet(t) = ToSet(s)
  BY <1>1, <1>2, <1>3
<1>5. ASSUME NEW ids, Unique(s, ids) PROVE Unique(t, ids)
  <2> SUFFICES ASSUME NEW j \in 1..Len(s), NEW k \in 1..Len(s), t[j].id = t[k].id, j # k
               PROVE  t[j].id \in ids
    BY <1>2 DEF Unique
  <2>1. t[j] = s[p[j]] /\ t[k] = s[p[k]] /\ p[j] # p[k]
    BY <1>2
  <2>2. s[p[j]].id = s[p[k]].id => p[j] = p[k] \/ s[p[j]].id \in ids
    BY <1>3, <1>5 DEF Unique
  <2> QED  BY <2>1, <2>2
<1> QED  BY <1>2, <1>4, <1>5

LEMMA RearrangedItself ==
  ASSUME NEW s \in Seq(AllRules)
  PROVE  Rearranged(s, s)
<1> DEFINE p == [k \in 1..Len(s) |-> k]
<1>1. p \in [1..Len(s) -> 1..Len(s)] /\ \A k \in 1..Len(s) : p[k] = k
  OBVIOUS
<1> HIDE DEF p
<1> QED  BY <1>1 DEF Rearranged

LEMMA ToFrontRearranges ==
  ASSUME NEW s \in Seq(AllRules), NEW i \in 1..Len(s)
  PROVE  /\ ToFront(s, i) \in Seq(AllRules) /\ Rearranged(s, ToFront(s, i))
         /\ Head(ToFront(s, i)) = s[i]
<1> DEFINE n      == Len(s)
           front  == <<s[i]>>
           before == SubSeq(s, 1, i - 1)
           after  == SubSeq(s, i + 1, Len(s))
           t      == ToFront(s, i)
<1>1. n \in Nat /\ i \in 1..n /\ \A j \in 1..n : s[j] \in AllRules
  BY ElementOfSeq, LenProperties
<1>2. front \in Seq(AllRules) /\ Len(front) = 1 /\ front[1] = s[i]
  BY <1>1
<1>3. /\ before \in Seq(AllRules) /\ Len(before) = i - 1
      /\ \A j \in 1..(i - 1) : before[j] = s[j]
  BY <1>1, SubSeqProperties
<1>4. /\ after \in Seq(AllRules) /\ Len(after) = n - i
      /\ \A j \in 1..(n - i) : after[j] = s[i + j]
  BY <1>1, SubSeqProperties
<1>5. t = (front \o before) \o after
  BY DEF ToFront
<1> HIDE DEF n, front, before, after, t
<1>6. /\ front \o before \in Seq(AllRules) /\ Len(front \o before) = i
      /\ (front \o before)[1] = s[i]
      /\ \A j \in 2..i : (front \o before)[j] = s[j - 1]
  <2>1. /\ front \o before \in Seq(AllRules) /\ Len(front \o before) = 1 + (i - 1)
        /\ \A j \in 1..(1 + (i - 1)) : (front \o before)[j] = IF j <= 1 THEN front[j] ELSE before[j - 1]
    <3>1. /\ front \o before \in Seq(AllRules) /\ Len(front \o before) = Len(front) + Len(before)
          /\ \A j \in 1..(Len(front) + Len(before)) :
               (front \o before)[j] = IF j <= Len(front) THEN front[j] ELSE before[j - Len(front)]
      BY <1>2, <1>3, ConcatProperties
    <3> QED  BY <1>2, <1>3, <3>1
  <2>2. 1 + (i - 1) = i /\ \A j \in 2..i : j - 1 \in 1..(i - 1) /\ ~(j <= 1)
    BY <1>1
  <2>3. 1 \in 1..i
    BY <1>1
  <2> QED  BY <1>1, <1>2, <1>3, <2>1, <2>2, <2>3
<1>7. /\ t \in Seq(AllRules) /\ Len(t) = n
      /\ \A j \in 1..n : t[j] = IF j <= i THEN (front \o before)[j] ELSE after[j - i]
  <2>1. /\ t \in Seq(AllRules) /\ Len(t) = i + (n - i)
        /\ \A j \in 1..(i + (n - i)) : t[j] = IF j <= i THEN (front \o before)[j] ELSE after[j - i]
    <3> DEFINE start == front \o before
    <3>1. start \in Seq(AllRules) /\ Len(start) = i /\ t = start \o after
      BY <1>5, <1>6
    <3> HIDE DEF start
    <3>2. /\ t \in Seq(AllRules) /\ Len(t) = Len(start) + Len(after)
          /\ \A j \in 1..(Len(start) + Len(after)) :
               t[j] = IF j <= Len(start) THEN start[j] ELSE after[j - Len(start)]
      BY <1>4, <3>1, ConcatProperties
    <3> QED  BY <1>4, <3>1, <3>2 DEF start
  <2>2. i + (n - i) = n
    BY <1>1
  <2> QED  BY <2>1, <2>2
<1> DEFINE p == [k \in 1..n |-> IF k = 1 THEN i ELSE IF k <= i THEN k - 1 ELSE k]
<1>8. p \in [1..n -> 1..n]
  BY <1>1
<1>9. \A k \in 1..n : t[k] = s[p[k]]
  <2> TAKE k \in 1..n
  <2>1. CASE k = 1
    BY <1>1, <1>6, <1>7, <2>1
  <2>2. CASE k # 1 /\ k <= i
    <3>1. k \in 2..i /\ p[k] = k - 1
      BY <1>1, <2>2
    <3>2. (front \o before)[k] = s[k - 1] /\ t[k] = (front \o before)[k]
      BY <1>6, <1>7, <2>2, <3>1
    <3> QED  BY <3>1, <3>2
  <2>3. CASE k > i
    <3>1. k - i \in 1..(n - i) /\ i + (k - i) = k /\ k # 1 /\ ~(k <= i)
      BY <1>1, <2>3
    <3> QED  BY <1>4, <1>7, <3>1
  <2> QED  BY <1>1, <2>1, <2>2, <2>3
<1>10. \A j, k \in 1..n : p[j] = p[k] => j = k
  BY <1>1
<1>11. \A j \in 1..n : \E k \in 1..n : p[k] = j
  <2> TAKE j \in 1..n
  <2>1. CASE j = i
    <3>1. 1 \in 1..n /\ p[1] = j
      BY <1>1, <2>1
    <3> QED  BY <3>1
  <2>2. CASE j < i
    <3>1. j + 1 \in 1..n /\ p[j + 1] = j
      BY <1>1, <2>2
    <3> QED  BY <3>1
  <2>3. CASE j > i
    <3>1. p[j] = j
      BY <1>1, <2>3
    <3> QED  BY <3>1
  <2> QED  BY <1>1, <2>1, <2>2, <2>3
<1> HIDE DEF p
<1>12. Rearranged(s, t)
  <2>1. /\ p \in [1..Len(s) -> 1..Len(s)] /\ Len(t) = Len(s)
        /\ \A k \in 1..Len(s) : t[k] = s[p[k]]
        /\ \A j, k \in 1..Len(s) : p[j] = p[k] => j = k
        /\ \A j \in 1..Len(s) : \E k \in 1..Len(s) : p[k] = j
    BY <1>7, <1>8, <1>9, <1>10, <1>11 DEF n
  <2> QED  BY <2>1, Zenon DEF Rearranged
<1>13. Head(t) = s[i]
  BY <1>1, <1>6, <1>7
<1> QED  BY <1>7, <1>12, <1>13 DEF t

LEMMA MakeHeapRearranges ==
  ASSUME NEW s \in Seq(AllRules), NEW t \in MakeHeap(s)
  PROVE  t \in Seq(AllRules) /\ Rearranged(s, t)
<1>1. CASE s = <<>>
  BY <1>1, RearrangedItself DEF MakeHeap
<1>2. CASE s # <<>>
  <2>1. PICK i \in DOMAIN s : t = ToFront(s, i)
    BY <1>2 DEF MakeHeap
  <2>2. i \in 1..Len(s)
    BY <2>1, LenProperties
  <2> QED  BY <2>1, <2>2, ToFrontRearranges
<1> QED  BY <1>1, <1>2

LEMMA PopHeapRearranges ==
  ASSUME NEW s \in Seq(AllRules), s # <<>>, NEW t \in PopHeap(s)
  PROVE  t \in Seq(AllRules) /\ Tail(s) \in Seq(AllRules) /\ Rearranged(Tail(s), t)
<1>1. Tail(s) \in Seq(AllRules) /\ DOMAIN Tail(s) = 1..Len(Tail(s))
  BY HeadTailProperties, LenProperties
<1>2. CASE t \in MakeHeap(Tail(s))
  BY <1>1, <1>2, MakeHeapRearranges
<1>3. CASE \E i \in DOMAIN Tail(s) : t = ToFront(Tail(s), i)
  BY <1>1, <1>3, ToFrontRearranges
<1> QED  BY <1>1, <1>2, <1>3 DEF PopHeap

LEMMA PushHeapRearranges ==
  ASSUME NEW s \in Seq(AllRules), NEW r \in AllRules, NEW t \in PushHeap(s, r)
  PROVE  t \in Seq(AllRules) /\ Append(s, r) \in Seq(AllRules) /\ Rearranged(Append(s, r), t)
<1> DEFINE n == Len(s)
           a == Append(s, r)
<1>1. /\ a \in Seq(AllRules) /\ Len(a) = n + 1 /\ n \in Nat /\ a[n + 1] = r
      /\ \A i \in 1..n : a[i] = s[i]
  BY AppendProperties, LenProperties
<1>2. CASE t = a
  BY <1>1, <1>2, RearrangedItself
<1>3. CASE t = <<r>> \o s
  <2>1. <<r>> \in Seq(AllRules) /\ Len(<<r>>) = 1 /\ <<r>>[1] = r
    OBVIOUS
  <2>2. /\ t \in Seq(AllRules) /\ Len(t) = 1 + n
        /\ \A j \in 1..(1 + n) : t[j] = IF j <= 1 THEN <<r>>[j] ELSE s[j - 1]
    <3>1. /\ <<r>> \o s \in Seq(AllRules) /\ Len(<<r>> \o s) = Len(<<r>>) + Len(s)
          /\ \A j \in 1..(Len(<<r>>) + Len(s)) :
               (<<r>> \o s)[j] = IF j <= Len(<<r>>) THEN <<r>>[j] ELSE s[j - Len(<<r>>)]
      BY <2>1, ConcatProperties
    <3> QED  BY <1>3, <2>1, <3>1
  <2> HIDE DEF n, a
  <2> DEFINE p == [k \in 1..(n + 1) |-> IF k = 1 THEN n + 1 ELSE k - 1]
  <2>3. p \in [1..(n + 1) -> 1..(n + 1)]
    BY <1>1
  <2>4. \A k \in 1..(n + 1) : t[k] = a[p[k]]
    <3> TAKE k \in 1..(n + 1)
    <3>1. CASE k = 1
      BY <1>1, <2>1, <2>2, <3>1
    <3>2. CASE k # 1
      <4>1. k - 1 \in 1..n /\ ~(k <= 1) /\ p[k] = k - 1
        BY <1>1, <3>2
      <4>2. t[k] = s[k - 1]
        BY <1>1, <2>2, <4>1
      <4> QED  BY <1>1, <4>1, <4>2
    <3> QED  BY <3>1, <3>2
  <2>5. \A j, k \in 1..(n + 1) : p[j] = p[k] => j = k
    BY <1>1
  <2>6. \A j \in 1..(n + 1) : \E k \in 1..(n + 1) : p[k] = j
    <3> TAKE j \in 1..(n + 1)
    <3>1. CASE j = n + 1
      <4>1. 1 \in 1..(n + 1) /\ p[1] = n + 1
        BY <1>1
      <4> QED  BY <3>1, <4>1
    <3>2. CASE j # n + 1
      <4>1. j + 1 \in 1..(n + 1) /\ p[j + 1] = j
        BY <1>1, <3>2
      <4> QED  BY <4>1
    <3> QED  BY <3>1, <3>2
  <2> HIDE DEF p
  <2>7. Len(t) = n + 1
    BY <1>1, <2>2
  <2>8. Rearranged(a, t)
    <3>1. Len(a) = n + 1
      BY <1>1
    <3>2. /\ p \in [1..Len(a) -> 1..Len(a)] /\ Len(t) = Len(a)
          /\ \A k \in 1..Len(a) : t[k] = a[p[k]]
          /\ \A j, k \in 1..Len(a) : p[j] = p[k] => j = k
          /\ \A j \in 1..Len(a) : \E k \in 1..Len(a) : p[k] = j
      BY <2>3, <2>4, <2>5, <2>6, <2>7, <3>1
    <3> QED  BY <3>2, Zenon DEF Rearranged
  <2> QED  BY <1>1, <2>2, <2>8 DEF a
<1> QED  BY <1>2, <1>3 DEF PushHeap
\* What find_if finds.
LEMMA FoundById ==
  ASSUME NEW s \in Seq(AllRules), NEW id, \E i \in DOMAIN s : s[i].id = id
  PROVE  LET i == SelectInSeq(s, LAMBDA x : x.id = id) IN i \in 1..Len(s) /\ s[i].id = id
<1> DEFINE I == {i \in 1..Len(s) : s[i].id = id}
<1>1. I \in SUBSET Nat /\ I # {}
  BY LenProperties
<1>2. Min(I) \in I
  <2> HIDE DEF I
  <2> QED  BY <1>1, LeastExists DEF Min
<1>3. SelectInSeq(s, LAMBDA x : x.id = id) = Min(I)
  BY <1>1 DEF SelectInSeq
<1> QED  BY <1>2, <1>3

\* A changed rule replaces the one with its id, or comes in addition.
LEMMA UpsertProperties ==
  ASSUME NEW s \in Seq(AllRules), NEW r \in AllRules
  PROVE  /\ Upsert(s, r) \in Seq(AllRules)
         /\ r \in ToSet(Upsert(s, r))
         /\ \A x \in ToSet(Upsert(s, r)) : x = r \/ x \in ToSet(s)
         /\ \A x \in ToSet(s) : x.id = r.id \/ x \in ToSet(Upsert(s, r))
         /\ \A ids : Unique(s, ids) => Unique(Upsert(s, r), ids)
<1> DEFINE n == Len(s)
           u == Upsert(s, r)
<1>1. n \in Nat /\ DOMAIN s = 1..n /\ ToSet(s) = {s[k] : k \in 1..n}
  BY LenProperties DEF ToSet
<1>2. CASE \E i \in DOMAIN s : s[i].id = r.id
  <2> DEFINE i == SelectInSeq(s, LAMBDA x : x.id = r.id)
  <2>1. i \in 1..n /\ s[i].id = r.id
    BY <1>2, FoundById
  <2>2. u = [s EXCEPT ![i] = r]
    BY <1>2 DEF Upsert
  <2> HIDE DEF i, u
  <2>3. u \in Seq(AllRules) /\ Len(u) = n /\ \A k \in 1..n : u[k] = IF k = i THEN r ELSE s[k]
    BY <2>1, <2>2, ExceptSeq
  <2>4. DOMAIN u = 1..n /\ ToSet(u) = {u[k] : k \in 1..n}
    BY <2>3, LenProperties DEF ToSet
  <2>5. \A k \in 1..n : u[k].id = s[k].id
    BY <2>1, <2>3
  <2>6. r \in ToSet(u)
    BY <2>1, <2>3, <2>4
  <2>7. \A x \in ToSet(u) : x = r \/ x \in ToSet(s)
    BY <1>1, <2>3, <2>4
  <2>8. \A x \in ToSet(s) : x.id = r.id \/ x \in ToSet(u)
    BY <1>1, <2>1, <2>3, <2>4
  <2>9. \A ids : Unique(s, ids) => Unique(u, ids)
    BY <2>3, <2>5 DEF Unique
  <2> QED  BY <2>3, <2>6, <2>7, <2>8, <2>9 DEF u
<1>3. CASE ~ \E i \in DOMAIN s : s[i].id = r.id
  <2>1. u = Append(s, r)
    BY <1>3 DEF Upsert
  <2> HIDE DEF u
  <2>2. /\ u \in Seq(AllRules) /\ Len(u) = n + 1 /\ u[n + 1] = r
        /\ \A k \in 1..n : u[k] = s[k]
    BY <2>1, AppendProperties
  <2> HIDE DEF n
  <2>3. DOMAIN u = 1..(n + 1) /\ ToSet(u) = {u[k] : k \in 1..(n + 1)}
    BY <2>2, LenProperties DEF ToSet
  <2>4. n + 1 \in 1..(n + 1) /\ \A k \in 1..(n + 1) : k = n + 1 \/ k \in 1..n
    BY <1>1
  <2>5. 1..n \subseteq 1..(n + 1)
    BY <1>1
  <2>6. r \in ToSet(u)
    BY <2>2, <2>3, <2>4
  <2>7. \A x \in ToSet(u) : x = r \/ x \in ToSet(s)
    BY <1>1, <2>2, <2>3, <2>4
  <2>8. \A x \in ToSet(s) : x \in ToSet(u)
    BY <1>1, <2>2, <2>3, <2>5
  <2>9. ASSUME NEW ids, Unique(s, ids) PROVE Unique(u, ids)
    <3>1. \A k \in 1..n : u[k] = s[k] /\ s[k].id # r.id
      BY <1>1, <1>3, <2>2
    <3>2. \A j, k \in 1..n : s[j].id = s[k].id => j = k \/ s[j].id \in ids
      BY <2>9 DEF Unique, n
    <3>3. \A j, k \in 1..(n + 1) : u[j].id = u[k].id => j = k \/ u[j].id \in ids
      BY <2>2, <2>4, <3>1, <3>2
    <3> QED  BY <2>2, <3>3 DEF Unique
  <2> QED  BY <2>2, <2>6, <2>7, <2>8, <2>9 DEF u
<1> QED  BY <1>2, <1>3

\* An id that no rule has is not found.
LEMMA NothingErased ==
  ASSUME NEW s \in Seq(AllRules), NEW r
  PROVE  EraseId(s, RemovedId(r)) = s
<1>1. \A i \in DOMAIN s : s[i].id # 0
  BY AllAreRules, ElementOfSeq, LenProperties
<1> QED  BY <1>1 DEF EraseId, RemovedId

\* Uniqueness of more ids.
LEMMA UniqueMore ==
  ASSUME NEW s, NEW ids, NEW more, Unique(s, ids), ids \subseteq more
  PROVE  Unique(s, more)
BY DEF Unique

LEMMA ExecutedType ==
  ASSUME Types, NEW ids
  PROVE  Executed(ids) \in [Ids -> Seq(0..now)]
<1>1. now \in 0..now
  BY DEF Types
<1>2. \A i \in Ids : fired[i] \in Seq(0..now) /\ Append(fired[i], now) \in Seq(0..now)
  BY <1>1, AppendProperties DEF Types
<1> QED  BY <1>2 DEF Executed

LEMMA KeyType ==
  ASSUME Types, NEW r \in AllRules
  PROVE  /\ Key(r) \in Nat
         /\ Recurs(r) => Key(r) > now /\ Key(r) # Never
<1>1. now \in Nat
  BY DEF Types
<1>2. Key(r) \in Nat /\ (Recurs(r) => Key(r) > now)
  BY <1>1, AllAreRules, NextExecutionTimeIsLater DEF Key
<1> QED  BY <1>1, <1>2 DEF Never

-----------------------------------------------------------------------------
(* The inductive invariant. *)

LEMMA InitIInv == Init => IInv
<1> SUFFICES ASSUME Init PROVE IInv
  OBVIOUS
<1>1. PICK s \in Configurations : db = ToSet(s) /\ m_timedRules \in MakeHeap(s)
  BY DEF Init
<1>2. ToSet(s) \subseteq AllRules
  BY DEF AllRules
<1>3. s \in Seq(AllRules)
  BY <1>2, SeqMonotonic, RuleEventHandlerAssumption
<1>4. Unique(s, {})
  BY <1>3, LenProperties, RuleEventHandlerAssumption DEF Unique
<1>5. m_timedRules \in Seq(AllRules) /\ Rearranged(s, m_timedRules)
  BY <1>1, <1>3, MakeHeapRearranges
<1>6. Unique(m_timedRules, overtaken)
  BY <1>3, <1>4, <1>5, RearrangedKeeps DEF Init
<1>7. NotInBoth
  BY DEF NotInBoth, Init, ToSet
<1>8. /\ fired \in [Ids -> Seq(0..now)] /\ copy \in Seq(AllRules) /\ Len(copy) = 0
      /\ changing \in Seq(AllRules) /\ Len(changing) = 0
  BY EmptySeq DEF Init
<1>9. db \subseteq AllRules /\ now \in 0..MaxTime
  BY <1>1, <1>2, RuleEventHandlerAssumption DEF Init
<1>10. Types
  BY <1>5, <1>8, <1>9 DEF Types, Init, Never
<1> QED  BY <1>6, <1>7, <1>10 DEF IInv

\* The thread takes the front out of the heap.
LEMMA CheckKeeps ==
  ASSUME IInv, Check
  PROVE  IInv'
<1>1. /\ Types /\ Len(copy) = 0 /\ copy = <<>>
      /\ UNCHANGED <<m_shutdownThread, db, hpc, changing, dpc, now, overtaken>>
  <2>1. Types /\ Len(copy) = 0
    BY DEF IInv, Types, Check
  <2> QED  BY <2>1, EmptySeq DEF Types, Check, clock
<1>2. CASE /\ UNCHANGED <<m_timedRules, copy, fired>>
           /\ pc' \in {"done", "decide", "next"}
           /\ nextCheck' \in {nextCheck, Never}
  <2>1. Types'
    BY <1>1, <1>2 DEF Types, Never
  <2> QED  BY <1>1, <1>2, <2>1 DEF IInv, NotInBoth
<1>3. CASE /\ m_timedRules # <<>>
           /\ pc' = "executing" /\ copy' = <<Head(m_timedRules)>>
           /\ m_timedRules' \in PopHeap(m_timedRules)
           /\ fired' = Executed({Head(m_timedRules).id})
           /\ UNCHANGED nextCheck
  <2> DEFINE front == Head(m_timedRules)
             rest  == Tail(m_timedRules)
             n     == Len(m_timedRules)
  <2>1. /\ n \in Nat \ {0} /\ front \in AllRules /\ front = m_timedRules[1]
        /\ rest \in Seq(AllRules) /\ Len(rest) = n - 1
        /\ \A i \in 1..(n - 1) : rest[i] = m_timedRules[i + 1]
    BY <1>1, <1>3, HeadTailProperties, EmptySeq DEF Types
  <2>2. m_timedRules' \in Seq(AllRules) /\ Rearranged(rest, m_timedRules')
    BY <1>1, <1>3, PopHeapRearranges DEF Types
  <2>3. <<front>> \in Seq(AllRules) /\ Len(<<front>>) = 1 /\ ToSet(<<front>>) = {front}
    BY <2>1 DEF ToSet
  <2>4. Types'
    BY <1>1, <1>3, <2>2, <2>3, ExecutedType DEF Types
  <2>5. Unique(m_timedRules, overtaken)
    BY DEF IInv
  <2> HIDE DEF front, rest, n
  <2>6. \A i, j \in 1..n : m_timedRules[i].id = m_timedRules[j].id => i = j \/ m_timedRules[i].id \in overtaken
    BY <2>5 DEF Unique, n
  <2>7. Unique(rest, overtaken)
    <3> SUFFICES ASSUME NEW i \in 1..(n - 1), NEW j \in 1..(n - 1), rest[i].id = rest[j].id, i # j
                 PROVE  rest[i].id \in overtaken
      BY <2>1 DEF Unique
    <3>1. i + 1 \in 1..n /\ j + 1 \in 1..n /\ i + 1 # j + 1
      BY <2>1
    <3> QED  BY <2>1, <2>6, <3>1
  <2>8. \A x \in ToSet(rest) : x.id = front.id => x.id \in overtaken
    <3>1. ToSet(rest) = {rest[i] : i \in 1..(n - 1)}
      BY <2>1, LenProperties DEF ToSet
    <3>2. \A i \in 1..(n - 1) : i + 1 \in 1..n /\ i + 1 # 1 /\ 1 \in 1..n
      BY <2>1
    <3> QED  BY <2>1, <2>6, <3>1, <3>2
  <2>9. Unique(m_timedRules', overtaken') /\ NotInBoth'
    <3>1. ToSet(m_timedRules') = ToSet(rest) /\ Unique(m_timedRules', overtaken)
      BY <2>1, <2>2, <2>7, RearrangedKeeps
    <3>2. ToSet(copy') = {front}
      BY <1>3, <2>3 DEF front
    <3> QED  BY <1>1, <2>8, <3>1, <3>2 DEF NotInBoth
  <2> QED  BY <2>4, <2>9 DEF IInv
<1> QED  BY <1>2, <1>3 DEF Check

\* A sequence of one rule (copy while it runs).
LEMMA OneElement ==
  ASSUME NEW S, NEW c \in Seq(S), Len(c) = 1
  PROVE  c[1] \in S /\ DOMAIN c = {1}
<1>1. 1 \in 1..1 /\ 1..1 = {1}
  OBVIOUS
<1>2. DOMAIN c = 1..1 /\ \A i \in 1..1 : c[i] \in S
  BY LenProperties, ElementOfSeq
<1> QED  BY <1>1, <1>2

\* ... and puts it back.
LEMMA ExecuteDoneKeeps ==
  ASSUME IInv, ExecuteDone
  PROVE  IInv'
<1>1. /\ Types /\ Len(copy) = 1 /\ copy[1] \in AllRules /\ ToSet(copy) = {copy[1]}
      /\ UNCHANGED <<nextCheck, m_shutdownThread, db, hpc, changing, dpc, now, overtaken, fired>>
      /\ copy' = <<>> /\ ToSet(copy') = {} /\ pc' = "next"
  <2>1. Types /\ Len(copy) = 1
    BY DEF IInv, Types, ExecuteDone
  <2>2. copy[1] \in AllRules /\ DOMAIN copy = {1}
    <3>1. copy \in Seq(AllRules)
      BY <2>1 DEF Types
    <3> QED  BY <2>1, <3>1, OneElement
  <2>3. copy' = <<>> /\ ToSet(<<>>) = {}
    BY DEF ExecuteDone, MovedOut, ToSet
  <2> QED  BY <2>1, <2>2, <2>3 DEF ExecuteDone, clock, ToSet
<1>2. CASE UNCHANGED m_timedRules
  <2>1. Types'
    BY <1>1, <1>2, EmptySeq DEF Types
  <2> QED  BY <1>1, <1>2, <2>1 DEF IInv, NotInBoth
<1>3. CASE m_timedRules' \in PushHeap(m_timedRules, copy[1])
  <2> DEFINE a == Append(m_timedRules, copy[1])
             n == Len(m_timedRules)
  <2>1. /\ m_timedRules' \in Seq(AllRules) /\ a \in Seq(AllRules) /\ Rearranged(a, m_timedRules')
    BY <1>1, <1>3, PushHeapRearranges DEF Types
  <2>2. /\ n \in Nat /\ Len(a) = n + 1 /\ a[n + 1] = copy[1]
        /\ \A i \in 1..n : a[i] = m_timedRules[i]
    BY <1>1, AppendProperties, LenProperties DEF Types
  <2>3. \A i \in 1..n : m_timedRules[i].id = copy[1].id => copy[1].id \in overtaken
    <3>1. \A i \in 1..n : m_timedRules[i] \in ToSet(m_timedRules)
      BY <1>1, LenProperties DEF Types, ToSet
    <3> QED  BY <1>1, <3>1 DEF IInv, NotInBoth
  <2>4. \A i, j \in 1..n : m_timedRules[i].id = m_timedRules[j].id => i = j \/ m_timedRules[i].id \in overtaken
    BY DEF IInv, Unique
  <2> HIDE DEF a, n
  <2>5. Unique(a, overtaken)
    <3>1. \A i \in 1..(n + 1) : i = n + 1 \/ i \in 1..n
      BY <2>2
    <3>2. \A i, j \in 1..(n + 1) : a[i].id = a[j].id => i = j \/ a[i].id \in overtaken
      BY <2>2, <2>3, <2>4, <3>1
    <3> QED  BY <2>2, <3>2 DEF Unique
  <2>6. Unique(m_timedRules', overtaken')
    BY <1>1, <2>1, <2>5, RearrangedKeeps
  <2>7. Types' /\ NotInBoth'
    BY <1>1, <2>1, EmptySeq DEF Types, NotInBoth
  <2> QED  BY <2>6, <2>7 DEF IInv
<1> QED  BY <1>2, <1>3 DEF ExecuteDone

\* An event changes the heap while the thread executes a rule, or not.
LEMMA ScheduleChangedKeeps ==
  ASSUME IInv, NEW r \in AllRules, ScheduleChanged(r), UNCHANGED copy
  PROVE  /\ m_timedRules' \in Seq(AllRules)
         /\ Rearranged(Upsert(m_timedRules, r), m_timedRules')
         /\ ToSet(m_timedRules') = ToSet(Upsert(m_timedRules, r))
         /\ Unique(m_timedRules', overtaken') /\ NotInBoth'
         /\ pc' \in {pc, Woken}
<1> DEFINE u == Upsert(m_timedRules, r)
<1>1. m_timedRules \in Seq(AllRules) /\ copy \in Seq(AllRules)
  BY DEF IInv, Types
<1>2. /\ u \in Seq(AllRules)
      /\ \A x \in ToSet(u) : x = r \/ x \in ToSet(m_timedRules)
      /\ Unique(u, overtaken)
  BY <1>1, UpsertProperties DEF IInv
<1>3. m_timedRules' \in Seq(AllRules) /\ Rearranged(u, m_timedRules')
  BY <1>2, MakeHeapRearranges DEF ScheduleChanged
<1>4. ToSet(m_timedRules') = ToSet(u) /\ Unique(m_timedRules', overtaken)
  BY <1>2, <1>3, RearrangedKeeps
<1>5. overtaken \subseteq overtaken' /\ \A y \in ToSet(copy) : y.id = r.id => r.id \in overtaken'
  BY DEF ScheduleChanged, ToSet
<1>6. Unique(m_timedRules', overtaken')
  BY <1>4, <1>5, UniqueMore
<1> HIDE DEF u
<1>7. NotInBoth'
  <2> SUFFICES ASSUME NEW x \in ToSet(m_timedRules'), NEW y \in ToSet(copy), x.id = y.id
               PROVE  x.id \in overtaken'
    BY DEF NotInBoth
  <2>1. CASE x = r
    BY <1>5, <2>1
  <2>2. CASE x \in ToSet(m_timedRules)
    BY <1>5, <2>2 DEF IInv, NotInBoth
  <2> QED  BY <1>2, <1>4, <2>1, <2>2
<1> QED  BY <1>3, <1>4, <1>6, <1>7 DEF u, ScheduleChanged

LEMMA WokenOrNot ==
  ASSUME Types, pc' \in {pc, Woken}, UNCHANGED copy
  PROVE  /\ pc' \in {"woken", "check", "executing", "next", "decide", "waiting", "done", "crashed"}
         /\ Len(copy') = IF pc' = "executing" THEN 1 ELSE 0
BY DEF Types, Woken

LEMMA EventKeeps ==
  ASSUME IInv,
         \/ \E r \in Changed : RuleAdded(r) \/ RuleConditionChanged(r) \/ RuleUpdated(r)
         \/ \E r \in db : RuleRemoved(r)
  PROVE  IInv'
<1> USE DEF IInv
<1>1. /\ UNCHANGED <<copy, nextCheck, m_shutdownThread, dpc, now>>
      /\ hpc = "idle" /\ changing \in Seq(AllRules) /\ Len(changing) = 0
  BY DEF RuleAdded, RuleConditionChanged, RuleUpdated, RuleRemoved, BeginEvent, Types
<1>2. Changed \subseteq AllRules /\ db \subseteq AllRules
  BY DEF AllRules, Types
<1>3. ASSUME NEW r \in Changed, RuleAdded(r)
      PROVE  IInv'
  <2>1. /\ m_timedRules' \in Seq(AllRules)
        /\ Unique(m_timedRules', overtaken') /\ NotInBoth'
        /\ pc' \in {pc, Woken}
    BY <1>1, <1>2, <1>3, ScheduleChangedKeeps DEF RuleAdded
  <2>2. db' \subseteq AllRules /\ hpc' = "check" /\ UNCHANGED <<changing, fired>>
    BY <1>2, <1>3 DEF RuleAdded, BeginEvent
  <2>3. Types'
    BY <1>1, <2>1, <2>2, WokenOrNot DEF Types
  <2> QED  BY <2>1, <2>3
<1>4. ASSUME NEW r \in Changed, RuleUpdated(r)
      PROVE  IInv'
  <2>1. /\ UNCHANGED <<m_timedRules, pc, changing, fired, overtaken>> /\ db' \subseteq AllRules
        /\ hpc' = "check"
    BY <1>2, <1>4 DEF RuleUpdated, Replaced, BeginEvent
  <2>2. Types'
    BY <1>1, <2>1 DEF Types
  <2> QED  BY <1>1, <2>1, <2>2 DEF NotInBoth
<1>5. ASSUME NEW r \in db, RuleRemoved(r)
      PROVE  IInv'
  <2>1. /\ UNCHANGED <<pc, changing, fired, overtaken>> /\ db' \subseteq AllRules /\ hpc' = "check"
        /\ m_timedRules' \in MakeHeap(m_timedRules)
    BY <1>2, <1>5, NothingErased DEF RuleRemoved, BeginEvent, Types
  <2>2. m_timedRules' \in Seq(AllRules) /\ Rearranged(m_timedRules, m_timedRules')
    BY <2>1, MakeHeapRearranges DEF Types
  <2>3. ToSet(m_timedRules') = ToSet(m_timedRules) /\ Unique(m_timedRules', overtaken)
    BY <2>2, RearrangedKeeps DEF Types
  <2>4. Types'
    BY <1>1, <2>1, <2>2 DEF Types
  <2> QED  BY <1>1, <2>1, <2>3, <2>4 DEF NotInBoth
<1>6. ASSUME NEW r \in Changed, RuleConditionChanged(r)
      PROVE  IInv'
  <2>1. /\ UNCHANGED <<m_timedRules, pc, overtaken>> /\ db' \subseteq AllRules
        /\ hpc' \in {"effect", "schedule"}
    BY <1>2, <1>6 DEF RuleConditionChanged, Replaced, BeginEvent
  <2>2. changing' = <<r>> /\ <<r>> \in Seq(AllRules) /\ Len(<<r>>) = 1
    BY <1>2, <1>6 DEF RuleConditionChanged
  <2>3. fired' \in [Ids -> Seq(0..now)]
    BY <1>6, ExecutedType DEF RuleConditionChanged, Types
  <2>4. Types'
    BY <1>1, <2>1, <2>2, <2>3 DEF Types
  <2> QED  BY <1>1, <2>1, <2>4 DEF NotInBoth
<1> QED  BY <1>3, <1>4, <1>5, <1>6

\* The rule whose change is still to be scheduled.
LEMMA ChangingIsRule ==
  ASSUME IInv, hpc \in {"effect", "schedule"}
  PROVE  changing[1] \in AllRules
<1>1. changing \in Seq(AllRules) /\ Len(changing) = 1
  BY DEF IInv, Types
<1> QED  BY <1>1, OneElement

LEMMA ConditionScheduledKeeps ==
  ASSUME IInv, ConditionScheduled
  PROVE  IInv'
<1> USE DEF IInv
<1>1. /\ UNCHANGED <<copy, nextCheck, m_shutdownThread, db, dpc, now, fired>>
      /\ hpc' = "check" /\ changing' = <<>> /\ ScheduleChanged(changing[1])
      /\ changing[1] \in AllRules
  BY ChangingIsRule DEF ConditionScheduled
<1>2. /\ m_timedRules' \in Seq(AllRules)
      /\ Unique(m_timedRules', overtaken') /\ NotInBoth'
      /\ pc' \in {pc, Woken}
  BY <1>1, ScheduleChangedKeeps
<1>3. changing' \in Seq(AllRules) /\ Len(changing') = 0
  BY <1>1, EmptySeq
<1>4. Types'
  BY <1>1, <1>2, <1>3, WokenOrNot DEF Types
<1> QED  BY <1>2, <1>4

\* The other steps leave the rules where they are.
LEMMA OtherKeeps ==
  ASSUME IInv,
         \/ ComputeNext \/ Decide \/ Timeout \/ SpuriousWakeup \/ ChangedEffectDone \/ CheckRules
         \/ SetShutdown \/ NotifyShutdown \/ Tick \/ UNCHANGED vars
  PROVE  IInv'
<1> USE DEF IInv
<1>1. UNCHANGED <<m_timedRules, copy, db, overtaken>>
  BY DEF ComputeNext, Decide, Timeout, SpuriousWakeup, ChangedEffectDone, CheckRules, SetShutdown,
         NotifyShutdown, Tick, vars, timerVars, clock
<1>2. Types'
  <2>1. CASE ComputeNext
    <3>1. m_timedRules # <<>> => Head(m_timedRules) \in AllRules
      BY HeadTailProperties DEF Types
    <3>2. m_timedRules # <<>> => Key(Head(m_timedRules)) \in Nat
      BY <3>1, KeyType
    <3> QED  BY <2>1, <3>2 DEF ComputeNext, Types, clock
  <2>2. CASE Decide \/ Timeout \/ SpuriousWakeup
    BY <2>2 DEF Decide, Timeout, SpuriousWakeup, Types, clock
  <2>3. CASE CheckRules
    <3>1. \E ids : fired' = Executed(ids)
      BY <2>3 DEF CheckRules
    <3> QED  BY <2>3, <3>1, ExecutedType DEF CheckRules, Types, timerVars, clock
  <2>4. CASE SetShutdown \/ NotifyShutdown
    BY <2>4 DEF SetShutdown, NotifyShutdown, Types, Woken, timerVars, clock
  <2>5. CASE Tick
    <3>1. now \in Nat /\ now' = now + 1 /\ now' \in 0..MaxTime
      BY <2>5, RuleEventHandlerAssumption DEF Tick, LastTick, Types
    <3>2. 0..now \subseteq 0..now'
      BY <3>1
    <3>3. \A i \in Ids : fired[i] \in Seq(0..now')
      BY <3>2, SeqMonotonic DEF Types
    <3>4. fired' \in [Ids -> Seq(0..now')]
      BY <2>5, <3>3 DEF Tick, Types
    <3> QED  BY <2>5, <3>1, <3>4 DEF Tick, Types, timerVars
  <2>6. CASE UNCHANGED vars
    BY <2>6 DEF vars, timerVars, clock, Types
  <2>7. CASE ChangedEffectDone
    <3>1. \/ hpc = "effect" /\ hpc' = "schedule" /\ changing' = changing
          \/ hpc' = "idle" /\ changing' \in Seq(AllRules) /\ Len(changing') = 0
      BY <2>7, EmptySeq DEF ChangedEffectDone
    <3> QED  BY <2>7, <3>1 DEF ChangedEffectDone, Types, timerVars, clock
  <2> QED  BY <2>1, <2>2, <2>3, <2>4, <2>5, <2>6, <2>7
<1> QED  BY <1>1, <1>2 DEF NotInBoth

LEMMA NextIInv == IInv /\ [Next]_vars => IInv'
BY CheckKeeps, ExecuteDoneKeeps, EventKeeps, ConditionScheduledKeeps, OtherKeeps
   DEF Next, Thread, Handling, Horizon

\* The inductive invariant, from which the theorems follow.
THEOREM TimerInvariant == Spec => []IInv
BY InitIInv, NextIInv, PTL DEF Spec
-----------------------------------------------------------------------------
(* Theorems. *)

\* The types of the handler's members and of the thread's locals, and the states of
\* the thread, of HandleEvent and of the destructor.
THEOREM TimerTypeCorrect == Spec => []TypeOK
<1>1. IInv => TypeOK
  <2> SUFFICES ASSUME Types PROVE TypeOK
    BY DEF IInv
  <2>1. \A i \in DOMAIN m_timedRules : IsRule(m_timedRules[i])
    BY AllAreRules, ElementOfSeq, LenProperties DEF Types
  <2>2. \A r \in db : IsRule(r)
    BY AllAreRules DEF Types
  <2>3. \A id \in Ids : \A i \in DOMAIN fired[id] : fired[id][i] \in 0..now
    BY ElementOfSeq, LenProperties DEF Types
  <2>4. \A i \in DOMAIN changing : IsRule(changing[i])
    BY AllAreRules, ElementOfSeq, LenProperties DEF Types
  <2> QED  BY <2>1, <2>2, <2>3, <2>4 DEF Types, TypeOK
<1> QED  BY <1>1, TimerInvariant, PTL

\* No change makes a rule that recurs one that does not, or the other way round.
KindKept == \A q, r \in AllRules : q.id = r.id => (Recurs(q) <=> Recurs(r))

\* The rules that the heap and the thread hold between them.
Kept == ToSet(m_timedRules) \cup ToSet(copy)

EachIsKept == \A r \in db : Recurs(r) => \E x \in Kept : x.id = r.id

\* What the steps do to the rules that are kept: a rule is only ever replaced by one
\* with the same id, or dropped because it will not run again.
LEMMA KeptStep ==
  ASSUME IInv, [Next]_vars
  PROVE  /\ \A x \in Kept : (\E y \in Kept' : y.id = x.id) \/ ~Recurs(x)
         /\ Kept' \subseteq AllRules
         /\ \A r \in db' : (\E q \in db : q.id = r.id) \/ (\E y \in Kept' : y.id = r.id)
<1> USE DEF IInv
<1>1. IInv'
  BY NextIInv
<1>2. Kept' \subseteq AllRules
  <2>1. \A s \in Seq(AllRules) : ToSet(s) \subseteq AllRules
    BY ElementOfSeq, LenProperties DEF ToSet
  <2> QED  BY <1>1, <2>1 DEF Kept, Types
<1>3. CASE Check
  <2>1. db' = db
    BY <1>3 DEF Check
  <2>2. CASE UNCHANGED <<m_timedRules, copy>>
    BY <1>2, <2>1, <2>2 DEF Kept
  <2>3. CASE /\ m_timedRules # <<>> /\ copy' = <<Head(m_timedRules)>>
             /\ m_timedRules' \in PopHeap(m_timedRules)
    <3> DEFINE n == Len(m_timedRules)
    <3>1. /\ n \in Nat \ {0} /\ Head(m_timedRules) = m_timedRules[1]
          /\ Tail(m_timedRules) \in Seq(AllRules) /\ Len(Tail(m_timedRules)) = n - 1
          /\ \A i \in 1..(n - 1) : Tail(m_timedRules)[i] = m_timedRules[i + 1]
      BY <2>3, HeadTailProperties, EmptySeq DEF Types
    <3>2. ToSet(m_timedRules') = ToSet(Tail(m_timedRules))
      BY <2>3, PopHeapRearranges, RearrangedKeeps DEF Types
    <3>3. ToSet(copy') = {Head(m_timedRules)}
      BY <2>3 DEF ToSet
    <3>4. ToSet(m_timedRules) = {m_timedRules[i] : i \in 1..n}
      BY LenProperties DEF Types, ToSet
    <3>5. ToSet(Tail(m_timedRules)) = {Tail(m_timedRules)[i] : i \in 1..(n - 1)}
      BY <3>1, LenProperties DEF ToSet
    <3> HIDE DEF n
    <3>6. \A i \in 1..n : i = 1 \/ (i - 1 \in 1..(n - 1) /\ (i - 1) + 1 = i)
      BY <3>1
    <3>7. \A i \in 1..n : m_timedRules[i] \in Kept'
      BY <3>1, <3>2, <3>3, <3>5, <3>6 DEF Kept
    <3>8. copy = <<>> /\ ToSet(copy) = {}
      BY <1>3, EmptySeq DEF Check, Types, ToSet
    <3> QED  BY <1>2, <2>1, <3>4, <3>7, <3>8 DEF Kept
  <2> QED  BY <1>3, <2>2, <2>3 DEF Check
<1>4. CASE ExecuteDone
  <2>1. db' = db /\ now' = now /\ Len(copy) = 1
    BY <1>4 DEF ExecuteDone, clock, Types
  <2>2. copy[1] \in AllRules /\ ToSet(copy) = {copy[1]}
    <3>1. copy \in Seq(AllRules)
      BY DEF IInv, Types
    <3> QED  BY <2>1, <3>1, OneElement DEF ToSet
  <2>3. CASE RunsAgain(copy[1])
    <3>1. m_timedRules' \in PushHeap(m_timedRules, copy[1])
      BY <1>4, <2>3 DEF ExecuteDone
    <3> DEFINE a == Append(m_timedRules, copy[1])
               n == Len(m_timedRules)
    <3>2. a \in Seq(AllRules) /\ ToSet(m_timedRules') = ToSet(a)
      BY <2>2, <3>1, PushHeapRearranges, RearrangedKeeps DEF Types
    <3>3. /\ n \in Nat /\ Len(a) = n + 1 /\ a[n + 1] = copy[1]
          /\ \A i \in 1..n : a[i] = m_timedRules[i]
      BY <2>2, AppendProperties, LenProperties DEF Types
    <3>4. ToSet(m_timedRules) = {m_timedRules[i] : i \in 1..n}
      BY LenProperties DEF Types, ToSet
    <3> HIDE DEF a, n
    <3>5. ToSet(a) = {a[i] : i \in 1..(n + 1)}
      BY <3>2, <3>3, LenProperties DEF ToSet
    <3>6. n + 1 \in 1..(n + 1) /\ 1..n \subseteq 1..(n + 1)
      BY <3>3
    <3>7. Kept \subseteq ToSet(a)
      BY <2>2, <3>3, <3>4, <3>5, <3>6 DEF Kept
    <3> QED  BY <1>2, <2>1, <3>2, <3>7 DEF Kept
  <2>4. CASE ~RunsAgain(copy[1])
    <3>1. m_timedRules' = m_timedRules
      BY <1>4, <2>4 DEF ExecuteDone
    <3>2. ~Recurs(copy[1])
      BY <2>2, <2>4, KeyType DEF RunsAgain
    <3> QED  BY <1>2, <2>1, <2>2, <3>1, <3>2 DEF Kept
  <2> QED  BY <2>3, <2>4
<1>5. ASSUME NEW r \in AllRules, ScheduleChanged(r), copy' = copy
      PROVE  /\ \A x \in Kept : \E y \in Kept' : y.id = x.id
             /\ \E y \in Kept' : y.id = r.id
  <2>1. ToSet(m_timedRules') = ToSet(Upsert(m_timedRules, r))
    BY <1>5, ScheduleChangedKeeps
  <2>2. /\ r \in ToSet(m_timedRules')
        /\ \A x \in ToSet(m_timedRules) : x.id = r.id \/ x \in ToSet(m_timedRules')
    BY <2>1, UpsertProperties DEF Types
  <2> QED  BY <1>5, <2>2 DEF Kept
<1>6. ASSUME NEW r \in Changed, RuleAdded(r)
      PROVE  /\ \A x \in Kept : \E y \in Kept' : y.id = x.id
             /\ \A q \in db' : q = r \/ q \in db
             /\ \E y \in Kept' : y.id = r.id
  <2>1. r \in AllRules /\ copy' = copy /\ ScheduleChanged(r) /\ db' = db \cup {r}
    BY <1>6 DEF RuleAdded, BeginEvent, AllRules
  <2> QED  BY <1>5, <2>1
<1>7. CASE ConditionScheduled
  <2>1. changing[1] \in AllRules /\ copy' = copy /\ ScheduleChanged(changing[1]) /\ db' = db
    BY <1>7, ChangingIsRule DEF ConditionScheduled
  <2> QED  BY <1>2, <1>5, <2>1
<1>8. ASSUME NEW r \in Changed, RuleUpdated(r) \/ RuleConditionChanged(r)
      PROVE  Kept' = Kept /\ \A q \in db' : \E x \in db : x.id = q.id
  BY <1>8 DEF RuleUpdated, RuleConditionChanged, BeginEvent, Kept, Replaced
<1>9. ASSUME NEW r \in db, RuleRemoved(r)
      PROVE  Kept' = Kept /\ db' \subseteq db
  <2>1. copy' = copy /\ db' \subseteq db /\ m_timedRules' \in MakeHeap(m_timedRules)
    BY <1>9, NothingErased DEF RuleRemoved, BeginEvent, Types
  <2>2. ToSet(m_timedRules') = ToSet(m_timedRules)
    BY <2>1, MakeHeapRearranges, RearrangedKeeps DEF Types
  <2> QED  BY <2>1, <2>2 DEF Kept
<1>10. CASE \/ ComputeNext \/ Decide \/ Timeout \/ SpuriousWakeup \/ ChangedEffectDone \/ CheckRules
            \/ SetShutdown \/ NotifyShutdown \/ Tick \/ UNCHANGED vars
  <2>1. UNCHANGED <<m_timedRules, copy, db>>
    BY <1>10 DEF ComputeNext, Decide, Timeout, SpuriousWakeup, ChangedEffectDone, CheckRules,
                 SetShutdown, NotifyShutdown, Tick, vars, timerVars, clock
  <2> QED  BY <1>2, <2>1 DEF Kept
<1> QED
  BY <1>2, <1>3, <1>4, <1>6, <1>7, <1>8, <1>9, <1>10 DEF Next, Thread, Handling, Horizon

LEMMA KeptInit ==
  ASSUME Init
  PROVE  EachIsKept
<1>1. PICK s \in Configurations : db = ToSet(s) /\ m_timedRules \in MakeHeap(s)
  BY DEF Init
<1>2. s \in Seq(AllRules)
  <2>1. ToSet(s) \subseteq AllRules
    BY DEF AllRules
  <2> QED  BY <2>1, SeqMonotonic, RuleEventHandlerAssumption
<1>3. ToSet(m_timedRules) = ToSet(s)
  BY <1>1, <1>2, MakeHeapRearranges, RearrangedKeeps
<1> QED  BY <1>1, <1>3 DEF EachIsKept, Kept

LEMMA EachIsKeptStep ==
  ASSUME KindKept, IInv, EachIsKept, [Next]_vars
  PROVE  EachIsKept'
<1> SUFFICES ASSUME NEW r \in db', Recurs(r), ~ \E y \in Kept' : y.id = r.id PROVE FALSE
  BY DEF EachIsKept
<1>1. PICK q \in db : q.id = r.id
  BY KeptStep
<1>2. q \in AllRules /\ r \in AllRules
  BY NextIInv DEF IInv, Types
<1>3. PICK x \in Kept : x.id = r.id
  BY <1>1, <1>2 DEF EachIsKept, KindKept
<1>4. x \in AllRules
  BY LenProperties, ElementOfSeq DEF Kept, IInv, Types, ToSet
<1> QED  BY <1>2, <1>3, <1>4, KeptStep DEF KindKept

\* Under KindKept a recurring rule is never lost between the heap and the thread's hands,
\* whatever events change the heap while the thread has a rule out and the mutex is
\* released, and whichever effects throw.  It is there twice only if such an event
\* was about it.
THEOREM RulesStayInTimer == KindKept => (Spec => []RulesInTimer)
<1> SUFFICES ASSUME KindKept PROVE Spec => []RulesInTimer
  OBVIOUS
<1>1. IInv => TwiceIfOvertaken
  <2> SUFFICES ASSUME IInv PROVE TwiceIfOvertaken
    OBVIOUS
  <2> DEFINE n   == Len(m_timedRules)
             all == m_timedRules \o copy
  <2>1. /\ m_timedRules \in Seq(AllRules) /\ copy \in Seq(AllRules)
        /\ n \in Nat /\ Len(copy) \in {0, 1}
    BY LenProperties DEF IInv, Types
  <2>2. /\ all \in Seq(AllRules) /\ Len(all) = n + Len(copy)
        /\ \A i \in 1..(n + Len(copy)) : all[i] = IF i <= n THEN m_timedRules[i] ELSE copy[i - n]
    BY <2>1, ConcatProperties
  <2>3. DOMAIN all = 1..(n + Len(copy))
    BY <2>2, LenProperties
  <2>4. \A i \in 1..n : m_timedRules[i] \in ToSet(m_timedRules)
    BY <2>1, LenProperties DEF ToSet
  <2>5. Len(copy) = 1 => copy[1] \in ToSet(copy)
    BY <2>1, LenProperties DEF ToSet
  <2>6. \A i, j \in 1..n : m_timedRules[i].id = m_timedRules[j].id => i = j \/ m_timedRules[i].id \in overtaken
    BY DEF IInv, Unique
  <2>7. \A i \in 1..n : Len(copy) = 1 /\ m_timedRules[i].id = copy[1].id => copy[1].id \in overtaken
    BY <2>4, <2>5 DEF IInv, NotInBoth
  <2> HIDE DEF n, all
  <2>8. \A i \in 1..(n + Len(copy)) : \/ i \in 1..n /\ all[i] = m_timedRules[i]
                                      \/ i = n + 1 /\ Len(copy) = 1 /\ all[i] = copy[1]
    <3> TAKE i \in 1..(n + Len(copy))
    <3>1. CASE i <= n
      BY <2>1, <2>2, <3>1
    <3>2. CASE i > n
      <4>1. CASE Len(copy) = 0
        BY <2>1, <3>2, <4>1
      <4>2. CASE Len(copy) = 1
        <5>1. i = n + 1 /\ i - n = 1 /\ ~(i <= n)
          BY <2>1, <3>2, <4>2
        <5> QED  BY <2>2, <4>2, <5>1
      <4> QED  BY <2>1, <4>1, <4>2
    <3> QED  BY <2>1, <3>1, <3>2
  <2>9. \A i, j \in 1..(n + Len(copy)) : all[i].id = all[j].id => i = j \/ all[i].id \in overtaken
    BY <2>6, <2>7, <2>8
  <2> QED  BY <2>3, <2>9 DEF TwiceIfOvertaken, all
<1>2. EachIsKept => TimedRulesKept
  BY DEF EachIsKept, TimedRulesKept, Kept, ToSet
<1>3. Init => EachIsKept
  BY KeptInit
<1>4. IInv /\ EachIsKept /\ [Next]_vars => EachIsKept'
  BY EachIsKeptStep
<1>5. Spec => []EachIsKept
  BY <1>3, <1>4, TimerInvariant, PTL DEF Spec
<1>6. IInv /\ EachIsKept => RulesInTimer
  BY <1>1, <1>2 DEF RulesInTimer
<1> QED  BY <1>5, <1>6, TimerInvariant, PTL

\* The thread crashes where it has just found the heap empty, with no rule in its hands,
\* and nobody changes the rules after that.
LEMMA CrashStep ==
  ASSUME IInv, EachIsKept, CrashExplained, [Next]_vars
  PROVE  CrashExplained'
<1>1. CASE ComputeNext
  <2>1. db' = db /\ (pc' = "crashed" => m_timedRules = <<>>)
    BY <1>1 DEF ComputeNext
  <2>2. copy = <<>>
    BY <1>1, EmptySeq DEF ComputeNext, IInv, Types
  <2>3. m_timedRules = <<>> => Kept = {}
    BY <2>2 DEF Kept, ToSet
  <2> QED  BY <2>1, <2>3 DEF EachIsKept, CrashExplained
<1>2. CASE \/ \E r \in Changed : RuleAdded(r) \/ RuleConditionChanged(r) \/ RuleUpdated(r)
           \/ \E r \in db : RuleRemoved(r)
  <2>1. pc # "crashed" /\ pc' \in {pc, Woken}
    BY <1>2 DEF RuleAdded, RuleConditionChanged, RuleUpdated, RuleRemoved, BeginEvent, ScheduleChanged
  <2> QED  BY <2>1 DEF CrashExplained, Woken
<1>3. CASE \/ Check \/ ExecuteDone \/ Decide \/ Timeout \/ SpuriousWakeup \/ Handling
           \/ SetShutdown \/ NotifyShutdown \/ Tick \/ UNCHANGED vars
  <2>1. db' = db
    BY <1>3 DEF Check, ExecuteDone, Decide, Timeout, SpuriousWakeup, Handling, ChangedEffectDone,
                ConditionScheduled, CheckRules, SetShutdown, NotifyShutdown, Tick, vars
  <2>2. pc' = "crashed" => pc = "crashed"
    BY <1>3 DEF Check, ExecuteDone, Decide, Timeout, SpuriousWakeup, Handling, ChangedEffectDone,
                ConditionScheduled, ScheduleChanged, CheckRules, SetShutdown, NotifyShutdown, Tick,
                vars, timerVars, Woken
  <2> QED  BY <2>1, <2>2 DEF CrashExplained
<1> QED  BY <1>1, <1>2, <1>3 DEF Next, Thread, Horizon

\* Under KindKept the thread reads the front of an empty vector only while no recurring
\* rule is in the database: after the last rule that comes once.
THEOREM EmptyReadExplained == KindKept => (Spec => []CrashExplained)
<1> SUFFICES ASSUME KindKept PROVE Spec => []CrashExplained
  OBVIOUS
<1>1. Init => EachIsKept /\ CrashExplained
  BY KeptInit DEF Init, CrashExplained
<1>2. IInv /\ EachIsKept /\ CrashExplained /\ [Next]_vars => EachIsKept' /\ CrashExplained'
  BY EachIsKeptStep, CrashStep
<1> QED  BY <1>1, <1>2, TimerInvariant, PTL DEF Spec

-----------------------------------------------------------------------------
(* A thread that waits without a deadline. *)

\* Also between the decision not to check again and the wait.
SleepInv ==
  pc \in {"decide", "waiting"} /\ nextCheck = Never =>
    m_timedRules = <<>> \/ \E x \in ToSet(m_timedRules) : ~Recurs(x)

\* A rule that comes to the heap wakes the thread, if it is in front; else the thread
\* goes on to sleep for the rule that comes once, or for the new version of that.
LEMMA SleepScheduled ==
  ASSUME KindKept, IInv, SleepInv, NEW r \in AllRules, ScheduleChanged(r),
         UNCHANGED <<copy, nextCheck>>
  PROVE  SleepInv'
<1>1. m_timedRules \in Seq(AllRules) /\ pc # "decide"
  BY DEF IInv, Types, ScheduleChanged, Locked
<1>2. CASE m_timedRules = <<>>
  <2>1. Upsert(m_timedRules, r) = <<r>>
    BY <1>2 DEF Upsert
  <2>2. PICK i \in DOMAIN <<r>> : m_timedRules' = ToFront(<<r>>, i)
    BY <2>1 DEF ScheduleChanged, MakeHeap
  <2>3. <<r>> \in Seq(AllRules) /\ i \in 1..Len(<<r>>) /\ <<r>>[i] = r
    BY <2>2
  <2>4. Head(m_timedRules') = r
    BY <2>2, <2>3, ToFrontRearranges
  <2>5. pc' = Woken
    BY <2>4 DEF ScheduleChanged
  <2> QED  BY <1>1, <2>5 DEF Woken, SleepInv
<1>3. CASE m_timedRules # <<>>
  <2> SUFFICES ASSUME pc' \in {"decide", "waiting"}, nextCheck = Never
               PROVE  \E x \in ToSet(m_timedRules') : ~Recurs(x)
    BY DEF SleepInv
  <2>1. pc = "waiting"
    BY <1>1 DEF ScheduleChanged, Woken
  <2>2. PICK x \in ToSet(m_timedRules) : ~Recurs(x)
    BY <1>3, <2>1 DEF SleepInv
  <2>3. /\ r \in ToSet(m_timedRules')
        /\ x.id = r.id \/ x \in ToSet(m_timedRules')
    BY <1>1, ScheduleChangedKeeps, UpsertProperties
  <2>4. x \in AllRules
    BY <1>1, ElementOfSeq, LenProperties DEF ToSet
  <2> QED  BY <2>2, <2>3, <2>4 DEF KindKept
<1> QED  BY <1>2, <1>3

LEMMA SleepStep ==
  ASSUME KindKept, IInv, SleepInv, [Next]_vars
  PROVE  SleepInv'
<1> USE DEF IInv
<1>1. CASE Check
  BY <1>1 DEF Check, SleepInv
<1>2. CASE ComputeNext
  <2>1. CASE m_timedRules = <<>>
    BY <1>2, <2>1 DEF ComputeNext, SleepInv
  <2>2. CASE m_timedRules # <<>>
    <3>1. /\ nextCheck' = Key(Head(m_timedRules)) /\ UNCHANGED m_timedRules
          /\ Head(m_timedRules) \in AllRules /\ Head(m_timedRules) \in ToSet(m_timedRules)
      <4>1. Head(m_timedRules) = m_timedRules[1] /\ 1 \in DOMAIN m_timedRules
        BY <2>2, EmptySeq, LenProperties, HeadTailProperties DEF Types
      <4> QED  BY <1>2, <2>2, <4>1, HeadTailProperties DEF ComputeNext, Types, ToSet
    <3>2. Key(Head(m_timedRules)) = Never => ~Recurs(Head(m_timedRules))
      BY <3>1, KeyType
    <3> QED  BY <3>1, <3>2 DEF SleepInv
  <2> QED  BY <2>1, <2>2
<1>3. ASSUME NEW r \in Changed, RuleAdded(r)
      PROVE  SleepInv'
  BY <1>3, SleepScheduled DEF RuleAdded, BeginEvent, AllRules
<1>4. CASE ConditionScheduled
  BY <1>4, ChangingIsRule, SleepScheduled DEF ConditionScheduled
<1>5. ASSUME NEW r \in Changed, RuleUpdated(r) \/ RuleConditionChanged(r)
      PROVE  SleepInv'
  BY <1>5 DEF RuleUpdated, RuleConditionChanged, BeginEvent, SleepInv
<1>6. ASSUME NEW r \in db, RuleRemoved(r)
      PROVE  SleepInv'
  <2>1. m_timedRules' \in MakeHeap(m_timedRules) /\ UNCHANGED <<pc, nextCheck>>
    BY <1>6, NothingErased DEF RuleRemoved, BeginEvent, Types
  <2>2. ToSet(m_timedRules') = ToSet(m_timedRules)
    BY <2>1, MakeHeapRearranges, RearrangedKeeps DEF Types
  <2>3. m_timedRules = <<>> => m_timedRules' = <<>>
    BY <2>1 DEF MakeHeap
  <2> QED  BY <2>1, <2>2, <2>3 DEF SleepInv
<1>7. CASE ExecuteDone \/ Decide \/ Timeout \/ SpuriousWakeup
  BY <1>7 DEF ExecuteDone, Decide, Timeout, SpuriousWakeup, SleepInv
<1>8. CASE \/ ChangedEffectDone \/ CheckRules \/ SetShutdown \/ NotifyShutdown \/ Tick
           \/ UNCHANGED vars
  <2>1. UNCHANGED <<m_timedRules, nextCheck>> /\ pc' \in {pc, Woken}
    BY <1>8 DEF ChangedEffectDone, CheckRules, SetShutdown, NotifyShutdown, Tick, vars, timerVars
  <2> QED  BY <2>1 DEF Woken, SleepInv
<1> QED
  BY <1>1, <1>2, <1>3, <1>4, <1>5, <1>6, <1>7, <1>8 DEF Next, Thread, Handling, Horizon

\* Under KindKept the thread waits without a deadline only without any rule, or beside a
\* rule that comes once.
THEOREM SleepIsExplained == KindKept => (Spec => []SleepExplained)
<1> SUFFICES ASSUME KindKept PROVE Spec => []SleepExplained
  OBVIOUS
<1>1. Init => SleepInv
  BY DEF Init, SleepInv
<1>2. IInv /\ SleepInv /\ [Next]_vars => SleepInv'
  BY SleepStep
<1>3. SleepInv => SleepExplained
  BY DEF SleepInv, SleepExplained, ToSet
<1> QED  BY <1>1, <1>2, <1>3, TimerInvariant, PTL DEF Spec

AllRecur == \A r \in AllRules : Recurs(r)

\* When all rules recur, the thread sleeps only without any.
NothingToWaitFor == pc \in {"decide", "waiting"} /\ nextCheck = Never => m_timedRules = <<>>

LEMMA NothingToWaitForAlways == AllRecur => (Spec => []NothingToWaitFor)
<1> SUFFICES ASSUME AllRecur PROVE Spec => []NothingToWaitFor
  OBVIOUS
<1>1. KindKept
  BY DEF AllRecur, KindKept
<1>2. Init => SleepInv
  BY DEF Init, SleepInv
<1>3. IInv /\ SleepInv /\ [Next]_vars => SleepInv'
  BY <1>1, SleepStep
<1>4. IInv /\ SleepInv => NothingToWaitFor
  <2> SUFFICES ASSUME m_timedRules \in Seq(AllRules) PROVE \A x \in ToSet(m_timedRules) : Recurs(x)
    BY DEF SleepInv, NothingToWaitFor, IInv, Types
  <2> QED  BY ElementOfSeq, LenProperties DEF ToSet, AllRecur
<1> QED  BY <1>2, <1>3, <1>4, TimerInvariant, PTL DEF Spec

-----------------------------------------------------------------------------
(* Rules that run whenever their execution time has come. *)

\* A recurring time is a time of the day, and at time1 (or at midnight) the condition
\* is satisfied.
OnTime(c) ==
  /\ c.timeType = "hourMinSec" => c.time1 < Day
  /\ c.compare = "equals" \/ (c.compare = "less" /\ c.time1 > 0)

AllOnTime == \A r \in AllRules : r.enabled /\ r.op = "OR" /\ \A c \in r.conditions : OnTime(c)

LEMMA Remainder ==
  ASSUME NEW d \in Nat \ {0}, NEW q \in Nat, NEW m \in 0..(d - 1)
  PROVE  (d * q + m) % d = m
<1> DEFINE x == d * q + m
           a == x \div d
           b == x % d
<1>1. x \in Nat
  OBVIOUS
<1>2. a \in Int /\ b \in 0..(d - 1) /\ x = d * a + b
  BY <1>1
<1>3. d * a + b = d * q + m
  BY <1>2
<1> HIDE DEF a, b, x
<1>4. d * (a - q) = m - b
  BY <1>2, <1>3
<1>5. ASSUME a >= q + 1 PROVE FALSE
  <2>1. d * (a - q) >= d
    BY <1>2, <1>5
  <2> QED  BY <1>2, <1>4, <2>1
<1>6. ASSUME a <= q - 1 PROVE FALSE
  <2>1. d * (q - a) >= d
    BY <1>2, <1>6
  <2>2. d * (q - a) = b - m
    BY <1>2, <1>3
  <2> QED  BY <1>2, <2>1, <2>2
<1>7. a = q
  BY <1>2, <1>5, <1>6
<1> QED  BY <1>2, <1>3, <1>7 DEF b, x

LEMMA MidnightSteps ==
  ASSUME NEW t \in Nat
  PROVE  /\ LastMidnight(t) \in Nat /\ LastMidnight(t) <= t /\ t < LastMidnight(t) + Day
         /\ LastMidnight(t + 1) = IF t + 1 = LastMidnight(t) + Day THEN t + 1 ELSE LastMidnight(t)
         /\ t % Day = t - LastMidnight(t)
<1> DEFINE q == t \div Day
           m == t % Day
<1>1. Day \in Nat /\ Day > 0
  BY DayAssumption
<1>2. q \in Nat /\ m \in 0..(Day - 1) /\ t = Day * q + m
  BY <1>1
<1>3. (t + 1) % Day = IF m + 1 = Day THEN 0 ELSE m + 1
  <2>1. CASE m + 1 = Day
    <3>1. t + 1 = Day * (q + 1)
      BY <1>1, <1>2, <2>1
    <3>2. (Day * (q + 1) + 0) % Day = 0
      BY <1>1, <1>2, Remainder
    <3> QED  BY <1>1, <1>2, <2>1, <3>1, <3>2
  <2>2. CASE m + 1 # Day
    <3>1. t + 1 = Day * q + (m + 1) /\ m + 1 \in 0..(Day - 1)
      BY <1>1, <1>2, <2>2
    <3>2. (Day * q + (m + 1)) % Day = m + 1
      BY <1>1, <1>2, <3>1, Remainder
    <3> QED  BY <2>2, <3>1, <3>2
  <2> QED  BY <2>1, <2>2
<1>4. LastMidnight(t) = t - m /\ LastMidnight(t + 1) = (t + 1) - ((t + 1) % Day)
  BY DEF LastMidnight
<1>5. m <= t
  BY <1>1, <1>2
<1> QED  BY <1>1, <1>2, <1>3, <1>4, <1>5

\* Until the execution time of a condition comes, it stays.  When it comes, the
\* condition is satisfied, and it moves on.
LEMMA ConditionOnTime ==
  ASSUME NEW c \in TimeCondition, OnTime(c), NEW t \in Nat
  PROVE  /\ GetNextExecutionTime(c, t) > t + 1 => GetNextExecutionTime(c, t + 1) = GetNextExecutionTime(c, t)
         /\ GetNextExecutionTime(c, t) = t + 1 => ConditionIsSatisfied(c, t + 1)
         /\ GetNextExecutionTime(c, t) = Never => GetNextExecutionTime(c, t + 1) = Never
<1> DEFINE m == LastMidnight(t)
           n == LastMidnight(t + 1)
<1>1. Day \in Nat /\ Day > 0
  BY DayAssumption
<1>2. /\ m \in Nat /\ m <= t /\ t < m + Day
      /\ n = IF t + 1 = m + Day THEN t + 1 ELSE m
      /\ (t + 1) % Day = (t + 1) - n
  <2>1. m \in Nat /\ m <= t /\ t < m + Day /\ n = IF t + 1 = m + Day THEN t + 1 ELSE m
    BY MidnightSteps
  <2>2. t + 1 \in Nat
    OBVIOUS
  <2>3. (t + 1) % Day = (t + 1) - n
    <3> HIDE DEF n, m
    <3> QED  BY ONLY <2>2, MidnightSteps DEF n
  <2> QED  BY <2>1, <2>3
<1>3. /\ c.time1 \in Nat /\ c.time2 \in Nat /\ c.timeType \in {"hourMinSec", "absolute"}
      /\ c.compare \in {"equals", "less"}
      /\ c.timeType = "hourMinSec" => c.time1 < Day
      /\ c.compare = "less" => c.time1 > 0
  BY DEF TimeCondition, OnTime
<1>4. CASE c.timeType = "hourMinSec" /\ c.compare = "less"
  <2>1. GetNextExecutionTime(c, t) = m + Day /\ GetNextExecutionTime(c, t + 1) = n + Day
    BY <1>4 DEF GetNextExecutionTime
  <2>2. ConditionIsSatisfied(c, t + 1) <=> (t + 1) - n < c.time1
    BY <1>2, <1>4 DEF ConditionIsSatisfied
  <2> HIDE DEF m, n
  <2> QED  BY <1>1, <1>2, <1>3, <1>4, <2>1, <2>2 DEF Never
<1>5. CASE c.timeType = "hourMinSec" /\ c.compare = "equals"
  <2>1. /\ GetNextExecutionTime(c, t) = IF m + c.time1 <= t THEN m + c.time1 + Day ELSE m + c.time1
        /\ GetNextExecutionTime(c, t + 1) = IF n + c.time1 <= t + 1 THEN n + c.time1 + Day ELSE n + c.time1
    BY <1>5 DEF GetNextExecutionTime
  <2>2. ConditionIsSatisfied(c, t + 1)
          <=> c.time1 - c.time2 <= (t + 1) - n /\ (t + 1) - n <= c.time1 + c.time2
    BY <1>2, <1>5 DEF ConditionIsSatisfied
  <2> HIDE DEF m, n
  <2> QED  BY <1>1, <1>2, <1>3, <1>5, <2>1, <2>2 DEF Never
<1>6. CASE c.timeType = "absolute" /\ c.compare = "less"
  BY <1>6 DEF GetNextExecutionTime, Never
<1>7. CASE c.timeType = "absolute" /\ c.compare = "equals"
  <2>1. /\ GetNextExecutionTime(c, t) = IF c.time1 <= t THEN Never ELSE c.time1
        /\ GetNextExecutionTime(c, t + 1) = IF c.time1 <= t + 1 THEN Never ELSE c.time1
    BY <1>7 DEF GetNextExecutionTime
  <2>2. ConditionIsSatisfied(c, t + 1) <=> c.time1 - c.time2 <= t + 1 /\ t + 1 <= c.time1 + c.time2
    BY <1>7 DEF ConditionIsSatisfied
  <2> HIDE DEF m, n
  <2> QED  BY <1>3, <2>1, <2>2 DEF Never
<1> QED  BY <1>3, <1>4, <1>5, <1>6, <1>7

\* The next execution time of a rule that recurs is the least of its conditions'.
LEMMA NextExecutionTimeIsLeast ==
  ASSUME NEW r, IsRule(r), Recurs(r), NEW t \in Nat
  PROVE  /\ \E c \in r.conditions : GetNextExecutionTime(c, t) = NextExecutionTime(r, t)
         /\ \A c \in r.conditions : \/ GetNextExecutionTime(c, t) = Never
                                    \/ NextExecutionTime(r, t) <= GetNextExecutionTime(c, t)
<1> DEFINE times == {GetNextExecutionTime(c, t) : c \in r.conditions} \ {Never}
<1>1. \A c \in r.conditions : c \in TimeCondition
  BY DEF IsRule
<1>2. times \in SUBSET Nat
  BY <1>1, GetNextExecutionTimeIsLater
<1>3. times # {}
  <2>1. PICK c \in r.conditions : c.timeType = "hourMinSec"
    BY DEF Recurs
  <2>2. GetNextExecutionTime(c, t) \in Nat /\ GetNextExecutionTime(c, t) > t
    BY <1>1, <2>1, GetNextExecutionTimeIsLater
  <2>3. GetNextExecutionTime(c, t) # Never
    BY <2>2 DEF Never
  <2> QED  BY <2>3
<1>4. NextExecutionTime(r, t) = CHOOSE n \in times : \A m \in times : n <= m
  BY <1>3 DEF NextExecutionTime
<1>5. NextExecutionTime(r, t) \in times /\ \A m \in times : NextExecutionTime(r, t) <= m
  <2> HIDE DEF times
  <2>1. \E n \in times : \A m \in times : n <= m
    BY <1>2, <1>3, LeastExists
  <2> QED  BY <1>4, <2>1
<1> QED  BY <1>5

\* The same of a rule.
LEMMA RuleOnTime ==
  ASSUME AllOnTime, NEW r \in AllRules, Recurs(r), NEW t \in Nat
  PROVE  /\ NextExecutionTime(r, t) \in Nat /\ NextExecutionTime(r, t) > t
         /\ NextExecutionTime(r, t) > t + 1 => NextExecutionTime(r, t + 1) = NextExecutionTime(r, t)
         /\ NextExecutionTime(r, t) = t + 1 => IsSatisfied(r, t + 1)
<1>1. IsRule(r) /\ \A c \in r.conditions : c \in TimeCondition /\ OnTime(c)
  BY AllAreRules DEF IsRule, AllOnTime
<1>2. /\ NextExecutionTime(r, t) \in Nat /\ NextExecutionTime(r, t) > t
      /\ NextExecutionTime(r, t + 1) \in Nat /\ NextExecutionTime(r, t + 1) > t + 1
  BY <1>1, NextExecutionTimeIsLater
<1>3. PICK c \in r.conditions : GetNextExecutionTime(c, t) = NextExecutionTime(r, t)
  BY <1>1, NextExecutionTimeIsLeast
<1>4. NextExecutionTime(r, t) = t + 1 => IsSatisfied(r, t + 1)
  <2>1. r.enabled /\ r.op = "OR"
    BY DEF AllOnTime
  <2> QED  BY <1>1, <1>3, <2>1, ConditionOnTime DEF IsSatisfied
<1>5. ASSUME NextExecutionTime(r, t) > t + 1
      PROVE  NextExecutionTime(r, t + 1) = NextExecutionTime(r, t)
  <2>1. NextExecutionTime(r, t + 1) <= NextExecutionTime(r, t)
    <3>1. GetNextExecutionTime(c, t + 1) = NextExecutionTime(r, t)
      BY <1>1, <1>3, <1>5, ConditionOnTime
    <3>2. GetNextExecutionTime(c, t + 1) # Never
      BY <1>2, <3>1 DEF Never
    <3> QED  BY <1>1, <3>1, <3>2, NextExecutionTimeIsLeast
  <2>2. NextExecutionTime(r, t) <= NextExecutionTime(r, t + 1)
    <3>1. PICK d \in r.conditions : GetNextExecutionTime(d, t + 1) = NextExecutionTime(r, t + 1)
      BY <1>1, NextExecutionTimeIsLeast
    <3>2. GetNextExecutionTime(d, t + 1) # Never
      BY <1>2, <3>1 DEF Never
    <3>3. GetNextExecutionTime(d, t) # Never
      BY <1>1, <3>2, ConditionOnTime
    <3>4. NextExecutionTime(r, t) <= GetNextExecutionTime(d, t)
      BY <1>1, <3>3, NextExecutionTimeIsLeast
    <3>5. GetNextExecutionTime(d, t) \in Nat
      BY <1>1, GetNextExecutionTimeIsLater
    <3>6. GetNextExecutionTime(d, t + 1) = GetNextExecutionTime(d, t)
      BY <1>1, <1>2, <1>5, <3>4, <3>5, ConditionOnTime
    <3> QED  BY <3>1, <3>4, <3>6
  <2> QED  BY <1>2, <2>1, <2>2
<1> QED  BY <1>2, <1>4, <1>5

-----------------------------------------------------------------------------
(* What the thread waits for. *)

\* As many rules as pop_heap puts in order.
AtMostFour == Len(m_timedRules) + Len(copy) <= 4

LeastIn(r, rules) == \A x \in rules : Key(r) <= Key(x)

FrontLeast == m_timedRules # <<>> => LeastIn(Head(m_timedRules), ToSet(m_timedRules))
FrontSatisfied == m_timedRules # <<>> /\ IsSatisfied(Head(m_timedRules), now)

\* When the clock has changed the keys under the heap, its front is due: the thread
\* will wake up, take it out and make the heap anew.
FrontInv ==
  /\ pc \in {"executing", "next", "decide"} => FrontLeast
  /\ pc \in {"woken", "check"} => (FrontLeast \/ FrontSatisfied)
  /\ pc = "waiting" => FrontLeast \/ (FrontSatisfied /\ nextCheck <= now)
  /\ pc = "decide" /\ nextCheck # Never =>
       m_timedRules # <<>> /\ nextCheck = Key(Head(m_timedRules))
  /\ pc = "waiting" /\ nextCheck # Never =>
       \A x \in ToSet(m_timedRules) : nextCheck <= Key(x)

LowestInv == prompt => FrontInv

LEMMA InSeq ==
  ASSUME NEW s \in Seq(AllRules)
  PROVE  /\ ToSet(s) \subseteq AllRules
         /\ s # <<>> => Head(s) \in ToSet(s) /\ Head(s) = s[1] /\ Len(s) >= 1
         /\ s = <<>> => ToSet(s) = {}
<1>1. DOMAIN s = 1..Len(s) /\ Len(s) \in Nat /\ \A i \in 1..Len(s) : s[i] \in AllRules
  BY LenProperties, ElementOfSeq
<1>2. s # <<>> => Head(s) = s[1] /\ Len(s) >= 1
  BY <1>1, EmptySeq, HeadTailProperties
<1>3. s = <<>> => 1..Len(s) = {}
  BY EmptySeq
<1> QED  BY <1>1, <1>2, <1>3 DEF ToSet

LEMMA AppendedSet ==
  ASSUME NEW s \in Seq(AllRules), NEW r \in AllRules
  PROVE  ToSet(Append(s, r)) = ToSet(s) \cup {r}
<1> DEFINE n == Len(s)
<1>1. /\ n \in Nat /\ DOMAIN s = 1..n /\ DOMAIN Append(s, r) = 1..(n + 1)
      /\ Append(s, r)[n + 1] = r /\ \A i \in 1..n : Append(s, r)[i] = s[i]
  BY AppendProperties, LenProperties
<1> HIDE DEF n
<1>2. n + 1 \in 1..(n + 1) /\ \A i \in 1..(n + 1) : i = n + 1 \/ i \in 1..n
  BY <1>1
<1>3. \A i \in 1..n : i \in 1..(n + 1)
  BY <1>1
<1> QED  BY <1>1, <1>2, <1>3 DEF ToSet

LEMMA MakeHeapLeast ==
  ASSUME NEW s \in Seq(AllRules), s # <<>>, NEW h \in MakeHeap(s)
  PROVE  h # <<>> /\ Head(h) \in ToSet(h) /\ ToSet(h) = ToSet(s) /\ LeastIn(Head(h), ToSet(h))
<1>1. PICK i \in DOMAIN s : h = ToFront(s, i) /\ MinimalAt(s, i)
  BY DEF MakeHeap
<1>2. /\ h \in Seq(AllRules) /\ ToSet(h) = ToSet(s) /\ Head(h) = s[i] /\ Len(h) = Len(s)
  BY <1>1, LenProperties, ToFrontRearranges, RearrangedKeeps
<1>3. h # <<>>
  BY <1>2, EmptySeq
<1>4. \A x \in ToSet(s) : \E j \in DOMAIN s : x = s[j]
  BY DEF ToSet
<1>5. LeastIn(s[i], ToSet(s))
  BY <1>1, <1>4 DEF MinimalAt, LeastIn
<1> QED  BY <1>2, <1>3, <1>5, InSeq

\* pop_heap of at most four rules leaves the least of them in front.
LEMMA PopHeapLeast ==
  ASSUME NEW s \in Seq(AllRules), s # <<>>, Len(s) <= 4, NEW h \in PopHeap(s)
  PROVE  h # <<>> => LeastIn(Head(h), ToSet(h))
<1>1. Tail(s) \in Seq(AllRules) /\ Len(Tail(s)) <= 3
  BY HeadTailProperties, LenProperties, InSeq
<1>2. h \in MakeHeap(Tail(s))
  BY <1>1 DEF PopHeap
<1>3. Tail(s) = <<>> => h = <<>>
  BY <1>2 DEF MakeHeap
<1> QED  BY <1>1, <1>2, <1>3, MakeHeapLeast

\* So does push_heap, if the front was the least.
LEMMA PushHeapLeast ==
  ASSUME Types, NEW s \in Seq(AllRules), s # <<>> => LeastIn(Head(s), ToSet(s)),
         NEW r \in AllRules, NEW h \in PushHeap(s, r)
  PROVE  LeastIn(Head(h), ToSet(h))
<1> DEFINE less == s # <<>> => Key(r) < Key(Head(s))
<1>1. h \in Seq(AllRules) /\ ToSet(h) = ToSet(Append(s, r))
  BY PushHeapRearranges, RearrangedKeeps
<1>2. ToSet(Append(s, r)) = ToSet(s) \cup {r}
  BY AppendedSet
<1>3. Key(r) \in Nat /\ \A x \in ToSet(s) : Key(x) \in Nat
  BY KeyType, InSeq
<1>4. CASE less
  <2>1. \A x \in ToSet(s) : Key(r) < Key(x)
    <3>1. s # <<>> => Head(s) \in ToSet(s) /\ Key(r) < Key(Head(s)) /\ LeastIn(Head(s), ToSet(s))
      BY <1>4, InSeq
    <3>2. s = <<>> => ToSet(s) = {}
      BY InSeq
    <3> QED  BY <1>3, <3>1, <3>2 DEF LeastIn
  <2>2. Head(h) = r
    <3>1. CASE h = <<r>> \o s
      <4>1. <<r>> \in Seq(AllRules) /\ Len(<<r>>) = 1 /\ <<r>>[1] = r /\ Len(s) \in Nat
        BY LenProperties
      <4>2. Len(h) = 1 + Len(s) /\ h[1] = r
        BY <3>1, <4>1, ConcatProperties
      <4> QED  BY <1>1, <4>1, <4>2, EmptySeq, InSeq
    <3>2. CASE h = Append(s, r) /\ ~(less /\ ~(Len(s) > 2 /\ \E i \in DOMAIN s : Key(s[i]) <= Key(r)))
      <4>1. PICK i \in DOMAIN s : Key(s[i]) <= Key(r)
        BY <1>4, <3>2
      <4>2. s[i] \in ToSet(s)
        BY <4>1 DEF ToSet
      <4> QED  BY <1>3, <2>1, <4>1, <4>2
    <3> QED  BY <1>4, <3>1, <3>2 DEF PushHeap
  <2> QED  BY <1>1, <1>2, <1>3, <2>1, <2>2 DEF LeastIn
<1>5. CASE ~less
  <2>1. s # <<>> /\ Key(Head(s)) <= Key(r) /\ Head(s) \in ToSet(s) /\ LeastIn(Head(s), ToSet(s))
    BY <1>3, <1>5, InSeq
  <2>2. h = Append(s, r)
    BY <1>5 DEF PushHeap
  <2>3. Head(h) = Head(s)
    <3>1. Len(s) \in Nat /\ 1 \in 1..Len(s) /\ Head(s) = s[1]
      BY <2>1, InSeq, LenProperties
    <3>2. Len(h) = Len(s) + 1 /\ h[1] = s[1]
      BY <2>2, <3>1, AppendProperties
    <3> QED  BY <1>1, <3>1, <3>2, EmptySeq, InSeq
  <2> QED  BY <1>1, <1>2, <1>3, <2>1, <2>3 DEF LeastIn
<1> QED  BY <1>4, <1>5

\* The clock goes on while the thread waits: no key gets less, and the keys stay until
\* the least of them comes.
LEMMA LowestTick ==
  ASSUME AllRecur, AllOnTime, Types, NothingToWaitFor, FrontInv, prompt, Tick
  PROVE  FrontInv'
<1>1. /\ now \in Nat /\ now' = now + 1 /\ Idle
      /\ UNCHANGED <<m_timedRules, pc, nextCheck>>
  BY DEF Tick, Types, timerVars
<1>2. \A x \in ToSet(m_timedRules) :
        /\ x \in AllRules
        /\ Key(x) \in Nat /\ Key(x) > now /\ Key(x)' \in Nat /\ Key(x)' > now + 1
        /\ Key(x) > now + 1 => Key(x)' = Key(x)
        /\ Key(x) = now + 1 => IsSatisfied(x, now + 1)
  <2> TAKE x \in ToSet(m_timedRules)
  <2>1. x \in AllRules /\ Recurs(x)
    BY InSeq DEF Types, AllRecur
  <2>2. Key(x) = NextExecutionTime(x, now) /\ Key(x)' = NextExecutionTime(x, now + 1)
    BY <1>1 DEF Key
  <2>3. now + 1 \in Nat
    BY <1>1
  <2> QED  BY <1>1, <2>1, <2>2, <2>3, RuleOnTime
<1>3. CASE pc # "waiting"
  BY <1>1, <1>3 DEF FrontInv, Idle
<1>4. CASE pc = "waiting" /\ nextCheck = Never
  <2>1. m_timedRules = <<>> /\ ToSet(m_timedRules) = {}
    BY <1>4, InSeq DEF NothingToWaitFor, Types
  <2> QED  BY <1>1, <1>4, <2>1 DEF FrontInv, FrontLeast
<1>5. CASE pc = "waiting" /\ nextCheck # Never
  <2>1. nextCheck \in Nat /\ nextCheck > now /\ FrontLeast
    BY <1>1, <1>5 DEF Idle, FrontInv, Types
  <2>2. \A x \in ToSet(m_timedRules) : nextCheck <= Key(x)
    BY <1>5 DEF FrontInv
  <2>3. \A x \in ToSet(m_timedRules) : nextCheck <= Key(x)'
    <3> TAKE x \in ToSet(m_timedRules)
    <3>1. Key(x) <= Key(x)'
      BY <1>1, <1>2
    <3> QED  BY <1>2, <2>1, <2>2, <3>1
  <2>4. FrontLeast' \/ (FrontSatisfied' /\ nextCheck <= now')
    <3>1. CASE m_timedRules = <<>>
      BY <1>1, <3>1 DEF FrontLeast
    <3>2. CASE m_timedRules # <<>>
      <4>1. PICK f \in ToSet(m_timedRules) :
              f = Head(m_timedRules) /\ \A x \in ToSet(m_timedRules) : Key(f) <= Key(x)
        BY <2>1, <3>2, InSeq DEF FrontLeast, LeastIn, Types
      <4>2. CASE Key(f) = now + 1
        <5>1. IsSatisfied(f, now + 1) /\ nextCheck <= now + 1
          BY <1>2, <2>2, <4>1, <4>2
        <5> QED  BY <1>1, <3>2, <4>1, <5>1 DEF FrontSatisfied
      <4>3. CASE Key(f) > now + 1
        <5>1. \A x \in ToSet(m_timedRules) : Key(x) > now + 1
          BY <1>1, <1>2, <4>1, <4>3
        <5>2. \A x \in ToSet(m_timedRules) : Key(f)' <= Key(x)'
          BY <1>2, <4>1, <5>1
        <5> QED  BY <1>1, <4>1, <5>2 DEF FrontLeast, LeastIn, Key
      <4> QED  BY <1>1, <1>2, <4>1, <4>2, <4>3
    <3> QED  BY <3>1, <3>2
  <2> QED  BY <1>1, <1>5, <2>3, <2>4 DEF FrontInv
<1> QED  BY <1>3, <1>4, <1>5

\* An event puts the heap in order, and wakes the thread if its rule is in front.
LEMMA LowestEvent ==
  ASSUME IInv, NothingToWaitFor, FrontInv, NEW r \in AllRules, ScheduleChanged(r),
         UNCHANGED <<copy, nextCheck, now>>
  PROVE  FrontInv'
<1> DEFINE u == Upsert(m_timedRules, r)
           h == m_timedRules'
<1>1. m_timedRules \in Seq(AllRules) /\ u \in Seq(AllRules) /\ r \in ToSet(u)
      /\ \A x \in ToSet(u) : x = r \/ x \in ToSet(m_timedRules)
  BY UpsertProperties DEF IInv, Types
<1>2. h \in MakeHeap(u) /\ pc' = (IF Head(h).id = r.id THEN Woken ELSE pc) /\ ~Locked
  BY DEF ScheduleChanged
<1>3. u # <<>>
  BY <1>1, InSeq
<1> HIDE DEF u
<1>4. h # <<>> /\ Head(h) \in ToSet(h) /\ ToSet(h) = ToSet(u) /\ LeastIn(Head(h), ToSet(h))
  BY <1>1, <1>2, <1>3, MakeHeapLeast
<1>5. \A x : Key(x)' = Key(x)
  BY DEF Key
<1> HIDE DEF h
<1>6. FrontLeast'
  BY <1>4 DEF FrontLeast, LeastIn, Key, h
<1>7. ASSUME pc' = "waiting", nextCheck # Never PROVE \A x \in ToSet(h) : nextCheck <= Key(x)'
  <2>1. pc = "waiting" /\ Head(h).id # r.id
    BY <1>2, <1>7 DEF Woken
  <2>2. Head(h) \in ToSet(m_timedRules)
    BY <1>1, <1>4, <2>1
  <2>3. nextCheck <= Key(Head(h)) /\ nextCheck \in Nat
    BY <1>7, <2>1, <2>2 DEF FrontInv, IInv, Types
  <2>4. \A x \in ToSet(h) : Key(x) \in Nat
    BY <1>1, <1>4, InSeq, KeyType DEF IInv
  <2> QED  BY <1>4, <1>5, <2>3, <2>4 DEF LeastIn
<1>8. pc' # "decide"
  BY <1>2 DEF Locked, Woken
<1> QED  BY <1>6, <1>7, <1>8 DEF FrontInv, h

LEMMA LowestStep ==
  ASSUME AllRecur, AllOnTime, AtMostFour, IInv, NothingToWaitFor, FrontInv, prompt, [Next]_vars
  PROVE  FrontInv'
<1>1. m_timedRules \in Seq(AllRules) /\ copy \in Seq(AllRules) /\ Types
  BY DEF IInv, Types
<1>2. CASE now' = now
  <2>1. \A x : Key(x)' = Key(x)
    BY <1>2 DEF Key
  <2>2. CASE Check
    <3>1. CASE \/ pc' = "done"
               \/ m_timedRules = <<>> /\ pc' = "decide" /\ nextCheck' = Never /\ UNCHANGED m_timedRules
      BY <3>1 DEF FrontInv, FrontLeast
    <3>2. CASE m_timedRules # <<>> /\ pc' = "executing" /\ m_timedRules' \in PopHeap(m_timedRules)
      <4>1. Len(m_timedRules) <= 4
        BY <1>1, LenProperties DEF AtMostFour
      <4>2. m_timedRules' # <<>> => LeastIn(Head(m_timedRules'), ToSet(m_timedRules'))
        BY <1>1, <3>2, <4>1, PopHeapLeast
      <4> QED  BY <2>1, <3>2, <4>2 DEF FrontInv, FrontLeast, LeastIn
    <3>3. CASE ~IsSatisfied(Head(m_timedRules), now) /\ pc' = "next" /\ UNCHANGED m_timedRules
      <4>1. FrontLeast
        BY <2>2, <3>3 DEF FrontInv, FrontSatisfied, Check
      <4> QED  BY <2>1, <3>3, <4>1 DEF FrontInv, FrontLeast, LeastIn
    <3> QED  BY <2>2, <3>1, <3>2, <3>3 DEF Check
  <2>3. CASE ExecuteDone
    <3>1. Len(copy) = 1 /\ copy[1] \in AllRules /\ FrontLeast
      BY <1>1, <2>3, OneElement DEF ExecuteDone, Types, FrontInv
    <3>2. m_timedRules' \in PushHeap(m_timedRules, copy[1])
      BY <2>3, <3>1, KeyType, <1>1 DEF ExecuteDone, RunsAgain, AllRecur
    <3>3. LeastIn(Head(m_timedRules'), ToSet(m_timedRules'))
      BY <1>1, <3>1, <3>2, PushHeapLeast DEF FrontLeast
    <3> QED  BY <2>1, <2>3, <3>3 DEF ExecuteDone, FrontInv, FrontLeast, LeastIn
  <2>4. CASE ComputeNext
    <3>1. FrontLeast /\ UNCHANGED m_timedRules
      BY <2>4 DEF ComputeNext, FrontInv
    <3> QED  BY <2>1, <2>4, <3>1 DEF ComputeNext, FrontInv, FrontLeast, LeastIn
  <2>5. CASE Decide
    <3>1. FrontLeast /\ UNCHANGED <<m_timedRules, nextCheck>> /\ pc' \in {"waiting", "check"} /\ pc = "decide"
      BY <2>5 DEF Decide, FrontInv
    <3>2. FrontLeast'
      BY <2>1, <3>1 DEF FrontLeast, LeastIn
    <3>3. nextCheck # Never => \A x \in ToSet(m_timedRules) : nextCheck <= Key(x)'
      BY <2>1, <3>1 DEF FrontInv, FrontLeast, LeastIn
    <3> QED  BY <3>1, <3>2, <3>3 DEF FrontInv
  <2>6. CASE Timeout \/ SpuriousWakeup
    <3>1. pc = "waiting" /\ pc' = "woken" /\ UNCHANGED m_timedRules
      BY <2>6 DEF Timeout, SpuriousWakeup
    <3> QED  BY <1>2, <2>1, <3>1 DEF FrontInv, FrontLeast, LeastIn, FrontSatisfied
  <2>7. CASE (\E r \in Changed : RuleAdded(r)) \/ ConditionScheduled
    <3>1. PICK r \in AllRules : ScheduleChanged(r) /\ UNCHANGED <<copy, nextCheck>>
      BY <2>7, ChangingIsRule DEF RuleAdded, ConditionScheduled, BeginEvent, AllRules
    <3> QED  BY <1>2, <3>1, LowestEvent
  <2>8. ASSUME NEW r \in db, RuleRemoved(r) PROVE FrontInv'
    <3>1. m_timedRules' \in MakeHeap(m_timedRules) /\ UNCHANGED <<pc, nextCheck>> /\ ~Locked
      BY <1>1, <2>8, NothingErased DEF RuleRemoved, BeginEvent
    <3>2. ToSet(m_timedRules') = ToSet(m_timedRules)
      BY <1>1, <3>1, MakeHeapRearranges, RearrangedKeeps
    <3>3. FrontLeast'
      <4>1. CASE m_timedRules = <<>>
        BY <3>1, <4>1 DEF MakeHeap, FrontLeast
      <4>2. CASE m_timedRules # <<>>
        BY <1>1, <2>1, <3>1, <4>2, MakeHeapLeast DEF FrontLeast, LeastIn
      <4> QED  BY <4>1, <4>2
    <3> QED  BY <2>1, <3>1, <3>2, <3>3 DEF FrontInv, Locked
  <2>9. CASE UNCHANGED m_timedRules /\ UNCHANGED nextCheck /\ pc' \in {pc, Woken}
    <3>1. FrontLeast' <=> FrontLeast
      BY <2>1, <2>9 DEF FrontLeast, LeastIn
    <3>2. FrontSatisfied' <=> FrontSatisfied
      BY <1>2, <2>9 DEF FrontSatisfied
    <3> QED  BY <1>2, <2>1, <2>9, <3>1, <3>2 DEF FrontInv, Woken
  <2> QED
    BY <2>2, <2>3, <2>4, <2>5, <2>6, <2>7, <2>8, <2>9 DEF Next, Thread, RuleConditionChanged,
       RuleUpdated, BeginEvent, Handling, ChangedEffectDone, CheckRules, SetShutdown, NotifyShutdown,
       Horizon, Tick, vars, timerVars
<1>3. CASE now' # now
  <2>1. Tick
    BY <1>3 DEF Next, Thread, Check, ExecuteDone, ComputeNext, Decide, Timeout, SpuriousWakeup, RuleAdded,
      RuleConditionChanged, RuleUpdated, RuleRemoved, BeginEvent, Handling, ChangedEffectDone,
      ConditionScheduled, CheckRules, SetShutdown, NotifyShutdown, Horizon, vars, clock
  <2> QED  BY <1>1, <2>1, LowestTick
<1> QED  BY <1>2, <1>3

LEMMA LowestInit == Init => LowestInv
<1> SUFFICES ASSUME Init PROVE FrontInv
  BY DEF LowestInv
<1>1. PICK s \in Configurations : m_timedRules \in MakeHeap(s)
  BY DEF Init
<1>2. s \in Seq(AllRules)
  <2>1. ToSet(s) \subseteq AllRules
    BY DEF AllRules
  <2> QED  BY <2>1, SeqMonotonic, RuleEventHandlerAssumption
<1>3. s = <<>> => m_timedRules = <<>>
  BY <1>1 DEF MakeHeap
<1>4. FrontLeast
  BY <1>1, <1>2, <1>3, MakeHeapLeast DEF FrontLeast
<1> QED  BY <1>4 DEF Init, FrontInv

LEMMA LowestNext ==
  ASSUME AllRecur, AllOnTime, AtMostFour, IInv, NothingToWaitFor, LowestInv, [Next]_vars
  PROVE  LowestInv'
<1> SUFFICES ASSUME prompt' PROVE FrontInv'
  BY DEF LowestInv
<1>1. prompt
  BY DEF Next, Thread, Check, ExecuteDone, ComputeNext, Decide, Timeout, SpuriousWakeup, RuleAdded,
    RuleConditionChanged, RuleUpdated, RuleRemoved, BeginEvent, Handling, ChangedEffectDone,
    ConditionScheduled, CheckRules, SetShutdown, NotifyShutdown, Tick, Horizon, vars, clock
<1> QED  BY <1>1, LowestStep DEF LowestInv

\* As long as there are at most four rules in the timer, and each recurs and is satisfied
\* when its execution time comes, the thread waits for the lowest execution time,
\* whatever rules come and change, and whatever wakes it, if the threads keep up with
\* the clock.
THEOREM LowestIsAwaited == AllRecur /\ AllOnTime => (Spec /\ []AtMostFour => []WaitsForLowest)
<1> SUFFICES ASSUME AllRecur, AllOnTime PROVE Spec /\ []AtMostFour => []WaitsForLowest
  OBVIOUS
<1>1. Init => LowestInv
  BY LowestInit
<1>2. Spec => []NothingToWaitFor
  BY NothingToWaitForAlways
<1>3. AtMostFour /\ IInv /\ NothingToWaitFor /\ LowestInv /\ [Next]_vars => LowestInv'
  BY LowestNext
<1>4. IInv /\ LowestInv => WaitsForLowest
  <2> SUFFICES ASSUME Types, FrontInv, pc = "waiting", nextCheck # Never, NEW i \in DOMAIN m_timedRules
               PROVE  nextCheck <= Key(m_timedRules[i])
    BY DEF WaitsForLowest, LowestInv, IInv
  <2>1. m_timedRules[i] \in ToSet(m_timedRules)
    BY DEF ToSet
  <2> QED  BY <2>1 DEF FrontInv
<1> QED  BY <1>1, <1>2, <1>3, <1>4, TimerInvariant, PTL DEF Spec

-----------------------------------------------------------------------------
(* The schedule that RuleSchedule promises. *)

\* No event comes, nothing but the timeout wakes the thread, and the threads keep up
\* with the clock.
NobodyDisturbs == Prompts = {TRUE} /\ ChangeFields = {} /\ ~SpuriousWakeups /\ ~Destroyed

NeverTogether(rules) ==
  \A q, r \in rules : \A t \in Nat :
    NextExecutionTime(q, t) = t + 1 /\ NextExecutionTime(r, t) = t + 1 => q = r

DifferentTimes == \A s \in Configurations : NeverTogether(ToSet(s))

\* An execution time of the rule has just come.
Due(r) == now > 0 /\ NextExecutionTime(r, now - 1) = now

LastRun(r) == fired[r.id][Len(fired[r.id])]
Ran(r) == fired[r.id] # <<>> /\ LastRun(r) = now

FrontDue ==
  /\ m_timedRules # <<>> /\ Due(Head(m_timedRules))
  /\ fired[Head(m_timedRules).id] # <<>> => LastRun(Head(m_timedRules)) < now

TimeToWake == nextCheck # Never /\ nextCheck <= now

Undisturbed ==
  /\ prompt /\ ~m_shutdownThread /\ hpc = "idle" /\ dpc = "alive"
  /\ pc \in {"woken", "executing", "next", "decide", "waiting"}
  /\ ToSet(m_timedRules) \cup ToSet(copy) = db
  /\ NeverTogether(db)

\* The thread wakes up when the front rule is due, which has not run yet; once it has
\* taken that one out no rule is due that has not run.
ScheduleInv ==
  /\ Undisturbed
  /\ pc = "next" => m_timedRules # <<>>
  /\ pc \in {"executing", "next", "decide"} \/ (pc = "waiting" /\ ~TimeToWake) =>
       \A r \in db : Due(r) => Ran(r)
  /\ pc = "woken" => FrontDue \/ (now = 0 /\ \A id \in Ids : fired[id] = <<>>)
  /\ pc = "waiting" /\ TimeToWake => FrontDue
  /\ pc = "waiting" /\ nextCheck > now =>
       m_timedRules # <<>> /\ nextCheck = Key(Head(m_timedRules))

\* RuleSchedule means the same by these names.
LEMMA SameMeaning ==
  /\ \A r, t : Promise!NextExecutionTime(r, t) = NextExecutionTime(r, t)
  /\ \A r, t : Promise!IsSatisfied(r, t) = IsSatisfied(r, t)
<1>1. \A c, t : Promise!GetNextExecutionTime(c, t) = GetNextExecutionTime(c, t)
  BY DEF Promise!GetNextExecutionTime, GetNextExecutionTime, Promise!LastMidnight, LastMidnight,
         Promise!Never, Never
<1>2. \A r, t : Promise!NextExecutionTime(r, t) = NextExecutionTime(r, t)
  <2> TAKE r, t
  <2> DEFINE times == {GetNextExecutionTime(c, t) : c \in r.conditions}
             First(S) == IF S = {} THEN Never ELSE CHOOSE n \in S : \A m \in S : n <= m
  <2>1. NextExecutionTime(r, t) = First(times \ {Never})
    BY DEF NextExecutionTime
  <2>2. Promise!NextExecutionTime(r, t)
          = First({Promise!GetNextExecutionTime(c, t) : c \in r.conditions} \ {Never})
    BY DEF Promise!NextExecutionTime, Promise!Never, Never
  <2>3. {Promise!GetNextExecutionTime(c, t) : c \in r.conditions} = times
    BY <1>1
  <2> HIDE DEF First, times
  <2> QED  BY <2>1, <2>2, <2>3
<1>3. \A c, t : Promise!ConditionIsSatisfied(c, t) = ConditionIsSatisfied(c, t)
  BY DEF Promise!ConditionIsSatisfied, ConditionIsSatisfied
<1>4. \A r, t : Promise!IsSatisfied(r, t) = IsSatisfied(r, t)
  BY <1>3 DEF Promise!IsSatisfied, IsSatisfied
<1> QED  BY <1>2, <1>4

LEMMA ScheduleInit ==
  ASSUME AllRecur, NobodyDisturbs, DifferentTimes, Init
  PROVE  ScheduleInv /\ Promise!SpecInit
<1>1. PICK s \in Configurations : db = ToSet(s) /\ m_timedRules \in MakeHeap(s)
  BY DEF Init
<1>2. s \in Seq(AllRules)
  <2>1. ToSet(s) \subseteq AllRules
    BY DEF AllRules
  <2> QED  BY <2>1, SeqMonotonic, RuleEventHandlerAssumption
<1>3. ToSet(m_timedRules) = db
  BY <1>1, <1>2, MakeHeapRearranges, RearrangedKeeps
<1>4. Undisturbed
  <2>1. ToSet(<<>>) = {}
    BY DEF ToSet
  <2> QED  BY <1>1, <1>3, <2>1 DEF Init, Undisturbed, NobodyDisturbs, DifferentTimes
<1>5. fired = [i \in Ids |-> <<>>] /\ now = 0 /\ pc = "woken"
  BY DEF Init
<1> QED  BY <1>4, <1>5 DEF ScheduleInv, Promise!SpecInit

LEMMA NoLongerEmpty ==
  ASSUME NEW n \in Nat, NEW s \in Seq(0..n), NEW t \in 0..n
  PROVE  Append(s, t) # <<>>
<1>1. Len(Append(s, t)) = Len(s) + 1 /\ Len(s) \in Nat
  BY AppendProperties, LenProperties
<1>2. Len(<<>>) = 0
  OBVIOUS
<1> QED  BY <1>1, <1>2

\* The step of the thread that runs a rule.
LEMMA FrontRuns ==
  ASSUME AllRecur, AllOnTime, IInv, ScheduleInv, Check, m_timedRules # <<>>,
         IsSatisfied(Head(m_timedRules), now),
         pc' = "executing", copy' = <<Head(m_timedRules)>>, m_timedRules' \in PopHeap(m_timedRules),
         fired' = Executed({Head(m_timedRules).id})
  PROVE  ScheduleInv' /\ \E r \in db : Promise!Fire(r)
<1>0. PICK f \in AllRules : f = Head(m_timedRules) /\ f \in db /\ f.id \in Ids
  BY InSeq, AllAreRules DEF IInv, Types, ScheduleInv, Undisturbed
<1>1. /\ UNCHANGED <<m_shutdownThread, db, hpc, dpc, now, prompt, nextCheck>>
      /\ pc = "woken" /\ now \in Nat /\ fired \in [Ids -> Seq(0..now)] /\ copy = <<>>
  <2>1. Len(copy) = 0 /\ copy \in Seq(AllRules)
    BY DEF Check, IInv, Types
  <2>2. copy = <<>>
    BY <2>1, EmptySeq
  <2> QED  BY <2>2 DEF Check, clock, IInv, Types, ScheduleInv, Undisturbed
<1>2. fired[f.id] \in Seq(0..now) /\ now \in 0..now
  BY <1>0, <1>1
<1>3. /\ fired'[f.id] = Append(fired[f.id], now)
      /\ fired' = [fired EXCEPT ![f.id] = Append(@, now)]
  BY <1>0, <1>1 DEF Executed
<1>4. /\ fired'[f.id] # <<>> /\ fired'[f.id][Len(fired'[f.id])] = now
  <2>1. /\ Append(fired[f.id], now) \in Seq(0..now)
        /\ Len(Append(fired[f.id], now)) = Len(fired[f.id]) + 1 /\ Len(fired[f.id]) \in Nat
        /\ Append(fired[f.id], now)[Len(fired[f.id]) + 1] = now
    BY <1>2, AppendProperties, LenProperties
  <2>2. Append(fired[f.id], now) # <<>>
    BY <1>1, <1>2, NoLongerEmpty
  <2> QED  BY <1>3, <2>1, <2>2
<1>5. FrontDue \/ (now = 0 /\ \A id \in Ids : fired[id] = <<>>)
  BY <1>1 DEF ScheduleInv
<1>6. \A r \in db : Due(r) => r = f
  <2> SUFFICES ASSUME NEW r \in db, Due(r) PROVE r = f
    OBVIOUS
  <2>1. now > 0 /\ NextExecutionTime(r, now - 1) = now
    BY DEF Due
  <2>2. NextExecutionTime(f, now - 1) = now
    BY <1>0, <1>1, <1>5, <2>1 DEF FrontDue, Due
  <2>3. now - 1 \in Nat /\ (now - 1) + 1 = now
    BY <1>1, <2>1
  <2> QED  BY <1>0, <2>1, <2>2, <2>3 DEF ScheduleInv, Undisturbed, NeverTogether
<1>7. ToSet(m_timedRules') \cup ToSet(copy') = db
  <2> DEFINE n == Len(m_timedRules)
  <2>1. /\ n \in Nat \ {0} /\ f = m_timedRules[1] /\ m_timedRules \in Seq(AllRules)
        /\ Tail(m_timedRules) \in Seq(AllRules) /\ Len(Tail(m_timedRules)) = n - 1
        /\ \A i \in 1..(n - 1) : Tail(m_timedRules)[i] = m_timedRules[i + 1]
    BY <1>0, HeadTailProperties, EmptySeq DEF IInv, Types
  <2>2. ToSet(m_timedRules') = ToSet(Tail(m_timedRules))
    BY <2>1, PopHeapRearranges, RearrangedKeeps
  <2>3. ToSet(copy') = {f} /\ ToSet(copy) = {}
    BY <1>0, <1>1 DEF ToSet
  <2>4. ToSet(m_timedRules) = {m_timedRules[i] : i \in 1..n}
    BY <2>1, LenProperties DEF ToSet
  <2>5. ToSet(Tail(m_timedRules)) = {Tail(m_timedRules)[i] : i \in 1..(n - 1)}
    BY <2>1, LenProperties DEF ToSet
  <2> HIDE DEF n
  <2>6. \A i \in 1..n : i = 1 \/ (i - 1 \in 1..(n - 1) /\ (i - 1) + 1 = i)
    BY <2>1
  <2>7. 1 \in 1..n /\ \A i \in 1..(n - 1) : i + 1 \in 1..n
    BY <2>1
  <2>8. ToSet(Tail(m_timedRules)) \cup {f} = ToSet(m_timedRules)
    <3>1. \A i \in 1..n : m_timedRules[i] \in ToSet(Tail(m_timedRules)) \cup {f}
      BY <2>1, <2>5, <2>6
    <3>2. \A i \in 1..(n - 1) : Tail(m_timedRules)[i] \in ToSet(m_timedRules)
      BY <2>1, <2>4, <2>7
    <3>3. f \in ToSet(m_timedRules)
      BY <2>1, <2>4, <2>7
    <3> QED  BY <2>4, <2>5, <3>1, <3>2, <3>3
  <2> QED  BY <2>2, <2>3, <2>8 DEF ScheduleInv, Undisturbed
<1>8. ScheduleInv'
  <2>1. Undisturbed'
    BY <1>1, <1>7 DEF ScheduleInv, Undisturbed
  <2>2. \A r \in db : Due(r)' => Ran(r)'
    BY <1>1, <1>4, <1>6 DEF Due, Ran, LastRun
  <2> QED  BY <1>1, <2>1, <2>2 DEF ScheduleInv
<1>9. Promise!Fire(f)
  <2>1. fired[f.id] # <<>> => \E t \in (LastRun(f) + 1)..now : NextExecutionTime(f, t - 1) = t
    <3> SUFFICES ASSUME fired[f.id] # <<>>
                 PROVE  now \in (LastRun(f) + 1)..now /\ NextExecutionTime(f, now - 1) = now
      OBVIOUS
    <3>1. FrontDue
      BY <1>0, <1>5
    <3>2. LastRun(f) < now /\ NextExecutionTime(f, now - 1) = now
      BY <1>0, <3>1 DEF FrontDue, Due
    <3>3. LastRun(f) \in 0..now
      <4>1. Len(fired[f.id]) \in 1..Len(fired[f.id])
        BY <1>2, EmptySeq, LenProperties
      <4> QED  BY <1>2, <4>1, ElementOfSeq DEF LastRun
    <3> QED  BY <1>1, <3>2, <3>3
  <2>2. Promise!MayRunAgain(f)
    BY <2>1, SameMeaning DEF Promise!MayRunAgain, Promise!LastOf, LastRun
  <2> QED  BY <1>0, <1>1, <1>3, <2>2, SameMeaning DEF Promise!Fire
<1> QED  BY <1>0, <1>8, <1>9

\* The clock leaves no rule behind, and comes to the front rule's time first.
LEMMA ScheduleTick ==
  ASSUME AllRecur, AllOnTime, IInv, NothingToWaitFor, LowestInv, ScheduleInv, Tick
  PROVE  ScheduleInv' /\ Promise!Tick
<1>1. /\ now \in Nat /\ now' = now + 1 /\ pc = "waiting" /\ ~TimeToWake
      /\ nextCheck = Never \/ nextCheck > now
      /\ UNCHANGED <<m_timedRules, copy, pc, nextCheck, db, fired, prompt, m_shutdownThread, hpc, dpc>>
      /\ m_timedRules \in Seq(AllRules) /\ copy = <<>> /\ nextCheck \in Nat
  <2>1. Idle /\ prompt /\ pc \notin {"done", "crashed"}
    BY DEF Tick, ScheduleInv, Undisturbed
  <2>2. Len(copy) = 0 /\ copy \in Seq(AllRules)
    BY <2>1 DEF Idle, IInv, Types
  <2>3. copy = <<>>
    BY <2>2, EmptySeq
  <2>4. now \in Nat /\ m_timedRules \in Seq(AllRules) /\ nextCheck \in Nat
    BY DEF IInv, Types
  <2> QED  BY <2>1, <2>3, <2>4 DEF Tick, Idle, timerVars, TimeToWake
<1>2. Undisturbed' /\ ToSet(m_timedRules) = db
  <2>1. ToSet(copy) = {}
    BY <1>1 DEF ToSet
  <2> QED  BY <1>1, <2>1 DEF ScheduleInv, Undisturbed
<1>3. Promise!Tick
  <2>1. \A r \in db : IsDue(r, now) => Ran(r)
    BY <1>1 DEF ScheduleInv, IsDue, Due
  <2> QED  BY <1>1, <2>1, SameMeaning DEF Promise!Tick, Promise!IsDue, IsDue, Promise!LastOf, Ran, LastRun
<1>4. CASE nextCheck = Never
  <2>1. db = {}
    BY <1>1, <1>2, <1>4, InSeq DEF NothingToWaitFor
  <2> QED  BY <1>1, <1>2, <1>3, <1>4, <2>1 DEF ScheduleInv, TimeToWake, Never
<1>5. CASE nextCheck # Never
  <2>0. nextCheck > now
    BY <1>1, <1>5
  <2>1. PICK f \in db : f = Head(m_timedRules) /\ f \in AllRules /\ f.id \in Ids
    BY <1>1, <1>2, <2>0, InSeq, AllAreRules DEF ScheduleInv
  <2>2. m_timedRules # <<>> /\ nextCheck = NextExecutionTime(f, now)
    BY <1>1, <2>0, <2>1 DEF ScheduleInv, Key
  <2>3. CASE nextCheck = now + 1
    <3>1. fired[f.id] # <<>> => LastRun(f) < now + 1
      <4> SUFFICES ASSUME fired[f.id] # <<>> PROVE LastRun(f) \in 0..now
        BY <1>1
      <4>1. fired[f.id] \in Seq(0..now)
        BY <2>1 DEF IInv, Types
      <4>2. Len(fired[f.id]) \in 1..Len(fired[f.id])
        BY <4>1, EmptySeq, LenProperties
      <4> QED  BY <4>1, <4>2, ElementOfSeq DEF LastRun
    <3>2. now + 1 > 0 /\ (now + 1) - 1 = now
      BY <1>1
    <3>3. FrontDue'
      BY <1>1, <2>1, <2>2, <2>3, <3>1, <3>2 DEF FrontDue, Due, LastRun
    <3>4. TimeToWake' /\ ~(nextCheck' > now')
      BY <1>1, <1>5, <2>3 DEF TimeToWake
    <3> QED  BY <1>1, <1>2, <1>3, <3>3, <3>4 DEF ScheduleInv
  <2>4. CASE nextCheck > now + 1
    <3>1. \A r \in db : NextExecutionTime(r, now) >= nextCheck
      BY <1>1, <1>2, <1>5 DEF LowestInv, FrontInv, Key, ScheduleInv, Undisturbed
    <3>2. \A r \in db : NextExecutionTime(r, now) # now + 1
      <4> TAKE r \in db
      <4>1. NextExecutionTime(r, now) \in Nat
        BY <1>1, <1>2, InSeq, RuleOnTime DEF AllRecur
      <4> QED  BY <1>1, <2>4, <3>1, <4>1
    <3>3. (now + 1) - 1 = now
      BY <1>1
    <3>4. \A r \in db : ~Due(r)'
      BY <1>1, <3>2, <3>3 DEF Due
    <3>5. NextExecutionTime(f, now + 1) = nextCheck
      BY <1>1, <2>1, <2>2, <2>4, RuleOnTime DEF AllRecur
    <3>6. ~TimeToWake'
      BY <1>1, <2>4 DEF TimeToWake
    <3>7. (m_timedRules # <<>> /\ nextCheck = Key(Head(m_timedRules)))'
      BY <1>1, <2>1, <2>2, <3>5 DEF Key
    <3> QED  BY <1>1, <1>2, <1>3, <3>4, <3>6, <3>7 DEF ScheduleInv
  <2> QED  BY <1>1, <2>0, <2>3, <2>4
<1> QED  BY <1>1, <1>4, <1>5

LEMMA ScheduleStep ==
  ASSUME AllRecur, AllOnTime, NobodyDisturbs, IInv, NothingToWaitFor, LowestInv, ScheduleInv, [Next]_vars
  PROVE  /\ ScheduleInv'
         /\ [(\E r \in db : Promise!Fire(r)) \/ Promise!Tick]_<<db, now, fired>>
<1>1. /\ m_timedRules \in Seq(AllRules) /\ copy \in Seq(AllRules) /\ now \in Nat /\ nextCheck \in Nat
      /\ nextCheck' \in Nat /\ FrontInv
  BY NextIInv DEF IInv, Types, ScheduleInv, Undisturbed, LowestInv
<1>2. CASE /\ UNCHANGED <<m_shutdownThread, db, hpc, dpc, now, prompt, fired>>
           /\ ToSet(m_timedRules') \cup ToSet(copy') = db
           /\ \/ pc' \in {"next", "decide"} /\ \A r \in db : Due(r) => Ran(r)
              \/ pc' = "waiting" /\ (nextCheck' = Never \/ nextCheck' > now) /\ \A r \in db : Due(r) => Ran(r)
              \/ pc' = "woken" /\ FrontDue /\ UNCHANGED m_timedRules
           /\ pc' = "next" => m_timedRules' # <<>>
           /\ pc' = "waiting" /\ nextCheck' > now =>
                m_timedRules' # <<>> /\ nextCheck' = Key(Head(m_timedRules'))
  <2>1. Undisturbed'
    BY <1>2 DEF ScheduleInv, Undisturbed
  <2>2. \A r \in db : (Due(r)' <=> Due(r)) /\ (Ran(r)' <=> Ran(r))
    BY <1>2 DEF Due, Ran, LastRun
  <2>3. pc' = "woken" => FrontDue'
    BY <1>2 DEF FrontDue, Due, LastRun
  <2>4. pc' = "waiting" => ~TimeToWake'
    BY <1>1, <1>2 DEF TimeToWake
  <2>5. pc' = "waiting" /\ nextCheck' > now' => (m_timedRules # <<>> /\ nextCheck = Key(Head(m_timedRules)))'
    BY <1>2 DEF Key
  <2> QED  BY <1>2, <2>1, <2>2, <2>3, <2>4, <2>5 DEF ScheduleInv
<1>3. CASE Check
  <2>1. UNCHANGED <<m_shutdownThread, db, hpc, dpc, now, prompt>> /\ pc = "woken" /\ ~m_shutdownThread
    BY <1>3 DEF Check, clock, ScheduleInv, Undisturbed
  <2>2. FrontDue \/ (now = 0 /\ \A r \in db : ~Due(r))
    BY <2>1 DEF ScheduleInv, Due
  <2>3. FrontDue => IsSatisfied(Head(m_timedRules), now)
    <3> SUFFICES ASSUME FrontDue PROVE IsSatisfied(Head(m_timedRules), now)
      OBVIOUS
    <3>1. now - 1 \in Nat /\ (now - 1) + 1 = now /\ NextExecutionTime(Head(m_timedRules), now - 1) = now
      BY <1>1 DEF FrontDue, Due
    <3>2. Head(m_timedRules) \in AllRules /\ Recurs(Head(m_timedRules))
      BY <1>1, InSeq DEF FrontDue, AllRecur
    <3> QED  BY <3>1, <3>2, RuleOnTime
  <2>4. CASE /\ m_timedRules = <<>> /\ pc' = "decide" /\ nextCheck' = Never
             /\ UNCHANGED <<m_timedRules, copy, fired>>
    BY <1>2, <2>1, <2>2, <2>4 DEF FrontDue, ScheduleInv, Undisturbed
  <2>5. CASE /\ m_timedRules # <<>> /\ IsSatisfied(Head(m_timedRules), now)
             /\ pc' = "executing" /\ copy' = <<Head(m_timedRules)>> /\ m_timedRules' \in PopHeap(m_timedRules)
             /\ fired' = Executed({Head(m_timedRules).id})
    BY <1>3, <2>5, FrontRuns
  <2>6. CASE /\ m_timedRules # <<>> /\ ~IsSatisfied(Head(m_timedRules), now)
             /\ pc' = "next" /\ UNCHANGED <<m_timedRules, copy, nextCheck, fired>>
    BY <1>2, <2>1, <2>2, <2>3, <2>6 DEF ScheduleInv, Undisturbed
  <2> QED  BY <1>3, <2>1, <2>4, <2>5, <2>6 DEF Check, StopRequested
<1>4. CASE ExecuteDone
  <2>1. /\ Len(copy) = 1 /\ copy[1] \in AllRules /\ ToSet(copy) = {copy[1]}
        /\ copy' = <<>> /\ ToSet(copy') = {}
        /\ UNCHANGED <<m_shutdownThread, db, hpc, dpc, now, prompt, fired>>
        /\ pc' = "next" /\ pc = "executing"
    <3>1. Len(copy) = 1 /\ pc = "executing"
      BY <1>4 DEF ExecuteDone, IInv, Types
    <3>2. copy[1] \in AllRules /\ DOMAIN copy = {1}
      BY <1>1, <3>1, OneElement
    <3>3. copy' = <<>> /\ ToSet(<<>>) = {}
      BY <1>4 DEF ExecuteDone, MovedOut, ToSet
    <3> QED  BY <1>4, <3>1, <3>2, <3>3 DEF ExecuteDone, clock, ToSet
  <2>2. m_timedRules' \in PushHeap(m_timedRules, copy[1])
    BY <1>4, <2>1, KeyType DEF ExecuteDone, RunsAgain, AllRecur, IInv
  <2>3. ToSet(m_timedRules') = ToSet(Append(m_timedRules, copy[1])) /\ m_timedRules' \in Seq(AllRules)
    BY <1>1, <2>1, <2>2, PushHeapRearranges, RearrangedKeeps
  <2>4. ToSet(m_timedRules') = ToSet(m_timedRules) \cup {copy[1]}
    BY <1>1, <2>1, <2>3, AppendedSet
  <2>5. m_timedRules' # <<>>
    BY <2>3, <2>4, InSeq
  <2> QED  BY <1>2, <2>1, <2>4, <2>5 DEF ScheduleInv, Undisturbed
<1>5. CASE ComputeNext
  <2>1. /\ pc = "next" /\ pc' = "decide"
        /\ UNCHANGED <<m_timedRules, copy, m_shutdownThread, db, hpc, dpc, now, prompt, fired>>
    BY <1>5 DEF ComputeNext, clock, ScheduleInv
  <2> QED  BY <1>2, <2>1 DEF ScheduleInv, Undisturbed
<1>6. CASE Decide
  <2>1. /\ pc = "decide" /\ UNCHANGED <<m_timedRules, copy, nextCheck, m_shutdownThread>>
        /\ UNCHANGED <<db, hpc, dpc, now, prompt, fired>>
    BY <1>6 DEF Decide, clock
  <2>2. nextCheck # Never => m_timedRules # <<>> /\ nextCheck = Key(Head(m_timedRules)) /\ nextCheck > now
    BY <1>1, <2>1, InSeq, KeyType DEF FrontInv, IInv, AllRecur
  <2>3. pc' = "waiting" /\ (nextCheck = Never \/ nextCheck > now)
    BY <1>6, <2>2 DEF Decide, MustWait
  <2> QED  BY <1>1, <1>2, <2>1, <2>2, <2>3 DEF ScheduleInv, Undisturbed, Never
<1>7. CASE Timeout
  <2>1. /\ UNCHANGED <<m_timedRules, copy, m_shutdownThread, db, hpc, dpc, now, prompt, fired>>
        /\ pc = "waiting" /\ TimeToWake /\ pc' = "woken"
    BY <1>7 DEF Timeout, TimeToWake, clock
  <2> QED  BY <1>2, <2>1 DEF ScheduleInv, Undisturbed
<1>8. CASE Tick
  BY <1>8, ScheduleTick
<1>9. CASE UNCHANGED vars
  BY <1>9 DEF vars, timerVars, clock, ScheduleInv, Undisturbed, Due, Ran, LastRun, FrontDue, TimeToWake, Key
<1>10. ~SpuriousWakeup /\ ~Handling /\ ~SetShutdown /\ ~NotifyShutdown
  BY DEF NobodyDisturbs, ScheduleInv, Undisturbed, SpuriousWakeup, Handling, ChangedEffectDone,
         ConditionScheduled, CheckRules, SetShutdown, NotifyShutdown
<1>11. /\ ~ \E r \in Changed : RuleAdded(r) \/ RuleConditionChanged(r) \/ RuleUpdated(r)
       /\ ~ \E r \in db : RuleRemoved(r)
  BY DEF NobodyDisturbs, RuleAdded, RuleConditionChanged, RuleUpdated, RuleRemoved, BeginEvent
<1> QED
  BY <1>3, <1>4, <1>5, <1>6, <1>7, <1>8, <1>9, <1>10, <1>11 DEF Next, Thread, Horizon

\* With at most four rules that run at different times, each of them recurring and
\* satisfied when its time comes, the timer keeps the schedule of RuleSchedule: while
\* nobody changes a rule, none is missed, none runs while its condition is false, and
\* none runs twice for one execution time.
THEOREM RulesRunOnSchedule ==
  AllRecur /\ AllOnTime /\ NobodyDisturbs /\ DifferentTimes => (Spec /\ []AtMostFour => ScheduleKept)
<1> SUFFICES ASSUME AllRecur, AllOnTime, NobodyDisturbs, DifferentTimes
             PROVE  Spec /\ []AtMostFour => ScheduleKept
  OBVIOUS
<1>1. Init => LowestInv
  BY LowestInit
<1>2. Spec => []NothingToWaitFor
  BY NothingToWaitForAlways
<1>3. AtMostFour /\ IInv /\ NothingToWaitFor /\ LowestInv /\ [Next]_vars => LowestInv'
  BY LowestNext
<1>4. Init => ScheduleInv /\ Promise!SpecInit
  BY ScheduleInit
<1>5. IInv /\ NothingToWaitFor /\ LowestInv /\ ScheduleInv /\ [Next]_vars =>
        /\ ScheduleInv'
        /\ [(\E r \in db : Promise!Fire(r)) \/ Promise!Tick]_<<db, now, fired>>
  BY ScheduleStep
<1> QED  BY <1>1, <1>2, <1>3, <1>4, <1>5, TimerInvariant, PTL DEF Spec, ScheduleKept, Promise!Schedule
=============================================================================
