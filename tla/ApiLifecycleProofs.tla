--------------------------- MODULE ApiLifecycleProofs ---------------------------
(***************************************************************************)
(* Theorems about the life cycle, for all plugins, steps and orders of     *)
(* registration.                                                           *)
(***************************************************************************)
EXTENDS StartUp, SequenceTheorems, TLAPS

\* The plugins of the registry before and from the iterator of the current loop.
Passed == {m_registered[j] : j \in 1..(it - 1)}
Coming == {m_registered[j] : j \in it..Len(m_registered)}
Registered == ToSet(m_registered)

\* How far the main thread is: before InitAPIs, and while Run() waits.
Registering == {"construct", "setMain", "register"}
Waiting == {"socketStart", "wait", "socketStop", "lateBrowser"}

\* What each phase of the main thread implies for the plugins, which the three
\* invariants rest on: a loop's iterator separates those that have gone through
\* the loop's phase from those that have not.
RegisteringInv == pc \in Registering =>
  /\ it = 1 /\ step = 1
  /\ ready = {} /\ orphans = {}
  /\ Len(m_registered) <= Len(Order)
  /\ \A j \in 1..Len(m_registered) : m_registered[j] = Order[j]

InitInv == pc = "init" => Passed \subseteq ready

NotStartedInv == pc \in Registering \cup {"init"} => started = {}

NotStoppedInv == pc \in Registering \cup Waiting \cup {"init", "start"} => stopped = <<>>

ReadyInv == pc \in {"start", "shutdown"} \cup Waiting => Registered \subseteq ready

StartInv == pc = "start" => started = Passed

RunInv == pc \in Waiting => it = 1 /\ started = Registered

ShutdownInv == pc = "shutdown" =>
  /\ started = Coming
  /\ Len(stopped) = it - 1
  /\ \A j \in 1..(it - 1) : stopped[j] = m_registered[j]

EndInv == pc \in {"destroy", "timerSleeps", "exited"} => ShutdownOnlyStarted /\ StartedOnlyReady

\* No plugin is registered twice, and none that is registered was erased.
RegistryInv ==
  /\ IsInjective(m_registered)
  /\ Registered \cap orphans = {}

IInv ==
  /\ TypeOK /\ RegistryInv
  /\ RegisteringInv /\ InitInv /\ NotStartedInv /\ NotStoppedInv /\ ReadyInv
  /\ StartInv /\ RunInv /\ ShutdownInv /\ EndInv

-----------------------------------------------------------------------------
\* The elements of a sequence.
LEMMA ToSetOfSeq ==
  ASSUME NEW S, NEW s \in Seq(S)
  PROVE  /\ Len(s) \in Nat /\ DOMAIN s = 1..Len(s)
         /\ ToSet(s) = {s[j] : j \in 1..Len(s)}
         /\ ToSet(s) \subseteq S
BY ElementOfSeq DEF ToSet

\* Cutting out an element moves those behind it one place to the front.
LEMMA RemoveAtProperties ==
  ASSUME NEW S, NEW s \in Seq(S), NEW k \in 1..Len(s)
  PROVE  /\ RemoveAt(s, k) \in Seq(S)
         /\ Len(RemoveAt(s, k)) = Len(s) - 1
         /\ \A j \in 1..(k - 1) : RemoveAt(s, k)[j] = s[j]
         /\ \A j \in k..(Len(s) - 1) : RemoveAt(s, k)[j] = s[j + 1]
<1> DEFINE front == SubSeq(s, 1, k - 1)
           rest  == SubSeq(s, k + 1, Len(s))
<1>1. Len(s) \in Nat /\ \A j \in 1..Len(s) : s[j] \in S
  BY ElementOfSeq
<1>2. /\ front \in Seq(S) /\ Len(front) = k - 1
      /\ \A j \in 1..(k - 1) : front[j] = s[j]
  BY <1>1, SubSeqProperties
<1>3. /\ rest \in Seq(S) /\ Len(rest) = Len(s) - k
      /\ \A j \in 1..(Len(s) - k) : rest[j] = s[k + j]
  BY <1>1, SubSeqProperties
<1> HIDE DEF front, rest
<1>4. /\ front \o rest \in Seq(S)
      /\ Len(front \o rest) = Len(s) - 1
      /\ \A j \in 1..(Len(s) - 1) :
           (front \o rest)[j] = IF j <= k - 1 THEN front[j] ELSE rest[j - (k - 1)]
  BY <1>1, <1>2, <1>3, ConcatProperties
<1>5. ASSUME NEW j \in k..(Len(s) - 1)
      PROVE  (front \o rest)[j] = s[j + 1]
  BY <1>1, <1>3, <1>4
<1>6. RemoveAt(s, k) = front \o rest
  BY DEF RemoveAt, front, rest
<1>7. QED
  BY <1>1, <1>2, <1>4, <1>5, <1>6

\* Erasing the plugin at the iterator keeps those that were passed, and takes no
\* other plugin out of the registry.
LEMMA ErasesOne ==
  ASSUME IInv, it <= Len(m_registered), Erase
  PROVE  /\ m_registered' \in Seq(Apis) /\ it' \in 1..(Len(m_registered') + 1)
         /\ IsInjective(m_registered')
         /\ Passed' = Passed
         /\ Registered' = Registered \ {m_registered[it]}
         /\ m_registered[it] \notin Passed
         /\ orphans' \subseteq Apis /\ Registered' \cap orphans' = {}
<1> DEFINE n == Len(m_registered)
<1>1. /\ m_registered \in Seq(Apis) /\ n \in Nat /\ it \in 1..n
      /\ DOMAIN m_registered = 1..n /\ orphans \subseteq Apis
      /\ \A j \in 1..n : m_registered[j] \in Apis
  BY ToSetOfSeq, ElementOfSeq DEF IInv, TypeOK
<1>2. \A a, b \in 1..n : m_registered[a] = m_registered[b] => a = b
  BY <1>1 DEF IInv, RegistryInv, IsInjective
<1>3. m_registered' = RemoveAt(m_registered, it) /\ it' = it
      /\ orphans' = orphans \cup {m_registered[it]}
  BY DEF Erase, WithoutFailed, AfterErased
<1>4. /\ m_registered' \in Seq(Apis)
      /\ Len(m_registered') = n - 1
      /\ \A j \in 1..(it - 1) : m_registered'[j] = m_registered[j]
      /\ \A j \in it..(n - 1) : m_registered'[j] = m_registered[j + 1]
  BY <1>1, <1>3, RemoveAtProperties
<1>5. DOMAIN m_registered' = 1..(n - 1)
  BY <1>4, ToSetOfSeq
<1> HIDE DEF n
<1>6. IsInjective(m_registered')
  <2> SUFFICES ASSUME NEW a \in 1..(n - 1), NEW b \in 1..(n - 1), m_registered'[a] = m_registered'[b]
               PROVE  a = b
    BY <1>5 DEF IsInjective
  <2> QED
    BY <1>1, <1>2, <1>4
<1>7. Passed' = Passed
  BY <1>1, <1>3, <1>4 DEF Passed
<1>8. m_registered[it] \notin Passed
  BY <1>1, <1>2 DEF Passed
<1>9. Registered = {m_registered[j] : j \in 1..n} /\ Registered' = {m_registered'[j] : j \in 1..(n - 1)}
  BY <1>1, <1>5 DEF Registered, ToSet
<1>10. Registered' = Registered \ {m_registered[it]}
  <2>1. ASSUME NEW j \in 1..(n - 1)
        PROVE  m_registered'[j] \in Registered \ {m_registered[it]}
    <3>1. CASE j < it
      BY <3>1, <1>1, <1>2, <1>4, <1>9
    <3>2. CASE j >= it
      <4>1. m_registered'[j] = m_registered[j + 1] /\ j + 1 \in 1..n /\ j + 1 # it
        BY <3>2, <1>1, <1>4
      <4>2. QED
        BY <4>1, <1>1, <1>2, <1>9
    <3>3. QED
      BY <3>1, <3>2, <1>1
  <2>2. ASSUME NEW j \in 1..n, j # it
        PROVE  m_registered[j] \in Registered'
    <3>1. CASE j < it
      BY <3>1, <1>1, <1>4, <1>9
    <3>2. CASE j > it
      <4>1. j - 1 \in it..(n - 1) /\ (j - 1) + 1 = j
        BY <3>2, <1>1
      <4>2. m_registered'[j - 1] = m_registered[j] /\ j - 1 \in 1..(n - 1)
        BY <4>1, <1>1, <1>4
      <4>3. QED
        BY <4>2, <1>9
    <3>3. QED
      BY <2>2, <3>1, <3>2, <1>1
  <2>3. QED
    BY <2>1, <2>2, <1>9
<1>11. Registered' \cap orphans' = {}
  BY <1>3, <1>10 DEF IInv, RegistryInv
<1>12. it' \in 1..(Len(m_registered') + 1) /\ orphans' \subseteq Apis
  BY <1>1, <1>3, <1>4
<1>13. QED
  BY <1>4, <1>6, <1>7, <1>8, <1>10, <1>11, <1>12

-----------------------------------------------------------------------------
\* The initial state satisfies the invariant.
LEMMA InitIInv == Init => IInv
<1> SUFFICES ASSUME Init
             PROVE  IInv
  OBVIOUS
<1>1. m_registered = <<>> /\ Len(m_registered) = 0 /\ DOMAIN m_registered = {} /\ Len(Order) \in Nat
  BY ApiLifecycleAssumption, EmptySeq, LenProperties DEF Init
<1>2. TypeOK
  <2>1. m_registered \in Seq(Apis) /\ stopped \in Seq(Apis) /\ it \in 1..(Len(m_registered) + 1) /\ step \in Nat \ {0}
    BY <1>1 DEF Init
  <2>2. QED
    BY <2>1, Zenon DEF Init, TypeOK
<1>3. RegistryInv /\ RegisteringInv
  BY <1>1 DEF Init, RegistryInv, RegisteringInv, IsInjective, ToSet, Registered
<1>4. InitInv /\ NotStartedInv /\ NotStoppedInv /\ ReadyInv /\ StartInv /\ RunInv /\ ShutdownInv /\ EndInv
  BY DEF Init, InitInv, NotStartedInv, NotStoppedInv, ReadyInv, StartInv, RunInv, ShutdownInv, EndInv,
         Registering, Waiting
<1>5. QED
  BY <1>2, <1>3, <1>4 DEF IInv

\* What the types say of the registry.
LEMMA RegistryFacts ==
  ASSUME IInv
  PROVE  /\ m_registered \in Seq(Apis) /\ Len(m_registered) \in Nat
         /\ DOMAIN m_registered = 1..Len(m_registered)
         /\ \A j \in 1..Len(m_registered) : m_registered[j] \in Apis
         /\ Registered = {m_registered[j] : j \in 1..Len(m_registered)} /\ Registered \subseteq Apis
         /\ it \in Nat /\ 1 <= it /\ it <= Len(m_registered) + 1
         /\ stopped \in Seq(Apis) /\ Len(stopped) \in Nat /\ DOMAIN stopped = 1..Len(stopped)
         /\ ToSet(stopped) = {stopped[j] : j \in 1..Len(stopped)}
BY ToSetOfSeq, ElementOfSeq DEF IInv, TypeOK, Registered

\* The steps of the first phase.
LEMMA RegisterDeviceAPIStep == ASSUME IInv, RegisterDeviceAPI PROVE IInv'
<1> DEFINE n == Len(m_registered)
<1>1. /\ Order \in Seq(Apis) /\ Len(Order) \in Nat /\ DOMAIN Order = 1..Len(Order)
      /\ \A j \in 1..Len(Order) : Order[j] \in Apis
      /\ \A a, b \in 1..Len(Order) : Order[a] = Order[b] => a = b
  BY ApiLifecycleAssumption, ToSetOfSeq, ElementOfSeq DEF IsInjective
<1>2. pc \in Registering /\ n \in Nat /\ n < Len(Order) /\ m_registered' = Append(m_registered, Order[n + 1])
      /\ pc' \in Registering
      /\ UNCHANGED <<it, step, left, ready, started, stopped, orphans, m_main, handler, m_shutdown, later, serving>>
      /\ alive' = alive \cup {Order[n + 1]}
  BY RegistryFacts DEF RegisterDeviceAPI, Registering, threads
<1>3. /\ it = 1 /\ step = 1 /\ ready = {} /\ orphans = {} /\ started = {} /\ stopped = <<>>
      /\ \A j \in 1..n : m_registered[j] = Order[j]
  BY <1>2 DEF IInv, RegisteringInv, NotStartedInv, NotStoppedInv
<1>4. /\ m_registered' \in Seq(Apis) /\ Len(m_registered') = n + 1
      /\ DOMAIN m_registered' = 1..(n + 1)
      /\ \A j \in 1..(n + 1) : m_registered'[j] = Order[j]
  BY <1>1, <1>2, <1>3, RegistryFacts, AppendProperties
<1>5. TypeOK'
  BY <1>1, <1>2, <1>4 DEF IInv, TypeOK, Registering
<1>6. RegistryInv'
  BY <1>1, <1>2, <1>3, <1>4 DEF RegistryInv, IsInjective
<1>7. RegisteringInv'
  BY <1>1, <1>2, <1>3, <1>4 DEF RegisteringInv
<1>8. InitInv' /\ NotStartedInv' /\ NotStoppedInv' /\ ReadyInv' /\ StartInv' /\ RunInv' /\ ShutdownInv' /\ EndInv'
  BY <1>2, <1>3 DEF InitInv, NotStartedInv, NotStoppedInv, ReadyInv, StartInv, RunInv, ShutdownInv, EndInv,
                    Registering, Waiting
<1>9. QED
  BY <1>5, <1>6, <1>7, <1>8 DEF IInv

\* Steps that change neither the registry nor the phase: threads.
LEMMA SameRegistryStep ==
  ASSUME IInv, UNCHANGED <<pc, registry>>, TypeOK'
  PROVE  IInv'
BY DEF registry, IInv, RegistryInv, RegisteringInv, InitInv, NotStartedInv, NotStoppedInv, ReadyInv, StartInv,
       RunInv, ShutdownInv, EndInv, Registering, Waiting, Registered, Passed, Coming,
       ShutdownOnlyStarted, StartedOnlyReady

\* Nothing was started, and so nothing was stopped.
LEMMA NothingToStop ==
  ASSUME stopped = <<>>
  PROVE  IsInjective(stopped) /\ ToSet(stopped) = {}
BY DEF IsInjective, ToSet

LEMMA SetMainStep == ASSUME IInv, SetMain PROVE IInv'
<1>1. TypeOK'
  BY DEF SetMain, registry, IInv, TypeOK
<1>2. RegistryInv' /\ RegisteringInv' /\ NotStartedInv' /\ NotStoppedInv'
  BY DEF SetMain, registry, IInv, RegistryInv, RegisteringInv, NotStartedInv, NotStoppedInv, Registering, Waiting, Registered
<1>3. InitInv' /\ ReadyInv' /\ StartInv' /\ RunInv' /\ ShutdownInv' /\ EndInv'
  BY DEF SetMain, InitInv, ReadyInv, StartInv, RunInv, ShutdownInv, EndInv, Waiting
<1>4. QED
  BY <1>1, <1>2, <1>3 DEF IInv

\* CreateTables leads into the loop of InitAPIs, or to the end.
LEMMA CreateTablesStep == ASSUME IInv, CreateTables PROVE IInv'
<1>1. pc = "register" /\ pc' \in {"init", "destroy"} /\ UNCHANGED <<registry, threads, alive, serving>>
  BY DEF CreateTables
<1>2. it = 1 /\ ready = {} /\ started = {} /\ stopped = <<>> /\ orphans = {}
  BY <1>1 DEF IInv, RegisteringInv, NotStartedInv, NotStoppedInv, Registering
<1>3. TypeOK' /\ RegistryInv'
  BY <1>1 DEF registry, threads, IInv, TypeOK, RegistryInv, Registered
<1>4. InitInv' /\ NotStartedInv' /\ NotStoppedInv'
  BY <1>1, <1>2 DEF registry, InitInv, NotStartedInv, NotStoppedInv, Passed
<1>5. EndInv'
  BY <1>1, <1>2, NothingToStop DEF registry, EndInv, ShutdownOnlyStarted, StartedOnlyReady, IsInjective, ToSet
<1>6. RegisteringInv' /\ ReadyInv' /\ StartInv' /\ RunInv' /\ ShutdownInv'
  BY <1>1 DEF RegisteringInv, ReadyInv, StartInv, RunInv, ShutdownInv, Registering, Waiting
<1>7. QED
  BY <1>3, <1>4, <1>5, <1>6 DEF IInv

-----------------------------------------------------------------------------
\* The loop of InitAPIs.
LEMMA InitStepStep == ASSUME IInv, InitStep PROVE IInv'
<1>1. /\ pc = "init" /\ step' = step + 1 /\ left' = left \cup Current[step].leaves
      /\ it <= Len(m_registered) /\ step <= Len(Current)
      /\ UNCHANGED <<pc, m_registered, it, ready, started, stopped, orphans, threads, alive, serving>>
  BY DEF InitStep
<1>2. Current[step].leaves \subseteq Users
  <2>1. m_registered[it] \in Apis
    BY <1>1, RegistryFacts
  <2>2. Current \in Seq([leaves : SUBSET Users, mayThrow : BOOLEAN])
    BY <2>1, ApiLifecycleAssumption DEF Current
  <2>3. step \in 1..Len(Current)
    BY <1>1, <2>2, LenProperties DEF IInv, TypeOK
  <2>4. Current[step] \in [leaves : SUBSET Users, mayThrow : BOOLEAN]
    BY <2>2, <2>3, ElementOfSeq
  <2>5. QED
    BY <2>4
<1>3. TypeOK'
  BY <1>1, <1>2 DEF threads, IInv, TypeOK
<1>4. RegistryInv' /\ InitInv' /\ NotStartedInv' /\ NotStoppedInv'
  BY <1>1 DEF IInv, RegistryInv, InitInv, NotStartedInv, NotStoppedInv, Registered, Passed
<1>5. RegisteringInv' /\ ReadyInv' /\ StartInv' /\ RunInv' /\ ShutdownInv' /\ EndInv'
  BY <1>1 DEF RegisteringInv, ReadyInv, StartInv, RunInv, ShutdownInv, EndInv, Registering, Waiting
<1>6. QED
  BY <1>3, <1>4, <1>5 DEF IInv

\* Erasing keeps the types.
LEMMA EraseType ==
  ASSUME IInv, it <= Len(m_registered), Erase,
         UNCHANGED <<pc, left, ready, stopped, threads, serving>>, started' \subseteq Apis
  PROVE  TypeOK'
<1>1. alive' \subseteq alive /\ step' = 1
  BY DEF Erase
<1>2. QED
  BY <1>1, ErasesOne DEF threads, IInv, TypeOK

LEMMA InitThrowsStep == ASSUME IInv, InitThrows PROVE IInv'
<1>1. /\ pc = "init" /\ it <= Len(m_registered) /\ Erase
      /\ UNCHANGED <<pc, left, ready, started, stopped, threads, serving>>
  BY DEF InitThrows
<1>2. TypeOK'
  BY <1>1, EraseType DEF IInv, TypeOK
<1>3. RegistryInv'
  BY <1>1, ErasesOne DEF RegistryInv
<1>4. InitInv' /\ NotStartedInv' /\ NotStoppedInv'
  BY <1>1, ErasesOne DEF IInv, InitInv, NotStartedInv, NotStoppedInv
<1>5. RegisteringInv' /\ ReadyInv' /\ StartInv' /\ RunInv' /\ ShutdownInv' /\ EndInv'
  BY <1>1 DEF RegisteringInv, ReadyInv, StartInv, RunInv, ShutdownInv, EndInv, Registering, Waiting
<1>6. QED
  BY <1>2, <1>3, <1>4, <1>5 DEF IInv

\* Moving the iterator on adds one plugin to those that were passed and takes it
\* from those that come.
LEMMA PassesOne ==
  ASSUME IInv, it <= Len(m_registered), it' = it + 1, m_registered' = m_registered
  PROVE  /\ Passed' = Passed \cup {m_registered[it]}
         /\ Coming' = Coming \ {m_registered[it]}
         /\ m_registered[it] \in Registered /\ m_registered[it] \in Apis
         /\ it' \in 1..(Len(m_registered') + 1)
<1>1. it \in 1..Len(m_registered) /\ Len(m_registered) \in Nat
  BY RegistryFacts
<1>2. \A a, b \in 1..Len(m_registered) : m_registered[a] = m_registered[b] => a = b
  BY RegistryFacts DEF IInv, RegistryInv, IsInjective
<1>3. Passed' = Passed \cup {m_registered[it]}
  BY <1>1 DEF Passed
<1>4. Coming' = Coming \ {m_registered[it]}
  BY <1>1, <1>2 DEF Coming
<1>5. QED
  BY <1>1, <1>3, <1>4, RegistryFacts

LEMMA InitializedStep == ASSUME IInv, Initialized PROVE IInv'
<1>1. /\ pc = "init" /\ it <= Len(m_registered)
      /\ ready' = ready \cup {m_registered[it]} /\ it' = it + 1 /\ step' = 1
      /\ UNCHANGED <<pc, m_registered, left, started, stopped, orphans, threads, alive, serving>>
  BY DEF Initialized
<1>2. TypeOK'
  BY <1>1, PassesOne DEF threads, IInv, TypeOK
<1>3. RegistryInv' /\ NotStartedInv' /\ NotStoppedInv'
  BY <1>1 DEF IInv, RegistryInv, NotStartedInv, NotStoppedInv, Registered
<1>4. InitInv'
  BY <1>1, PassesOne DEF IInv, InitInv
<1>5. RegisteringInv' /\ ReadyInv' /\ StartInv' /\ RunInv' /\ ShutdownInv' /\ EndInv'
  BY <1>1 DEF RegisteringInv, ReadyInv, StartInv, RunInv, ShutdownInv, EndInv, Registering, Waiting
<1>6. QED
  BY <1>2, <1>3, <1>4, <1>5 DEF IInv

\* At the end of a loop all plugins were passed, and none comes.
LEMMA AllPassed ==
  ASSUME IInv, it > Len(m_registered)
  PROVE  Passed = Registered /\ Coming = {} /\ it - 1 = Len(m_registered)
<1>1. it - 1 = Len(m_registered) /\ it \in Nat
  BY RegistryFacts
<1>2. QED
  BY <1>1, RegistryFacts DEF Passed, Coming

\* From InitAPIs to Start.
LEMMA EndInitStep == ASSUME IInv, EndLoop("init", "start") PROVE IInv'
<1>1. /\ pc = "init" /\ it > Len(m_registered) /\ pc' = "start" /\ it' = 1
      /\ UNCHANGED <<m_registered, step, left, ready, started, stopped, orphans, threads, alive, serving>>
  BY DEF EndLoop
<1>2. started = {} /\ stopped = <<>> /\ Registered \subseteq ready
  BY <1>1, AllPassed DEF IInv, InitInv, NotStartedInv, NotStoppedInv
<1>3. TypeOK' /\ RegistryInv'
  BY <1>1, RegistryFacts DEF threads, IInv, TypeOK, RegistryInv, Registered
<1>4. NotStoppedInv' /\ ReadyInv' /\ StartInv'
  BY <1>1, <1>2 DEF NotStoppedInv, ReadyInv, StartInv, Registered, Passed
<1>5. RegisteringInv' /\ InitInv' /\ NotStartedInv' /\ RunInv' /\ ShutdownInv' /\ EndInv'
  BY <1>1 DEF RegisteringInv, InitInv, NotStartedInv, RunInv, ShutdownInv, EndInv, Registering, Waiting
<1>6. QED
  BY <1>3, <1>4, <1>5 DEF IInv

\* The loop of Start.
LEMMA StartApiStep == ASSUME IInv, StartApi PROVE IInv'
<1>1. /\ pc = "start" /\ it <= Len(m_registered)
      /\ started' = started \cup {m_registered[it]} /\ it' = it + 1
      /\ UNCHANGED <<pc, m_registered, step, left, ready, stopped, orphans, threads, alive, serving>>
  BY DEF StartApi
<1>2. TypeOK'
  BY <1>1, PassesOne DEF threads, IInv, TypeOK
<1>3. RegistryInv' /\ NotStoppedInv' /\ ReadyInv'
  BY <1>1 DEF IInv, RegistryInv, NotStoppedInv, ReadyInv, Registered
<1>4. StartInv'
  BY <1>1, PassesOne DEF IInv, StartInv
<1>5. RegisteringInv' /\ InitInv' /\ NotStartedInv' /\ RunInv' /\ ShutdownInv' /\ EndInv'
  BY <1>1 DEF RegisteringInv, InitInv, NotStartedInv, RunInv, ShutdownInv, EndInv, Registering, Waiting
<1>6. QED
  BY <1>2, <1>3, <1>4, <1>5 DEF IInv

LEMMA StartApiThrowsStep == ASSUME IInv, StartApiThrows PROVE IInv'
<1>1. /\ pc = "start" /\ it <= Len(m_registered) /\ Erase
      /\ UNCHANGED <<pc, left, ready, started, stopped, threads, serving>>
  BY DEF StartApiThrows
<1>2. TypeOK'
  BY <1>1, EraseType DEF IInv, TypeOK
<1>3. RegistryInv' /\ ReadyInv'
  BY <1>1, ErasesOne DEF IInv, RegistryInv, ReadyInv
<1>4. NotStoppedInv' /\ StartInv'
  BY <1>1, ErasesOne DEF IInv, NotStoppedInv, StartInv
<1>5. RegisteringInv' /\ InitInv' /\ NotStartedInv' /\ RunInv' /\ ShutdownInv' /\ EndInv'
  BY <1>1 DEF RegisteringInv, InitInv, NotStartedInv, RunInv, ShutdownInv, EndInv, Registering, Waiting
<1>6. QED
  BY <1>2, <1>3, <1>4, <1>5 DEF IInv

\* From Start to the websocket.
LEMMA EndStartStep == ASSUME IInv, EndLoop("start", "socketStart") PROVE IInv'
<1>1. /\ pc = "start" /\ it > Len(m_registered) /\ pc' = "socketStart" /\ it' = 1
      /\ UNCHANGED <<m_registered, step, left, ready, started, stopped, orphans, threads, alive, serving>>
  BY DEF EndLoop
<1>2. TypeOK' /\ RegistryInv'
  BY <1>1, RegistryFacts DEF threads, IInv, TypeOK, RegistryInv, Registered
<1>3. NotStoppedInv' /\ ReadyInv' /\ RunInv'
  BY <1>1, AllPassed DEF IInv, StartInv, NotStoppedInv, ReadyInv, RunInv, Registered, Waiting
<1>4. RegisteringInv' /\ InitInv' /\ NotStartedInv' /\ StartInv' /\ ShutdownInv' /\ EndInv'
  BY <1>1 DEF RegisteringInv, InitInv, NotStartedInv, StartInv, ShutdownInv, EndInv, Registering, Waiting
<1>5. QED
  BY <1>2, <1>3, <1>4 DEF IInv

\* While Run() waits the plugins are started, and none was stopped.
LEMMA WaitingFacts ==
  ASSUME IInv, pc \in Waiting
  PROVE  it = 1 /\ started = Registered /\ Registered \subseteq ready /\ stopped = <<>>
BY DEF IInv, RunInv, ReadyInv, NotStoppedInv

LEMMA StartServingStep == ASSUME IInv, StartServing PROVE IInv'
<1>1. /\ pc = "socketStart" /\ pc' \in {"wait", "destroy"} /\ serving' \in BOOLEAN
      /\ UNCHANGED <<registry, threads, alive>>
  BY DEF StartServing
<1>2. started = Registered /\ Registered \subseteq ready /\ stopped = <<>>
  BY <1>1, WaitingFacts DEF Waiting
<1>3. TypeOK' /\ RegistryInv'
  BY <1>1 DEF registry, threads, IInv, TypeOK, RegistryInv, Registered
<1>4. NotStoppedInv' /\ ReadyInv' /\ RunInv'
  BY <1>1 DEF registry, IInv, NotStoppedInv, ReadyInv, RunInv, Registered, Registering, Waiting
<1>5. EndInv'
  <2>1. ShutdownOnlyStarted /\ StartedOnlyReady
    BY <1>2, NothingToStop DEF ShutdownOnlyStarted, StartedOnlyReady
  <2>2. QED
    BY <1>1, <2>1 DEF registry, EndInv, ShutdownOnlyStarted, StartedOnlyReady
<1>6. RegisteringInv' /\ InitInv' /\ NotStartedInv' /\ StartInv' /\ ShutdownInv'
  BY <1>1 DEF RegisteringInv, InitInv, NotStartedInv, StartInv, ShutdownInv, Registering
<1>7. QED
  BY <1>3, <1>4, <1>5, <1>6 DEF IInv

LEMMA WaitStep == ASSUME IInv, Wait PROVE IInv'
<1>1. /\ pc = "wait" /\ pc' = "socketStop"
      /\ UNCHANGED <<registry, threads, alive, serving>>
  BY DEF Wait
<1>2. TypeOK' /\ RegistryInv'
  BY <1>1 DEF registry, threads, IInv, TypeOK, RegistryInv, Registered
<1>3. NotStoppedInv' /\ ReadyInv' /\ RunInv'
  BY <1>1 DEF registry, IInv, NotStoppedInv, ReadyInv, RunInv, Registered, Registering, Waiting
<1>4. RegisteringInv' /\ InitInv' /\ NotStartedInv' /\ StartInv' /\ ShutdownInv' /\ EndInv'
  BY <1>1 DEF RegisteringInv, InitInv, NotStartedInv, StartInv, ShutdownInv, EndInv, Registering
<1>5. QED
  BY <1>2, <1>3, <1>4 DEF IInv

\* When Stop of the websocket returns, the loop of Shutdown begins: every plugin comes,
\* and all of them are started.
LEMMA ServingEnds ==
  ASSUME IInv, pc \in Waiting, pc' \in {"shutdown", "lateBrowser"}, serving' \in BOOLEAN,
         UNCHANGED <<registry, threads, alive>>
  PROVE  IInv'
<1>1. it = 1 /\ started = Registered /\ Registered \subseteq ready /\ stopped = <<>>
  BY WaitingFacts
<1>2. TypeOK' /\ RegistryInv' /\ ReadyInv'
  BY <1>1 DEF registry, threads, IInv, TypeOK, RegistryInv, ReadyInv, Registered
<1>3. ShutdownInv'
  <2>1. Coming = Registered
    BY <1>1, RegistryFacts DEF Coming
  <2>2. Len(stopped) = it - 1
    BY <1>1, EmptySeq
  <2>3. QED
    BY <1>1, <2>1, <2>2 DEF registry, ShutdownInv, Coming
<1>4. NotStoppedInv' /\ RunInv'
  BY <1>1 DEF registry, NotStoppedInv, RunInv, Registered
<1>5. RegisteringInv' /\ InitInv' /\ NotStartedInv' /\ StartInv' /\ EndInv'
  BY DEF RegisteringInv, InitInv, NotStartedInv, StartInv, EndInv, Registering
<1>6. QED
  BY <1>2, <1>3, <1>4, <1>5 DEF IInv

LEMMA StopServingStep == ASSUME IInv, StopServing PROVE IInv'
<1>1. /\ pc = "socketStop" /\ pc' \in {"shutdown", "lateBrowser"} /\ serving' \in BOOLEAN
      /\ UNCHANGED <<registry, threads, alive>>
  BY DEF StopServing, IInv, TypeOK
<1> QED  BY <1>1, ServingEnds DEF Waiting

LEMMA LateBrowserStep == ASSUME IInv, LateBrowserLeaves PROVE IInv'
<1>1. /\ pc = "lateBrowser" /\ pc' = "shutdown" /\ serving' = FALSE
      /\ UNCHANGED <<registry, threads, alive>>
  BY DEF LateBrowserLeaves
<1> QED  BY <1>1, ServingEnds DEF Waiting

\* The loop of Shutdown.
LEMMA ShutdownApiStep == ASSUME IInv, ShutdownApi PROVE IInv'
<1>1. /\ pc = "shutdown" /\ it <= Len(m_registered)
      /\ started' = started \ {m_registered[it]} /\ it' = it + 1
      /\ stopped' = Append(stopped, m_registered[it])
      /\ UNCHANGED <<pc, m_registered, step, left, ready, orphans, threads, alive, serving>>
  BY DEF ShutdownApi
<1>2. /\ started = Coming /\ Len(stopped) = it - 1
      /\ \A j \in 1..(it - 1) : stopped[j] = m_registered[j]
  BY <1>1 DEF IInv, ShutdownInv
<1>3. /\ stopped' \in Seq(Apis) /\ Len(stopped') = it
      /\ \A j \in 1..it : stopped'[j] = m_registered[j]
  BY <1>1, <1>2, RegistryFacts, PassesOne, AppendProperties
<1>4. TypeOK'
  BY <1>1, <1>3, PassesOne DEF threads, IInv, TypeOK
<1>5. RegistryInv' /\ ReadyInv'
  BY <1>1 DEF IInv, RegistryInv, ReadyInv, Registered
<1>6. ShutdownInv'
  BY <1>1, <1>2, <1>3, PassesOne, RegistryFacts DEF ShutdownInv
<1>7. RegisteringInv' /\ InitInv' /\ NotStartedInv' /\ NotStoppedInv' /\ StartInv' /\ RunInv' /\ EndInv'
  BY <1>1 DEF RegisteringInv, InitInv, NotStartedInv, NotStoppedInv, StartInv, RunInv, EndInv, Registering, Waiting
<1>8. QED
  BY <1>4, <1>5, <1>6, <1>7 DEF IInv

\* From Shutdown to the end of main(): every plugin was shut down once.
LEMMA EndShutdownStep == ASSUME IInv, EndLoop("shutdown", "destroy") PROVE IInv'
<1>1. /\ pc = "shutdown" /\ it > Len(m_registered) /\ pc' = "destroy" /\ it' = 1
      /\ UNCHANGED <<m_registered, step, left, ready, started, stopped, orphans, threads, alive, serving>>
  BY DEF EndLoop
<1>2. TypeOK' /\ RegistryInv'
  BY <1>1, RegistryFacts DEF threads, IInv, TypeOK, RegistryInv, Registered
<1>3. /\ started = {} /\ Len(stopped) = Len(m_registered) /\ Registered \subseteq ready
      /\ \A j \in 1..Len(stopped) : stopped[j] = m_registered[j]
  BY <1>1, AllPassed DEF IInv, ShutdownInv, ReadyInv
<1>4. ToSet(stopped) = Registered
  BY <1>3, RegistryFacts
<1>5. IsInjective(stopped)
  BY <1>3, RegistryFacts DEF IInv, RegistryInv, IsInjective
<1>6. EndInv'
  <2>1. ShutdownOnlyStarted /\ StartedOnlyReady
    BY <1>3, <1>4, <1>5 DEF IInv, RegistryInv, ShutdownOnlyStarted, StartedOnlyReady
  <2>2. QED
    BY <1>1, <2>1 DEF EndInv, ShutdownOnlyStarted, StartedOnlyReady
<1>7. RegisteringInv' /\ InitInv' /\ NotStartedInv' /\ NotStoppedInv' /\ ReadyInv' /\ StartInv' /\ RunInv' /\ ShutdownInv'
  BY <1>1 DEF RegisteringInv, InitInv, NotStartedInv, NotStoppedInv, ReadyInv, StartInv, RunInv, ShutdownInv,
              Registering, Waiting
<1>8. QED
  BY <1>2, <1>6, <1>7 DEF IInv

-----------------------------------------------------------------------------
\* Destroying members ends plugins and starts none.
LEMMA DestroyMemberStep == ASSUME IInv, DestroyMember PROVE IInv'
<1>1. /\ pc = "destroy" /\ alive' \subseteq alive /\ started' \subseteq started
      /\ UNCHANGED <<pc, m_registered, it, step, left, ready, stopped, orphans, threads, serving>>
  BY DEF DestroyMember, StopsStarted
<1>2. TypeOK' /\ RegistryInv'
  BY <1>1 DEF threads, IInv, TypeOK, RegistryInv, Registered
<1>3. EndInv'
  BY <1>1 DEF IInv, EndInv, ShutdownOnlyStarted, StartedOnlyReady
<1>4. RegisteringInv' /\ InitInv' /\ NotStartedInv' /\ NotStoppedInv' /\ ReadyInv' /\ StartInv' /\ RunInv' /\ ShutdownInv'
  BY <1>1 DEF RegisteringInv, InitInv, NotStartedInv, NotStoppedInv, ReadyInv, StartInv, RunInv, ShutdownInv,
              Registering, Waiting
<1>5. QED
  BY <1>2, <1>3, <1>4 DEF IInv

LEMMA ExitStep == ASSUME IInv, Exit PROVE IInv'
<1>1. /\ pc = "destroy" /\ pc' \in {"timerSleeps", "exited"}
      /\ UNCHANGED <<registry, threads, alive, serving>>
  BY DEF Exit
<1>2. TypeOK' /\ RegistryInv'
  BY <1>1 DEF registry, threads, IInv, TypeOK, RegistryInv, Registered
<1>3. EndInv'
  BY <1>1 DEF registry, IInv, EndInv, ShutdownOnlyStarted, StartedOnlyReady
<1>4. RegisteringInv' /\ InitInv' /\ NotStartedInv' /\ NotStoppedInv' /\ ReadyInv' /\ StartInv' /\ RunInv' /\ ShutdownInv'
  BY <1>1 DEF RegisteringInv, InitInv, NotStartedInv, NotStoppedInv, ReadyInv, StartInv, RunInv, ShutdownInv,
              Registering, Waiting
<1>5. QED
  BY <1>2, <1>3, <1>4 DEF IInv

\* A signal at any time changes flags only, and a delayed sub-action none.
LEMMA AsideStep == ASSUME IInv, Signal \/ Delay \/ LastEnds PROVE IInv'
<1>1. UNCHANGED <<pc, registry>>
  BY DEF Signal, Delay, LastEnds
<1>2. TypeOK'
  BY <1>1 DEF Signal, Delay, LastEnds, FlagSet, registry, IInv, TypeOK
<1>3. QED
  BY <1>1, <1>2, SameRegistryStep

\* The invariant is inductive.
LEMMA NextIInv == IInv /\ [Next]_vars => IInv'
<1> SUFFICES ASSUME IInv, [Next]_vars
             PROVE  IInv'
  OBVIOUS
<1>1. CASE RegisterDeviceAPI
  BY <1>1, RegisterDeviceAPIStep
<1>2. CASE SetMain
  BY <1>2, SetMainStep
<1>3. CASE CreateTables
  BY <1>3, CreateTablesStep
<1>4. CASE InitStep
  BY <1>4, InitStepStep
<1>5. CASE InitThrows
  BY <1>5, InitThrowsStep
<1>6. CASE Initialized
  BY <1>6, InitializedStep
<1>7. CASE EndLoop("init", "start")
  BY <1>7, EndInitStep
<1>8. CASE StartApi
  BY <1>8, StartApiStep
<1>9. CASE StartApiThrows
  BY <1>9, StartApiThrowsStep
<1>10. CASE EndLoop("start", "socketStart")
  BY <1>10, EndStartStep
<1>11. CASE StartServing
  BY <1>11, StartServingStep
<1>12. CASE Wait
  BY <1>12, WaitStep
<1>13. CASE StopServing
  BY <1>13, StopServingStep
<1>14. CASE ShutdownApi
  BY <1>14, ShutdownApiStep
<1>15. CASE EndLoop("shutdown", "destroy")
  BY <1>15, EndShutdownStep
<1>16. CASE DestroyMember
  BY <1>16, DestroyMemberStep
<1>17. CASE Exit
  BY <1>17, ExitStep
<1>18. CASE Signal \/ Delay \/ LastEnds
  BY <1>18, AsideStep
<1>19. CASE UNCHANGED vars
  <2>1. UNCHANGED <<pc, registry, threads, alive, serving>>
    BY <1>19 DEF vars
  <2>2. TypeOK'
    BY <2>1 DEF registry, threads, IInv, TypeOK
  <2>3. QED
    BY <2>1, <2>2, SameRegistryStep
<1>20. CASE LateBrowserLeaves
  BY <1>20, LateBrowserStep
<1>21. QED
  BY <1>1, <1>2, <1>3, <1>4, <1>5, <1>6, <1>7, <1>8, <1>9, <1>10, <1>11, <1>12, <1>13, <1>14, <1>15,
     <1>16, <1>17, <1>18, <1>19, <1>20 DEF Next, MainThread, OtherThreads, Idle

-----------------------------------------------------------------------------
\* Before the end of main() the phases say which plugins may be stopped: the two
\* properties follow from the invariant in each phase.
LEMMA Phases == IInv => ShutdownOnlyStarted /\ StartedOnlyReady
<1> SUFFICES ASSUME IInv
             PROVE  ShutdownOnlyStarted /\ StartedOnlyReady
  OBVIOUS
<1>1. CASE pc \in {"destroy", "timerSleeps", "exited"}
  BY <1>1 DEF IInv, EndInv
<1>2. CASE pc = "shutdown"
  <2>1. /\ started = Coming /\ Len(stopped) = it - 1 /\ Registered \subseteq ready
        /\ \A j \in 1..(it - 1) : stopped[j] = m_registered[j]
    BY <1>2 DEF IInv, ShutdownInv, ReadyInv
  <2>2. \A a, b \in 1..Len(m_registered) : m_registered[a] = m_registered[b] => a = b
    BY RegistryFacts DEF IInv, RegistryInv, IsInjective
  <2>3. ToSet(stopped) = Passed /\ IsInjective(stopped)
    BY <2>1, <2>2, RegistryFacts DEF Passed, IsInjective
  <2>4. Passed \cap Coming = {} /\ Passed \cup Coming \subseteq Registered
    BY <2>2, RegistryFacts DEF Passed, Coming
  <2>5. QED
    BY <2>1, <2>3, <2>4 DEF IInv, RegistryInv, ShutdownOnlyStarted, StartedOnlyReady
<1>3. CASE pc \in Registering \cup Waiting \cup {"init", "start"}
  <2>1. stopped = <<>>
    BY <1>3 DEF IInv, NotStoppedInv
  <2>2. started \subseteq ready
    <3>1. CASE pc \in Registering \cup {"init"}
      BY <3>1 DEF IInv, NotStartedInv
    <3>2. CASE pc = "start"
      BY <3>2, RegistryFacts DEF IInv, StartInv, ReadyInv, Passed
    <3>3. CASE pc \in Waiting
      BY <3>3, WaitingFacts
    <3>4. QED
      BY <1>3, <3>1, <3>2, <3>3
  <2>3. QED
    BY <2>1, <2>2, NothingToStop DEF ShutdownOnlyStarted, StartedOnlyReady
<1>4. QED
  BY <1>1, <1>2, <1>3 DEF IInv, TypeOK, Registering, Waiting

\* The inductive invariant holds in every reachable state.
THEOREM LifecycleInvariant == Spec => []IInv
<1>1. QED
  BY InitIInv, NextIInv, PTL DEF Spec

\* The state of the registry and of the main thread keeps its types: the loops
\* never leave the vector, whichever plugins are erased on the way.
THEOREM LifecycleTypeCorrect == Spec => []TypeOK
<1>1. IInv => TypeOK
  BY DEF IInv
<1>2. QED
  BY LifecycleInvariant, <1>1, PTL

\* Every plugin goes through its phases in order: it is started after all its steps,
\* and shut down once, if its Start returned.
THEOREM PhasesKept == Spec => []PhasesInOrder
<1>1. IInv => PhasesInOrder
  BY Phases DEF PhasesInOrder
<1>2. QED
  BY LifecycleInvariant, <1>1, PTL

-----------------------------------------------------------------------------
(* What the threads reach. *)

OrderSet == ToSet(Order)
Ending == {"destroy", "timerSleeps", "exited"}
Looping == {"init", "start", "shutdown"} \cup Waiting

\* Members live until the end of main(), registered plugins as long.
MembersAlive == pc \notin Ending => ToSet(Members) \subseteq alive
PluginsAlive == pc \notin Ending => Registered \subseteq alive

\* Once all are registered, a plugin is gone only if it was erased.
NoneForgotten == pc \in Looping => OrderSet \subseteq Registered \cup orphans

\* Nothing is left before InitAPIs, and the websocket serves while Run() waits.
NothingLeftInv == pc \in Registering => left = {} /\ ~later
ServingInv == serving => pc \in {"wait", "socketStop", "lateBrowser"}

\* While members are destroyed, the plugins and what was declared before them live as
\* long as the registry does; nothing is started after it.
DestroyInv == pc \in {"destroy", "timerSleeps"} =>
  IF "deviceReg" \in alive
  THEN /\ \A m, n \in DOMAIN Members : Members[n] = "deviceReg" /\ m < n => Members[m] \in alive
       /\ started # {} => OrderSet \subseteq alive \cup orphans
  ELSE started = {}

\* Only the signal thread sets the flag, and it ends then; Run() goes on only with it.
FlagInv ==
  /\ m_shutdown => handler = "ended"
  /\ pc \in {"socketStop", "lateBrowser", "shutdown"} => m_shutdown
  /\ stopped # <<>> => m_shutdown

ReachInv ==
  /\ MembersAlive /\ PluginsAlive /\ NoneForgotten /\ NothingLeftInv /\ ServingInv
  /\ DestroyInv /\ FlagInv

LEMMA InitReach == Init => ReachInv
<1> SUFFICES ASSUME Init PROVE ReachInv
  OBVIOUS
<1>1. Registered = {}
  BY DEF Init, Registered, ToSet
<1> QED
  BY <1>1
     DEF Init, ReachInv, MembersAlive, PluginsAlive, NoneForgotten, NothingLeftInv, ServingInv, DestroyInv,
         FlagInv, Ending, Looping, Waiting, Registering

LEMMA OrderFacts ==
  /\ Order \in Seq(Apis) /\ Len(Order) \in Nat
  /\ OrderSet = {Order[j] : j \in 1..Len(Order)} /\ OrderSet \subseteq Apis
  /\ ToSet(Members) \cap Apis = {} /\ "deviceReg" \in ToSet(Members)
  /\ Uses \in [Users -> SUBSET (ToSet(Members) \cup OrderSet)]
BY ApiLifecycleAssumption, ToSetOfSeq DEF OrderSet

\* Steps within one phase that change neither the registry nor what lives.
LEMMA PhaseStays ==
  ASSUME ReachInv, UNCHANGED <<pc, m_registered, orphans, alive, serving, m_shutdown, handler>>,
         stopped' = stopped \/ pc \in {"socketStop", "shutdown"},
         left' = left \/ pc \notin Registering, later' = later \/ pc \notin Registering,
         started' = started \/ pc \notin {"destroy", "timerSleeps"}
  PROVE  ReachInv'
BY DEF ReachInv, MembersAlive, PluginsAlive, NoneForgotten, NothingLeftInv, ServingInv, DestroyInv,
       FlagInv, Ending, Looping, Waiting, Registering, Registered

\* From a phase after the registration to one that is not the end.
LEMMA PhaseGoesOn ==
  ASSUME ReachInv, pc \in Looping, pc' \in Looping,
         UNCHANGED <<m_registered, orphans, alive, stopped, left, started, m_shutdown, handler>>,
         serving' => pc' \in {"wait", "socketStop", "lateBrowser"},
         pc' \in {"socketStop", "lateBrowser", "shutdown"} => m_shutdown
  PROVE  ReachInv'
BY DEF ReachInv, MembersAlive, PluginsAlive, NoneForgotten, NothingLeftInv, ServingInv, DestroyInv,
       FlagInv, Ending, Looping, Waiting, Registering, Registered

\* From any phase to the end.
LEMMA RunEnds ==
  ASSUME IInv, ReachInv, pc \notin Ending, pc' = "destroy", ~serving',
         UNCHANGED <<m_registered, orphans, alive, stopped, left, started, m_shutdown, handler>>,
         started = {} \/ pc \in Looping
  PROVE  ReachInv'
<1>1. ToSet(Members) \subseteq alive /\ Registered \subseteq alive
  BY DEF ReachInv, MembersAlive, PluginsAlive
<1>2. \A m \in DOMAIN Members : Members[m] \in alive
  BY <1>1 DEF ToSet
<1>3. started # {} => OrderSet \subseteq alive \cup orphans
  BY <1>1 DEF ReachInv, NoneForgotten
<1>4. "deviceReg" \in alive
  BY <1>1, OrderFacts
<1>5. DestroyInv'
  BY <1>2, <1>3, <1>4 DEF DestroyInv
<1> QED
  BY <1>5 DEF ReachInv, MembersAlive, PluginsAlive, NoneForgotten, NothingLeftInv, ServingInv, FlagInv,
              Ending, Looping, Waiting, Registering

LEMMA EraseReach ==
  ASSUME IInv, ReachInv, pc \in {"init", "start"}, it <= Len(m_registered), Erase,
         UNCHANGED <<pc, left, stopped, threads, serving>>
  PROVE  ReachInv'
<1>1. /\ Registered' = Registered \ {m_registered[it]}
      /\ orphans' = orphans \cup {m_registered[it]} /\ alive' = alive \ {m_registered[it]}
      /\ m_registered[it] \in Apis
  <2>1. it \in 1..Len(m_registered)
    BY RegistryFacts
  <2> QED  BY <2>1, ErasesOne, RegistryFacts DEF Erase
<1>2. MembersAlive'
  BY <1>1, OrderFacts DEF ReachInv, MembersAlive
<1>3. PluginsAlive' /\ NoneForgotten'
  BY <1>1 DEF ReachInv, PluginsAlive, NoneForgotten
<1> QED
  BY <1>2, <1>3 DEF ReachInv, NothingLeftInv, ServingInv, DestroyInv, FlagInv, Registering, threads

LEMMA RegisterReach == IInv /\ ReachInv /\ RegisterDeviceAPI => ReachInv'
<1> SUFFICES ASSUME IInv, ReachInv, RegisterDeviceAPI PROVE ReachInv'
  OBVIOUS
<1> DEFINE p == Order[Len(m_registered) + 1]
<1>1. /\ pc \in Registering /\ pc' \in Registering /\ m_registered' = Append(m_registered, p)
      /\ alive' = alive \cup {p} /\ UNCHANGED <<left, started, stopped, orphans, threads, serving>>
  BY DEF RegisterDeviceAPI, Registering
<1>2. p \in Apis /\ m_registered \in Seq(Apis) /\ Len(m_registered) \in Nat
  BY OrderFacts, RegistryFacts, ElementOfSeq DEF RegisterDeviceAPI
<1> HIDE DEF p
<1>3. Registered' \subseteq Registered \cup {p}
  <2>1. /\ m_registered' \in Seq(Apis) /\ Len(m_registered') = Len(m_registered) + 1
        /\ \A j \in 1..Len(m_registered) : m_registered'[j] = m_registered[j]
        /\ m_registered'[Len(m_registered) + 1] = p
    BY <1>1, <1>2, AppendProperties
  <2>2. Registered' = {m_registered'[j] : j \in 1..Len(m_registered')}
    BY <2>1, ToSetOfSeq DEF Registered
  <2>3. \A j \in 1..Len(m_registered') : j \in 1..Len(m_registered) \/ j = Len(m_registered) + 1
    BY <1>2, <2>1
  <2> QED  BY <2>1, <2>2, <2>3, RegistryFacts
<1>4. MembersAlive' /\ PluginsAlive'
  BY <1>1, <1>3 DEF ReachInv, MembersAlive, PluginsAlive, Registering, Ending
<1> QED
  BY <1>1, <1>4
     DEF ReachInv, NoneForgotten, NothingLeftInv, ServingInv, DestroyInv, FlagInv, Registering, Looping, Waiting,
         threads

LEMMA CreateTablesReach == IInv /\ ReachInv /\ CreateTables => ReachInv'
<1> SUFFICES ASSUME IInv, ReachInv, CreateTables PROVE ReachInv'
  OBVIOUS
<1>1. /\ pc = "register" /\ pc' \in {"init", "destroy"} /\ Len(m_registered) = Len(Order)
      /\ UNCHANGED <<registry, threads, alive, serving>>
  BY DEF CreateTables
<1>2. started = {} /\ ~serving
  BY <1>1 DEF IInv, NotStartedInv, ReachInv, ServingInv, Registering
<1>3. CASE pc' = "destroy"
  BY <1>1, <1>2, <1>3, RunEnds DEF Ending, registry, threads
<1>4. CASE pc' = "init"
  <2>1. Registered = OrderSet
    BY <1>1, OrderFacts, RegistryFacts DEF IInv, RegisteringInv, Registering
  <2> QED
    BY <1>1, <1>2, <1>4, <2>1
       DEF ReachInv, MembersAlive, PluginsAlive, NoneForgotten, NothingLeftInv, ServingInv, DestroyInv, FlagInv,
           Ending, Looping, Waiting, Registering, Registered, registry, threads
<1> QED  BY <1>1, <1>3, <1>4

LEMMA DestroyMemberReach == IInv /\ ReachInv /\ DestroyMember => ReachInv'
<1> SUFFICES ASSUME IInv, ReachInv, DestroyMember PROVE ReachInv'
  OBVIOUS
<1>1. /\ pc = "destroy" /\ pc' = "destroy"
      /\ UNCHANGED <<m_registered, left, stopped, orphans, threads, serving>>
  BY DEF DestroyMember
<1>2. PICK k \in DOMAIN Members :
        /\ LastMember(k)
        /\ IF Members[k] = "deviceReg"
           THEN alive' = alive \ ({"deviceReg"} \cup Apis) /\ started' = {}
           ELSE alive' = alive \ {Members[k]} /\ started' = started
  BY DEF DestroyMember, StopsStarted
<1>3. DestroyInv'
  <2>1. CASE Members[k] = "deviceReg"
    BY <1>2, <2>1 DEF DestroyInv
  <2>2. CASE Members[k] # "deviceReg"
    <3>1. CASE "deviceReg" \in alive
      <4>1. /\ \A m, n \in DOMAIN Members : Members[n] = "deviceReg" /\ m < n => Members[m] \in alive
            /\ started # {} => OrderSet \subseteq alive \cup orphans
        BY <1>1, <3>1 DEF ReachInv, DestroyInv
      <4>2. "deviceReg" \in alive' /\ (OrderSet \subseteq alive \cup orphans => OrderSet \subseteq alive' \cup orphans)
        BY <1>2, <2>2, <3>1, OrderFacts DEF ToSet
      <4>3. ASSUME NEW m \in DOMAIN Members, NEW n \in DOMAIN Members, Members[n] = "deviceReg", m < n
            PROVE  Members[m] \in alive'
        <5>1. n <= k
          BY <1>2, <3>1, <4>3 DEF LastMember
        <5>2. m # k
          BY <4>3, <5>1, ApiLifecycleAssumption
        <5>3. Members[m] # Members[k]
          BY <5>2, ApiLifecycleAssumption DEF IsInjective
        <5> QED  BY <1>2, <2>2, <4>1, <4>3, <5>3
      <4> QED  BY <1>1, <1>2, <2>2, <4>1, <4>2, <4>3 DEF DestroyInv
    <3>2. CASE "deviceReg" \notin alive
      BY <1>1, <1>2, <2>2, <3>2 DEF ReachInv, DestroyInv
    <3> QED  BY <3>1, <3>2
  <2> QED  BY <2>1, <2>2
<1> QED
  BY <1>1, <1>3 DEF ReachInv, MembersAlive, PluginsAlive, NoneForgotten, NothingLeftInv, ServingInv, FlagInv,
                    Ending, Looping, Waiting, Registering, threads

LEMMA NextReach == IInv /\ ReachInv /\ [Next]_vars => ReachInv'
<1> SUFFICES ASSUME IInv, ReachInv, [Next]_vars PROVE ReachInv'
  OBVIOUS
<1> USE DEF registry, threads
<1>1. CASE RegisterDeviceAPI
  BY <1>1, RegisterReach
<1>2. CASE SetMain
  BY <1>2 DEF SetMain, ReachInv, MembersAlive, PluginsAlive, NoneForgotten, NothingLeftInv, ServingInv, DestroyInv,
              FlagInv, Ending, Looping, Waiting, Registering, Registered
<1>3. CASE CreateTables
  BY <1>3, CreateTablesReach
<1>4. CASE InitStep \/ Initialized \/ StartApi \/ ShutdownApi
  BY <1>4, PhaseStays DEF InitStep, Initialized, StartApi, ShutdownApi, Registering
<1>5. CASE InitThrows \/ StartApiThrows
  BY <1>5, EraseReach DEF InitThrows, StartApiThrows
<1>6. CASE EndLoop("init", "start") \/ EndLoop("start", "socketStart")
  BY <1>6, PhaseGoesOn DEF EndLoop, Looping, Waiting, ReachInv, ServingInv
<1>7. CASE StartServing
  <2>1. CASE pc' = "wait"
    BY <1>7, <2>1, PhaseGoesOn DEF StartServing, Looping, Waiting
  <2>2. CASE pc' = "destroy"
    BY <1>7, <2>2, RunEnds DEF StartServing, Looping, Waiting, Ending
  <2> QED  BY <1>7, <2>1, <2>2 DEF StartServing
<1>8. CASE Wait
  BY <1>8, PhaseGoesOn DEF Wait, Looping, Waiting
<1>9. CASE StopServing \/ LateBrowserLeaves
  BY <1>9, PhaseGoesOn DEF StopServing, LateBrowserLeaves, Looping, Waiting, ReachInv, FlagInv
<1>10. CASE EndLoop("shutdown", "destroy")
  BY <1>10, RunEnds DEF EndLoop, Looping, Waiting, Ending, ReachInv, ServingInv
<1>11. CASE DestroyMember
  BY <1>11, DestroyMemberReach
<1>12. CASE Exit
  BY <1>12 DEF Exit, ReachInv, MembersAlive, PluginsAlive, NoneForgotten, NothingLeftInv, ServingInv, DestroyInv,
              FlagInv, Ending, Looping, Waiting, Registering
<1>13. CASE Signal
  BY <1>13 DEF Signal, FlagSet, ReachInv, MembersAlive, PluginsAlive, NoneForgotten, NothingLeftInv, ServingInv,
               DestroyInv, FlagInv, Registered
<1>14. CASE UNCHANGED vars
  BY <1>14, PhaseStays DEF vars
<1>15. CASE Delay \/ LastEnds
  <2>1. pc \notin Registering
    BY <1>15 DEF Delay, LastEnds, Runs, ReachInv, NothingLeftInv
  <2> QED  BY <1>15, <2>1, PhaseStays DEF Delay, LastEnds
<1> QED
  BY <1>1, <1>2, <1>3, <1>4, <1>5, <1>6, <1>7, <1>8, <1>9, <1>10, <1>11, <1>12, <1>13, <1>14, <1>15
     DEF Next, MainThread, OtherThreads, Idle

\* A thread that runs follows references that were left, or the load thread, which a
\* started plugin has.
LEMMA Explained == IInv /\ ReachInv => ReachExplained
<1> SUFFICES ASSUME IInv, ReachInv PROVE ReachExplained
  OBVIOUS
<1>1. ASSUME NEW u \in Users, Runs(u), NEW o \in Uses[u] \ alive, o \notin orphans
      PROVE  pc \in {"destroy", "timerSleeps"} /\ u \in Outliving
  <2>1. pc # "exited" /\ (started # {} \/ u # "load") /\ (left # {} \/ later \/ u = "load")
    BY <1>1 DEF Runs
  <2>2. pc \notin Registering
    BY <2>1 DEF IInv, NotStartedInv, ReachInv, NothingLeftInv
  <2>3. o \in ToSet(Members) \cup OrderSet
    BY OrderFacts, <1>1
  <2>4. pc \in {"destroy", "timerSleeps"}
    <3>1. pc \in Looping \cup {"destroy", "timerSleeps"}
      BY <2>1, <2>2 DEF IInv, TypeOK, Registering, Looping, Waiting
    <3>2. ASSUME pc \in Looping PROVE FALSE
      BY <1>1, <2>3, <3>2
         DEF ReachInv, MembersAlive, PluginsAlive, NoneForgotten, Looping, Waiting, Ending
    <3> QED  BY <3>1, <3>2
  <2>5. u # "load"
    <3> SUFFICES ASSUME u = "load" PROVE FALSE
      OBVIOUS
    <3>1. /\ "deviceReg" \in alive
          /\ \A m, n \in DOMAIN Members : Members[n] = "deviceReg" /\ m < n => Members[m] \in alive
          /\ OrderSet \subseteq alive \cup orphans
      BY <2>1, <2>4 DEF ReachInv, DestroyInv
    <3>2. o \in ToSet(Members)
      BY <1>1, <2>3, <3>1
    <3>3. PICK m \in DOMAIN Members : o = Members[m]
      BY <3>2 DEF ToSet
    <3>4. PICK n \in DOMAIN Members : Members[n] = "deviceReg"
      BY OrderFacts DEF ToSet
    <3>5. m < n
      BY <1>1, <3>3, <3>4, ApiLifecycleAssumption
    <3> QED  BY <1>1, <3>1, <3>3, <3>4, <3>5
  <2> QED  BY <1>1, <2>4, <2>5 DEF Runs, Outliving, ReachInv, ServingInv
<1>2. stopped # <<>> => handler = "ended"
  BY DEF ReachInv, FlagInv
<1> QED  BY <1>1, <1>2 DEF ReachExplained

\* A thread can reach something destroyed only through a plugin that was erased, or
\* it is the rule timer, an MQTT loop or a delayed sub-action at the end of main(); a plugin is shut down only
\* when the signal thread has let go of Main (Main::Run and the order of its members).
THEOREM ReachIsExplained == Spec => []ReachExplained
<1> QED  BY LifecycleInvariant, InitReach, NextReach, Explained, PTL DEF Spec

-----------------------------------------------------------------------------
\* Start-up with the merge of the Hue plugin is a life cycle: the steps of the merge
\* leave the rest alone, and every other step is one of the life cycle.
THEOREM StartUpIsLifecycle == StartUpSpec => Spec
<1>1. StartUpInit => Init
  BY DEF StartUpInit
<1>2. [StartUpNext]_allVars => [Next]_vars
  BY DEF StartUpNext, SynchronizeDevices, Proceed, Others, allVars, Next, MainThread
<1> QED  BY <1>1, <1>2, PTL DEF StartUpSpec, Spec

\* So what holds of the life cycle holds of start-up.
THEOREM StartUpPhases == StartUpSpec => [](PhasesInOrder /\ ReachExplained)
<1> QED  BY StartUpIsLifecycle, PhasesKept, ReachIsExplained, PTL

-----------------------------------------------------------------------------
(* The merge of the lights of the Hue bridge with the devices *)

Rising(s) ==
  /\ s \in Seq(Nat)
  /\ \A j, k \in DOMAIN s : j < k => s[j] < s[k]

\* The lights that the loop has passed.
Behind == {lights[k] : k \in {k \in DOMAIN lights : k < begin}}

\* As long as every device has had its light, the loop stands behind the light of the
\* last one; every light behind it has been added or belongs to a device.
AllFound ==
  /\ removed = {}
  /\ begin \in 1..(Len(lights) + 1)
  /\ i = 1 => begin = 1
  /\ i > 1 => begin > 1 /\ lights[begin - 1] = old[i - 1]
  /\ updated = {old[j] : j \in 1..(i - 1)}
  /\ ToSet(added) \cap updated = {}
  /\ hpc = "loop" => ToSet(added) \cup updated = Behind
  /\ hpc = "done" => i = Len(old) + 1 /\ ToSet(added) \cup updated = ToSet(lights)
  /\ hpc \in {"loop", "done"}

\* Once a light has vanished the loop is past the end and goes no further.
OneVanished ==
  /\ removed # {} /\ removed \subseteq ToSet(old) \ ToSet(lights)
  /\ begin = Len(lights) + 2
  /\ ToSet(added) \cap updated = {}
  /\ hpc \in {"loop", "undefined"}

HueInv ==
  /\ Rising(lights) /\ Rising(old) /\ i \in 1..(Len(old) + 1)
  /\ added \in Seq(Nat) /\ IsInjective(added)
  /\ AllFound \/ OneVanished

LEMMA SortedRises ==
  ASSUME NEW s \in Hue!Sorted
  PROVE  Rising(s)
<1>1. PICK n \in Nat : s \in [1..n -> Lights]
  <2>1. PICK n \in 0..Hue!Cardinality(Lights) : s \in [1..n -> Lights]
    BY DEF Hue!Sorted
  <2>2. n \in Nat
    OBVIOUS
  <2> QED  BY <2>1, <2>2
<1>2. s \in Seq(Nat)
  <2>1. s \in [1..n -> Nat]
    BY <1>1, StartUpAssumption
  <2> QED  BY <1>1, <2>1, SeqDef
<1> QED  BY <1>2 DEF Hue!Sorted, Rising

LEMMA InitHue == StartUpInit => HueInv
<1> SUFFICES ASSUME Hue!Init PROVE HueInv
  BY DEF StartUpInit
<1>1. Rising(lights) /\ Rising(old)
  BY SortedRises DEF Hue!Init
<1>2. i = 1 /\ begin = 1 /\ added = <<>> /\ removed = {} /\ updated = {} /\ hpc = "loop"
  BY DEF Hue!Init
<1>3. Len(lights) \in Nat /\ Len(old) \in Nat
  BY <1>1 DEF Rising
<1>4. Behind = {} /\ ToSet(added) = {}
  BY <1>1, <1>2 DEF Behind, ToSet, Rising
<1>5. AllFound
  BY <1>2, <1>3, <1>4 DEF AllFound
<1> QED  BY <1>1, <1>2, <1>3, <1>5 DEF HueInv, IsInjective

\* A part of a rising sequence: which elements it has.
LEMMA PartRises ==
  ASSUME NEW s, Rising(s), NEW a \in 1..(Len(s) + 1), NEW b \in Nat, a <= b, b <= Len(s) + 1
  PROVE  LET p == SubSeq(s, a, b - 1)
         IN  /\ p \in Seq(Nat) /\ IsInjective(p)
             /\ ToSet(p) = {s[k] : k \in a..(b - 1)}
<1> DEFINE p == SubSeq(s, a, b - 1)
           n == Len(s)
<1>1. /\ s \in Seq(Nat) /\ DOMAIN s = 1..n
      /\ n \in Nat /\ a \in Nat \ {0} /\ b <= n + 1
  BY DEF Rising
<1>2. p \in Seq(Nat) /\ Len(p) = b - a /\ \A j \in 1..(b - a) : p[j] = s[a + j - 1]
  BY <1>1, SubSeqProperties
<1> HIDE DEF p, n
<1>3. DOMAIN p = 1..(b - a)
  BY <1>1, <1>2
<1>8. \A j \in 1..(b - a) : a + j - 1 \in a..(b - 1) /\ a + j - 1 \in 1..n
  BY <1>1
<1>4. IsInjective(p)
  <2> SUFFICES ASSUME NEW j \in 1..(b - a), NEW k \in 1..(b - a), j < k PROVE p[j] # p[k]
    BY <1>3 DEF IsInjective
  <2>1. a + j - 1 < a + k - 1
    BY <1>1
  <2>2. s[a + j - 1] < s[a + k - 1]
    BY <1>1, <1>8, <2>1 DEF Rising
  <2>3. s[a + j - 1] \in Nat /\ s[a + k - 1] \in Nat
    BY <1>1, <1>8
  <2> QED  BY <1>2, <2>2, <2>3
<1>5. \A j \in DOMAIN p : p[j] \in {s[k] : k \in a..(b - 1)}
  BY <1>2, <1>3, <1>8
<1>6. ASSUME NEW k \in a..(b - 1) PROVE \E j \in DOMAIN p : p[j] = s[k]
  <2>1. k - a + 1 \in 1..(b - a) /\ a + (k - a + 1) - 1 = k
    BY <1>1
  <2> QED  BY <1>2, <1>3, <2>1
<1>7. ToSet(p) = {s[k] : k \in a..(b - 1)}
  BY <1>5, <1>6 DEF ToSet
<1> QED  BY <1>2, <1>4, <1>7 DEF p

LEMMA JoinedInjective ==
  ASSUME NEW p \in Seq(Nat), NEW q \in Seq(Nat), IsInjective(p), IsInjective(q), ToSet(p) \cap ToSet(q) = {}
  PROVE  /\ p \o q \in Seq(Nat) /\ IsInjective(p \o q)
         /\ ToSet(p \o q) = ToSet(p) \cup ToSet(q)
<1> DEFINE m == Len(p)
           n == Len(q)
           r == p \o q
<1>1. m \in Nat /\ n \in Nat /\ DOMAIN p = 1..m /\ DOMAIN q = 1..n
  OBVIOUS
<1>2. /\ r \in Seq(Nat) /\ Len(r) = m + n
      /\ \A j \in 1..(m + n) : r[j] = IF j <= m THEN p[j] ELSE q[j - m]
  BY ConcatProperties
<1> HIDE DEF m, n, r
<1>3. DOMAIN r = 1..(m + n)
  BY <1>1, <1>2
<1>4. ASSUME NEW j \in DOMAIN r
      PROVE  \/ j \in DOMAIN p /\ r[j] = p[j]
             \/ j \notin DOMAIN p /\ j - m \in DOMAIN q /\ r[j] = q[j - m]
  BY <1>1, <1>2, <1>3
<1>5. \A j \in DOMAIN r : r[j] \in ToSet(p) \cup ToSet(q)
  BY <1>4 DEF ToSet
<1>6. ASSUME NEW j \in DOMAIN p PROVE j \in DOMAIN r /\ r[j] = p[j]
  BY <1>1, <1>2, <1>3
<1>7. ASSUME NEW j \in DOMAIN q PROVE m + j \in DOMAIN r /\ r[m + j] = q[j]
  <2>1. m + j \in 1..(m + n) /\ ~(m + j <= m) /\ (m + j) - m = j
    BY <1>1
  <2> QED  BY <1>2, <1>3, <2>1
<1>8. ToSet(r) = ToSet(p) \cup ToSet(q)
  BY <1>5, <1>6, <1>7 DEF ToSet
<1>9. ASSUME NEW j \in DOMAIN r, NEW k \in DOMAIN r, r[j] = r[k]
      PROVE  j = k
  <2>1. j \in Nat /\ k \in Nat
    BY <1>1, <1>3
  <2>2. CASE j \in DOMAIN p /\ k \in DOMAIN p
    BY <1>6, <1>9, <2>2 DEF IsInjective
  <2>3. CASE j \notin DOMAIN p /\ k \notin DOMAIN p
    <3>1. j - m = k - m
      BY <1>4, <1>9, <2>3 DEF IsInjective
    <3> QED  BY <1>1, <2>1, <3>1
  <2>4. CASE (j \in DOMAIN p) # (k \in DOMAIN p)
    <3>1. r[j] \in ToSet(p) /\ r[j] \in ToSet(q)
      BY <1>4, <1>9, <2>4 DEF ToSet
    <3> QED  BY <3>1
  <2> QED  BY <2>2, <2>3, <2>4
<1>10. IsInjective(r)
  BY <1>9 DEF IsInjective
<1> QED  BY <1>2, <1>8, <1>10 DEF r

\* Where the search ends.
LEMMA FindFacts ==
  ASSUME HueInv, AllFound, i <= Len(old)
  PROVE  \/ /\ Hue!Find(old[i]) \in begin..Len(lights)
            /\ lights[Hue!Find(old[i])] = old[i]
         \/ /\ Hue!Find(old[i]) = Len(lights) + 1
            /\ old[i] \notin ToSet(lights)
<1>1. CASE \E k \in begin..Len(lights) : lights[k] = old[i]
  BY <1>1 DEF Hue!Find
<1>2. CASE ~\E k \in begin..Len(lights) : lights[k] = old[i]
  <2>1. Hue!Find(old[i]) = Len(lights) + 1
    BY <1>2 DEF Hue!Find, Hue!End
  <2> DEFINE n == Len(lights)
  <2>2. /\ lights \in Seq(Nat) /\ DOMAIN lights = 1..n /\ n \in Nat
        /\ i \in DOMAIN old /\ old \in Seq(Nat) /\ i \in Nat \ {0}
        /\ begin \in 1..(n + 1)
    BY DEF HueInv, Rising, AllFound
  <2> HIDE DEF n
  <2>3. ASSUME NEW k \in DOMAIN lights, lights[k] = old[i]
        PROVE  FALSE
    <3>1. k < begin
      BY <1>2, <2>2, <2>3 DEF n
    <3>2. CASE i > 1
      <4>1. begin - 1 \in DOMAIN lights /\ k <= begin - 1 /\ lights[begin - 1] = old[i - 1]
        <5>1. begin > 1 /\ lights[begin - 1] = old[i - 1]
          BY <3>2 DEF AllFound
        <5>2. k \in 1..n
          BY <2>2
        <5>3. begin - 1 \in 1..n /\ k <= begin - 1
          BY <2>2, <3>1, <5>1, <5>2
        <5> QED  BY <2>2, <5>1, <5>3
      <4>2. i - 1 \in DOMAIN old /\ old[i - 1] < old[i]
        BY <2>2, <3>2 DEF HueInv, Rising
      <4>3. k = begin - 1 \/ lights[k] < lights[begin - 1]
        <5>1. k \in Nat /\ begin - 1 \in Nat
          BY <2>2, <4>1
        <5>2. k < begin - 1 => lights[k] < lights[begin - 1]
          BY <4>1 DEF HueInv, Rising
        <5> QED  BY <4>1, <5>1, <5>2
      <4>4. lights[k] \in Nat /\ lights[begin - 1] \in Nat /\ old[i] \in Nat
        <5>1. \A j \in DOMAIN lights : lights[j] \in Nat
          BY <2>2 DEF n
        <5>2. old[i] \in Nat
          BY <2>2
        <5> QED  BY <4>1, <5>1, <5>2
      <4> QED  BY <2>3, <4>1, <4>2, <4>3, <4>4
    <3>3. CASE i = 1
      BY <2>2, <3>1, <3>3 DEF AllFound
    <3> QED  BY <2>2, <3>2, <3>3
  <2>4. old[i] \notin ToSet(lights)
    BY <2>3 DEF ToSet
  <2> QED  BY <2>1, <2>4
<1> QED  BY <1>1, <1>2

\* The lights from begin to before place b are added.
LEMMA BetweenAdded ==
  ASSUME HueInv, AllFound, hpc = "loop", NEW b \in Nat, begin <= b, b <= Len(lights) + 1
  PROVE  LET more == added \o Hue!Between(b)
         IN  /\ more \in Seq(Nat) /\ IsInjective(more)
             /\ ToSet(more) = ToSet(added) \cup {lights[k] : k \in begin..(b - 1)}
             /\ ToSet(more) \cap updated = {}
             /\ ToSet(more) \cup updated = {lights[k] : k \in 1..(b - 1)}
<1> DEFINE p == Hue!Between(b)
           part == {lights[k] : k \in begin..(b - 1)}
           n == Len(lights)
<1>1. /\ lights \in Seq(Nat) /\ DOMAIN lights = 1..n /\ n \in Nat /\ begin \in 1..(n + 1)
      /\ Rising(lights) /\ added \in Seq(Nat) /\ IsInjective(added)
      /\ ToSet(added) \cap updated = {} /\ ToSet(added) \cup updated = Behind
  BY DEF HueInv, Rising, AllFound
<1>2. p \in Seq(Nat) /\ IsInjective(p) /\ ToSet(p) = part
  BY <1>1, PartRises DEF Hue!Between
<1> HIDE DEF p, n
<1>3. Behind \cap part = {}
  <2> SUFFICES ASSUME NEW j \in DOMAIN lights, j < begin, NEW k \in begin..(b - 1) PROVE lights[j] # lights[k]
    BY DEF Behind
  <2>1. j < k /\ k \in DOMAIN lights /\ j \in DOMAIN lights
    BY <1>1 DEF n
  <2>2. lights[j] < lights[k] /\ lights[j] \in Nat /\ lights[k] \in Nat
    BY <1>1, <2>1 DEF Rising
  <2> QED  BY <2>2
<1>4. Behind \cup part = {lights[k] : k \in 1..(b - 1)}
  <2>1. \A k \in 1..(b - 1) : (k \in DOMAIN lights /\ k < begin) \/ k \in begin..(b - 1)
    BY <1>1 DEF n
  <2>2. \A k \in DOMAIN lights : k < begin => k \in 1..(b - 1)
    BY <1>1
  <2>3. \A k \in begin..(b - 1) : k \in 1..(b - 1)
    BY <1>1
  <2> QED  BY <2>1, <2>2, <2>3 DEF Behind
<1>5. ToSet(added) \cap ToSet(p) = {}
  BY <1>1, <1>2, <1>3
<1>6. /\ added \o p \in Seq(Nat) /\ IsInjective(added \o p)
      /\ ToSet(added \o p) = ToSet(added) \cup ToSet(p)
  BY <1>1, <1>2, <1>5, JoinedInjective
<1>7. (ToSet(added) \cup part) \cap updated = {} /\ (ToSet(added) \cup part) \cup updated = Behind \cup part
  BY <1>1, <1>3
<1> QED  BY <1>2, <1>4, <1>6, <1>7 DEF p

LEMMA FoundHue == HueInv /\ Hue!Found => HueInv'
<1> SUFFICES ASSUME HueInv, Hue!Found PROVE HueInv'
  OBVIOUS
<1> DEFINE k == Hue!Find(old[i])
           n == Len(lights)
<1>1. /\ hpc = "loop" /\ i <= Len(old) /\ begin <= n + 1 /\ k # n + 1
      /\ added' = added \o Hue!Between(k) /\ updated' = updated \cup {old[i]}
      /\ begin' = k + 1 /\ i' = i + 1 /\ UNCHANGED <<lights, old, removed, hpc>>
  BY DEF Hue!Found, Hue!BeginValid, Hue!End, Hue!NextLight
<1>2. /\ lights \in Seq(Nat) /\ n \in Nat /\ Len(old) \in Nat /\ i \in 1..(Len(old) + 1)
      /\ DOMAIN lights = 1..n
  BY DEF HueInv, Rising
<1>3. AllFound
  BY <1>1, <1>2 DEF HueInv, OneVanished
<1>4. k \in begin..n /\ lights[k] = old[i]
  BY <1>1, <1>3, FindFacts
<1> HIDE DEF k
<1>5. begin \in 1..(n + 1) /\ k \in Nat /\ begin <= k /\ k <= n + 1 /\ k \in 1..n
  BY <1>2, <1>3, <1>4 DEF AllFound
<1>6. /\ added' \in Seq(Nat) /\ IsInjective(added')
      /\ ToSet(added') = ToSet(added) \cup {lights[j] : j \in begin..(k - 1)}
      /\ ToSet(added') \cap updated = {}
      /\ ToSet(added') \cup updated = {lights[j] : j \in 1..(k - 1)}
  BY <1>1, <1>3, <1>5, BetweenAdded
<1>7. Behind' = {lights[j] : j \in 1..(k - 1)} \cup {lights[k]}
  <2>1. \A j \in DOMAIN lights : j < k + 1 <=> j \in 1..(k - 1) \/ j = k
    BY <1>2, <1>5
  <2>2. \A j \in 1..(k - 1) : j \in DOMAIN lights
    BY <1>2, <1>5
  <2> QED  BY <1>1, <1>2, <1>5, <2>1, <2>2 DEF Behind
<1>8. lights[k] \notin ToSet(added')
  <2>1. \A j \in 1..(k - 1) : lights[j] # lights[k]
    <3> SUFFICES ASSUME NEW j \in 1..(k - 1) PROVE lights[j] # lights[k]
      OBVIOUS
    <3>1. j \in DOMAIN lights /\ k \in DOMAIN lights /\ j < k
      BY <1>2, <1>5
    <3>2. lights[j] < lights[k] /\ lights[j] \in Nat /\ lights[k] \in Nat
      BY <1>2, <3>1 DEF HueInv, Rising
    <3> QED  BY <3>2
  <2> QED  BY <1>6, <2>1
<1>9. updated' = {old[j] : j \in 1..i}
  <2>1. updated = {old[j] : j \in 1..(i - 1)}
    BY <1>3 DEF AllFound
  <2>2. \A j \in 1..i : j \in 1..(i - 1) \/ j = i
    BY <1>2
  <2>3. i \in 1..i /\ \A j \in 1..(i - 1) : j \in 1..i
    BY <1>2
  <2> QED  BY <1>1, <2>1, <2>2, <2>3
<1>10. AllFound'
  <2>1. removed' = {} /\ hpc' = "loop"
    BY <1>1, <1>3 DEF AllFound
  <2>2. begin' \in 1..(n + 1) /\ i' # 1 /\ begin' > 1 /\ lights[begin' - 1] = old[i' - 1]
    <3>1. begin' - 1 = k /\ i' - 1 = i /\ old' = old
      BY <1>1, <1>2, <1>5
    <3>2. begin' \in 1..(n + 1) /\ i' # 1 /\ begin' > 1
      BY <1>1, <1>2, <1>5
    <3> QED  BY <1>1, <1>4, <3>1, <3>2
  <2>3. 1..(i' - 1) = 1..i
    BY <1>1, <1>2
  <2>4. ToSet(added') \cap updated' = {}
    BY <1>1, <1>4, <1>6, <1>8
  <2>5. ToSet(added') \cup updated' = Behind'
    BY <1>1, <1>4, <1>6, <1>7
  <2> QED  BY <1>1, <1>9, <2>1, <2>2, <2>3, <2>4, <2>5 DEF AllFound, ToSet
<1>11. i' \in 1..(Len(old') + 1)
  BY <1>1, <1>2
<1> QED  BY <1>1, <1>6, <1>10, <1>11 DEF HueInv, Rising, IsInjective

LEMMA VanishedHue == HueInv /\ Hue!Vanished => HueInv'
<1> SUFFICES ASSUME HueInv, Hue!Vanished PROVE HueInv'
  OBVIOUS
<1> DEFINE k == Hue!Find(old[i])
           n == Len(lights)
<1>1. /\ hpc = "loop" /\ i <= Len(old) /\ begin <= n + 1 /\ k = n + 1
      /\ removed' = removed \cup {old[i]}
      /\ begin' = k + 1 /\ i' = i + 1 /\ UNCHANGED <<lights, old, added, updated, hpc>>
  BY DEF Hue!Vanished, Hue!BeginValid, Hue!End, Hue!NextLight
<1>2. n \in Nat /\ Len(old) \in Nat /\ i \in 1..(Len(old) + 1) /\ DOMAIN old = 1..Len(old)
  BY DEF HueInv, Rising
<1>3. AllFound
  BY <1>1, <1>2 DEF HueInv, OneVanished
<1>4. old[i] \notin ToSet(lights)
  <2>1. k \notin begin..n
    BY <1>1, <1>2
  <2> QED  BY <1>1, <1>3, <2>1, FindFacts
<1>5. old[i] \in ToSet(old)
  BY <1>1, <1>2 DEF ToSet
<1>6. removed' = {old[i]} /\ ToSet(added) \cap updated = {}
  BY <1>1, <1>3 DEF AllFound
<1> HIDE DEF k
<1>7. begin' = n + 2 /\ i' \in 1..(Len(old) + 1)
  BY <1>1, <1>2
<1>8. OneVanished'
  BY <1>1, <1>4, <1>5, <1>6, <1>7 DEF OneVanished, ToSet
<1> QED  BY <1>1, <1>7, <1>8 DEF HueInv, Rising, IsInjective

LEMMA AddRestHue == HueInv /\ Hue!AddRest => HueInv'
<1> SUFFICES ASSUME HueInv, Hue!AddRest PROVE HueInv'
  OBVIOUS
<1> DEFINE n == Len(lights)
<1>1. /\ hpc = "loop" /\ i > Len(old) /\ begin <= n + 1
      /\ added' = added \o Hue!Between(n + 1) /\ hpc' = "done"
      /\ UNCHANGED <<lights, old, i, begin, removed, updated>>
  BY DEF Hue!AddRest, Hue!BeginValid, Hue!End
<1>2. n \in Nat /\ Len(old) \in Nat /\ i \in 1..(Len(old) + 1) /\ DOMAIN lights = 1..n
  BY DEF HueInv, Rising
<1>3. AllFound
  BY <1>1, <1>2 DEF HueInv, OneVanished
<1>4. /\ added' \in Seq(Nat) /\ IsInjective(added')
      /\ ToSet(added') \cap updated = {}
      /\ ToSet(added') \cup updated = {lights[j] : j \in 1..((n + 1) - 1)}
  <2>1. n + 1 \in Nat /\ begin <= n + 1 /\ n + 1 <= Len(lights) + 1
    BY <1>1, <1>2
  <2>2. hpc = "loop" /\ added' = added \o Hue!Between(n + 1)
    BY <1>1
  <2> HIDE DEF n
  <2> QED  BY <1>3, <2>1, <2>2, BetweenAdded
<1>5. ToSet(added') \cup updated = ToSet(lights)
  <2>1. 1..((n + 1) - 1) = DOMAIN lights
    BY <1>2
  <2> QED  BY <1>4, <2>1 DEF ToSet
<1>6. i = Len(old) + 1
  BY <1>1, <1>2
<1>7. ToSet(added') = ToSet(added)' /\ ToSet(lights) = ToSet(lights)'
  BY <1>1 DEF ToSet
<1>8. AllFound'
  BY <1>1, <1>3, <1>4, <1>5, <1>6, <1>7 DEF AllFound
<1> QED  BY <1>1, <1>4, <1>8 DEF HueInv, Rising, IsInjective

LEMMA NextHue == HueInv /\ [StartUpNext]_allVars => HueInv'
<1> SUFFICES ASSUME HueInv, [StartUpNext]_allVars PROVE HueInv'
  OBVIOUS
<1>1. CASE Hue!PastEnd
  <2>1. ~(begin <= Len(lights) + 1) /\ hpc' = "undefined" /\ UNCHANGED <<lights, old, i, begin, added, removed, updated>>
    BY <1>1 DEF Hue!PastEnd, Hue!BeginValid, Hue!End
  <2>2. Len(lights) \in Nat
    BY DEF HueInv, Rising
  <2>3. OneVanished
    BY <2>1, <2>2 DEF HueInv, AllFound
  <2>4. OneVanished'
    BY <2>1, <2>3 DEF OneVanished, ToSet
  <2> QED  BY <2>1, <2>4 DEF HueInv, Rising, IsInjective
<1>2. CASE UNCHANGED hueVars
  <2>1. UNCHANGED <<lights, old, i, begin, added, removed, updated, hpc>>
    BY <1>2 DEF hueVars
  <2>2. /\ Behind' = Behind /\ {old[j] : j \in 1..(i - 1)}' = {old[j] : j \in 1..(i - 1)}
        /\ ToSet(added)' = ToSet(added) /\ ToSet(lights)' = ToSet(lights) /\ ToSet(old)' = ToSet(old)
    BY <2>1 DEF Behind, ToSet
  <2>3. AllFound => AllFound'
    BY <2>1, <2>2 DEF AllFound
  <2>4. OneVanished => OneVanished'
    BY <2>1, <2>2 DEF OneVanished
  <2> QED  BY <2>1, <2>3, <2>4 DEF HueInv, Rising, IsInjective
<1> QED
  BY <1>1, <1>2, FoundHue, VanishedHue, AddRestHue
     DEF StartUpNext, SynchronizeDevices, Hue!Merge, Proceed, Others, allVars

\* While the Hue plugin merges the lights of the bridge with the stored devices, each
\* light has one device, and none is left out or kept wrongly if every device still has
\* its light: for any lights and devices, whatever else happens at start-up
\* (HueAPI::SynchronizeDevices).
THEOREM LightsSynchronized == StartUpSpec => []SynchronizedIfAllThere
<1>1. HueInv => SynchronizedIfAllThere
  <2> SUFFICES ASSUME HueInv PROVE SynchronizedIfAllThere
    OBVIOUS
  <2> USE DEF Hue!ToSet, Hue!IsInjective, ToSet, IsInjective
  <2>1. Hue!OneDevicePerLight
    <3>1. ASSUME removed = {}, NEW k \in DOMAIN lights, k < begin
          PROVE  lights[k] \in ToSet(added) \cup updated
      <4>1. AllFound
        BY <3>1 DEF HueInv, OneVanished
      <4>2. lights[k] \in Behind /\ lights[k] \in ToSet(lights)
        BY <3>1 DEF Behind
      <4> QED  BY <4>1, <4>2 DEF AllFound
    <3> QED  BY <3>1 DEF HueInv, AllFound, OneVanished, Hue!OneDevicePerLight
  <2>2. ASSUME ToSet(old) \subseteq ToSet(lights) PROVE Hue!Synchronized
    <3>1. AllFound
      BY <2>2 DEF HueInv, OneVanished
    <3>2. hpc = "done" => updated = ToSet(old)
      <4>1. Len(old) \in Nat /\ DOMAIN old = 1..Len(old)
        BY DEF HueInv, Rising
      <4>2. i = Len(old) + 1 => 1..(i - 1) = DOMAIN old
        BY <4>1
      <4> QED  BY <3>1, <4>2 DEF AllFound
    <3> QED  BY <3>1, <3>2 DEF AllFound, Hue!Synchronized
  <2> QED  BY <2>1, <2>2 DEF SynchronizedIfAllThere, Hue!SynchronizedIfAllThere
<1> QED  BY InitHue, NextHue, <1>1, PTL DEF StartUpSpec
=============================================================================
