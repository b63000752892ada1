--------------------------- MODULE DeviceStoreProofs ---------------------------
(***************************************************************************)
(* Theorems about the devices in memory and in the database, for all       *)
(* threads, names, properties and bounds.                                  *)
(***************************************************************************)
EXTENDS DeviceStore, FiniteSetTheorems, TLAPS

PropertySets == UNION {[ks -> Values] : ks \in SUBSET Keys}
Data == [name : Names, groups : 0..MaxGroups, props : PropertySets]
Instances == [id : Ids, object : Objects]
Loads == [id : Ids, read : SUBSET Data]

\* The devices that threads may have data of their own for.
Apart == removed \cup raced

\* The types, with the shape of the functions and records.
Types ==
  /\ devices \in [DOMAIN devices -> Data] /\ DOMAIN devices \subseteq Ids
  /\ \A id \in DOMAIN devices : devices[id].groups <= 1
  /\ data \in [ObjectsOf(held) -> Data]
  /\ m_cache \in [DOMAIN m_cache -> ObjectsOf(held)] /\ DOMAIN m_cache \subseteq DOMAIN devices
  /\ held \in [Threads -> Instances \cup {Nobody}]
  /\ loading \in [Threads -> Loads \cup {Nothing}]
  /\ unsaved \cup removed \cup raced \subseteq Ids

\* A thread holds only devices that have a row.
HeldInDatabase == \A t \in Threads : held[t] # Nobody => held[t].id \in DOMAIN devices

\* An object is the data of one device only.
OneDevicePerObject ==
  /\ \A s, t \in Threads : held[s].object = held[t].object => held[s].id = held[t].id
  /\ \A id \in DOMAIN m_cache, t \in Threads : held[t].object = m_cache[id] => held[t].id = id

\* As long as a device is held it is found in the cache, unless it was removed or two
\* threads raced for it.
CachedIfHeld ==
  \A t \in Threads :
    held[t] # Nobody /\ held[t].id \notin Apart =>
      held[t].id \in DOMAIN m_cache /\ m_cache[held[t].id] = held[t].object

\* A thread that is about to enter a device holds none, and has read only a row that
\* there is.
LoadsRows ==
  \A t \in Threads : loading[t] # Nothing =>
    /\ held[t] = Nobody
    /\ loading[t].read # {} => loading[t].id \in DOMAIN devices

\* Unless it was removed or raced for, the device is in no cache, no other thread is
\* about to enter it, and the row is still what was read.
LoadedAlone ==
  \A t \in Threads : loading[t] # Nothing /\ loading[t].id \notin Apart =>
    /\ loading[t].id \notin DOMAIN m_cache
    /\ \A u \in Threads \ {t} : loading[u].id # loading[t].id
    /\ \A row \in loading[t].read : row = devices[loading[t].id]

IInv ==
  /\ Types /\ HeldInDatabase /\ OneDevicePerObject /\ CachedIfHeld
  /\ LoadsRows /\ LoadedAlone /\ MemoryMatchesRow

-----------------------------------------------------------------------------
\* A non-empty set of numbers has a least one.
LEMMA LeastExists ==
  ASSUME NEW S \in SUBSET Nat, S # {}
  PROVE  \E x \in S : \A y \in S : x <= y
<1> DEFINE T == {0..x : x \in S}
<1>1. T \subseteq FiniteSubsetsOf(Nat) /\ T # {}
  <2>1. \A x \in S : IsFiniteSet(0..x) /\ 0..x \in SUBSET Nat
    BY FS_Interval
  <2>2. \A x \in S : 0..x \in FiniteSubsetsOf(Nat)
    BY <2>1 DEF FiniteSubsetsOf
  <2> QED  BY <2>2
<1>2. PICK x \in S : \A y \in S : <<0..y, 0..x>> \notin StrictSubsetOrdering(Nat)
  <2> HIDE DEF T
  <2>1. PICK s \in T : \A u \in T : <<u, s>> \notin StrictSubsetOrdering(Nat)
    BY <1>1, FS_StrictSubsetOrderingWellFounded, WFMin
  <2> QED  BY <2>1 DEF T
<1>3. \A y \in S : x <= y
  <2> SUFFICES ASSUME NEW y \in S, y < x PROVE FALSE
    OBVIOUS
  <2>1. /\ 0..y \in SUBSET Nat /\ 0..x \in SUBSET Nat
        /\ 0..y \subseteq 0..x /\ x \in 0..x /\ x \notin 0..y
    OBVIOUS
  <2>2. <<0..y, 0..x>> \in StrictSubsetOrdering(Nat)
    BY <2>1 DEF StrictSubsetOrdering
  <2> QED  BY <2>2, <1>2
<1> QED  BY <1>3

LEMMA MinExists ==
  ASSUME NEW S \in SUBSET Nat, S # {}
  PROVE  Min(S) \in S
BY LeastExists DEF Min

\* A non-empty bounded set of numbers has a greatest one.
LEMMA MaxExists ==
  ASSUME NEW n \in Nat, NEW S \in SUBSET (1..n), S # {}
  PROVE  Max(S) \in S /\ \A y \in S : Max(S) >= y
<1> DEFINE T == {n - y : y \in S}
<1>1. T \in SUBSET Nat /\ T # {}
  <2>1. \A y \in S : n - y \in Nat
    OBVIOUS
  <2> QED  BY <2>1
<1>2. PICK x \in S : \A y \in S : x >= y
  <2>1. \E m \in T : \A k \in T : m <= k
    <3> HIDE DEF T
    <3> QED  BY <1>1, LeastExists
  <2> QED  BY <2>1
<1> QED  BY <1>2 DEF Max

\* There is an object that no thread holds: there is one more than threads.
LEMMA FreeObject ==
  ASSUME Types
  PROVE  NewObject \in Objects /\ NewObject \notin DOMAIN data
<1>1. IsFiniteSet(Threads) /\ Cardinality(Threads) \in Nat
  BY DeviceStoreAssumption, FS_CardinalityType
<1>2. IsFiniteSet(Objects) /\ Cardinality(Objects) = Cardinality(Threads) + 1
  BY <1>1, FS_Interval DEF Objects
<1>3. \E o \in Objects : o \notin ObjectsOf(held)
  <2> SUFFICES ASSUME Objects \subseteq ObjectsOf(held) PROVE FALSE
    OBVIOUS
  <2> DEFINE holder == [o \in Objects |-> CHOOSE t \in Threads : held[t].object = o]
  <2>1. \A o \in Objects : holder[o] \in Threads /\ held[holder[o]].object = o
    BY DEF ObjectsOf
  <2>2. holder \in [Objects -> Threads]
    BY <2>1
  <2>3. PICK o, p \in Objects : o # p /\ holder[o] = holder[p]
    <3> HIDE DEF holder
    <3> QED  BY <1>1, <1>2, <2>2, FS_PigeonHole
  <2> QED  BY <2>1, <2>3
<1>4. Objects \ DOMAIN data \in SUBSET Nat
  BY DEF Objects
<1>5. Objects \ DOMAIN data # {}
  BY <1>3 DEF Types
<1> QED  BY <1>4, <1>5, MinExists DEF NewObject

\* Entries of the functions.
LEMMA WithEntry ==
  ASSUME NEW f, NEW x, NEW y
  PROVE  /\ DOMAIN With(f, x, y) = {x} \cup DOMAIN f
         /\ With(f, x, y)[x] = y
         /\ \A z \in DOMAIN f \ {x} : With(f, x, y)[z] = f[z]
         /\ \A S : f \in [DOMAIN f -> S] /\ y \in S => With(f, x, y) \in [{x} \cup DOMAIN f -> S]
BY DEF With

LEMMA RestrictEntry ==
  ASSUME NEW f, NEW S \in SUBSET DOMAIN f
  PROVE  /\ DOMAIN Restrict(f, S) = S
         /\ \A x \in S : Restrict(f, S)[x] = f[x]
         /\ \A T : f \in [DOMAIN f -> T] => Restrict(f, S) \in [S -> T]
BY DEF Restrict

-----------------------------------------------------------------------------
LEMMA InitIInv == Init => IInv
<1> SUFFICES ASSUME Init PROVE IInv
  OBVIOUS
<1>1. ObjectsOf(held) = {}
  BY DEF Init, ObjectsOf, Nobody
<1>2. DOMAIN devices = {} /\ DOMAIN m_cache = {} /\ DOMAIN data = {}
  BY DEF Init
<1>3. Types
  BY <1>1, <1>2 DEF Types, Init
<1>4. \A t \in Threads : held[t] = Nobody /\ loading[t] = Nothing
  BY DEF Init
<1> QED  BY <1>2, <1>3, <1>4 DEF IInv, HeldInDatabase, OneDevicePerObject, CachedIfHeld,
                           LoadsRows, LoadedAlone, MemoryMatchesRow, Nobody

\* What the types say of one thread.
LEMMA HeldTypes ==
  ASSUME Types, NEW t \in Threads
  PROVE  /\ held[t] # Nobody => held[t] \in Instances /\ held[t].object \in ObjectsOf(held)
         /\ held[t].id = 0 <=> held[t] = Nobody
         /\ held[t].object = 0 <=> held[t] = Nobody
         /\ 0 \notin ObjectsOf(held) /\ DOMAIN data = ObjectsOf(held)
<1>1. held[t] \in Instances \cup {Nobody} /\ DOMAIN data = ObjectsOf(held)
  BY DEF Types
<1>2. \A h \in Instances : h.id # 0 /\ h.object # 0
  BY DEF Instances, Ids, Objects
<1>3. Nobody.id = 0 /\ Nobody.object = 0
  BY DEF Nobody
<1> QED  BY <1>1, <1>2, <1>3 DEF ObjectsOf

\* What the types say of a thread that is about to enter a device.
LEMMA LoadTypes ==
  ASSUME Types, NEW t \in Threads
  PROVE  /\ loading[t] # Nothing => /\ loading[t].id \in Ids /\ loading[t].read \subseteq Data
                                    /\ loading[t].id # 0
         /\ loading[t] = Nothing => loading[t].id = 0 /\ loading[t].read = {}
<1>1. loading[t] \in Loads \cup {Nothing}
  BY DEF Types
<1>2. \A l \in Loads : l.id \in Ids /\ l.id # 0 /\ l.read \subseteq Data
  BY DEF Loads, Ids
<1>3. Nothing.id = 0 /\ Nothing.read = {}
  BY DEF Nothing
<1> QED  BY <1>1, <1>2, <1>3

\* Nobody holds a device that a thread is about to enter alone.
LEMMA NobodyElseHolds ==
  ASSUME IInv, NEW u \in Threads, loading[u] # Nothing, loading[u].id \notin Apart,
         NEW t \in Threads
  PROVE  held[t].id # loading[u].id
<1>1. loading[u].id \in Ids /\ loading[u].id # 0
  BY LoadTypes DEF IInv
<1>2. loading[u].id \notin DOMAIN m_cache
  BY DEF IInv, LoadedAlone
<1>3. CASE held[t] = Nobody
  BY <1>1, <1>3 DEF Nobody
<1>4. CASE held[t] # Nobody
  BY <1>2, <1>4 DEF IInv, CachedIfHeld
<1> QED  BY <1>3, <1>4

LEMMA HitKeeps ==
  ASSUME IInv, NEW t \in Threads, NEW id \in Ids, Hit(t, id)
  PROVE  IInv'
<1> USE DEF IInv
<1>1. /\ held[t] = Nobody /\ loading[t] = Nothing /\ IsCached(id)
      /\ held' = [held EXCEPT ![t] = [id |-> id, object |-> m_cache[id]]]
      /\ UNCHANGED <<data, m_cache, loading, devices, unsaved, removed, raced>>
  BY DEF Hit, Free, history
<1>2. PICK s \in Threads : held[s].object = m_cache[id] /\ held[s].id = id
  BY <1>1 DEF IsCached, Types, ObjectsOf, OneDevicePerObject
<1>3. m_cache[id] \in Objects
  BY <1>1, <1>2, HeldTypes DEF IsCached, Types, Instances
<1>4. ObjectsOf(held') = ObjectsOf(held)
  BY <1>1, <1>2, <1>3, HeldTypes DEF ObjectsOf, Types, Objects
<1>5. Types'
  BY <1>1, <1>3, <1>4 DEF Types, Instances
<1>6. \A u \in Threads \ {t} : held'[u] = held[u]
  BY <1>1 DEF Types
<1>7. held'[t].id = id /\ held'[t].object = m_cache[id] /\ id \in DOMAIN m_cache
  BY <1>1 DEF Types, IsCached
<1>8. HeldInDatabase'
  BY <1>1, <1>6, <1>7 DEF HeldInDatabase, Types
<1>9. OneDevicePerObject'
  BY <1>1, <1>2, <1>6, <1>7 DEF OneDevicePerObject
<1>10. CachedIfHeld' /\ MemoryMatchesRow'
  BY <1>1, <1>6, <1>7 DEF CachedIfHeld, MemoryMatchesRow, Apart
<1>11. LoadsRows' /\ LoadedAlone'
  BY <1>1, <1>6 DEF LoadsRows, LoadedAlone, Apart
<1> QED  BY <1>5, <1>8, <1>9, <1>10, <1>11

\* A thread that begins to enter a device marks it if another one does, too.
LEMMA BeginKeeps ==
  ASSUME IInv, NEW t \in Threads, Free(t), NEW id \in Ids, NEW read \in SUBSET Data,
         Begin(t, id, read), UNCHANGED <<data, m_cache, held, unsaved, removed>>,
         id \notin DOMAIN m_cache,
         DOMAIN devices \subseteq DOMAIN devices' /\ DOMAIN devices' \subseteq Ids,
         devices' \in [DOMAIN devices' -> Data],
         \A i \in DOMAIN devices' : devices'[i].groups <= 1,
         \A i \in DOMAIN devices : devices'[i] = devices[i],
         \A row \in read : id \in DOMAIN devices' /\ row = devices'[id]
  PROVE  IInv'
<1> USE DEF IInv
<1>1. /\ loading' = [loading EXCEPT ![t] = [id |-> id, read |-> read]]
      /\ raced \subseteq raced' /\ raced' \subseteq raced \cup {id}
      /\ \A u \in Threads \ {t} : loading[u].id = id => id \in raced'
  BY DEF Begin
<1>2. held[t] = Nobody /\ loading[t] = Nothing
  BY DEF Free
<1>3. /\ loading'[t] = [id |-> id, read |-> read]
      /\ \A u \in Threads \ {t} : loading'[u] = loading[u]
      /\ loading' \in [Threads -> Loads \cup {Nothing}]
  BY <1>1 DEF Types, Loads
<1>4. Types'
  BY <1>1, <1>3 DEF Types
<1>5. HeldInDatabase' /\ OneDevicePerObject' /\ CachedIfHeld'
  BY <1>1 DEF HeldInDatabase, OneDevicePerObject, CachedIfHeld, Apart
<1>6. MemoryMatchesRow'
  BY <1>1 DEF MemoryMatchesRow, Types
<1>7. LoadsRows'
  BY <1>2, <1>3 DEF LoadsRows
<1>8. LoadedAlone'
  <2> SUFFICES ASSUME NEW u \in Threads, loading'[u] # Nothing, loading'[u].id \notin Apart'
               PROVE  /\ loading'[u].id \notin DOMAIN m_cache
                      /\ \A v \in Threads \ {u} : loading'[v].id # loading'[u].id
                      /\ \A row \in loading'[u].read : row = devices'[loading'[u].id]
    BY DEF LoadedAlone
  <2>1. CASE u = t
    BY <1>1, <1>3, <2>1 DEF Apart
  <2>2. CASE u # t
    <3>1. loading'[u] = loading[u] /\ loading[u].id \notin Apart
      BY <1>1, <1>3, <2>2 DEF Apart
    <3>2. loading[u].id # id
      BY <1>1, <2>2, <3>1 DEF Apart
    <3>3. \A row \in loading[u].read : loading[u].id \in DOMAIN devices
      BY <3>1 DEF LoadsRows
    <3> QED  BY <1>3, <2>2, <3>1, <3>2, <3>3 DEF LoadedAlone
  <2> QED  BY <2>1, <2>2
<1> QED  BY <1>4, <1>5, <1>6, <1>7, <1>8

LEMMA MissKeeps ==
  ASSUME IInv, NEW t \in Threads, NEW id \in Ids, Miss(t, id)
  PROVE  IInv'
<1>1. /\ Free(t) /\ Begin(t, id, {}) /\ id \notin DOMAIN m_cache
      /\ UNCHANGED <<data, m_cache, held, devices, unsaved, removed>>
  BY DEF Miss, IsCached
<1>2. /\ devices \in [DOMAIN devices -> Data] /\ DOMAIN devices \subseteq Ids
      /\ \A i \in DOMAIN devices : devices[i].groups <= 1
  BY DEF IInv, Types
<1> QED  BY <1>1, <1>2, BeginKeeps

\* The histories forget only devices that no thread uses: what is said of those that
\* somebody uses stays as it is.
LEMMA ForgetKeeps ==
  ASSUME IInv, Forget, UNCHANGED <<devices, removed>>,
         Types', HeldInDatabase', OneDevicePerObject',
         \A t \in Threads : held'[t] = held[t] \/ held'[t] = Nobody,
         \A t \in Threads : loading'[t] = loading[t] \/ loading'[t] = Nothing,
         DOMAIN m_cache' \subseteq DOMAIN m_cache,
         \A id \in DOMAIN m_cache' : /\ m_cache'[id] = m_cache[id]
                                     /\ data'[m_cache[id]] = data[m_cache[id]],
         \A t \in Threads : held'[t] # Nobody /\ held[t].id \in DOMAIN m_cache
                              /\ m_cache[held[t].id] = held[t].object =>
                                held[t].id \in DOMAIN m_cache'
  PROVE  IInv' /\ \A id \in DOMAIN m_cache' : id \notin Apart' => id \notin Apart
<1> USE DEF IInv
<1>1. /\ unsaved' = {id \in unsaved : \E t \in Threads : held'[t].id = id}
      /\ raced' = {id \in raced : \E t \in Threads : held'[t].id = id \/ loading'[t].id = id}
  BY DEF Forget
<1>2. ASSUME NEW id \in DOMAIN m_cache' PROVE \E t \in Threads : held'[t].id = id
  <2>1. m_cache'[id] \in ObjectsOf(held')
    BY DEF Types
  <2> QED  BY <2>1 DEF ObjectsOf, OneDevicePerObject
<1>3. \A id \in DOMAIN m_cache' : /\ id \notin Apart' => id \notin Apart
                                  /\ id \notin unsaved' => id \notin unsaved
  BY <1>1, <1>2 DEF Apart
<1>4. MemoryMatchesRow'
  <2> SUFFICES ASSUME NEW id \in DOMAIN m_cache', id \notin unsaved' \cup Apart'
               PROVE  devices[id] = data'[m_cache'[id]]
    BY DEF MemoryMatchesRow, Apart
  <2>1. id \in DOMAIN m_cache /\ id \notin unsaved \cup Apart
    BY <1>3
  <2>2. devices[id] = data[m_cache[id]]
    BY <2>1 DEF MemoryMatchesRow, Apart
  <2> QED  BY <2>2
<1>5. CachedIfHeld'
  <2> SUFFICES ASSUME NEW t \in Threads, held'[t] # Nobody, held'[t].id \notin Apart'
               PROVE  held'[t].id \in DOMAIN m_cache' /\ m_cache'[held'[t].id] = held'[t].object
    BY DEF CachedIfHeld
  <2>1. held'[t] = held[t] /\ held[t].id \notin Apart
    BY <1>1 DEF Apart
  <2>2. held[t].id \in DOMAIN m_cache /\ m_cache[held[t].id] = held[t].object
    BY <2>1 DEF CachedIfHeld
  <2> QED  BY <2>1, <2>2
<1>6. LoadsRows'
  BY DEF LoadsRows
<1>7. LoadedAlone'
  <2> SUFFICES ASSUME NEW t \in Threads, loading'[t] # Nothing, loading'[t].id \notin Apart'
               PROVE  /\ loading'[t].id \notin DOMAIN m_cache'
                      /\ \A u \in Threads \ {t} : loading'[u].id # loading'[t].id
                      /\ \A row \in loading'[t].read : row = devices[loading'[t].id]
    BY DEF LoadedAlone
  <2>1. loading'[t] = loading[t] /\ loading[t].id \notin Apart
    BY <1>1 DEF Apart
  <2>2. ASSUME NEW u \in Threads \ {t} PROVE loading'[u].id # loading[t].id
    <3>1. CASE loading'[u] = loading[u]
      BY <2>1, <3>1 DEF LoadedAlone
    <3>2. CASE loading'[u] = Nothing
      BY <2>1, <3>2, LoadTypes DEF Nothing
    <3> QED  BY <3>1, <3>2
  <2> QED  BY <2>1, <2>2 DEF LoadedAlone
<1>8. IInv'
  BY <1>4, <1>5, <1>6, <1>7
<1>9. \A id \in DOMAIN m_cache' : id \notin Apart' => id \notin Apart
  BY <1>3
<1> QED  BY <1>8, <1>9

\* The row is read, or there is none.
LEMMA LoadKeeps ==
  ASSUME IInv, NEW t \in Threads, Load(t)
  PROVE  /\ IInv' /\ UNCHANGED <<devices, data, m_cache, removed>>
         /\ \A id \in DOMAIN m_cache' : id \notin Apart' => id \notin Apart
<1> USE DEF IInv
<1>1. loading[t] # Nothing /\ loading[t].id \in Ids
      /\ UNCHANGED <<data, m_cache, held, devices, removed>>
  BY LoadTypes DEF Load
<1>2. CASE /\ loading[t].id \in DOMAIN devices
           /\ loading' = [loading EXCEPT ![t].read = {devices[loading[t].id]}]
           /\ UNCHANGED <<unsaved, raced>>
  <2> DEFINE id == loading[t].id
  <2>1. loading[t] \in Loads /\ devices[id] \in Data
    BY <1>1, <1>2 DEF Types
  <2>2. /\ loading'[t].id = id /\ loading'[t].read = {devices[id]} /\ loading'[t] \in Loads
        /\ \A u \in Threads \ {t} : loading'[u] = loading[u]
        /\ loading' \in [Threads -> Loads \cup {Nothing}]
    BY <1>2, <2>1 DEF Types, Loads
  <2>3. \A u \in Threads : loading'[u].id = loading[u].id
    BY <2>2
  <2>4. Types'
    BY <1>1, <1>2, <2>2 DEF Types
  <2>5. HeldInDatabase' /\ OneDevicePerObject' /\ CachedIfHeld' /\ MemoryMatchesRow'
    BY <1>1, <1>2 DEF HeldInDatabase, OneDevicePerObject, CachedIfHeld, MemoryMatchesRow, Apart
  <2>6. LoadsRows'
    BY <1>1, <1>2, <2>2 DEF LoadsRows
  <2>7. LoadedAlone'
    BY <1>1, <1>2, <2>2, <2>3 DEF LoadedAlone, Apart
  <2> QED  BY <1>1, <1>2, <2>4, <2>5, <2>6, <2>7 DEF Apart
<1>3. CASE loading' = [loading EXCEPT ![t] = Nothing] /\ Forget
  <2>1. Types'
    <3>1. unsaved' \subseteq unsaved /\ raced' \subseteq raced
      BY <1>3 DEF Forget
    <3> QED  BY <1>1, <1>3, <3>1 DEF Types
  <2>2. HeldInDatabase' /\ OneDevicePerObject'
    BY <1>1 DEF HeldInDatabase, OneDevicePerObject
  <2>3. \A u \in Threads : loading'[u] = loading[u] \/ loading'[u] = Nothing
    BY <1>3 DEF Types
  <2> QED  BY <1>1, <1>3, <2>1, <2>2, <2>3, ForgetKeeps
<1> QED  BY <1>2, <1>3 DEF Load

\* A thread enters what it has read: for a device that it loaded alone that is the row.
LEMMA InsertKeeps ==
  ASSUME IInv, NEW t \in Threads, Insert(t)
  PROVE  IInv'
<1> USE DEF IInv
<1> DEFINE new == NewObject
           id  == loading[t].id
<1>1. PICK row \in loading[t].read :
        /\ held' = [held EXCEPT ![t] = [id |-> id, object |-> new]]
        /\ data' = With(data, new, row)
        /\ m_cache' = With(m_cache, id, new)
        /\ loading' = [loading EXCEPT ![t] = Nothing]
        /\ UNCHANGED <<devices, unsaved, removed, raced>>
  BY DEF Insert, history
<1>2. loading[t] # Nothing
  BY <1>1 DEF Nothing
<1>3. row \in Data /\ id \in Ids /\ held[t] = Nobody /\ id \in DOMAIN devices
  BY <1>1, <1>2, LoadTypes DEF LoadsRows
<1>4. new \in Objects /\ new \notin ObjectsOf(held)
  BY FreeObject DEF Types
<1> HIDE DEF new
<1>5. \A u \in Threads \ {t} : held'[u] = held[u] /\ held[u].object # new
  BY <1>1, <1>4 DEF Types, ObjectsOf, Objects
<1>6. held'[t].id = id /\ held'[t].object = new
  BY <1>1 DEF Types
<1>7. ObjectsOf(held') = {new} \cup ObjectsOf(held)
  <2>1. new # 0
    BY <1>4 DEF Objects
  <2>2. held[t].object = 0
    BY <1>3 DEF Nobody
  <2> QED  BY <2>1, <2>2, <1>5, <1>6 DEF ObjectsOf
<1>8. /\ DOMAIN data' = ObjectsOf(held') /\ data'[new] = row
      /\ \A o \in ObjectsOf(held) : data'[o] = data[o]
      /\ data' \in [ObjectsOf(held') -> Data]
  <2>1. DOMAIN data = ObjectsOf(held) /\ data \in [DOMAIN data -> Data]
    BY DEF Types
  <2>2. data' \in [{new} \cup DOMAIN data -> Data]
    BY <1>1, <1>3, <2>1, WithEntry
  <2>3. \A o \in ObjectsOf(held) : data'[o] = data[o]
    BY <1>1, <1>4, <2>1 DEF With
  <2>4. DOMAIN data' = ObjectsOf(held') /\ data'[new] = row
    BY <1>1, <1>7, <2>1 DEF With
  <2>5. data' \in [ObjectsOf(held') -> Data]
    BY <1>7, <2>1, <2>2
  <2> QED  BY <2>3, <2>4, <2>5
<1>9. /\ DOMAIN m_cache' = {id} \cup DOMAIN m_cache /\ m_cache'[id] = new
      /\ \A i \in DOMAIN m_cache \ {id} : m_cache'[i] = m_cache[i]
      /\ \A i \in DOMAIN m_cache : m_cache[i] \in ObjectsOf(held)
      /\ m_cache' \in [DOMAIN m_cache' -> ObjectsOf(held')]
  BY <1>1, <1>7 DEF Types, With
<1>10. /\ loading'[t] = Nothing /\ loading'[t].id = 0
       /\ \A u \in Threads \ {t} : loading'[u] = loading[u]
       /\ loading' \in [Threads -> Loads \cup {Nothing}]
  BY <1>1 DEF Types, Nothing
<1>11. Types'
  <2>1. held' \in [Threads -> Instances \cup {Nobody}]
    BY <1>1, <1>3, <1>4 DEF Types, Instances
  <2> QED  BY <1>1, <1>3, <1>8, <1>9, <1>10, <2>1 DEF Types
<1>12. HeldInDatabase'
  BY <1>1, <1>3, <1>5, <1>6 DEF HeldInDatabase
<1>13. OneDevicePerObject'
  BY <1>4, <1>5, <1>6, <1>9 DEF OneDevicePerObject
<1>14. CachedIfHeld'
  <2> SUFFICES ASSUME NEW u \in Threads, held'[u] # Nobody, held'[u].id \notin Apart
               PROVE  held'[u].id \in DOMAIN m_cache' /\ m_cache'[held'[u].id] = held'[u].object
    BY <1>1 DEF CachedIfHeld, Apart
  <2>1. CASE u = t
    BY <2>1, <1>6, <1>9
  <2>2. CASE u # t
    <3>1. held[u].id # id
      <4>1. held[u].id = id => id \notin Apart
        BY <1>5, <2>2
      <4> QED  BY <1>2, <4>1, NobodyElseHolds
    <3> QED  BY <2>2, <3>1, <1>5, <1>9 DEF CachedIfHeld
  <2> QED  BY <2>1, <2>2
<1>15. LoadsRows'
  BY <1>1, <1>5, <1>10 DEF LoadsRows
<1>16. LoadedAlone'
  <2> SUFFICES ASSUME NEW u \in Threads, loading'[u] # Nothing, loading'[u].id \notin Apart
               PROVE  /\ loading'[u].id \notin DOMAIN m_cache'
                      /\ \A v \in Threads \ {u} : loading'[v].id # loading'[u].id
                      /\ \A r \in loading'[u].read : r = devices[loading'[u].id]
    BY <1>1 DEF LoadedAlone, Apart
  <2>1. u # t /\ loading'[u] = loading[u]
    BY <1>10
  <2>2. loading[u].id # id /\ loading[u].id # 0
    BY <2>1, LoadTypes DEF LoadedAlone
  <2> QED  BY <2>1, <2>2, <1>9, <1>10 DEF LoadedAlone
<1>17. MemoryMatchesRow'
  <2> SUFFICES ASSUME NEW i \in DOMAIN m_cache', i \notin unsaved \cup Apart
               PROVE  devices[i] = data'[m_cache'[i]]
    BY <1>1 DEF MemoryMatchesRow, Apart
  <2>1. CASE i = id
    <3>1. row = devices[id]
      BY <1>1, <1>2, <2>1 DEF LoadedAlone
    <3> QED  BY <2>1, <3>1, <1>8, <1>9
  <2>2. CASE i # id
    BY <2>2, <1>8, <1>9 DEF MemoryMatchesRow, Apart
  <2> QED  BY <2>1, <2>2
<1> QED  BY <1>11, <1>12, <1>13, <1>14, <1>15, <1>16, <1>17

-----------------------------------------------------------------------------
(* Threads that end their commands. *)

\* Some threads let their devices go: the rest still refer to what they did, and no
\* object or cache entry changes.
LEMMA HoldKeeps ==
  ASSUME IInv, NEW h \in [Threads -> Instances \cup {Nobody}],
         \A t \in Threads : h[t] = held[t] \/ h[t] = Nobody,
         Hold(h, data, m_cache), Forget, UNCHANGED <<devices, removed>>,
         loading' \in [Threads -> Loads \cup {Nothing}],
         \A t \in Threads : loading'[t] = loading[t] \/ loading'[t] = Nothing
  PROVE  /\ IInv' /\ DOMAIN m_cache' \subseteq DOMAIN m_cache
         /\ \A id \in DOMAIN m_cache' : /\ m_cache'[id] = m_cache[id]
                                        /\ data'[m_cache[id]] = data[m_cache[id]]
                                        /\ id \notin Apart' => id \notin Apart
<1> USE DEF IInv
<1>1. held' = h /\ ObjectsOf(held') = ObjectsOf(h) /\ ObjectsOf(h) \subseteq ObjectsOf(held)
  BY DEF Hold, ObjectsOf, Nobody
<1>2. /\ DOMAIN data = ObjectsOf(held) /\ data \in [DOMAIN data -> Data]
      /\ data' = Restrict(data, ObjectsOf(h))
  BY DEF Types, Hold
<1>3. /\ DOMAIN data' = ObjectsOf(held') /\ data' \in [ObjectsOf(held') -> Data]
      /\ \A o \in ObjectsOf(h) : data'[o] = data[o]
  BY <1>1, <1>2, RestrictEntry
<1> DEFINE ids == {id \in DOMAIN m_cache : m_cache[id] \in ObjectsOf(h)}
<1>4. DOMAIN m_cache' = ids /\ \A id \in ids : m_cache'[id] = m_cache[id]
  BY RestrictEntry DEF Hold
<1>5. m_cache' \in [DOMAIN m_cache' -> ObjectsOf(held')]
  BY <1>1, <1>4 DEF Hold, Restrict
<1>6. Types'
  <2>1. unsaved' \subseteq unsaved /\ raced' \subseteq raced
    BY DEF Forget
  <2> QED  BY <1>1, <1>3, <1>4, <1>5, <2>1 DEF Types
<1>7. HeldInDatabase'
  BY <1>1 DEF HeldInDatabase
<1>8. ASSUME NEW t \in Threads PROVE held'[t] = held[t] \/ held'[t] = Nobody
  BY <1>1
<1>9. OneDevicePerObject'
  <2>1. ASSUME NEW s \in Threads, NEW t \in Threads, held'[s].object = held'[t].object
        PROVE  held'[s].id = held'[t].id
    <3>1. CASE held'[s] = held[s] /\ held'[t] = held[t]
      BY <2>1, <3>1 DEF OneDevicePerObject
    <3>2. CASE held'[s] = Nobody \/ held'[t] = Nobody
      BY <2>1, <3>2, <1>6, HeldTypes, <1>8 DEF Nobody
    <3> QED  BY <1>8, <3>1, <3>2
  <2>2. ASSUME NEW id \in DOMAIN m_cache', NEW t \in Threads, held'[t].object = m_cache'[id]
        PROVE  held'[t].id = id
    <3>1. held'[t] = held[t]
      BY <2>2, <1>1, <1>4, <1>8 DEF ObjectsOf, Nobody
    <3> QED  BY <2>2, <3>1, <1>4 DEF OneDevicePerObject
  <2> QED  BY <2>1, <2>2 DEF OneDevicePerObject
<1>10. ASSUME NEW t \in Threads, held'[t] # Nobody, held[t].id \in DOMAIN m_cache,
              m_cache[held[t].id] = held[t].object
       PROVE  held[t].id \in DOMAIN m_cache'
  <2>1. held'[t] = held[t] /\ h[t] = held[t]
    BY <1>1, <1>8, <1>10
  <2>2. held[t].object \in ObjectsOf(h)
    BY <2>1, <1>10, HeldTypes DEF ObjectsOf
  <2> QED  BY <2>2, <1>4, <1>10
<1>11. /\ DOMAIN m_cache' \subseteq DOMAIN m_cache
       /\ \A id \in DOMAIN m_cache' : /\ m_cache'[id] = m_cache[id]
                                      /\ data'[m_cache[id]] = data[m_cache[id]]
  BY <1>3, <1>4
<1>12. /\ \A t \in Threads : held'[t] = held[t] \/ held'[t] = Nobody
       /\ \A t \in Threads : held'[t] # Nobody /\ held[t].id \in DOMAIN m_cache
                              /\ m_cache[held[t].id] = held[t].object =>
                                held[t].id \in DOMAIN m_cache'
  BY <1>8, <1>10
<1> HIDE DEF IInv
<1> QED  BY <1>6, <1>7, <1>9, <1>11, <1>12, ForgetKeeps

LEMMA ReleaseKeeps ==
  ASSUME IInv, NEW t \in Threads, Release(t)
  PROVE  /\ IInv' /\ UNCHANGED <<devices, removed>> /\ DOMAIN m_cache' \subseteq DOMAIN m_cache
         /\ \A id \in DOMAIN m_cache' : /\ m_cache'[id] = m_cache[id]
                                        /\ data'[m_cache[id]] = data[m_cache[id]]
                                        /\ id \notin Apart' => id \notin Apart
<1> DEFINE h == [held EXCEPT ![t] = Nobody]
<1>1. /\ h \in [Threads -> Instances \cup {Nobody}]
      /\ \A s \in Threads : h[s] = held[s] \/ h[s] = Nobody
      /\ loading \in [Threads -> Loads \cup {Nothing}]
  BY DEF IInv, Types
<1>2. Hold(h, data, m_cache) /\ Forget /\ UNCHANGED <<devices, removed>> /\ loading' = loading
  BY DEF Release
<1> HIDE DEF h
<1> QED  BY <1>1, <1>2, HoldKeeps

\* After a restart nothing is in memory.
LEMMA RestartKeeps ==
  ASSUME IInv, Restart
  PROVE  /\ IInv' /\ UNCHANGED <<devices, removed>> /\ DOMAIN m_cache' \subseteq DOMAIN m_cache
         /\ \A id \in DOMAIN m_cache' : /\ m_cache'[id] = m_cache[id]
                                        /\ data'[m_cache[id]] = data[m_cache[id]]
                                        /\ id \notin Apart' => id \notin Apart
<1> DEFINE h == [t \in Threads |-> Nobody]
<1>1. /\ h \in [Threads -> Instances \cup {Nobody}]
      /\ \A t \in Threads : h[t] = held[t] \/ h[t] = Nobody
  OBVIOUS
<1>2. /\ Hold(h, data, m_cache) /\ Forget /\ UNCHANGED <<devices, removed>>
      /\ loading' = [t \in Threads |-> Nothing]
  BY DEF Restart
<1>3. /\ loading' \in [Threads -> Loads \cup {Nothing}]
      /\ \A t \in Threads : loading'[t] = Nothing
  BY <1>2
<1> HIDE DEF h
<1> QED  BY <1>1, <1>2, <1>3, HoldKeeps

-----------------------------------------------------------------------------
(* Commands and new devices: the threads keep what they hold. *)

\* A new device has an id that no row has, and so none that is held or cached.
LEMMA NewId ==
  ASSUME Types, DOMAIN devices # {}
  PROVE  Max(DOMAIN devices) + 1 \notin DOMAIN devices
<1>1. DOMAIN devices \in SUBSET (1..MaxDevices) /\ MaxDevices \in Nat
  BY DeviceStoreAssumption DEF Types, Ids
<1>2. /\ Max(DOMAIN devices) \in DOMAIN devices
      /\ \A y \in DOMAIN devices : Max(DOMAIN devices) >= y
  BY <1>1, MaxExists
<1>3. Max(DOMAIN devices) \in Nat
  BY <1>1, <1>2
<1> QED  BY <1>2, <1>3

LEMMA AddDeviceKeeps ==
  ASSUME IInv, NEW t \in Threads, NEW name \in Names, NEW keys \in SUBSET Keys,
         NEW props \in [keys -> Values], AddDevice(t, name, props)
  PROVE  /\ IInv' /\ UNCHANGED <<data, m_cache, removed>> /\ raced \subseteq raced'
         /\ \A id \in DOMAIN devices : id \in DOMAIN devices' /\ devices'[id] = devices[id]
<1> DEFINE newId == IF DOMAIN devices = {} THEN 1 ELSE Max(DOMAIN devices) + 1
           row   == [name |-> name, groups |-> 0, props |-> props]
<1>1. newId \in Ids /\ Types /\ Free(t)
  BY DEF AddDevice, IInv
<1>2. newId \notin DOMAIN devices
  BY <1>1, NewId
<1>3. row \in Data /\ row.groups <= 1
  BY DeviceStoreAssumption DEF Data, PropertySets
<1>4. /\ devices' = With(devices, newId, row) /\ Begin(t, newId, {row})
      /\ UNCHANGED <<data, m_cache, held, unsaved, removed>>
  BY DEF AddDevice, Inserted
<1> HIDE DEF newId, row
<1>5. /\ DOMAIN devices' = {newId} \cup DOMAIN devices
      /\ devices'[newId] = row
      /\ \A id \in DOMAIN devices : devices'[id] = devices[id]
      /\ devices' \in [DOMAIN devices' -> Data]
  BY <1>1, <1>2, <1>3, <1>4 DEF With, Types
<1>6. newId \notin DOMAIN m_cache
  BY <1>1, <1>2 DEF Types
<1>7. DOMAIN devices' \subseteq Ids /\ \A i \in DOMAIN devices' : devices'[i].groups <= 1
  BY <1>1, <1>3, <1>5 DEF Types
<1>8. IInv'
  BY <1>1, <1>3, <1>4, <1>5, <1>6, <1>7, BeginKeeps
<1> QED  BY <1>4, <1>5, <1>8 DEF Begin

\* Commands on the device that t holds do not disturb those who enter another one.
LEMMA LoadingKept ==
  ASSUME IInv, NEW t \in Threads, held[t] # Nobody,
         UNCHANGED <<held, loading, raced>>, removed \subseteq removed',
         DOMAIN devices' = DOMAIN devices,
         \A id \in DOMAIN devices \ {held[t].id} : devices'[id] = devices[id],
         DOMAIN m_cache' \subseteq DOMAIN m_cache \cup {held[t].id}
  PROVE  LoadsRows' /\ LoadedAlone'
<1>1. LoadsRows'
  BY DEF IInv, LoadsRows
<1>2. ASSUME NEW u \in Threads, loading[u] # Nothing, loading[u].id \notin Apart'
      PROVE  /\ loading[u].id \notin DOMAIN m_cache'
             /\ \A v \in Threads \ {u} : loading[v].id # loading[u].id
             /\ \A row \in loading[u].read : row = devices'[loading[u].id]
  <2>1. loading[u].id \notin Apart
    BY <1>2 DEF Apart
  <2>2. held[t].id # loading[u].id
    BY <1>2, <2>1, NobodyElseHolds
  <2>3. /\ loading[u].id \notin DOMAIN m_cache
        /\ \A v \in Threads \ {u} : loading[v].id # loading[u].id
        /\ \A row \in loading[u].read : row = devices[loading[u].id] /\ loading[u].id \in DOMAIN devices
    BY <1>2, <2>1 DEF IInv, LoadedAlone, LoadsRows
  <2> QED  BY <2>2, <2>3
<1> QED  BY <1>1, <1>2 DEF LoadedAlone

\* A change of the object that t holds is seen only under the id that t holds, which
\* is then unsaved, or written as well.
LEMMA ObjectChanged ==
  ASSUME IInv, NEW t \in Threads, held[t] # Nobody,
         NEW changed \in Data, data' = [data EXCEPT ![held[t].object] = changed],
         UNCHANGED <<held, loading, m_cache, removed, raced>>,
         unsaved' = unsaved \cup {held[t].id} \/ unsaved' = unsaved,
         devices' \in [DOMAIN devices -> Data],
         \A id \in DOMAIN devices : devices'[id].groups <= 1,
         \A id \in DOMAIN devices \ {held[t].id} : devices'[id] = devices[id],
         held[t].id \notin unsaved' \cup Apart => devices'[held[t].id] = changed
  PROVE  IInv'
<1> USE DEF IInv
<1>1. held[t] \in Instances /\ held[t].id \in Ids
  BY HeldTypes DEF Instances
<1>2. DOMAIN devices' = DOMAIN devices
  OBVIOUS
<1>3. Types'
  <2>1. devices' \in [DOMAIN devices' -> Data]
    BY <1>2
  <2>2. ObjectsOf(held') = ObjectsOf(held)
    OBVIOUS
  <2>3. data' \in [ObjectsOf(held') -> Data]
    BY <2>2 DEF Types
  <2> QED  BY <1>1, <1>2, <2>1, <2>2, <2>3 DEF Types
<1>4. HeldInDatabase' /\ OneDevicePerObject' /\ CachedIfHeld'
  BY <1>2 DEF HeldInDatabase, OneDevicePerObject, CachedIfHeld, Apart
<1>5. ASSUME NEW id \in DOMAIN m_cache, id \notin unsaved' \cup Apart
      PROVE  devices'[id] = data'[m_cache[id]]
  <2>1. m_cache[id] \in ObjectsOf(held) /\ id \in DOMAIN devices
    BY DEF Types
  <2>2. CASE id = held[t].id
    <3>1. m_cache[id] = held[t].object
      BY <1>5, <2>2 DEF CachedIfHeld
    <3> QED  BY <1>5, <2>1, <2>2, <3>1 DEF Types
  <2>3. CASE id # held[t].id
    <3>1. m_cache[id] # held[t].object
      BY <2>3 DEF OneDevicePerObject
    <3>2. data'[m_cache[id]] = data[m_cache[id]]
      BY <2>1, <3>1 DEF Types
    <3>3. devices[id] = data[m_cache[id]]
      BY <1>5 DEF MemoryMatchesRow, Apart
    <3> QED  BY <2>1, <2>3, <3>2, <3>3
  <2> QED  BY <2>2, <2>3
<1>6. MemoryMatchesRow'
  BY <1>5 DEF MemoryMatchesRow, Apart
<1>7. LoadsRows' /\ LoadedAlone'
  BY <1>2, LoadingKept
<1> QED  BY <1>3, <1>4, <1>6, <1>7

\* What is held is data of the right type.
LEMMA HeldData ==
  ASSUME Types, NEW t \in Threads, held[t] # Nobody
  PROVE  /\ held[t].object \in DOMAIN data /\ data[held[t].object] \in Data
         /\ held[t].id \in Ids
BY HeldTypes DEF Types, Instances

LEMMA SetInMemoryKeeps ==
  ASSUME IInv, NEW t \in Threads, held[t] # Nobody, NEW changed \in Data,
         SetInMemory(t, changed)
  PROVE  IInv'
BY ObjectChanged DEF SetInMemory, IInv, Types

LEMMA SetKeeps ==
  ASSUME IInv, NEW t \in Threads,
         \/ \E name \in Names : SetName(t, name)
         \/ \E groups \in 0..MaxGroups : SetGroups(t, groups)
  PROVE  IInv'
<1>1. ASSUME NEW name \in Names, SetName(t, name) PROVE IInv'
  <2>1. held[t] # Nobody
    BY <1>1 DEF SetName
  <2>2. [data[held[t].object] EXCEPT !.name = name] \in Data
    BY <2>1, HeldData DEF IInv, Data
  <2> QED  BY <1>1, <2>1, <2>2, SetInMemoryKeeps DEF SetName
<1>2. ASSUME NEW groups \in 0..MaxGroups, SetGroups(t, groups) PROVE IInv'
  <2>1. held[t] # Nobody
    BY <1>2 DEF SetGroups
  <2>2. [data[held[t].object] EXCEPT !.groups = groups] \in Data
    BY <2>1, HeldData DEF IInv, Data
  <2> QED  BY <1>2, <2>1, <2>2, SetInMemoryKeeps DEF SetGroups
<1> QED  BY <1>1, <1>2

\* A write that succeeds makes the row what the thread holds; for a device that was
\* not removed the cache refers to that already.
LEMMA ChangeDeviceKeeps ==
  ASSUME IInv, NEW t \in Threads, NEW fails \in BOOLEAN, ChangeDevice(t, fails)
  PROVE  IInv'
<1> DEFINE o == held[t].object
           i == held[t].id
<1> USE DEF IInv
<1>1. held[t] # Nobody /\ UNCHANGED <<data, held, loading, removed, raced>>
  BY DEF ChangeDevice
<1>2. o \in ObjectsOf(held) /\ data[o] \in Data /\ i \in Ids
  BY <1>1, HeldData DEF Types
<1>3. CASE UNCHANGED <<devices, m_cache, unsaved>>
  BY <1>1, <1>3 DEF Types, HeldInDatabase, OneDevicePerObject, CachedIfHeld, MemoryMatchesRow,
                    LoadsRows, LoadedAlone, Apart
<1>4. CASE /\ i \in DOMAIN devices /\ data[o].groups <= 1
           /\ devices' = [devices EXCEPT ![i] = data[o]]
           /\ m_cache' = With(m_cache, i, o)
           /\ unsaved' = unsaved \ {i}
  <2>1. /\ DOMAIN devices' = DOMAIN devices /\ devices'[i] = data[o]
        /\ \A id \in DOMAIN devices \ {i} : devices'[id] = devices[id]
        /\ devices' \in [DOMAIN devices' -> Data]
    BY <1>2, <1>4 DEF Types
  <2>2. /\ DOMAIN m_cache' = {i} \cup DOMAIN m_cache /\ m_cache'[i] = o
        /\ \A id \in DOMAIN m_cache \ {i} : m_cache'[id] = m_cache[id]
        /\ m_cache' \in [DOMAIN m_cache' -> ObjectsOf(held')]
    BY <1>1, <1>2, <1>4 DEF Types, With
  <2>3. Types'
    BY <1>1, <1>4, <2>1, <2>2 DEF Types
  <2>4. HeldInDatabase' /\ OneDevicePerObject' /\ CachedIfHeld'
    BY <1>1, <2>1, <2>2 DEF HeldInDatabase, OneDevicePerObject, CachedIfHeld, Apart
  <2>5. MemoryMatchesRow'
    BY <1>1, <1>4, <2>1, <2>2 DEF MemoryMatchesRow, Types
  <2>6. LoadsRows' /\ LoadedAlone'
    BY <1>1, <2>1, <2>2, LoadingKept
  <2> QED  BY <2>3, <2>4, <2>5, <2>6
<1> QED  BY <1>3, <1>4 DEF ChangeDevice, Updated, RolledBack, Storable

LEMMA RemoveDeviceKeeps ==
  ASSUME IInv, NEW t \in Threads, RemoveDevice(t)
  PROVE  IInv'
<1> DEFINE i == held[t].id
<1> USE DEF IInv
<1>1. /\ held[t] # Nobody /\ UNCHANGED <<data, held, loading, unsaved, raced>> /\ devices' = devices
      /\ removed' = removed \cup {i}
      /\ m_cache' = Restrict(m_cache, DOMAIN m_cache \ {i})
  BY DEF RemoveDevice, RowRemoved
<1>2. i \in Ids
  BY <1>1, HeldData
<1>3. /\ DOMAIN m_cache' = DOMAIN m_cache \ {i}
      /\ \A id \in DOMAIN m_cache \ {i} : m_cache'[id] = m_cache[id]
      /\ m_cache' \in [DOMAIN m_cache' -> ObjectsOf(held')]
  BY <1>1 DEF Restrict, Types
<1>4. Types'
  BY <1>1, <1>2, <1>3 DEF Types
<1>5. HeldInDatabase' /\ OneDevicePerObject'
  <2>1. HeldInDatabase'
    BY <1>1 DEF HeldInDatabase
  <2>2. \A u, v \in Threads : held'[u].object = held'[v].object => held'[u].id = held'[v].id
    BY <1>1 DEF OneDevicePerObject
  <2>3. \A id \in DOMAIN m_cache', u \in Threads : held'[u].object = m_cache'[id] => held'[u].id = id
    <3>1. \A id \in DOMAIN m_cache' : id \in DOMAIN m_cache /\ m_cache'[id] = m_cache[id]
      BY <1>3
    <3> QED  BY <1>1, <3>1 DEF OneDevicePerObject
  <2> QED  BY <2>1, <2>2, <2>3 DEF OneDevicePerObject
<1>6. CachedIfHeld'
  BY <1>1, <1>3 DEF CachedIfHeld, Apart
<1>7. MemoryMatchesRow'
  BY <1>1, <1>3 DEF MemoryMatchesRow
<1>8. LoadsRows' /\ LoadedAlone'
  BY <1>1, <1>3, LoadingKept
<1> QED  BY <1>4, <1>5, <1>6, <1>7, <1>8

\* A device's properties, with one of them set.
LEMMA PropertySet ==
  ASSUME NEW p \in PropertySets, NEW key \in Keys, NEW value \in Values
  PROVE  /\ With(p, key, value) \in PropertySets
         /\ key \in DOMAIN p => With(p, key, value) = [p EXCEPT ![key] = value]
<1>1. PICK ks \in SUBSET Keys : p \in [ks -> Values]
  BY DEF PropertySets
<1>2. With(p, key, value) \in [{key} \cup ks -> Values]
  BY <1>1 DEF With
<1>3. {key} \cup ks \in SUBSET Keys
  OBVIOUS
<1>4. key \in DOMAIN p => With(p, key, value) = [p EXCEPT ![key] = value]
  <2> SUFFICES ASSUME key \in ks PROVE With(p, key, value) = [p EXCEPT ![key] = value]
    BY <1>1
  <2>1. {key} \cup ks = ks
    OBVIOUS
  <2> QED  BY <1>1, <2>1 DEF With
<1> QED  BY <1>2, <1>3, <1>4 DEF PropertySets

\* A property is written to the row only if the thread has it: as long as everything
\* was written the row has it, too.
LEMMA SetPropertyKeeps ==
  ASSUME IInv, NEW t \in Threads, NEW key \in Keys, NEW value \in Values, NEW fails \in BOOLEAN,
         SetProperty(t, key, value, fails)
  PROVE  IInv'
<1> DEFINE i       == held[t].id
           d       == data[held[t].object]
           changed == [d EXCEPT !.props = With(d.props, key, value)]
<1>1. held[t] # Nobody /\ UNCHANGED <<held, loading, m_cache, removed, raced>>
  BY DEF SetProperty
<1>2. Types /\ d \in Data /\ d.props \in PropertySets /\ held[t].object \in DOMAIN data
  BY <1>1, HeldData DEF IInv, Data
<1>3. changed \in Data
  BY <1>2, PropertySet DEF Data
<1>4. data' = [data EXCEPT ![held[t].object] = changed]
  BY <1>2 DEF SetProperty
<1>5. ASSUME devices' = devices, unsaved' = unsaved \cup {i}
      PROVE  IInv'
  BY <1>1, <1>3, <1>4, <1>5, ObjectChanged, <1>2 DEF Types
<1>6. ASSUME key \in DOMAIN d.props, devices' = PropertyUpdated(i, key, value),
             unsaved' = unsaved
      PROVE  IInv'
  <2> DEFINE hasRow == i \in DOMAIN devices /\ key \in DOMAIN devices[i].props
  <2>1. CASE hasRow
    <3> DEFINE row == [devices[i] EXCEPT !.props = [devices[i].props EXCEPT ![key] = value]]
    <3>1. devices' = [devices EXCEPT ![i] = row]
      BY <1>6, <2>1 DEF PropertyUpdated
    <3>2. devices[i] \in Data /\ devices[i].props \in PropertySets /\ devices[i].groups <= 1
      BY <1>2, <2>1 DEF Types, Data
    <3>3. row.groups <= 1 /\ row \in Data
      <4>1. [devices[i].props EXCEPT ![key] = value] \in PropertySets
        BY <2>1, <3>2, PropertySet
      <4> QED  BY <3>2, <4>1 DEF Data, PropertySets
    <3>4. row = changed \/ i \in unsaved \cup Apart
      <4> SUFFICES ASSUME i \notin unsaved \cup Apart PROVE row = changed
        OBVIOUS
      <4>1. devices[i] = d
        BY <1>1, <2>1 DEF IInv, CachedIfHeld, MemoryMatchesRow, Apart
      <4> QED  BY <1>2, <1>6, <4>1, PropertySet
    <3> HIDE DEF row
    <3>5. /\ devices' \in [DOMAIN devices -> Data]
          /\ devices'[i] = row
          /\ \A id \in DOMAIN devices \ {i} : devices'[id] = devices[id]
          /\ \A id \in DOMAIN devices : devices'[id].groups <= 1
      BY <1>2, <2>1, <3>1, <3>3 DEF Types
    <3> HIDE DEF changed
    <3> QED  BY <1>1, <1>3, <1>4, <1>6, <3>4, <3>5, ObjectChanged
  <2>2. CASE ~hasRow
    <3>1. devices' = devices
      BY <1>6, <2>2 DEF PropertyUpdated
    <3>2. i \in unsaved \cup Apart
      BY <1>1, <1>6, <2>2 DEF IInv, Types, CachedIfHeld, MemoryMatchesRow, Apart
    <3> HIDE DEF changed
    <3> QED  BY <1>1, <1>2, <1>3, <1>4, <1>6, <3>1, <3>2, ObjectChanged DEF Types
  <2> QED  BY <2>1, <2>2
<1> QED  BY <1>5, <1>6 DEF SetProperty, PropertyInserted

LEMMA NextIInv == IInv /\ [Next]_vars => IInv'
<1> SUFFICES ASSUME IInv, [Next]_vars PROVE IInv'
  OBVIOUS
<1>1. ASSUME NEW t \in Threads, NEW id \in Ids, GetDevice(t, id) PROVE IInv'
  BY <1>1, HitKeeps, MissKeeps DEF GetDevice
<1>2. ASSUME NEW t \in Threads, Load(t) \/ Insert(t) \/ Release(t) PROVE IInv'
  BY <1>2, LoadKeeps, InsertKeeps, ReleaseKeeps
<1>3. ASSUME NEW t \in Threads,
             \/ \E name \in Names : SetName(t, name)
             \/ \E groups \in 0..MaxGroups : SetGroups(t, groups)
      PROVE  IInv'
  BY <1>3, SetKeeps
<1>4. ASSUME NEW t \in Threads, NEW fails \in BOOLEAN, ChangeDevice(t, fails) PROVE IInv'
  BY <1>4, ChangeDeviceKeeps
<1>5. ASSUME NEW t \in Threads, NEW key \in Keys, NEW value \in Values, NEW fails \in BOOLEAN,
             SetProperty(t, key, value, fails)
      PROVE  IInv'
  BY <1>5, SetPropertyKeeps
<1>6. ASSUME NEW t \in Threads, RemoveDevice(t) PROVE IInv'
  BY <1>6, RemoveDeviceKeeps
<1>7. ASSUME NEW t \in Threads, NEW name \in Names, NEW keys \in SUBSET Keys,
             NEW props \in [keys -> Values], AddDevice(t, name, props)
      PROVE  IInv'
  BY <1>7, AddDeviceKeeps
<1>8. CASE Restart
  BY <1>8, RestartKeeps
<1>9. CASE UNCHANGED vars
  BY <1>9 DEF vars, memory, history, IInv, Types, HeldInDatabase, OneDevicePerObject,
              CachedIfHeld, LoadsRows, LoadedAlone, Apart, MemoryMatchesRow, ObjectsOf
<1> QED  BY <1>1, <1>2, <1>3, <1>4, <1>5, <1>6, <1>7, <1>8, <1>9 DEF Next

\* The inductive invariant, from which the theorems follow.
THEOREM StoreInvariant == Spec => []IInv
BY InitIInv, NextIInv, PTL DEF Spec

-----------------------------------------------------------------------------
\* The types of the database's rows and of what the storage keeps; no entry of
\* m_cache outlives the instances of its device.
THEOREM StoreTypeCorrect == Spec => []TypeOK
<1>1. ASSUME NEW d \in Data PROVE IsData(d)
  BY DEF IsData, Data, PropertySets
<1>2. ASSUME IInv PROVE TypeOK
  <2>1. Types
    BY <1>2 DEF IInv
  <2>2. DOMAIN devices \subseteq Ids /\ \A id \in DOMAIN devices : IsData(devices[id]) /\ devices[id].groups <= 1
    BY <1>1, <2>1 DEF Types
  <2>3. DOMAIN data = ObjectsOf(held) /\ \A o \in DOMAIN data : IsData(data[o])
    BY <1>1, <2>1 DEF Types
  <2>4. DOMAIN m_cache \subseteq Ids /\ \A id \in DOMAIN m_cache : m_cache[id] \in DOMAIN data
    BY <2>1 DEF Types
  <2>5. \A t \in Threads : \A row \in loading[t].read : IsData(row)
    <3>1. \A t \in Threads : loading[t].read \subseteq Data
      BY <2>1, LoadTypes
    <3> QED  BY <1>1, <3>1
  <2> QED  BY <2>1, <2>2, <2>3, <2>4, <2>5 DEF TypeOK, Types
<1> QED  BY <1>2, StoreInvariant, PTL

\* Two threads that hold a device share its data ("Data is shared between all instances
\* of one device", Device.h:245), except after RemoveDevice, and as long as one of two
\* threads that missed or added it at the same time still uses it: what breaks the
\* sharing is the unlocked find, load and insert (DeviceStorage.cpp:47, 55 and 59), and
\* nothing else.
THEOREM DataIsShared == Spec => []SharedData
<1>1. IInv => SharedData
  BY HeldTypes DEF IInv, CachedIfHeld, SharedData, Apart
<1> QED  BY <1>1, StoreInvariant, PTL

\* Whichever threads change a device and whichever writes fail, a device whose data the
\* threads share and that has been written with success since its last change is in the
\* database as in memory.
THEOREM RowsFollowMemory == Spec => []MemoryMatchesRow
<1>1. IInv => MemoryMatchesRow
  BY DEF IInv
<1> QED  BY <1>1, StoreInvariant, PTL
-----------------------------------------------------------------------------
(* No write makes a device lose a property. *)

\* What a row has, the threads that hold the device have too: a property is added in
\* memory first, and none is ever taken away there.
RowWithinMemory ==
  \A id \in DOMAIN m_cache \ Apart :
    DOMAIN devices[id].props \subseteq DOMAIN data[m_cache[id]].props

\* Every object and row keeps its properties, and no instance is made or forgotten.
PropertiesKept ==
  /\ m_cache' = m_cache /\ Apart \subseteq Apart'
  /\ \A o \in DOMAIN data : DOMAIN data[o].props \subseteq DOMAIN data'[o].props
  /\ \A id \in DOMAIN devices : DOMAIN devices'[id].props = DOMAIN devices[id].props

LEMMA KeptWithinMemory ==
  ASSUME Types, RowWithinMemory, PropertiesKept
  PROVE  RowWithinMemory'
BY DEF Types, RowWithinMemory, PropertiesKept

\* The commands on an instance keep the properties of every row and object, except
\* that a change in memory may add one.
LEMMA CommandKeepsProperties ==
  ASSUME IInv, NEW t \in Threads, held[t] # Nobody,
         \/ \E name \in Names : SetName(t, name)
         \/ \E groups \in 0..MaxGroups : SetGroups(t, groups)
         \/ \E key \in Keys, value \in Values, fails \in BOOLEAN : SetProperty(t, key, value, fails)
  PROVE  PropertiesKept /\ DOMAIN devices' = DOMAIN devices
<1> DEFINE o == held[t].object
<1>1. Types /\ o \in DOMAIN data /\ data[o] \in Data
  BY HeldData DEF IInv
<1>2. data[o].props \in PropertySets
  BY <1>1 DEF Data
<1>3. ASSUME NEW changed \in Data, SetInMemory(t, changed), changed.props = data[o].props
      PROVE  PropertiesKept /\ DOMAIN devices' = DOMAIN devices
  BY <1>1, <1>3 DEF SetInMemory, PropertiesKept, Apart, Types
<1>4. ASSUME NEW name \in Names, SetName(t, name)
      PROVE  PropertiesKept /\ DOMAIN devices' = DOMAIN devices
  <2>1. /\ [data[o] EXCEPT !.name = name] \in Data
        /\ [data[o] EXCEPT !.name = name].props = data[o].props
    BY <1>1 DEF Data
  <2> QED  BY <1>3, <1>4, <2>1 DEF SetName
<1>5. ASSUME NEW groups \in 0..MaxGroups, SetGroups(t, groups)
      PROVE  PropertiesKept /\ DOMAIN devices' = DOMAIN devices
  <2>1. /\ [data[o] EXCEPT !.groups = groups] \in Data
        /\ [data[o] EXCEPT !.groups = groups].props = data[o].props
    BY <1>1 DEF Data
  <2> QED  BY <1>3, <1>5, <2>1 DEF SetGroups
<1>6. ASSUME NEW key \in Keys, NEW value \in Values, NEW fails \in BOOLEAN,
             SetProperty(t, key, value, fails)
      PROVE  PropertiesKept /\ DOMAIN devices' = DOMAIN devices
  <2>1. /\ m_cache' = m_cache /\ Apart' = Apart
        /\ data' = [data EXCEPT ![o].props = With(data[o].props, key, value)]
    BY <1>1, <1>6 DEF SetProperty, Apart
  <2>2. \A p \in DOMAIN data : DOMAIN data[p].props \subseteq DOMAIN data'[p].props
    <3>1. DOMAIN data[o].props \subseteq DOMAIN With(data[o].props, key, value)
      BY DEF With
    <3> HIDE DEF o
    <3> QED  BY <1>1, <2>1, <3>1 DEF Types, Data
  <2>3. \/ devices' = devices
        \/ devices' = PropertyUpdated(held[t].id, key, value)
    BY <1>6 DEF SetProperty, PropertyInserted
  <2>4. /\ DOMAIN devices' = DOMAIN devices
        /\ \A id \in DOMAIN devices : DOMAIN devices'[id].props = DOMAIN devices[id].props
    <3>1. \A id \in DOMAIN devices : devices[id] \in Data
      BY <1>1 DEF Types
    <3> QED  BY <2>3, <3>1 DEF PropertyUpdated, Data, PropertySets
  <2> QED  BY <2>1, <2>2, <2>4 DEF PropertiesKept
<1> QED  BY <1>4, <1>5, <1>6

\* A write that succeeds stores what the thread holds: at least what the row had.
LEMMA ChangeKeepsProperties ==
  ASSUME IInv, RowWithinMemory, NEW t \in Threads, NEW fails \in BOOLEAN, ChangeDevice(t, fails)
  PROVE  /\ RowWithinMemory'
         /\ DOMAIN devices' = DOMAIN devices
         /\ \A id \in DOMAIN devices \ Apart :
              DOMAIN devices[id].props \subseteq DOMAIN devices'[id].props
<1> DEFINE o == held[t].object
           i == held[t].id
<1>1. held[t] # Nobody /\ UNCHANGED <<data, held, removed, raced>> /\ Types
  BY DEF ChangeDevice, IInv
<1>2. CASE UNCHANGED <<devices, m_cache, unsaved>>
  BY <1>1, <1>2 DEF RowWithinMemory, Apart
<1>3. CASE /\ i \in DOMAIN devices
           /\ devices' = [devices EXCEPT ![i] = data[o]]
           /\ m_cache' = With(m_cache, i, o)
  <2>1. /\ DOMAIN devices' = DOMAIN devices /\ devices'[i] = data[o]
        /\ \A id \in DOMAIN devices \ {i} : devices'[id] = devices[id]
    BY <1>3
  <2>2. i \notin Apart => i \in DOMAIN m_cache /\ m_cache[i] = o
    BY <1>1 DEF IInv, CachedIfHeld
  <2>3. i \notin Apart => DOMAIN devices[i].props \subseteq DOMAIN data[o].props
    BY <2>2 DEF RowWithinMemory, Apart
  <2>4. /\ DOMAIN m_cache' = {i} \cup DOMAIN m_cache /\ m_cache'[i] = o
        /\ \A id \in DOMAIN m_cache \ {i} : m_cache'[id] = m_cache[id]
    BY <1>3 DEF With
  <2>5. DOMAIN m_cache \subseteq DOMAIN devices
    BY <1>1 DEF Types
  <2>6. RowWithinMemory'
    BY <1>1, <2>1, <2>4, <2>5 DEF RowWithinMemory, Apart
  <2> QED  BY <2>1, <2>3, <2>6
<1> QED  BY <1>2, <1>3 DEF ChangeDevice, Updated, RolledBack

\* Entering a device, letting it go, adding or removing one: rows are untouched or new.
LEMMA OthersKeepProperties ==
  ASSUME IInv, RowWithinMemory,
         \/ \E t \in Threads : \/ \E id \in Ids : GetDevice(t, id)
                              \/ Load(t) \/ Insert(t) \/ Release(t) \/ RemoveDevice(t)
         \/ Restart
  PROVE  RowWithinMemory' /\ devices' = devices
<1>1. Types
  BY DEF IInv
<1>2. ASSUME /\ UNCHANGED devices /\ DOMAIN m_cache' \subseteq DOMAIN m_cache
             /\ \A id \in DOMAIN m_cache' : /\ m_cache'[id] = m_cache[id]
                                            /\ data'[m_cache[id]] = data[m_cache[id]]
                                            /\ id \notin Apart' => id \notin Apart
      PROVE  RowWithinMemory' /\ devices' = devices
  BY <1>2 DEF RowWithinMemory
<1>3. ASSUME NEW t \in Threads, NEW id \in Ids, GetDevice(t, id)
      PROVE  RowWithinMemory' /\ devices' = devices
  <2>1. UNCHANGED <<devices, data, m_cache>> /\ Apart \subseteq Apart'
    BY <1>3 DEF GetDevice, Hit, Miss, Begin, Apart, history
  <2> QED  BY <2>1, <1>2
<1>4. ASSUME NEW t \in Threads, Load(t) \/ Release(t) \/ Restart
      PROVE  RowWithinMemory' /\ devices' = devices
  BY <1>4, <1>2, LoadKeeps, ReleaseKeeps, RestartKeeps
<1>5. ASSUME NEW t \in Threads, Insert(t)
      PROVE  RowWithinMemory' /\ devices' = devices
  <2> DEFINE new == NewObject
             id  == loading[t].id
  <2>1. PICK row \in loading[t].read :
          /\ data' = With(data, new, row) /\ m_cache' = With(m_cache, id, new)
          /\ UNCHANGED <<devices, removed, raced>>
    BY <1>5 DEF Insert, history
  <2>2. new \notin DOMAIN data
    BY <1>1, FreeObject
  <2>3. \A i \in DOMAIN m_cache : m_cache[i] \in DOMAIN data
    BY <1>1 DEF Types
  <2> HIDE DEF new
  <2>4. /\ DOMAIN m_cache' = {id} \cup DOMAIN m_cache /\ m_cache'[id] = new
        /\ \A i \in DOMAIN m_cache \ {id} : m_cache'[i] = m_cache[i]
    BY <2>1 DEF With
  <2>5. data'[new] = row /\ \A o \in DOMAIN data : data'[o] = data[o]
    BY <2>1, <2>2 DEF With
  <2>6. loading[t] # Nothing
    BY <2>1 DEF Nothing
  <2>7. id \notin Apart => devices[id] = row
    BY <2>1, <2>6 DEF IInv, LoadedAlone
  <2>8. Apart' = Apart
    BY <2>1 DEF Apart
  <2> QED  BY <2>1, <2>3, <2>4, <2>5, <2>7, <2>8 DEF RowWithinMemory
<1>6. ASSUME NEW t \in Threads, RemoveDevice(t)
      PROVE  RowWithinMemory' /\ devices' = devices
  <2>1. /\ UNCHANGED <<data, devices>> /\ Apart \subseteq Apart'
        /\ m_cache' = Restrict(m_cache, DOMAIN m_cache \ {held[t].id})
    BY <1>6 DEF RemoveDevice, RowRemoved, Apart
  <2>2. /\ DOMAIN m_cache' = DOMAIN m_cache \ {held[t].id}
        /\ \A i \in DOMAIN m_cache' : m_cache'[i] = m_cache[i]
    BY <2>1, RestrictEntry
  <2> QED  BY <2>1, <2>2, <1>2
<1>7. CASE Restart
  BY <1>7, <1>2, RestartKeeps
<1> QED  BY <1>3, <1>4, <1>5, <1>6, <1>7

LEMMA AddKeepsProperties ==
  ASSUME IInv, RowWithinMemory, NEW t \in Threads, NEW name \in Names, NEW keys \in SUBSET Keys,
         NEW props \in [keys -> Values], AddDevice(t, name, props)
  PROVE  /\ RowWithinMemory'
         /\ \A id \in DOMAIN devices : id \in DOMAIN devices' /\ devices'[id] = devices[id]
<1>1. /\ UNCHANGED <<data, m_cache>> /\ Apart \subseteq Apart'
      /\ \A id \in DOMAIN devices : id \in DOMAIN devices' /\ devices'[id] = devices[id]
  BY AddDeviceKeeps DEF Apart
<1>2. DOMAIN m_cache \subseteq DOMAIN devices
  BY DEF IInv, Types
<1> QED  BY <1>1, <1>2 DEF RowWithinMemory

PropertiesStep ==
  \A id \in DOMAIN devices \ Apart :
    id \in DOMAIN devices' /\ DOMAIN devices[id].props \subseteq DOMAIN devices'[id].props

LEMMA StepKeepsProperties ==
  ASSUME IInv, RowWithinMemory, [Next]_vars
  PROVE  RowWithinMemory' /\ PropertiesStep
<1>1. ASSUME NEW t \in Threads,
             \/ \E name \in Names : SetName(t, name)
             \/ \E groups \in 0..MaxGroups : SetGroups(t, groups)
             \/ \E key \in Keys, value \in Values, fails \in BOOLEAN : SetProperty(t, key, value, fails)
      PROVE  RowWithinMemory' /\ PropertiesStep
  <2>1. held[t] # Nobody
    BY <1>1 DEF SetName, SetGroups, SetProperty
  <2>2. PropertiesKept /\ DOMAIN devices' = DOMAIN devices
    BY <1>1, <2>1, CommandKeepsProperties
  <2>3. RowWithinMemory'
    BY <2>2, KeptWithinMemory DEF IInv
  <2> QED  BY <2>2, <2>3 DEF PropertiesKept, PropertiesStep
<1>2. ASSUME NEW t \in Threads, NEW fails \in BOOLEAN, ChangeDevice(t, fails)
      PROVE  RowWithinMemory' /\ PropertiesStep
  BY <1>2, ChangeKeepsProperties DEF PropertiesStep
<1>3. CASE \/ \E t \in Threads : \/ \E id \in Ids : GetDevice(t, id)
                                \/ Load(t) \/ Insert(t) \/ Release(t) \/ RemoveDevice(t)
           \/ Restart
  BY <1>3, OthersKeepProperties DEF PropertiesStep
<1>4. ASSUME NEW t \in Threads, NEW name \in Names, NEW keys \in SUBSET Keys,
             NEW props \in [keys -> Values], AddDevice(t, name, props)
      PROVE  RowWithinMemory' /\ PropertiesStep
  BY <1>4, AddKeepsProperties DEF PropertiesStep
<1>5. CASE UNCHANGED vars
  BY <1>5 DEF vars, memory, history, RowWithinMemory, PropertiesStep, Apart
<1> QED  BY <1>1, <1>2, <1>3, <1>4, <1>5 DEF Next

\* Whatever the other threads do between reading and writing a device, no write makes it
\* lose a property it has in the database, unless the device was removed, or the thread
\* that writes may have data of its own because two of them raced for it.
THEOREM PropertiesSurvive == Spec => NoPropertyLost
<1>1. Init => RowWithinMemory
  BY DEF Init, RowWithinMemory
<1>2. IInv /\ RowWithinMemory /\ [Next]_vars => RowWithinMemory'
  BY StepKeepsProperties
<1>3. IInv /\ RowWithinMemory /\ [Next]_vars => [PropertiesStep]_vars
  BY StepKeepsProperties
<1>4. Spec => []RowWithinMemory
  BY <1>1, <1>2, StoreInvariant, PTL DEF Spec
<1>5. Spec => [][PropertiesStep]_vars
  BY <1>3, <1>4, StoreInvariant, PTL DEF Spec
<1> QED  BY <1>5 DEF NoPropertyLost, PropertiesStep, Apart
=============================================================================
