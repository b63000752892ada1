------------------------------ MODULE DeviceStore ------------------------------
(***************************************************************************)
(* Devices in memory and in the database: api/DeviceStorage.cpp,           *)
(* api/Device.cpp and database/DBDeviceSerialize.cpp, used by the threads  *)
(* that hold a Device for the length of a command (the websocket thread in *)
(* events/DevicesSocketHandler.cpp, the MQTT loop thread in                *)
(* plugins/tasmota-api/TasmotaAPI.cpp).                                    *)
(*                                                                         *)
(* Instances of one device share a Device::Data.  m_cache refers to it     *)
(* weakly: it lives as long as a thread holds an instance.  An expired     *)
(* entry of m_cache is never seen and is left out of the model.            *)
(*                                                                         *)
(* No lock guards m_cache.  A thread that does not find a device loads it  *)
(* from the database and enters it then; one that adds a device enters it  *)
(* after its row: others may do the same in between.                       *)
(***************************************************************************)
EXTENDS Naturals, FiniteSets, FiniteSetsExt, Functions

CONSTANTS
  Threads,
  Names,
  Keys,         \* properties whose metadata say that they are saved
  Values,
  MaxDevices,   \* bound: device ids
  MaxGroups,    \* bound: groups of a device
  MaxRestarts   \* bound

ASSUME DeviceStoreAssumption ==
  /\ IsFiniteSet(Threads)
  /\ {MaxDevices, MaxGroups, MaxRestarts} \subseteq Nat

VARIABLES
  devices,    \* the database: device id |-> data, as committed
  data,       \* the Device::Data that are alive: object |-> data
  m_cache,    \* device id |-> object
  held,       \* the Device instance of each thread, or Nobody
  loading,    \* what each thread is about to enter in m_cache, or Nothing
  typeKnown,  \* whether the device type was registered at start-up
  unsaved,    \* history: ids changed in memory and not written since
  removed,    \* history: ids that RemoveDevice was called for
  raced,      \* history: ids that two threads made data for at the same time,
              \* as long as one of them still uses them
  restarts    \* bound

memory == <<data, m_cache, held, loading>>
history == <<unsaved, removed, raced>>
vars == <<memory, devices, typeKnown, history, restarts>>

Ids == 1..MaxDevices
Objects == 1..Cardinality(Threads) + 1
Nobody == [id |-> 0, object |-> 0]
Nothing == [id |-> 0, read |-> {}]

\* f with the entry x |-> y, new or replaced.
With(f, x, y) == [z \in {x} \cup DOMAIN f |-> IF z = x THEN y ELSE f[z]]

ObjectsOf(h) == {h[t].object : t \in Threads} \ {0}

\* The threads hold what h says: the objects that nobody holds are destroyed.
Hold(h, d, c) ==
  /\ held' = h
  /\ data' = Restrict(d, ObjectsOf(h))
  /\ m_cache' = Restrict(c, {id \in DOMAIN c : c[id] \in ObjectsOf(h)})

\* The histories forget a device that no thread uses any more.
Forget ==
  /\ unsaved' = {id \in unsaved : \E t \in Threads : held'[t].id = id}
  /\ raced' = {id \in raced : \E t \in Threads : held'[t].id = id \/ loading'[t].id = id}

NewObject == Min(Objects \ DOMAIN data)

\* device_id is the primary key of device_groups: one group fits, no more.
Storable(d) == d.groups <= 1

Init ==
  /\ devices = <<>> /\ data = <<>> /\ m_cache = <<>>
  /\ held = [t \in Threads |-> Nobody] /\ loading = [t \in Threads |-> Nothing]
  /\ typeKnown \in BOOLEAN
  /\ unsaved = {} /\ removed = {} /\ raced = {}
  /\ restarts = 0

(***************************************************************************)
(* The serializer: each operation is a transaction.  If a statement fails, *)
(* its exception rolls back what was done before and goes to the caller.   *)
(***************************************************************************)
Inserted(id, d) == With(devices, id, d)
Updated(id, d) == [devices EXCEPT ![id] = d]

\* The groups and properties are deleted before the new ones are inserted.
HalfUpdated(id) == [devices EXCEPT ![id].props = <<>>, ![id].groups = 0]
RolledBack(id) == devices

\* An UPDATE of a property that has no row changes nothing.
NotUpdated(id, key, value) == devices
PropertyUpdated(id, key, value) ==
  IF id \in DOMAIN devices /\ key \in DOMAIN devices[id].props
  THEN [devices EXCEPT ![id].props[key] = value] ELSE devices

\* The INSERT of a property is prepared and not executed.
PropertyInserted(id, key, value) == devices

\* The DELETE of a device is not committed.
RowRemoved(id) == devices

-----------------------------------------------------------------------------
\* GetDevice at the beginning of a command: the device is in m_cache ...
Uncached(id) == FALSE
IsCached(id) == id \in DOMAIN m_cache

Free(t) == held[t] = Nobody /\ loading[t] = Nothing

Hit(t, id) ==
  /\ Free(t) /\ IsCached(id)
  /\ held' = [held EXCEPT ![t] = [id |-> id, object |-> m_cache[id]]]
  /\ UNCHANGED <<data, m_cache, loading, devices, typeKnown, history, restarts>>

\* Thread t is going to enter the device: with the row that it has read, if any.
Begin(t, id, read) ==
  /\ loading' = [loading EXCEPT ![t] = [id |-> id, read |-> read]]
  /\ raced' = IF \E u \in Threads \ {t} : loading[u].id = id THEN raced \cup {id} ELSE raced

\* ... or is loaded, if there is one ...
Miss(t, id) ==
  /\ Free(t) /\ ~IsCached(id)
  /\ Begin(t, id, {})
  /\ UNCHANGED <<data, m_cache, held, devices, typeKnown, unsaved, removed, restarts>>

Load(t) ==
  LET id == loading[t].id
  IN  /\ loading[t] # Nothing /\ loading[t].read = {}
      /\ IF id \in DOMAIN devices /\ typeKnown
         THEN loading' = [loading EXCEPT ![t].read = {devices[id]}] /\ UNCHANGED <<unsaved, raced>>
         ELSE loading' = [loading EXCEPT ![t] = Nothing] /\ held' = held /\ Forget
      /\ UNCHANGED <<data, m_cache, held, devices, typeKnown, removed, restarts>>

\* ... and entered, in place of what is there by now, whoever holds that.
Insert(t) ==
  \E row \in loading[t].read :
    LET id == loading[t].id
    IN  /\ held' = [held EXCEPT ![t] = [id |-> id, object |-> NewObject]]
        /\ data' = With(data, NewObject, row)
        /\ m_cache' = With(m_cache, id, NewObject)
        /\ loading' = [loading EXCEPT ![t] = Nothing]
        /\ UNCHANGED <<devices, typeKnown, history, restarts>>

GetDevice(t, id) == Hit(t, id) \/ Miss(t, id)

\* The end of a command.
Release(t) ==
  /\ held[t] # Nobody
  /\ Hold([held EXCEPT ![t] = Nobody], data, m_cache)
  /\ loading' = loading /\ Forget
  /\ UNCHANGED <<devices, typeKnown, removed, restarts>>

\* A plugin adds a device: the database's rowid gives it its number, then Insert
\* enters the plugin's own data.
AddDevice(t, name, props) ==
  LET id  == IF DOMAIN devices = {} THEN 1 ELSE Max(DOMAIN devices) + 1
      row == [name |-> name, groups |-> 0, props |-> props]
  IN  /\ Free(t) /\ typeKnown /\ id \in Ids
      /\ devices' = Inserted(id, row)
      /\ Begin(t, id, {row})
      /\ UNCHANGED <<data, m_cache, held, typeKnown, unsaved, removed, restarts>>

\* SetName and SetGroups change the shared data ...
SetInMemory(t, changed) ==
  /\ data' = [data EXCEPT ![held[t].object] = changed]
  /\ unsaved' = unsaved \cup {held[t].id}
  /\ UNCHANGED <<m_cache, held, loading, devices, typeKnown, removed, raced, restarts>>

SetName(t, name) ==
  /\ held[t] # Nobody
  /\ SetInMemory(t, [data[held[t].object] EXCEPT !.name = name])

SetGroups(t, groups) ==
  /\ held[t] # Nobody
  /\ SetInMemory(t, [data[held[t].object] EXCEPT !.groups = groups])

\* ... and ChangeDevice writes them.  The old device that it gets for its event
\* has no effect that lasts.  fails: the database reports an error.
ChangeDevice(t, fails) ==
  LET id == held[t].id
      d  == data[held[t].object]
  IN  /\ held[t] # Nobody
      /\ \/ /\ ~fails /\ id \in DOMAIN devices /\ Storable(d)
            /\ devices' = Updated(id, d)
            /\ m_cache' = With(m_cache, id, held[t].object)
            /\ unsaved' = unsaved \ {id}
         \/ /\ id \in DOMAIN devices /\ (fails \/ ~Storable(d))
            /\ devices' = RolledBack(id)
            /\ UNCHANGED <<m_cache, unsaved>>
         \/ /\ id \notin DOMAIN devices
            /\ UNCHANGED <<devices, m_cache, unsaved>>
      /\ UNCHANGED <<data, held, loading, typeKnown, removed, raced, restarts>>

\* Properties::Set: first in memory, then in the database.
SetProperty(t, key, value, fails) ==
  LET id      == held[t].id
      d       == data[held[t].object]
      missing == key \notin DOMAIN d.props
      saved   == CASE fails -> devices
                   [] ~fails /\ missing -> PropertyInserted(id, key, value)
                   [] OTHER -> PropertyUpdated(id, key, value)
  IN  /\ held[t] # Nobody
      /\ data' = [data EXCEPT ![held[t].object].props = With(@, key, value)]
      /\ devices' = saved
      /\ unsaved' = IF fails \/ missing THEN unsaved \cup {id} ELSE unsaved
      /\ UNCHANGED <<m_cache, held, loading, typeKnown, removed, raced, restarts>>

\* The command to delete a device, for which a thread has got it.
RemoveDevice(t) ==
  LET id == held[t].id
  IN  /\ held[t] # Nobody
      /\ m_cache' = Restrict(m_cache, DOMAIN m_cache \ {id})
      /\ devices' = RowRemoved(id)
      /\ removed' = removed \cup {id}
      /\ UNCHANGED <<data, held, loading, typeKnown, unsaved, raced, restarts>>

\* The process ends, at any point, and starts again.
Restart ==
  /\ restarts < MaxRestarts
  /\ restarts' = restarts + 1
  /\ Hold([t \in Threads |-> Nobody], data, m_cache)
  /\ loading' = [t \in Threads |-> Nothing] /\ Forget
  /\ typeKnown' \in BOOLEAN
  /\ UNCHANGED <<devices, removed>>

Next ==
  \/ \E t \in Threads :
       \/ \E id \in Ids : GetDevice(t, id)
       \/ Load(t) \/ Insert(t) \/ Release(t)
       \/ \E name \in Names, keys \in SUBSET Keys : \E props \in [keys -> Values] : AddDevice(t, name, props)
       \/ \E name \in Names : SetName(t, name)
       \/ \E groups \in 0..MaxGroups : SetGroups(t, groups)
       \/ \E fails \in BOOLEAN : ChangeDevice(t, fails)
       \/ \E key \in Keys, value \in Values, fails \in BOOLEAN : SetProperty(t, key, value, fails)
       \/ RemoveDevice(t)
  \/ Restart

Spec == Init /\ [][Next]_vars

-----------------------------------------------------------------------------
IsData(d) ==
  /\ d.name \in Names /\ d.groups \in 0..MaxGroups
  /\ DOMAIN d.props \subseteq Keys /\ \A k \in DOMAIN d.props : d.props[k] \in Values

\* What the database and the storage may hold.
TypeOK ==
  /\ DOMAIN devices \subseteq Ids /\ \A id \in DOMAIN devices : IsData(devices[id]) /\ devices[id].groups <= 1
  /\ DOMAIN data = ObjectsOf(held) /\ \A o \in DOMAIN data : IsData(data[o])
  /\ DOMAIN m_cache \subseteq Ids /\ \A id \in DOMAIN m_cache : m_cache[id] \in DOMAIN data
  /\ \A t \in Threads : \A row \in loading[t].read : IsData(row)
  /\ unsaved \cup removed \cup raced \subseteq Ids

\* "Data is shared between all instances of one device" (Device.h:245), unless it was
\* removed: threads that hold the same device see each other's changes.  Two threads
\* that miss at the same time break this (DeviceStorage.cpp:47, 55 and 59).
SharedByAll ==
  \A s, t \in Threads :
    held[s].id = held[t].id /\ held[t].id \notin removed => held[s].object = held[t].object

\* Nothing but that race and RemoveDevice, after which the device can be got again
\* while the old instance is held, gives two threads data of their own, and only until
\* both have let the device go.
SharedData ==
  \A s, t \in Threads :
    held[s].id = held[t].id /\ held[t].id \notin removed \cup raced => held[s].object = held[t].object

\* When every change has been written with success, the database holds what the
\* threads see, whichever of them wrote, as long as they share it.
MemoryMatchesRow ==
  \A id \in DOMAIN m_cache \ (unsaved \cup removed \cup raced) : devices[id] = data[m_cache[id]]

\* No write makes a device lose a property: UpdateDevice, which deletes them all
\* first (DBDeviceSerialize.cpp:86), ends with at least those there were, unless the
\* thread that writes has data of its own.
NoPropertyLost ==
  [][\A id \in DOMAIN devices \ (removed \cup raced) :
       id \in DOMAIN devices' /\ DOMAIN devices[id].props \subseteq DOMAIN devices'[id].props]_vars

\* A device that was removed is gone ("Removes a device", IDeviceSerialize.h:31).
RemovedIsGone == removed \cap DOMAIN devices = {}
=============================================================================
