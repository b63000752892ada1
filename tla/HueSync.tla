-------------------------------- MODULE HueSync --------------------------------
(***************************************************************************)
(* HueAPI::SynchronizeDevices (plugins/hue-api/HueAPI.cpp): at start-up    *)
(* the devices in the database are brought in line with the lights of the  *)
(* bridge, by walking through both in the order of light numbers.  A       *)
(* device is known by its light's number.                                  *)
(***************************************************************************)
EXTENDS Naturals, Sequences, FiniteSets, SequencesExt

CONSTANT Lights   \* numbers that lights may have

VARIABLES
  lights,    \* the lights of the bridge, sorted
  old,       \* the devices at the start, sorted
  i,         \* the device the loop is at
  begin,     \* index of the light after the last one found; Len(lights) + 1 is end()
  added,     \* lights that AddDevice was called for, in order
  removed,   \* devices that RemoveDevice was called for
  updated,   \* devices that were written with the state of their light
  pc         \* "loop", "done" or "undefined"

vars == <<lights, old, i, begin, added, removed, updated, pc>>

\* What there may be of lights or devices: sorted by number, and each number once.
Sorted ==
  {s \in UNION {[1..n -> Lights] : n \in 0..Cardinality(Lights)} :
     \A j, k \in DOMAIN s : j < k => s[j] < s[k]}

End == Len(lights) + 1

Init ==
  /\ lights \in Sorted /\ old \in Sorted
  /\ i = 1 /\ begin = 1
  /\ added = <<>> /\ removed = {} /\ updated = {}
  /\ pc = "loop"

\* The search and the copies from begin leave the vector if begin is past its end.
BeginValid == begin <= End

\* find_if from begin to end().
Find(light) ==
  IF \E k \in begin..Len(lights) : lights[k] = light
  THEN CHOOSE k \in begin..Len(lights) : lights[k] = light
  ELSE End

\* "Add missing lights inbetween": from begin up to it, without it.
Between(it) == SubSeq(lights, begin, it - 1)

\* begin = it + 1
SameLight(it) == it
NextLight(it) == it + 1

Found ==
  LET it == Find(old[i])
  IN  /\ pc = "loop" /\ i <= Len(old) /\ BeginValid
      /\ it # End
      /\ added' = added \o Between(it)
      /\ updated' = updated \cup {old[i]}
      /\ begin' = NextLight(it)
      /\ i' = i + 1
      /\ UNCHANGED <<lights, old, removed, pc>>

\* begin is set to end() + 1 here.
Vanished ==
  LET it == Find(old[i])
  IN  /\ pc = "loop" /\ i <= Len(old) /\ BeginValid
      /\ it = End
      /\ removed' = removed \cup {old[i]}
      /\ begin' = NextLight(it)
      /\ i' = i + 1
      /\ UNCHANGED <<lights, old, added, updated, pc>>

AddRest ==
  /\ pc = "loop" /\ i > Len(old) /\ BeginValid
  /\ added' = added \o Between(End)
  /\ pc' = "done"
  /\ UNCHANGED <<lights, old, i, begin, removed, updated>>

PastEnd ==
  /\ pc = "loop" /\ ~BeginValid
  /\ pc' = "undefined"
  /\ UNCHANGED <<lights, old, i, begin, added, removed, updated>>

Finished == pc # "loop" /\ UNCHANGED vars

Merge == Found \/ Vanished \/ AddRest \/ PastEnd

Next == Merge \/ Finished

Spec == Init /\ [][Next]_vars

-----------------------------------------------------------------------------
\* Up to where the loop has come, every light has exactly one device: none is
\* added twice or beside an old one, and as long as no light has vanished none is
\* left out.
OneDevicePerLight ==
  /\ IsInjective(added)
  /\ ToSet(added) \cap updated = {}
  /\ removed \cap ToSet(lights) = {}
  /\ removed = {} => \A k \in DOMAIN lights : k < begin => lights[k] \in ToSet(added) \cup updated

\* In the end the devices are those of the lights, and the walk stays inside the
\* vector ("Add/Remove/Change devices at beginning when external changes
\* happened", DeviceAPI.h:39).
Synchronized ==
  /\ pc # "undefined"
  /\ pc = "done" => (ToSet(old) \ removed) \cup ToSet(added) = ToSet(lights)

\* The merge keeps one device per light, and if no device has lost its light it ends
\* with exactly the devices of the lights.
SynchronizedIfAllThere == OneDevicePerLight /\ (ToSet(old) \subseteq ToSet(lights) => Synchronized)
=============================================================================
