------------------------------- MODULE StartUp -------------------------------
(***************************************************************************)
(* The life cycle with the plugins of main(), and the synchronisation of   *)
(* the Hue plugin (HueSync) as the work of its SynchronizeDevices phase.   *)
(***************************************************************************)
EXTENDS ApiLifecycle, Plugins

CONSTANT Lights   \* numbers that lights may have

ASSUME StartUpAssumption == Lights \subseteq Nat /\ IsFiniteSet(Lights)

VARIABLES lights, old, i, begin, added, removed, updated, hpc

hueVars == <<lights, old, i, begin, added, removed, updated, hpc>>

Hue == INSTANCE HueSync WITH pc <- hpc

\* The main thread is in the last step of the Hue plugin's initialisation.
InSynchronizeDevices ==
  /\ pc = "init" /\ it <= Len(m_registered)
  /\ m_registered[it] = "hue" /\ step = Len(Work["hue"])

\* A walk past the end of the lights is undefined: the program may crash.
Crashed == hpc = "undefined"

SynchronizeDevices == InSynchronizeDevices /\ Hue!Merge /\ UNCHANGED vars

\* The step ends when the merge has, or with an exception on the way.
Proceed ==
  /\ \/ ~InSynchronizeDevices /\ MainThread
     \/ InSynchronizeDevices /\ ((hpc = "done" /\ InitStep) \/ InitThrows)
  /\ UNCHANGED hueVars

Others == (OtherThreads \/ Idle) /\ UNCHANGED hueVars

StartUpInit == Init /\ Hue!Init

StartUpNext ==
  \/ ~Crashed /\ (SynchronizeDevices \/ Proceed \/ Others)
  \/ Crashed /\ UNCHANGED <<vars, hueVars>>

allVars == <<vars, hueVars>>

StartUpSpec ==
  StartUpInit /\ [][StartUpNext]_allVars
  /\ WF_allVars(~Crashed /\ (SynchronizeDevices \/ Proceed))

-----------------------------------------------------------------------------
\* HueSync's property holds whenever the merge happens in the course of start-up
\* (HueAPI.cpp:84), and whatever request to stop comes meanwhile.
SynchronizedIfAllThere == Hue!SynchronizedIfAllThere

\* The program has ended, or waits in a join that others keep from returning: a browser
\* that connected late, or a rule timer that missed the notification.
Ended == pc = "exited" \/ Crashed
Joining == pc \in {"lateBrowser", "timerSleeps"}

\* A signal that the signal thread takes once it knows Main leads the process to its
\* end, whenever it comes, also before Run() ("If the program is not started, this might
\* cause a future start to be suspended immediately", Main.h:65), unless the merge has
\* crashed or one of these two joins does not return.  When the late browser leaves,
\* the program goes on to its end.
StopEndsProgram ==
  [](m_main = "set" /\ handler = "waiting" => [](handler = "ended" => <>(Ended \/ Joining)))
=============================================================================
