----------------------------- MODULE ApiLifecycle -----------------------------
(***************************************************************************)
(* The life of the process: main() and Main (main/Main.cpp), the signal    *)
(* handler (main/SignalHandler.cpp) and the phases of the plugins          *)
(* (api/DeviceRegistry.cpp, api/DeviceAPI.h).                              *)
(*                                                                         *)
(* A plugin's phases before Start are a sequence of steps; a step may      *)
(* throw, and a step may leave a reference to something elsewhere: a       *)
(* handler, a device type, a subscription, a thread.  These stay when the  *)
(* plugin is erased.                                                       *)
(***************************************************************************)
EXTENDS Naturals, Sequences, FiniteSets, SequencesExt

CONSTANTS
  Apis,        \* the plugins
  Order,       \* the sequence in which they are registered; the first one by Main()
  Work,        \* their steps: sequences of records [leaves, mayThrow]
  StartThrows, \* plugins whose Start may throw
  Members,     \* the members of Main that threads use, in the order of declaration
  Users,       \* references that a thread follows, see Runs
  Uses         \* what each of these touches: members of Main and plugins

ASSUME ApiLifecycleAssumption ==
  /\ Order \in Seq(Apis) /\ Len(Order) > 0 /\ IsInjective(Order)
  /\ Work \in [Apis -> Seq([leaves : SUBSET Users, mayThrow : BOOLEAN])]
  /\ StartThrows \subseteq Apis
  /\ Members \in Seq(STRING) /\ IsInjective(Members)
  /\ "deviceReg" \in ToSet(Members) /\ ToSet(Members) \cap Apis = {}
  /\ Uses \in [Users -> SUBSET (ToSet(Members) \cup ToSet(Order))]
  \* The load thread, which ends with the registry's plugins, uses nothing that is
  \* destroyed before them.
  /\ "load" \in Users => \A m, n \in DOMAIN Members :
       Members[m] \in Uses["load"] /\ Members[n] = "deviceReg" => m < n

VARIABLES
  pc,           \* where the main thread is
  m_registered, \* the plugins in the registry
  it,           \* index of the loop over m_registered
  step,         \* the next step of the plugin at it
  left,         \* references that steps have left
  ready,        \* history: plugins that have done all their steps
  started,      \* plugins whose Start has returned
  stopped,      \* history: the plugins whose Shutdown was called, in order
  orphans,      \* history: plugins that were erased
  m_main,       \* "null" or "set"
  handler,      \* the signal thread: "waiting" or "ended"
  m_shutdown,   \* the flag of Main::Stop
  later,        \* whether a delayed sub-action waits in a detached thread
  alive,        \* objects that are not destroyed
  serving       \* whether the websocket thread runs

registry == <<m_registered, it, step, left, ready, started, stopped, orphans>>
threads == <<m_main, handler, m_shutdown, later>>
vars == <<pc, registry, threads, alive, serving>>

-----------------------------------------------------------------------------
Init ==
  /\ pc = "construct"
  /\ m_registered = <<>> /\ it = 1 /\ step = 1
  /\ left = {} /\ ready = {} /\ started = {} /\ stopped = <<>> /\ orphans = {}
  /\ m_main = "null" /\ handler = "waiting" /\ m_shutdown = FALSE /\ later = FALSE
  /\ alive = ToSet(Members)
  /\ serving = FALSE

\* RegisterDeviceAPI: the first plugin in Main's constructor, the others in main().
RegisterDeviceAPI ==
  /\ pc \in {"construct", "register"}
  /\ Len(m_registered) < Len(Order)
  /\ m_registered' = Append(m_registered, Order[Len(m_registered) + 1])
  /\ alive' = alive \cup {Order[Len(m_registered) + 1]}
  /\ pc' = IF pc = "construct" THEN "setMain" ELSE pc
  /\ UNCHANGED <<it, step, left, ready, started, stopped, orphans, threads, serving>>

SetMain ==
  /\ pc = "setMain"
  /\ pc' = "register"
  /\ m_main' = "set"
  /\ UNCHANGED <<registry, handler, m_shutdown, later, alive, serving>>

\* Main::Run begins with CreateTables, which may throw.
CreateTables ==
  /\ pc = "register" /\ Len(m_registered) = Len(Order)
  /\ pc' \in {"init", "destroy"}
  /\ UNCHANGED <<registry, threads, alive, serving>>

-----------------------------------------------------------------------------
\* Erasing a plugin destroys it.  What it has left elsewhere stays.
WithoutFailed == RemoveAt(m_registered, it)

\* erase returns an iterator to the plugin after it, which is now at its place.
OneFurther == it + 1
AfterErased == it

Erase ==
  /\ m_registered' = WithoutFailed
  /\ it' = AfterErased
  /\ step' = 1
  /\ orphans' = orphans \cup {m_registered[it]}
  /\ alive' = alive \ {m_registered[it]}

Current == Work[m_registered[it]]

\* InitAPIs: one step of the plugin at it.
InitStep ==
  /\ pc = "init" /\ it <= Len(m_registered) /\ step <= Len(Current)
  /\ left' = left \cup Current[step].leaves
  /\ step' = step + 1
  /\ UNCHANGED <<pc, m_registered, it, ready, started, stopped, orphans, threads, alive, serving>>

InitThrows ==
  /\ pc = "init" /\ it <= Len(m_registered) /\ step <= Len(Current)
  /\ Current[step].mayThrow
  /\ Erase
  /\ UNCHANGED <<pc, left, ready, started, stopped, threads, serving>>

Initialized ==
  /\ pc = "init" /\ it <= Len(m_registered) /\ step > Len(Current)
  /\ ready' = ready \cup {m_registered[it]}
  /\ it' = it + 1 /\ step' = 1
  /\ UNCHANGED <<pc, m_registered, left, started, stopped, orphans, threads, alive, serving>>

\* The end of one of the registry's loops.
EndLoop(from, to) ==
  /\ pc = from /\ it > Len(m_registered)
  /\ pc' = to
  /\ it' = 1
  /\ UNCHANGED <<m_registered, step, left, ready, started, stopped, orphans, threads, alive, serving>>

StartApi ==
  /\ pc = "start" /\ it <= Len(m_registered)
  /\ started' = started \cup {m_registered[it]}
  /\ it' = it + 1
  /\ UNCHANGED <<pc, m_registered, step, left, ready, stopped, orphans, threads, alive, serving>>

StartApiThrows ==
  /\ pc = "start" /\ it <= Len(m_registered) /\ m_registered[it] \in StartThrows
  /\ Erase
  /\ UNCHANGED <<pc, left, ready, started, stopped, threads, serving>>

\* Shutdown of one plugin, whether it throws or not.
ShutdownApi ==
  /\ pc = "shutdown" /\ it <= Len(m_registered)
  /\ started' = started \ {m_registered[it]}
  /\ stopped' = Append(stopped, m_registered[it])
  /\ it' = it + 1
  /\ UNCHANGED <<pc, m_registered, step, left, ready, orphans, threads, alive, serving>>

-----------------------------------------------------------------------------
\* WebsocketCommunication::Start creates a thread; if it throws Run ends.
StartServing ==
  /\ pc = "socketStart"
  /\ \/ serving' = TRUE /\ pc' = "wait"
     \/ serving' = FALSE /\ pc' = "destroy"
  /\ UNCHANGED <<registry, threads, alive>>

Wait ==
  /\ pc = "wait" /\ m_shutdown
  /\ pc' = "socketStop"
  /\ UNCHANGED <<registry, threads, alive, serving>>

\* WebsocketCommunication::Stop joins its thread.  A browser that connects after the
\* loop that closes the connections keeps the thread, and so Stop, until it leaves.
StopServing ==
  /\ pc = "socketStop"
  /\ \/ serving' = FALSE /\ pc' = "shutdown"
     \/ pc' = "lateBrowser" /\ UNCHANGED serving
  /\ UNCHANGED <<registry, threads, alive>>

LateBrowserLeaves ==
  /\ pc = "lateBrowser"
  /\ serving' = FALSE
  /\ pc' = "shutdown"
  /\ UNCHANGED <<registry, threads, alive>>

\* The end of main()'s block: the members of Main are destroyed in reverse order.
\* The registry destroys its plugins; the core plugin's destructor stops the load thread.
KeepsStarted == started
StopsStarted == {}

LastMember(m) ==
  Members[m] \in alive /\ \A n \in DOMAIN Members : Members[n] \in alive => n <= m

DestroyMember ==
  /\ pc = "destroy"
  /\ \E m \in DOMAIN Members :
       /\ LastMember(m)
       /\ IF Members[m] = "deviceReg"
          THEN /\ alive' = alive \ ({"deviceReg"} \cup Apis)
               /\ started' = StopsStarted
          ELSE alive' = alive \ {Members[m]} /\ UNCHANGED started
  /\ UNCHANGED <<pc, m_registered, it, step, left, ready, stopped, orphans, threads, serving>>

\* The destructor of MQTT joins the loop threads, and after main() that of the
\* static EventSystem joins the rule timer, which may sleep for ever if it missed
\* the notification (RuleEventHandler).  Detached threads end with the process.
Exit ==
  /\ pc = "destroy" /\ alive \cap ToSet(Members) = {}
  /\ \/ pc' = "exited"
     \/ "timer" \in left /\ pc' = "timerSleeps"
  /\ UNCHANGED <<registry, threads, alive, serving>>

-----------------------------------------------------------------------------
\* SignalHandler::Run takes the first SIGINT or SIGTERM and ends.
FlagIfWaiting == m_shutdown \/ pc = "wait"
FlagSet == TRUE

Signal ==
  /\ handler = "waiting" /\ pc \notin {"exited", "timerSleeps"}
  /\ handler' = "ended"
  /\ m_shutdown' = IF m_main = "set" THEN FlagSet ELSE m_shutdown
  /\ UNCHANGED <<pc, registry, m_main, later, alive, serving>>

\* Whether the thread that follows reference u runs: handlers of the core plugin
\* and device types are used by the websocket thread, the load thread is started
\* by the core plugin, the rule timer and the MQTT loop by steps of InitAPIs.  A
\* rule or a delayed sub-action on a light leads to the device type.
Runs(u) ==
  /\ pc # "exited"
  /\ CASE u = "load"      -> "core" \in started
       [] u = "timer"     -> "timer" \in left
       [] u = "hueRule"   -> {"timer", "hueType"} \subseteq left
       [] u = "later"     -> later
       [] u = "hueLater"  -> later /\ "hueType" \in left
       [] u \in {"stat", "tele"} -> u \in left /\ "mqtt" \in alive
       [] OTHER           -> u \in left /\ serving

\* The rule timer, a handler of the websocket or another delayed sub-action leaves a
\* sub-action with a timeout to a detached thread, which nothing joins.
Delay ==
  /\ Runs("timer") \/ Runs("coreHandlers") \/ Runs("later")
  /\ later' = TRUE
  /\ UNCHANGED <<pc, registry, m_main, handler, m_shutdown, alive, serving>>

LastEnds ==
  /\ later
  /\ later' = FALSE
  /\ UNCHANGED <<pc, registry, m_main, handler, m_shutdown, alive, serving>>

-----------------------------------------------------------------------------
MainThread ==
  \/ RegisterDeviceAPI \/ SetMain \/ CreateTables
  \/ InitStep \/ InitThrows \/ Initialized \/ EndLoop("init", "start")
  \/ StartApi \/ StartApiThrows \/ EndLoop("start", "socketStart")
  \/ StartServing \/ Wait \/ StopServing
  \/ ShutdownApi \/ EndLoop("shutdown", "destroy")
  \/ DestroyMember \/ Exit

\* A program that nobody stops waits for ever, and so does one that joins a thread
\* which sleeps or serves a browser.
Idle ==
  /\ pc \in {"exited", "timerSleeps", "lateBrowser"} \/ (pc = "wait" /\ ~m_shutdown)
  /\ UNCHANGED vars

\* What others do, at any time or never.
OtherThreads == Signal \/ LateBrowserLeaves \/ Delay \/ LastEnds

Next == MainThread \/ OtherThreads \/ Idle

Spec == Init /\ [][Next]_vars

-----------------------------------------------------------------------------
\* The registry and the main thread's place in it.
TypeOK ==
  /\ pc \in {"construct", "setMain", "register", "init", "start", "socketStart", "wait",
             "socketStop", "lateBrowser", "shutdown", "destroy", "timerSleeps", "exited"}
  /\ m_registered \in Seq(Apis)
  /\ it \in 1..(Len(m_registered) + 1) /\ step \in Nat \ {0}
  /\ left \subseteq Users
  /\ ready \subseteq Apis /\ started \subseteq Apis /\ stopped \in Seq(Apis) /\ orphans \subseteq Apis
  /\ m_main \in {"null", "set"} /\ handler \in {"waiting", "ended"}
  /\ m_shutdown \in BOOLEAN /\ later \in BOOLEAN /\ serving \in BOOLEAN
  /\ alive \subseteq ToSet(Members) \cup Apis

\* Shutdown is "called last (only if Start() was successful)" (DeviceAPI.h:24),
\* and once: never for a plugin that failed in an earlier phase.
ShutdownOnlyStarted ==
  /\ IsInjective(stopped)
  /\ ToSet(stopped) \cap (started \cup orphans) = {}

\* A plugin is started, and shut down, only after all its other phases: the loops
\* of the registry skip none when they erase one ("Called after Initialize(),
\* RegisterRuleConditions() and RegisterSubActinons() and before Start()",
\* DeviceAPI.h:27).
StartedOnlyReady == started \cup ToSet(stopped) \subseteq ready

\* Together: every plugin goes through its phases in their order, whichever of the
\* others fail and are erased on the way.
PhasesInOrder == ShutdownOnlyStarted /\ StartedOnlyReady

\* The threads that nothing has stopped when Run() returns: the rule timer, the loop
\* of MQTT, and detached threads of delayed sub-actions.
Outliving == {"timer", "hueRule", "stat", "tele", "later", "hueLater"}

\* While Run() is active, a running thread has a destroyed object in reach only
\* through something that a plugin registered before it failed.  After it, only
\* the rule timer, the MQTT loop and delayed sub-actions can have: the websocket
\* thread and the load thread never outlive what they use, also when a late browser
\* keeps Stop waiting, and the signal thread never outlives Main when Run() ends as
\* it should.
ReachExplained ==
  /\ \A u \in Users : Runs(u) =>
       \A o \in Uses[u] \ alive :
         \/ o \in orphans
         \/ pc \in {"destroy", "timerSleeps"} /\ u \in Outliving
  /\ stopped # <<>> => handler = "ended"
=============================================================================
