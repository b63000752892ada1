# A TLA+ model of Home++

Home++ is a smart home server: a C++ backend (`src/backend`) that stores
devices, rules and actions in one SQLite database, talks to devices through
plugins, and serves a web frontend over a websocket. This directory holds TLA+
modules of its core logic, TLC configurations that check them on small
instances, and proofs checked by TLAPS. Paths below are relative to
`src/backend` unless they start with `src/`.

`PROJECT.json` maps every definition to the lines it stands for. The vendored
libraries, the radio and SPI code and the frontend's view state are left aside.

## 1. Inventory

### Threads

| thread | started by | runs |
|---|---|---|
| main | process | start-up, then waits for the end (`main/Main.cpp`) |
| signal handler | `main/SignalHandler.cpp` | `sigwait`, then `Main::Stop` |
| websocket | `communication/WebsocketCommunication.cpp` | all socket handlers: commands of clients |
| rule timer | `events/RuleEventHandler.cpp` | `Run()`: timed rules, their effects |
| load | `events/LoadRequestHandler.cpp` | measures the load of the machine |
| MQTT loop, one per broker | `communication/MQTTClient.cpp` | callbacks of subscriptions (Tasmota) |
| delayed sub-actions | `api/SubActionImpls.h` 145 | detached; sleep, then one sub-action |

`DeviceStorage`, the event emitters, the lists of websocket clients and the
database connection are shared by these threads without a lock of their own. Nothing
stops or joins the detached threads.

### Components

| component | state | operations | what makes it correct | model |
|---|---|---|---|---|
| Event bus, `events/EventSystem` | handlers, deferred lists, `m_inLoop`, recursive mutex | `AddHandler`, `RemoveHandler`, `HandleEvent` (nested, consuming, throwing) | no activation's raw iterator is left dangling; each deferred request is applied; the mutex is freed | `EventSystem`, `EventSystemProofs` |
| Rule timer, `events/RuleEventHandler` | heap of timed rules with keys computed from the clock, `nextCheck`, shutdown flag | `Run`, `HandleEvent`, `CheckRules`, destructor | every due rule runs once; no deadline is later than the next due rule; no rule is lost between heap and thread; the thread sleeps for good only without rules; the destructor returns | `RuleEventHandler`, `RuleSchedule`, `TimedRules`, `RuleEventHandlerProofs` |
| Time conditions, `api/Rule` | none | `IsSatisfied`, `GetNextExecutionTime` | the timer looks when the clock comes to the condition's time, and never at a time that is past | `TimeCondition`, `MCTimeCondition` |
| MQTT client, `communication/MQTTClient` | subscriptions, active topics, promises, broker session | `Subscribe`, `Publish`, `On...`, `Loop` | lists, broker and promises agree; every callback is called | `MqttClient`, `MqttClientProofs` |
| Device storage, `api/DeviceStorage`, `api/Device`, `database/DBDeviceSerialize` | shared data of devices, weak cache, rows | get, add, change, set property, remove | instances of a device share data; memory and rows agree; nothing is lost by a failed write | `DeviceStore`, `MCDeviceStore`, `DeviceStoreProofs` |
| Rules and actions in the database, `api/RuleStorage`, `database/DBRuleSerialize`, `database/DBActionSerialize` | rows of rules, conditions, actions; ids | save, read, remove | rules stay readable, do not share rows, and are stored as sent | `RuleStore`, `RuleStoreProofs` |
| Hue plugin, `plugins/hue-api` | lights, devices | synchronisation at start-up | one device per light | `HueSync`, in `StartUp`, `ApiLifecycleProofs` |
| Life cycle, `main/Main`, `main/SignalHandler`, `api/DeviceRegistry`, `core-api` | plugins and their phases, `m_shutdown`, the members of `Main` and what refers to them | register, init, start, stop, shut down, signal, destruction | plugins go through their phases in order, with others failing; a signal ends the program; no thread outlives what it uses | `ApiLifecycle`, `Plugins`, `StartUp`, `ApiLifecycleProofs` |
| Websocket, `communication/Websocket*`, `Authenticator`, `events/AuthEventHandler`, `events/LoadRequestHandler` | connections, channels' clients, tokens, temperatures, load thread | open, message, close, subscribe, broadcast, log in, expire, stop | no closed connection stays subscribed; nobody is skipped; the history has no gap; stopping returns | `Websocket`, `WebsocketProofs` |
| Actions, `api/Action`, `api/SubActionImpls` | call stack with its depth, sleeping threads | set, toggle, notify, run another, later | executed in order up to the recursion limit; no write is lost; everything ends | `ActionExecution`, `MCActionExecution`, `ActionExecutionProofs` |
| Tasmota plugin, `plugins/tasmota-api` | known devices, stored devices, messages | synchronise, messages of known and unknown devices, `OnUpdate`, rename, restart | one device per topic; what is shown becomes what is; no echoes; a command is carried out | `Tasmota`, `MqttClientProofs` |
| Conditions on devices and comparisons, `api/Rule` | none | evaluate | | not modelled, see 6 |
| Others: `DBHandler`, `Logger`, `ArgumentParser`, `utility/Active`, remote sockets, radio, SPI, frontend | | wiring, input and output | | not modelled, see 6 |

### How they interact

- A command arrives on the websocket thread, changes `DeviceStorage`,
  `RuleStorage` or `ActionStorage`, which write the database and then raise an
  event on their emitter. The socket handlers listen there and inform the clients.
- `RuleEventHandler` is written to hear of device and rule changes.
  `core-api/CoreDeviceAPI.cpp` 72-73 registers it at the `EventSystem`, but
  nothing in production calls `EventSystem::HandleEvent` (line 44, which would
  forward the events, is commented out). The timer thread therefore runs with
  the rules it read at its start. The models of both classes take the calls as
  their interfaces allow them: from any thread, at any time, also nested.
- The timer executes effects, which get and change devices and other actions.
- MQTT callbacks of the Tasmota plugin get, add and change devices in
  `DeviceStorage` from the loop thread.

### Hard behaviours

Handlers that change the list that is being walked; a heap whose keys change
with the clock; a mutex that is released around effects; references into a
vector used after the unlock; a cache that forgets data still in use; writes
that fail half-way; ids that are reused; merging two sorted lists; a set that
is erased from while another thread walks it; threads that outlive what they
refer to; messages lost while nobody is connected; a value read before a write. `PROJECT.json`
lists them under "hazards" with the line where each bites.

## 2. Modules

### EventSystem

State and names are those of the class. `owner` is the holder of the recursive
mutex, `frames` the stack of its `HandleEvent` calls with their iterators. The
actions follow the code: `AddHandler`, `RemoveHandler` (deferred in a walk),
`HandleEvent`, `CallHandler`, `HandlerReturns` (normally, asking for its
removal, consuming the event), `EndOfHandlers`, `ApplyRemove`, `Leave`. The
history `intended` applies every request at once, and `reordered` notes that a
handler was removed while its own addition waited.

A handler is kept alive by its place in the list alone. `RunningHandlerAlive`
states that the iterator of every activation, also of the outer ones, stays at
the handler it runs, and `RegistrationsHonoured` that deferring a request changes
its time and nothing else.

### TimedRules, RuleSchedule, RuleEventHandler, MCRuleEventHandler

`TimedRules` cuts rules down to what the timer tells apart: a rule is enabled
or not and has one or two time conditions ("daily equals", "daily less",
"absolute"), over a day of a few seconds. The code reads the clock several
times in a pass; the model reads it once per step, and "now" lies strictly
inside a second. `TimeCondition` looks at the full conditions.

`RuleEventHandler` follows `Run()`: `Check` (lock, test the front, take it
out), `ExecuteDone` (effect without the mutex, perhaps throwing, then put back),
`ComputeNext`, `Decide` (wait with or without a deadline), `Timeout`,
`SpuriousWakeup`. The heap is a sequence whose head is
the front: of the rest only membership matters, because the code reads nothing
else. `PushHeap` and `PopHeap` give every front that the library's algorithm may
produce with the keys of that moment; with more than four rules any.

`HandleEvent` runs in the thread that emits the event. An added rule is put into the
heap under the mutex (`RuleAdded`). A changed condition takes up to three steps
(`Handling`): the rule's effect is executed at once and without the mutex, if
it is satisfied (`RuleConditionChanged`); if the effect throws, the rest is left
out and the heap keeps the old rule (`ChangedEffectDone`); else the change reaches the heap
(`ConditionScheduled`). Then `CheckRules` executes what is satisfied in the database.
A removal carries a default rule (`RemovedId`), as `RuleStorage::RemoveRule` sends it,
and what `UpdateRule` announces has no branch (`RuleUpdated`).

`Prompts` are the kinds of machine. If `prompt`, the clock waits until the
threads have nothing left to do: the machine is fast compared with a second.
Otherwise the clock runs freely, up to `MaxTimeSlow`. Deadlines and the return
of the join are stated for prompt machines. `overtaken` are the rules that were
changed, or whose id was given to another rule, while the thread executed a
copy: that copy comes back beside the new one, and the rule is in the heap twice.
`RulesInTimer` says that this is the only way a rule gets there twice, and that no
recurring rule is ever lost.

Three things the code does are not what its comments say, and the properties state how
far they go. `front()` of an empty vector is read after the last rule that
comes once; `CrashExplained` says that no recurring rule is in the database then. The
thread waits without a deadline while rules are waiting, if a rule in front will
never come again, whose key 0 means "no rule" to the thread (lines 242 and 258); `SleepExplained` says that
this takes a rule that comes once, and that a rule which comes to an empty heap wakes the thread. The
notification of the destructor is lost while the thread executes an effect (lines 79 and
226): `DestructorReturns` says that the join returns, unless the thread then waits
without a deadline. The configurations of `timer_events` contain each of these cases.

`RuleSchedule` is the abstract specification: a rule fires only when satisfied,
at most once for an execution time, and the clock does not pass a due rule. The
first run of a rule may come early, at the start, when its condition is
satisfied already (`MayRunAgain`). `ScheduleKept` states that
`RuleEventHandler` implements it, with `rules <- db`.

### TimeCondition, MCTimeCondition

`IsSatisfied` and `GetNextExecutionTime` as pure operators over a calendar with
constants for its lengths (two seconds, three minutes, three hours, months of
two and three days). `LocalTime` and `MkTime` stand for the library and normalise
fields out of range as it does. State is a clock that visits every second and a
condition of the chosen set. `dayYear` with `less` is left out of the set: the
code sets the day of the month to 0 there, and nothing says what is meant. So
are day numbers that some month lacks.

`Reading` is what the clock shows to a condition, and `LookedAt` the moments at which the timer
should look at it. `NextIsLookedAt` states for all types and operators that the next
time is the first such moment: the calendar arithmetic and `Reading` are two ways to the
same instant. `SatisfiedWhenDue` and `NoStartMissed` relate that to `IsSatisfied`, for
`equals` and `less` only: the code comes at `time1` for every other operator, too, where
`greater` is never satisfied, `notEquals` is not unless something else is meant, and
`inRange` need not be (`NeverInVain`, which `time_next` with it as an invariant refutes).

### MqttClient

One client, the broker and its session. `Subscribe`, `PublishSend` /
`PublishStore` (the promise is stored after the request is sent), `OnSubscribe`,
`OnPublish`, `OnMessage`, `CallCallback`, `Erase`, `DispatchDone`, `Reconnect`
are the code's; requests reach the broker in order, and are lost with the
connection. References into `subscriptions` are slot numbers (`slots`); a
`Subscribe` during a dispatch may reallocate (`moved`), an erase shifts
(`shifted`). A callback is one step. `EveryCallbackCalled` says that the callbacks
of a message are called in the order of their subscriptions and none twice, whatever
happens to the references; that all of them are called, as long as the references are good.

### DeviceStore

`data` are the shared `Device::Data` objects, `m_cache` the weak map, `held`
what each thread holds, `devices` the rows. No lock guards the cache, so `GetDevice` is
several steps: `Hit`, or `Miss`, then `Load` from the database, then `Insert`, which replaces
what is in the cache by then; `AddDevice` writes the row and enters the device with `Insert`.
`loading` is what a thread is about to enter. Each access of the map is one
step: data races inside it are not modelled, nor are expired cache entries, which the code
never sees. Within `ChangeDevice` and `RemoveDevice` the device that is got again is found, because the
caller holds it, or the device is one of those left out of the properties.
Each write may fail (`fails`), and the process may end at any point
(`Restart`). `unsaved`, `removed` and `raced` are histories: devices changed in memory and not
written, removed, and those that two threads were about to enter at the same time, until both
have let them go. `SharedByAll` is what `Device.h` 245 promises, and the race
refutes it; `SharedData` says that the race and the removal are the only
ways. The properties about rows leave out devices in `unsaved`, too: the code changes memory
first, and a new property is prepared but never executed (`PropertyInserted`).

### RuleStore

`rules`, `conditions` and `actions` are the tables. A save (`Save`) is what
`AddRule` does in one transaction: delete the nodes the sent tree names
(`Replaced`, only if the root has an id), store the action, insert the tree,
children first (`InsertedTree`: the `Leaves`, one `Inserted` after the other, then
the root), then insert or update the rule. An id of 0 asks SQLite for one more than the
greatest (`NewId`). Deletion sets references to NULL.
A refused row rolls all of it back. `Edits` are all the changes a client can
make to a condition it has read. With `Stale = FALSE` a client hears of every
change before it saves; with `Stale = TRUE` it may save an old copy. A tree
that is sent is a root with up to `MaxChildren` leaves. Permissions, the content of rows and the header-only updates
(called by nobody) are left out.

### HueSync

The merge of lights and devices in `HueAPI::SynchronizeDevices`, one step per
device, iterators as indices. Both lists may be any that rise strictly: the
code sorts them by the number of the light, and a number occurs once in each.

### ApiLifecycle, Plugins, StartUp

`ApiLifecycle` is generic: plugins (`Apis`) are registered in an `Order`, and
each does its `Work` before Start, a sequence of steps that may throw and may
leave a reference somewhere. `pc` is the main thread in `main()` and `Main::Run`,
`it` the iterator of the registry's loop. `RegisterDeviceAPI`, `SetMain`,
`CreateTables`, `InitStep` / `InitThrows` / `Initialized`, `StartApi` /
`StartApiThrows`, `StartServing`, `Wait`, `StopServing`, `ShutdownApi`, then
`DestroyMember` once per member in reverse order of `Main.h`. `Signal` may come at
any time, also before `SetMain`, when it is lost. `left`, `alive` and `Runs` say which
threads have what in reach; `orphans` are plugins that failed and were erased.
`later` is set while a delayed sub-action sleeps or runs in a detached thread: the rule timer,
a handler of the websocket or another one left it there (`Delay`), and nothing joins it.

Two joins may not return. `WebsocketCommunication::Stop` waits for a browser that connected
after its connections were closed (pc = "lateBrowser", until `LateBrowserLeaves`), and the
static `EventSystem` for the rule timer, which may sleep for ever (pc = "timerSleeps"; see
`DestructorReturns` of `RuleEventHandler`). `StopEndsProgram` says that nothing else keeps a
stopped program from its end, and `ReachExplained` which threads can reach what was
destroyed: the rule timer, the MQTT loop, and delayed sub-actions (`Outliving`).

`Plugins` gives the three plugins of `main()`, their steps and what their
threads touch. `StartUp` composes the two and has `HueSync` as the work of the
Hue plugin's last step (`INSTANCE HueSync WITH pc <- hpc`), so that the merge runs
among signals and failures of the others.

### Websocket

The server's one thread runs all callbacks (`Connect` ... `OnClose`, `Login`,
`Subscribe`, `LoadRequest`); `Expire` ends a token at any time, and each message
is checked. Two other threads broadcast: the load thread, with its mutex, clock
and temperatures, and the thread of a device's change. A broadcast is a loop
over the set of clients without a lock, one client per step (`cursor`); where
the server's thread erases the element it stands at, it follows a freed node
(`Dangling`), and the program may end (`crashed`). `owed` is a history: open
clients that were there when the broadcast began and still wait. `Stop` and
`StopThread` follow the main thread; the library's `run` returns when no
connection is left (`RunReturns`).

### ActionExecution, MCActionExecution

Each thread has a stack of frames: the body of an action, the next sub-action,
the depth. `Execute` is a client or the rule timer; `DeviceSet`, `ToggleRead` and
`ToggleWrite`, `Notification`, `RecursiveAction` are the four kinds; `Delay` puts a
sub-action with a timeout into the bag `later`, from which a detached thread takes
it (`Wake`). That thread reads the user, a parameter of an `Execute` that returned long ago and
that the lambda holds by reference (`SubActionImpls.h` 128, 145 and 148), so that every `Wake` may be
undefined. `Throw` ends an execution. `Destroy`, `UseDestroyed` and `Exit` are
the end of `main()`, which waits for no detached thread. `Effects`, a recursive
function, says what an action does level by level: `ExecutesInOrder` compares
what was done and what the stack has left with it. `by` remembers who asked for which action;
`EndExplained` says that the process ends while the server is up only if one of these has a
sub-action with a timeout, itself or in what it runs (`Delays`). `SubActionImpls` are all the
sub-actions there can be, and a program any sequence of them for each id; `MCActionExecution` lists
those of the runs: action 1 with up to two different of four sub-actions, action 2
with up to one of two.

### Tasmota

The plugin, the broker's persistent session, and the devices themselves
(`hardware`). The actions are `CreateClient`, `Synchronize`, the two subscriptions,
`HandleMessage` (status, telemetry, unknown devices), `Set` and `OnUpdate` (two
steps: the second reads value and name again), `SetName`, `Restart`,
`ConnectionLost`, `Reconnect`, and the devices' `Execute`, `Button`, `Telemetry`,
`Leave`, `Come`. Messages have QoS 0 and are lost while the client is away;
nothing is subscribed again after a reconnection, so a last will that came
meanwhile is never seen. `told` remembers who was told the latest one, and
`Converges` promises no more. A property without a row (it is prepared but
never inserted, see `DeviceStore`) is forgotten with the shared data. The MQTT
client is taken as `MqttClient` shows it: callbacks called one at a time, in order.

## 3. Runs

| run | shows | bounds |
|---|---|---|
| `event_bus` | safety and release of the bus; a walk never sees the list change | two threads, two handlers, two events: enough for a nested walk with deferred requests in both and a thread waiting |
| `timer_schedule` | `RuleEventHandler` implements `RuleSchedule` | every set of up to three enabled rules at different times, day of four seconds, two and a half days |
| `timer_events` | no recurring rule is lost under events, spurious wakeups and effects that throw, and none doubled but by a change while it runs; how far the crash and the endless sleep go; an added rule wakes the thread; the join returns | the timer begins with two daily rules, with none, with one that comes once, or with an expired and a daily one; an edited rule and one that comes once may be added or changed; two events, fast and slow machine, destruction at any time |
| `time_condition` | the next time is when the clock comes to the condition's time, for all types and operators, and agrees with satisfaction for `equals` and `less` | every second of about two and a half years of the scaled calendar |
| `mqtt_client` | lists, broker, promises, callbacks | two topics, three subscriptions, one publish, two messages, one loss |
| `device_store` | sharing, rows and memory, failed writes | two threads, two devices, one property with two values, up to two groups, one restart |
| `rule_store` | rules stay readable, apart, and as sent; what is refused | two rules, four condition ids, up to two leaves: all edits of a three-node tree beside another rule |
| `lifecycle` | phases in order, threads and what they reach, a signal ends the program, the Hue merge | the three real plugins, each step failing or not, any sets of three lights and devices, a signal, a late browser and delayed sub-actions at any time |
| `websocket` | subscriptions, broadcasts, the temperature history, stopping | two browsers on one channel, both threads' channels, one temperature kept instead of 30, intervals of one tick |
| `actions` | order of effects, races, the end of the process, termination | all 51 programs of two actions, two requests, one detached thread awake at a time, `s_maxRecursion` 1 instead of 10: the second nested run is cut off |
| `tasmota` | one device per topic, convergence, no echoes, commands | one device, two names, four events of users and network, queues of eight |
| `device_race` (violation) | two threads that get a device at the same time hold different data of it | two threads, one device |

Time, identifiers and calls end at bounds named in the modules; a stuttering
disjunct (`Horizon`, `TheEnd`, `Finished`, `Quiet`) marks the end, so that
deadlock is checked in every run but `tasmota`, where nothing happens any more if
all devices are off and the events are used up.

### Further configurations

These cfg files state properties that the code does not have, one each, and can
be run by hand: `tlc -config <cfg> <module>`.

| cfg, module | property | why it is violated |
|---|---|---|
| `timer_crash`, `MCRuleEventHandler` | `NoCrash` | the last one-time rule leaves the heap and `front()` of an empty vector is read (line 242) |
| `timer_disabled`, `MCRuleEventHandler` | `WaitsForLowest` | a disabled rule in front is never moved back and hides the others for a day |
| `device_remove`, `DeviceStore` | `RemovedIsGone` | the removal of a device is never committed |
| `timer_same_time`, `MCRuleEventHandler` | `NoMissedExecution` | of two rules with the same time one is missed |
| `timer_sleeps`, `MCRuleEventHandler` | `SleepsOnlyWhenIdle` | an expired one-time rule becomes the front and the timer sleeps for good |
| `timer_spurious`, `MCRuleEventHandler` | `OncePerExecutionTime` | a wakeup inside the time window executes the rule again |
| `timer_update`, `MCRuleEventHandler` | `TimerKnowsChanges` | `UpdateRule` announces `ALL`, which nothing handles |
| `time_equals`, `MCTimeCondition` | `EqualsIsPlusMinus` | a tolerance is subtracted field by field without a borrow |
| `time_range` | `RangeIsFromTo` | the test for a range over midnight is the wrong way round |
| `mqtt_reallocation`, `MqttClient` | `DispatchDefined` | a callback is called through a reference to freed memory |
| `eventsystem_removed`, `EventSystem` | `RemovedHandlerIsGone` | deferred removals are applied before deferred additions |
| `hue_vanished`, `HueSync` | `Synchronized` | the merge runs past the end of the lights when one has vanished |
| `rule_conditions`, `RuleStore` | `AllConditionsRemoved` | replaced conditions outlive their rule |
| `rule_refused` | `SavesAccepted` | a new child gets the id of the root that was just deleted, or an old root is kept as a child of a new one and was not deleted first |
| `rule_stale` | `EveryRuleReadable` | saving an old copy takes another rule's condition, and the list of all rules fails |
| `websocket_broadcast`, `Websocket` | `BroadcastReachesAll` | a closing connection makes `send` throw and those behind it get nothing |
| `websocket_history` | `HistoryAlwaysEven` | a broadcast that throws leaves the time of the last check, and the temperature is read again at once |
| `actions_deleted`, `MCActionExecution` | `NothingDeleted` | a delayed notification of a rule refers to the rule timer's local channel |

`tasmota_types` passes: it holds `TypeOK` of `Tasmota` at the bounds of the run. The types of
the other modules are proved, or checked in their run.

### Fairness

`EventSystem`: weak fairness of a thread inside `HandleEvent`: threads are
scheduled, and handlers return. `RuleEventHandler`: weak fairness of the timer
thread, of the code in `HandleEvent`, of the destructor, and of the clock.
`MqttClient`: weak fairness of the loop thread, which includes the broker's
answers while the connection holds. `StartUp`: weak fairness of the main thread
unless it waits; signals, delayed sub-actions and the late browser are not fair, it may
stay for ever. No model assumes that events, commands or signals come.

`Websocket`: weak fairness of the threads. Strong fairness of what competes for
something: a connection's callbacks (the library runs them in the order in
which they become ready, and both handshakes end by a timeout, 5 s in websocketpp) and the
mutex of the load thread, which that thread leaves and takes all the time: a
mutex that is free again and again goes to a waiter in the end.

`ActionExecution`: weak fairness of each thread, of which the passing of a timeout
is a part. `Tasmota`: weak fairness of each of start-up, the loop thread,
reconnecting, `OnUpdate` and the devices; a device that is online reports from time to time
(`TelePeriod`). That is an assumption about the devices, which the code relies on.

## 4. Proofs

Eight modules hold theorems. Each component has an inductive invariant; where a
property needs more, it is the next layer, proved from the first.

### EventSystemProofs

For any number of threads, handlers, events and deferred requests, from
`EventSystemAssumption` alone (the two "none" values are not members of their
sets and the bounds are numbers), `Spec` implies `TypeOK` (`BusTypeCorrect`),
`RunningHandlerAlive` (`IteratorSafety`), `NothingDeferredAtRest`
(`NoRequestLeftBehind`), `ListFrozenInLoop` (`WalksUndisturbed`) and
`RegistrationsHonoured` (`RequestsHonoured`).

Neither of the first two safety properties is inductive. That a running handler has not
moved depends on `m_inLoop` being set whenever a frame is on the stack, and that
on which frames found it set when they started. `StackShape` says so: the owner
is a thread exactly when the stack is not empty; only the outermost frame has
`innerLoop = FALSE`; every frame but the top runs a handler; and `m_inLoop` is
set exactly until the outermost frame reaches its "apply" phase. `IInv` is the conjunction of `TypeOK`, `StackShape`
and the two properties; `InitIInv` and `NextIInv` show it inductive, one step
per action, and `BusInvariant` concludes.

`RequestsHonoured` needs `Owed`: as long as nothing was reordered, the list of
handlers leads to `intended` by the deferred removals, one after the other, and then the
additions. "One after the other" is the existence of a function of the intermediate
lists, so that no induction over the requests is needed: a new request extends the
function at its end, `ApplyRemove` drops its beginning. `EraseConcat` is the core:
erasing a handler and appending others commute, unless the handler is among those.

### ApiLifecycleProofs

For any plugins, any steps and any order of registration, `Spec` of
`ApiLifecycle` implies `TypeOK` (`LifecycleTypeCorrect`: the loops never leave
the vector they erase from), `PhasesInOrder` (`PhasesKept`: only a started
plugin is shut down, only a ready one is started) and `ReachExplained`
(`ReachIsExplained`: what threads reach of what was destroyed). The invariant has
one part per phase, which says what is known of the plugins before and behind the
iterator (`Passed`, `Coming`): in InitAPIs those passed are ready; in Start
those passed are the started ones; in Shutdown those that come are the started ones and
those passed the stopped ones. An erased plugin shifts the rest to the iterator
(`ErasesOne`), which is why `erase` must return the iterator that the loop goes on with.

`ReachInv` adds what lives: members and plugins until the end of `main()`, also while Stop waits
for a late browser; then, while the registry is there, also what was declared before it, and after it nothing is
started. `FlagInv` orders the flag and the signal thread. `ApiLifecycleAssumption`
gives the members as a sequence of different names (the order of declaration
in `Main.h`, which decides the order of destruction); that the load thread, which
a plugin ends, uses no member declared after the registry is part of it. For the
program that assumption holds of the members that `Plugins` lists.

`StartUpIsLifecycle` shows that `StartUp`, which adds the merge of the Hue
lights, implements `ApiLifecycle` (`StartUpSpec => Spec`), so its theorems hold there too
(`StartUpPhases`). `LightsSynchronized` proves `SynchronizedIfAllThere` for any finite
set of light numbers. Its `HueInv` has two cases: as long as every device has had its light
(`AllFound`), the loop stands behind the light of the last device, and what lies behind
it was added or belongs to a device; once a light has vanished
(`OneVanished`), the loop is past the end, and the property claims nothing more.

### MqttClientProofs

For any topics and bounds, from `MqttClientAssumption` (the bounds are numbers),
`Spec` of `MqttClient` implies `TypeOK` (`ClientTypeCorrect`), `PromiseSetOnce`
(`PromisesSetOnce`: `set_value` is never called twice for one promise, which would
throw in the loop thread), `SubscriptionsAgree` (`ListsAgree`) and
`EveryCallbackCalled` (`CallbacksCalled`).

- `IInv` adds to the promises what makes them inductive: every id in a list or a
  request was given out by a call (`IdsInv`), so that a new one is in none of
  them, and a promise that `Publish` has not stored yet is neither waiting nor set
  (`PromisesInv`).
- `ListInv` is about the client's lists: ids increase along `subscriptions`, the
  callback that is to be erased is one while nothing was moved, and active topics are those of
  the subscriptions. `BrokerInv` says that what the requests on their way will
  leave at the broker is that too, while the connection holds.
- `CallsRise`: slots and calls increase, also when callbacks unsubscribe themselves, subscribe
  others or the vector is reallocated or shifted. No callback is therefore called twice.
- `CalledInv` is about a dispatch: as long as no reference has gone bad, what is due is
  what was called followed by what the slots refer to, in the same order.

The same module holds the one theorem about the plugin on top of the client
(`Tasmota == INSTANCE Tasmota`). For any topics, names and bounds, from `TasmotaAssumption`,
`Spec` of `Tasmota` implies `OneDevicePerTopic` (`StoredOnce`): only a renamed device is ever
stored a second time. `PluginIInv` adds that a device no user renamed is named by its topic
(`NamedByTopic`), and that once the plugin has read the devices it knows every such one
(`AllKnown`), although a restart forgets all of them.

### DeviceStoreProofs

For any threads, properties and bounds, from `DeviceStoreAssumption` (finitely many
threads, the bounds are numbers), `Spec` of `DeviceStore` implies `TypeOK`
(`StoreTypeCorrect`), `SharedData` (`DataIsShared`), `MemoryMatchesRow`
(`RowsFollowMemory`) and the action property `NoPropertyLost`
(`PropertiesSurvive`). The
properties need that the cache finds what is held (`CachedIfHeld`), but for the devices
in `Apart`: those that were removed, and those that two threads raced for. That in
turn needs that an object belongs to one device (`OneDevicePerObject`), that
a new device's id is nobody's, because threads hold only devices with a row
(`HeldInDatabase`) and the id is beyond those of all rows (`MaxExists`), and that a thread which
is about to enter a device is alone: the device is in no cache, no other thread is about to
enter it, and the row is still what the thread has read (`LoadsRows`, `LoadedAlone`).
A free object for a device that is entered exists by counting (`FreeObject`). `ObjectChanged` is the core: what a
thread changes is seen under one id only, and that one is unsaved or written.
`PropertiesSurvive` adds `RowWithinMemory`: whatever a row has, the shared data have
too, so that a write from memory takes nothing away.

### WebsocketProofs

For any browsers, channels and intervals, from `WebsocketAssumption`, `Spec` of
`Websocket` implies `TypeOK` (`SocketTypeCorrect`), `ClientsKnown`
(`OnlyKnownClients`), `MissedBehindClosing` (`SkipsOnlyBehindClosing`) and
`HistoryComplete` (`NothingMissing`), in three layers.

- `SocketInv`: the server knows exactly the connections between OnOpen and OnClose.
  Without it, a browser that opens a connection could be in a channel already,
  without a token.
- `SenderInv`: a broadcast stands at a client of its channel, unless that was erased
  under it, and every open client it still owes the message is there or behind it.
  This needs the order in which the set of clients is walked, so clients are numbers.
- `HistoryInv`: the entry that is being sent is the last one, and an entry is at
  least as old as the last check.

### RuleEventHandlerProofs

For any rules, events, machines and schedules of the threads, from
`RuleEventHandlerAssumption` (configurations and changes are rules, ids differ), `Spec`
of `RuleEventHandler` implies `TypeOK` (`TimerTypeCorrect`). `IInv` has the types,
`Unique` (an id is in the heap once) and `NotInBoth` (the rule that is executed is not in the
heap as well), both but for rules in `overtaken`. `GetNextExecutionTimeIsLater` is the
lemma about the clock: a next time is in the future or never.

The other theorems hold under a hypothesis on the rules, because the code does not keep
them in general:

| theorem | hypothesis | without it |
|---|---|---|
| `RulesStayInTimer`: `RulesInTimer` | `KindKept`: a change does not turn a recurring rule into another kind or back | a one-time rule leaves the timer when its time is over, although `UpdateRule`, which the timer does not hear (`timer_update`), may have made it a recurring one in the database meanwhile |
| `EmptyReadExplained`: `CrashExplained` | `KindKept` | the same |
| `SleepIsExplained`: `SleepExplained` | `KindKept` | a change that makes the expired front a recurring rule puts it behind others without waking the thread |
| `LowestIsAwaited`: `WaitsForLowest` | `AllRecur`; `AllOnTime`: every rule is enabled and satisfied when its execution time comes, as with "equals", and with "less" than a time after midnight; never more than four rules (`AtMostFour`) | `timer_disabled`; with more than three behind the front, `PopHeap` with changing keys may put any of them there |
| `RulesRunOnSchedule`: `ScheduleKept` | the above; `DifferentTimes`; `NobodyDisturbs`: a prompt machine, no changes of rules, no spurious wakeups, no destruction | `timer_same_time`, `timer_spurious` |

`timer_events` satisfies `KindKept`; its configurations with one-time rules do not satisfy
`AllRecur`, so there `WaitsForLowest` is only model-checked. `timer_schedule` satisfies the
last hypothesis where all its rules recur; for its one-time rules `ScheduleKept` is
only model-checked.

`EachIsKept` follows a recurring rule between the heap and the hands of the thread;
`RulesInTimer` and `CrashExplained` come from it. `SleepInv` adds what holds between the
decision to wait without a deadline and the end of that wait: the heap is empty, or
there is a rule in it that does not recur and stays there, or is replaced by one of its
kind, until the thread is woken; a rule that comes to an empty heap wakes it.

`RuleOnTime` is the core of the last two theorems: the next execution time of a rule does
not change before it comes, and when it comes the condition is satisfied
(`ConditionOnTime`, with `Remainder` for the arithmetic of days). `FrontInv` then says
that the front is the least, except when the front is due and the thread about to run
it: the keys of the others stay in order while the clock moves, only that of the
front jumps by a day. `LowestStep` shows it inductive, with what the heap
operations keep (`MakeHeapLeast`, `PopHeapLeast`, `PushHeapLeast`).

`RulesRunOnSchedule` is a refinement: each step of the timer is a step of `RuleSchedule` or
a stutter. `ScheduleInv` says of a due rule that it is the front and the thread is
awake, or that it ran just now (`FrontDue`, `Due`, `Ran`), so that the clock cannot pass it;
and that the last run of each rule is not at a time still to come, so that
it may run. `FrontRuns` and `ScheduleTick` are the two steps that do not stutter.

### RuleStoreProofs

For any numbers of rules, conditions, actions and leaves, from
`RuleStoreAssumption` (the bounds are numbers), `Spec` of `RuleStore` implies
`TypeOK` (`TablesTyped`: also that no reference which is declared to the database
dangles), `SavedAsSent` (`AcceptedIsStored`) and `RefusedOnlyIfMixed`
(`OnlyMixedRefused`), with stale copies or without. If no client saves a stale copy
(`~Stale`), it implies `RulesIntact` (`FreshKeepsIntact`) and `OthersUntouched`
(`FreshLeavesOthers`); with stale copies neither holds (`rule_stale`).

`Rows` are the types. `Own` says that the rows of every rule are there, are a root
with leaves (`Flat`), and are disjoint from those of every other rule; a
client's copy is the rule as it is now (`CopyIsRule`). That is why the deletion by ids
before a save reaches rows of the saved rule alone. `Grown` says what
inserting the first of the sent nodes has done: which rows there are, that no old one has
changed, that the ids given are new, and when nothing is refused. It holds for all of
them by `Induction` over a set of numbers, from the least element of what is left
(`LeastExists`): the library's induction theorem takes an operator, which the
provers cannot instantiate.

### ActionExecutionProofs

For any programs, recursion limit, callers and detached threads, from
`ActionExecutionAssumption`, `Spec` of `ActionExecution` implies `TypeOK`
(`ExecutionTypeCorrect`), `LostOnlyByRace` (`OnlyRacesLose`), `EndExplained`
(`EndsAreExplained`) and `ExecutesInOrder` (`ActionsInOrder`). The parts of `IInv` are:

- `StackInv`: a frame is at least as deep as its place on the stack, which bounds the
  stack by `s_maxRecursion`; the lowest frame of a detached thread is a
  sub-action that slept, all others are actions of the database.
- `ReadInv`: a thread that has read a value stands at its toggle, and the value is
  still the device's, or the device is marked as raced for.
- `TasksOrigin`: what sleeps has no timeout any more, and its depth is that of some frame.
- `RequestInv`: a caller on whose stack something is has not returned from its
  request, and the lowest frame is the action of that request.
- the type of `ended`.

`EndsAreExplained` comes after `OrderInv` (below), because it speaks of the requests that are
to blame: `EndInv` says that a sub-action that sleeps, a detached thread at work, or an
end of the process goes back to a request whose effects have a timeout
(`SomeRequestDelays`). `CallerDelays` is the step that matters: what a caller delays is among
the effects of the action it was asked for.

`ActionsInOrder` adds `OrderInv`: what a thread has done and what its stack has left
(`StackRest`) are together the effects of its task; a thread without a task has done nothing.
A step moves one effect from the one to the other (`OrderDone`), or replaces a
sub-action that runs another action by the frame of that one (`OrderRun`), whose
effects are the same by definition if the limit allows it, and none otherwise. `Effects` is
recursive in the depth: `EffectsByLevel` gets its unfolding from the existence of its
levels (`LevelsExist`), again by `Induction` over a set of numbers. The rest is
about `FlattenSeq` of the community modules (`JoinedExist`, `FlattenFirst`).

### Only model-checked

- Liveness: `BusReleased`, `StopEndsProgram`, `FuturesReady`, `EverythingEnds`,
  `Settles`, `WishGranted`, `DestructorReturns`, `StopReturns`. Fairness and ENABLED are
  out of the prover's reach.
- `NextIsStart`, `NextIsStable` of `TimeCondition`: the calendar is built of folds and
  `CHOOSE` over years. For the two kinds of time that `TimedRules` has, `ConditionOnTime` and
  `RuleOnTime` are the same statement, proved.
- `WaitsForLowest` and `ScheduleKept` with one-time rules at different times.

## 5. Plan

Done: all modules of section 2, with proofs about `EventSystem`, `ApiLifecycle` and
`StartUp`, `MqttClient`, `DeviceStore`, `Websocket`, `RuleEventHandler`, `RuleStore`, `Tasmota`
and `ActionExecution`. Left, in this order:

1. `RuleEventHandler`: `WaitsForLowest` and `ScheduleKept` with one-time rules at different times.
2. `DeviceStore`: the log of property values.
3. `Tasmota` over `MqttClient` and `DeviceStore` by `INSTANCE`, if the state
   space allows; today it takes from both what they show.

## 6. Not modelled

Nearly all lines of `src/` are vendored libraries (SQLite, nlohmann json, asio,
websocketpp) and the frontend. They are modelled only as the backend uses them,
which is why the map covers a small share of the lines. Of the backend:

- Conditions on devices and comparisons (`RuleDeviceCondition`,
  `RuleCompareCondition`): expressions without state. No condition on a device can
  be loaded (`api/Rule.cpp` 1068 unpacks the message it should pack), and nothing
  posts an event to the `EventSystem`, so no evaluation after an event takes place.
- `utility/Active`: no production code uses the class any more; nothing says who
  calls it, and in which order.
- `DBHandler` and the tables: creation and a connection; their transactions
  are in `DeviceStore` and `RuleStore`. `DBEventHandler` is registered nowhere.
- `DevicesSocketHandler`: its commands are actions of `DeviceStore` and `Tasmota`; the
  rest is parsing and replies.
- `FactoryRegistry`, `SimpleRange`, `RDPAlgorithm`, `AnyJson`: filled once, unused, or
  types without behaviour.
- `Logger`, files, arguments, configuration, the remote socket plugin, radio and
  SPI: input and output.
- Of modelled components: trees of conditions deeper than two levels, the content of
  rows, permissions, cryptography, the users' table, the map from brokers to
  clients, reading the plugins' configuration, and finding the Hue bridge.

## 7. Running

    tlasany EventSystem.tla
    tlc -workers 2 -config eventsystem.cfg EventSystem
    tlapm EventSystemProofs.tla      (also ApiLifecycleProofs, MqttClientProofs,
                                      DeviceStoreProofs, WebsocketProofs,
                                      RuleEventHandlerProofs, RuleStoreProofs,
                                      ActionExecutionProofs)
