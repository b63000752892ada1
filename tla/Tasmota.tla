------------------------------ MODULE Tasmota ------------------------------
(***************************************************************************)
(* The Tasmota plugin (plugins/tasmota-api): devices that report to the    *)
(* MQTT broker under a topic of their own and take commands from there.    *)
(* Messages are handled by the loop thread of the MQTT client; a user's    *)
(* command comes on the websocket thread or, in a rule, on the timer's.    *)
(*                                                                         *)
(* The plugin knows a device by its topic (knownDevices) while it runs,    *)
(* and by the name of the stored device when it starts and when it sends   *)
(* a command.  A user may change that name.                                *)
(*                                                                         *)
(* Of a device's properties, POWER stands for those a device reports and   *)
(* takes, and online is the only one it is created with.  DeviceStore says *)
(* what happens to a property without a row: it is in the shared data of   *)
(* the threads that hold the device, and gone when the last lets it go.    *)
(***************************************************************************)
EXTENDS Naturals, FiniteSets, FiniteSetsExt, Sequences, SequencesExt, Functions

CONSTANTS
  Topics,      \* of the devices
  Names,       \* that users give to devices
  MaxDevices,  \* bound: stored devices
  MaxQueue,    \* bound: commands the broker holds; more are lost
  MaxEvents    \* bound: what users, devices and the network do

ASSUME TasmotaAssumption ==
  /\ Topics \subseteq Names
  /\ {MaxDevices, MaxQueue, MaxEvents} \subseteq Nat

VARIABLES
  rows,          \* stored devices: id |-> name, online, power
  knownDevices,  \* topic, or name at start-up |-> id
  phase,         \* of the plugin's initialisation
  connected,     \* the connection to the broker
  session,       \* the subscriptions the broker keeps for the client "Home++"
  command,       \* a user's Properties::Set that has not come to OnUpdate
  uplink,        \* what the loop thread has to handle
  downlink,      \* commands the broker has to deliver
  hardware,      \* topic |-> online, power
  shown,         \* what open browsers were told: id |-> online, power
  topicOf,       \* history: the topic a device was stored for
  renamed,       \* history: ids whose name was changed
  wish,          \* history: topic |-> the power a user waits for
  told,          \* history: id and topic whose latest last will it was told
  events         \* bound

stored == <<rows, shown, topicOf, renamed>>
network == <<phase, connected, session>>
vars == <<stored, knownDevices, network, command, uplink, downlink, hardware, wish, told, events>>

Missing == "missing"
Idle == [id |-> 0, value |-> Missing]
Ids == 1..MaxDevices
Powers == {"OFF", "ON"}

Init ==
  /\ rows = <<>> /\ shown = <<>> /\ topicOf = <<>> /\ renamed = {}
  /\ knownDevices = <<>>
  /\ phase = "down"
  /\ command = Idle
  /\ uplink = <<>> /\ downlink = <<>>
  /\ hardware \in [Topics -> {[online |-> o, power |-> "OFF"] : o \in BOOLEAN}]
  /\ connected = FALSE /\ session \in {{}, {"stat", "tele"}}
  /\ wish = [t \in Topics |-> Missing] /\ told = {}
  /\ events = 0

Event == events < MaxEvents /\ events' = events + 1

-----------------------------------------------------------------------------
(***************************************************************************)
(* The broker: tele/# and stat/# go to the plugin, cmnd/<topic>/# to the   *)
(* device of that topic, if it is online.  The last will of a device, LWT, *)
(* is retained: it comes again with a subscription.  The session is kept   *)
(* while the client is away (clean_session is false), but no message is,   *)
(* as they are sent with QoS 0.                                            *)
(***************************************************************************)
Message(type, t, v) == [type |-> type, topic |-> t, value |-> v]
Filter(m) == IF m.type \in {"LWT", "STATE"} THEN "tele" ELSE "stat"
Received(m) == connected /\ Filter(m) \in session
ToPlugin(m) == IF Received(m) THEN Append(uplink, m) ELSE uplink

LastWill(t) == Message("LWT", t, IF hardware[t].online THEN "Online" ELSE "Offline")
Retained == LET ts == SetToSeq(Topics) IN [i \in DOMAIN ts |-> LastWill(ts[i])]
Untold(ms) == {p \in told : \E i \in DOMAIN ms : ms[i].type = "LWT" /\ ms[i].topic = p[2]}

Delivered(ms) ==
  SelectSeq(ms, LAMBDA m : connected /\ m.topic \in Topics /\ hardware[m.topic].online)
ToHardware(ms) ==
  LET new == Delivered(ms)
  IN  IF Len(downlink) + Len(new) <= MaxQueue THEN downlink \o new ELSE downlink

-----------------------------------------------------------------------------
(***************************************************************************)
(* RegisterDeviceTypes creates the client, which connects and starts its   *)
(* loop thread.  SynchronizeDevices reads the devices (a name that is      *)
(* there twice stands for its first device), then subscribes.  A request   *)
(* without a connection counts as sent, and nothing repeats it.            *)
(***************************************************************************)
CreateClient ==
  /\ phase = "down"
  /\ phase' = "created"
  /\ connected' \in BOOLEAN
  /\ UNCHANGED <<stored, knownDevices, session, command, uplink, downlink, hardware, wish, told, events>>

NothingKnown == <<>>
StoredNames ==
  [n \in {rows[id].name : id \in DOMAIN rows} |-> Min({id \in DOMAIN rows : rows[id].name = n})]

Synchronize ==
  /\ phase = "created"
  /\ phase' = "synchronized"
  /\ knownDevices' = StoredNames
  /\ UNCHANGED <<stored, connected, session, command, uplink, downlink, hardware, wish, told, events>>

Subscribe(filter) == session' = IF connected THEN session \cup {filter} ELSE session

SubscribeStat ==
  /\ phase = "synchronized"
  /\ phase' = "stat"
  /\ Subscribe("stat")
  /\ UNCHANGED <<stored, knownDevices, connected, command, uplink, downlink, hardware, wish, told, events>>

SubscribeTele ==
  /\ phase = "stat"
  /\ phase' = "tele"
  /\ Subscribe("tele")
  /\ uplink' = IF connected THEN uplink \o Retained ELSE uplink
  /\ UNCHANGED <<stored, knownDevices, connected, command, downlink, hardware, wish, told, events>>

HasCallback(m) == phase = "tele" \/ (phase = "stat" /\ Filter(m) = "stat")

-----------------------------------------------------------------------------
(***************************************************************************)
(* OnUpdate sends the value of a property to the topic that is the name of *)
(* the device, unless the plugin made the change.                          *)
(***************************************************************************)
ApiUser == "apiUser"
NothingIgnored(user) == FALSE
OthersIgnored(user) == user # ApiUser
Ignored(user) == user = ApiUser

Published(user, name, value) ==
  IF Ignored(user) THEN <<>> ELSE <<Message("POWER", name, value)>>

\* A report of device id: its row changes if it has one, and so do the data a
\* user's command holds at that moment.
Reported(d, v) == IF d.power = Missing THEN d ELSE [d EXCEPT !.power = v]

Report(id, v, new) ==
  /\ rows' = [new EXCEPT ![id] = Reported(@, v)]
  /\ shown' = [shown EXCEPT ![id].power = v]
  /\ command' = IF command.id = id THEN [command EXCEPT !.value = v] ELSE command
  /\ wish' = IF command.id = id /\ rows[id].name \in Topics
             THEN [wish EXCEPT ![rows[id].name] = Missing] ELSE wish
  /\ downlink' = ToHardware(Published(ApiUser, rows[id].name, v))

Online(id, online, new) ==
  /\ rows' = [new EXCEPT ![id].online = online]
  /\ shown' = [shown EXCEPT ![id].online = online]
  /\ UNCHANGED <<command, wish, downlink>>

\* handleStatusMessages: RESULT of a known device.  The answer to Status, which
\* handleUnknownDevice asks for, is not used.
HandleStatus(m) ==
  /\ Filter(m) = "stat"
  /\ \/ /\ m.type = "RESULT" /\ m.topic \in DOMAIN knownDevices
        /\ Report(knownDevices[m.topic], m.value, rows)
     \/ /\ m.type # "RESULT" \/ m.topic \notin DOMAIN knownDevices
        /\ UNCHANGED <<rows, shown, command, wish, downlink>>
  /\ UNCHANGED <<knownDevices, topicOf, renamed>>

\* handleTelemetryMessages of a known device.
StateHandled(m) == m.type = "STATE"
HandleTelemetry(m) ==
  /\ Filter(m) = "tele"
  /\ m.topic \in DOMAIN knownDevices
  /\ LET id == knownDevices[m.topic]
     IN  \/ m.type = "LWT" /\ Online(id, m.value = "Online", rows)
         \/ StateHandled(m) /\ Report(id, m.value, rows)
         \/ /\ m.type # "LWT" /\ ~StateHandled(m)
            /\ UNCHANGED <<rows, shown, command, wish, downlink>>
  /\ UNCHANGED <<knownDevices, topicOf, renamed>>

\* ... and of another: it is stored first, and asked for its status.
With(f, x, y) == [z \in {x} \cup DOMAIN f |-> IF z = x THEN y ELSE f[z]]
NextId == Cardinality(DOMAIN rows) + 1
NewId == NextId

HandleUnknown(m) ==
  /\ Filter(m) = "tele"
  /\ m.topic \notin DOMAIN knownDevices
  /\ NextId \in Ids
  /\ knownDevices' = With(knownDevices, m.topic, NewId)
  /\ LET device == [name |-> m.topic, online |-> m.type = "LWT" /\ m.value = "Online", power |-> Missing]
     IN  /\ rows' = With(rows, NextId, device)
         /\ shown' = With(shown, NextId, [online |-> device.online,
                                           power |-> IF m.type = "STATE" THEN m.value ELSE Missing])
  /\ topicOf' = With(topicOf, NextId, m.topic)
  /\ downlink' = ToHardware(<<Message("Status", m.topic, "10")>>)
  /\ UNCHANGED <<renamed, command, wish>>

\* OnMessage finds no callback for what comes before SynchronizeDevices is done.
HandleMessage ==
  LET m == Head(uplink)
  IN  /\ uplink # <<>>
      /\ uplink' = Tail(uplink)
      /\ \/ HasCallback(m) /\ (HandleStatus(m) \/ HandleTelemetry(m) \/ HandleUnknown(m))
         \/ ~HasCallback(m) /\ UNCHANGED <<stored, knownDevices, command, downlink, wish>>
      /\ told' = IF m.type # "LWT" THEN told
                 ELSE {p \in told : p[2] # m.topic /\ (HasCallback(m) => p[1] # knownDevices'[m.topic])}
                      \cup IF HasCallback(m) THEN {<<knownDevices'[m.topic], m.topic>>} ELSE {}
      /\ UNCHANGED <<network, hardware, events>>

-----------------------------------------------------------------------------
(***************************************************************************)
(* Users and rules.  Properties::Set changes the shared data and tells the *)
(* browsers; OnUpdate, which comes after it, reads the value and the name  *)
(* of the device again.                                                    *)
(***************************************************************************)
Set(id, v) ==
  /\ Event
  /\ command = Idle
  /\ command' = [id |-> id, value |-> v]
  /\ rows' = [rows EXCEPT ![id] = Reported(@, v)]
  /\ shown' = [shown EXCEPT ![id].power = v]
  /\ wish' = IF rows[id].name \in Topics THEN [wish EXCEPT ![rows[id].name] = v] ELSE wish
  /\ UNCHANGED <<topicOf, renamed, knownDevices, network, uplink, downlink, hardware, told>>

OnUpdate ==
  LET name == rows[command.id].name
  IN  /\ command # Idle
      /\ downlink' = ToHardware(Published("user", name, command.value))
      /\ wish' = IF name \in Topics /\ ~(connected /\ hardware[name].online)
                 THEN [wish EXCEPT ![name] = Missing] ELSE wish
      /\ command' = Idle
      /\ UNCHANGED <<stored, knownDevices, network, uplink, hardware, told, events>>

\* The command setName writes the data as they are in memory, all properties.
SetName(id, n) ==
  LET power == IF command.id = id THEN command.value ELSE rows[id].power
  IN  /\ Event
      /\ rows' = [rows EXCEPT ![id].name = n, ![id].power = power]
      /\ renamed' = renamed \cup {id}
      /\ wish' = IF rows[id].name \in Topics /\ command.id = id
                 THEN [wish EXCEPT ![rows[id].name] = Missing] ELSE wish
      /\ UNCHANGED <<shown, topicOf, knownDevices, network, command, uplink, downlink, hardware, told>>

\* The program ends at any point and starts again; a browser that comes back is
\* shown what is stored.
Restart ==
  /\ Event
  /\ phase' = "down" /\ connected' = FALSE
  /\ knownDevices' = <<>>
  /\ command' = Idle
  /\ uplink' = <<>>
  /\ shown' = [id \in DOMAIN rows |-> [online |-> rows[id].online, power |-> rows[id].power]]
  /\ downlink' \in {downlink, <<>>}
  /\ wish' = [t \in Topics |-> Missing]
  /\ told' = told \ Untold(uplink)
  /\ UNCHANGED <<rows, topicOf, renamed, session, hardware>>

-----------------------------------------------------------------------------
(***************************************************************************)
(* The devices and the network, as far as the plugin can tell.             *)
(***************************************************************************)
\* A device does what it is told and says so.
Execute ==
  LET m == Head(downlink)
      done == IF m.type = "Status" THEN hardware ELSE [hardware EXCEPT ![m.topic].power = m.value]
      answer == IF m.type = "Status" THEN Message("STATUS10", m.topic, m.value)
                                     ELSE Message("RESULT", m.topic, m.value)
  IN  /\ downlink # <<>>
      /\ downlink' = Tail(downlink)
      /\ hardware' = done
      /\ uplink' = ToPlugin(answer)
      /\ wish' = IF wish[m.topic] = m.value THEN [wish EXCEPT ![m.topic] = Missing] ELSE wish
      /\ UNCHANGED <<stored, knownDevices, network, command, told, events>>

\* A device is switched by its button.
Button(t) ==
  LET v == IF hardware[t].power = "ON" THEN "OFF" ELSE "ON"
  IN  /\ Event
      /\ hardware' = [hardware EXCEPT ![t].power = v]
      /\ uplink' = IF hardware[t].online THEN ToPlugin(Message("RESULT", t, v)) ELSE uplink
      /\ UNCHANGED <<stored, knownDevices, network, command, downlink, wish, told>>

\* A device reports from time to time.  Bound: not while a report waits.
Telemetry(t) ==
  LET m == Message("STATE", t, hardware[t].power)
  IN  /\ hardware[t].online /\ Received(m)
      /\ \A i \in DOMAIN uplink : ~(uplink[i].topic = t /\ uplink[i].type = "STATE")
      /\ uplink' = ToPlugin(m)
      /\ UNCHANGED <<stored, knownDevices, network, command, downlink, hardware, wish, told, events>>

\* A device goes or comes, and the broker publishes its last will.
Publish(will) ==
  /\ uplink' = ToPlugin(will)
  /\ told' = IF Received(will) THEN told ELSE told \ Untold(<<will>>)

Leave(t) ==
  /\ Event
  /\ hardware[t].online
  /\ hardware' = [hardware EXCEPT ![t].online = FALSE]
  /\ Publish(Message("LWT", t, "Offline"))
  /\ downlink' = SelectSeq(downlink, LAMBDA m : m.topic # t)
  /\ wish' = [wish EXCEPT ![t] = Missing]
  /\ UNCHANGED <<stored, knownDevices, network, command>>

Come(t) ==
  /\ Event
  /\ ~hardware[t].online
  /\ hardware' = [hardware EXCEPT ![t].online = TRUE]
  /\ Publish(Message("LWT", t, "Online"))
  /\ UNCHANGED <<stored, knownDevices, network, command, downlink, wish>>

\* The connection is lost with what was on the way.
ConnectionLost ==
  /\ Event
  /\ connected /\ connected' = FALSE
  /\ uplink' = <<>>
  /\ told' = told \ Untold(uplink)
  /\ downlink' \in {downlink, <<>>}
  /\ wish' = [t \in Topics |-> Missing]
  /\ UNCHANGED <<stored, knownDevices, phase, session, command, hardware>>

\* Loop() calls mosquitto_reconnect; nothing is subscribed again.
Reconnect ==
  /\ phase # "down" /\ ~connected
  /\ connected' = TRUE
  /\ UNCHANGED <<stored, knownDevices, phase, session, command, uplink, downlink, hardware, wish, told, events>>

-----------------------------------------------------------------------------
Initialization == CreateClient \/ Synchronize \/ SubscribeStat \/ SubscribeTele

Next ==
  \/ Initialization \/ HandleMessage \/ OnUpdate \/ Execute
  \/ \E id \in DOMAIN rows, v \in Powers : Set(id, v)
  \/ \E id \in DOMAIN rows, n \in Names : SetName(id, n)
  \/ Restart \/ ConnectionLost \/ Reconnect
  \/ \E t \in Topics : Button(t) \/ Telemetry(t) \/ Leave(t) \/ Come(t)

(***************************************************************************)
(* The threads run, the broker delivers and can be reached again, and a    *)
(* device that is online reports from time to time.                        *)
(***************************************************************************)
Spec ==
  /\ Init /\ [][Next]_vars
  /\ WF_vars(Initialization) /\ WF_vars(HandleMessage) /\ WF_vars(Reconnect)
  /\ WF_vars(OnUpdate) /\ WF_vars(Execute)
  /\ \A t \in Topics : WF_vars(Telemetry(t))

-----------------------------------------------------------------------------
\* What is stored, known and shown fits together.
TypeOK ==
  /\ DOMAIN rows \subseteq Ids /\ DOMAIN shown = DOMAIN rows /\ DOMAIN topicOf = DOMAIN rows
  /\ \A id \in DOMAIN rows : rows[id] \in [name : Names, online : BOOLEAN, power : Powers \cup {Missing}]
  /\ DOMAIN knownDevices \subseteq Names /\ Range(knownDevices) \subseteq DOMAIN rows
  /\ command = Idle \/ (command.id \in DOMAIN rows /\ command.value \in Powers)
  /\ hardware \in [Topics -> [online : BOOLEAN, power : Powers]]

\* One physical device becomes two stored devices (handleUnknownDevice) only if
\* a user had renamed the first: restarts, lost messages and reports that arrive
\* while the plugin starts do not duplicate a device.
OneDevicePerTopic ==
  \A i, j \in DOMAIN rows : topicOf[i] = topicOf[j] /\ i # j => {i, j} \cap renamed # {}

\* When users and network leave it alone, the plugin shows what the devices are,
\* if the broker has its subscription: of every online device the power, and
\* whether it is online, except for a device that is stored when its last will had
\* come before, or whose last will came while the plugin could not receive it.
Converges ==
  <>[](\A t \in Topics \cap DOMAIN knownDevices :
         LET id == knownDevices[t]
         IN  "tele" \in session =>
               /\ <<id, t>> \in told => shown[id].online = hardware[t].online
               /\ hardware[t].online => shown[id].power = hardware[t].power)

\* The report a command leads to leads to no other command (OnUpdate returns for
\* the plugin's own user): at the end there are none.
Quiet == <>[](\A i \in DOMAIN downlink : downlink[i].type # "POWER")

\* Together: the system comes to rest, and in a state that is shown as it is.
Settles == Converges /\ Quiet

\* A user who switches an online device under its own name gets what he wants,
\* unless a report of the device comes between Properties::Set and OnUpdate, which
\* then sends the reported value, or the device or the network goes.
WishGranted == \A t \in Topics : []<>(wish[t] = Missing)
=============================================================================
