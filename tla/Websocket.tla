------------------------------- MODULE Websocket -------------------------------
(***************************************************************************)
(* The websocket server and its channels (communication/                   *)
(* WebsocketCommunication.cpp, WebsocketChannel.cpp), who may subscribe to *)
(* them (Authenticator.cpp, AuthEventHandler.cpp) and two threads that     *)
(* broadcast on them: the load thread (events/LoadRequestHandler.cpp) on   *)
(* "stats", and the thread of a device's change event (the timer or the    *)
(* MQTT loop) on "devices".                                                *)
(*                                                                         *)
(* One thread, the server's, runs all callbacks of connections.  The set   *)
(* of a channel's clients is not protected: a broadcast that stands at an  *)
(* element that the server's thread erases goes on from freed memory.      *)
(***************************************************************************)
EXTENDS Integers, Sequences, FiniteSets, FiniteSetsExt

CONSTANTS
  Clients,       \* browsers; their order is that of the set of connections
  Channels,
  Usages,        \* sets of channels that the browsers use, one of them in a behaviour
  LoadDuration,  \* in ticks of the clock
  TempDuration,
  MaxTempData    \* 30 in the code

ASSUME WebsocketAssumption ==
  /\ Clients \subseteq Nat \ {0} /\ IsFiniteSet(Clients)
  /\ {"stats", "devices"} \subseteq Channels /\ Usages \subseteq SUBSET Channels
  /\ LoadDuration \in Nat \ {0} /\ TempDuration \in Nat \ {0} /\ MaxTempData \in Nat \ {0}

None == 0
Dangling == -1

VARIABLES
  used,          \* the channels that the browsers use
  conn,          \* the state of each browser's connection
  token,         \* what its messages carry: no token, a valid or an expired one
  m_connections, \* the connections that the server knows
  m_clients,     \* the subscribers of each channel
  handling,      \* the client for which the server's thread waits for the load mutex
  server,        \* the server's thread: "accepting", "closing" or "ended"
  cursor,        \* where each sender stands in its channel's clients
  owed,          \* history: open clients that a broadcast still has to reach
  load,          \* the load thread; it holds the mutex unless it is in wait_until
  m_running,
  since,         \* ticks since m_lastLoadCheck, m_lastTempCheck and the last entry
  m_tempData,    \* entries [kind, failed, seen], the last two as history
  tempFailed,    \* history: whether the last broadcast of a temperature threw
  main,          \* the main thread in Stop and in StopThread
  crashed        \* whether a thread has followed a dangling iterator

sockets == <<conn, token, m_connections, m_clients, handling>>
broadcasts == <<cursor, owed>>
stats == <<load, m_running, since, m_tempData, tempFailed>>
vars == <<used, sockets, server, broadcasts, stats, main, crashed>>

Senders == {"load", "event"}

ChannelOf(t) == IF t = "load" THEN "stats" ELSE "devices"
Locked == load \in {"checkLoad", "sendLoad", "checkTemp", "sendTemp"}
Ready == server # "ended" /\ handling = None

Init ==
  /\ used \in Usages
  /\ conn = [c \in Clients |-> "none"] /\ token = [c \in Clients |-> "none"]
  /\ m_connections = {} /\ m_clients = [ch \in Channels |-> {}]
  /\ handling = None /\ server = "accepting"
  /\ cursor = [t \in Senders |-> None] /\ owed = [t \in Senders |-> {}]
  /\ load = "waiting" /\ m_running = TRUE
  /\ since = [load |-> 0, temp |-> 0, entry |-> TempDuration]
  /\ m_tempData = <<>> /\ tempFailed = FALSE
  /\ main = "run" /\ crashed = FALSE

-----------------------------------------------------------------------------
(* Connections: the callbacks of the websocket library. *)

Connect(c) ==
  /\ Ready /\ server = "accepting" /\ conn[c] = "none"
  /\ conn' = [conn EXCEPT ![c] = "handshake"]
  /\ UNCHANGED <<token, m_connections, m_clients, handling, server, broadcasts, stats, main, crashed>>

HandshakeFails(c) ==
  /\ Ready /\ conn[c] = "handshake"
  /\ conn' = [conn EXCEPT ![c] = "none"]
  /\ UNCHANGED <<token, m_connections, m_clients, handling, server, broadcasts, stats, main, crashed>>

OnOpen(c) ==
  /\ Ready /\ conn[c] = "handshake"
  /\ conn' = [conn EXCEPT ![c] = "open"]
  /\ m_connections' = m_connections \cup {c}
  /\ UNCHANGED <<token, m_clients, handling, server, broadcasts, stats, main, crashed>>

\* From now on send throws, and messages are not read any more.
Close(cs) ==
  /\ conn' = [c \in Clients |-> IF c \in cs THEN "closing" ELSE conn[c]]
  /\ token' = [c \in Clients |-> IF c \in cs THEN "none" ELSE token[c]]
  /\ owed' = [t \in Senders |-> owed[t] \ cs]

\* The browser closes the connection or is cut off.
Drop(c) ==
  /\ Ready /\ conn[c] = "open"
  /\ Close({c})
  /\ UNCHANGED <<m_connections, m_clients, handling, server, cursor, stats, main, crashed>>

\* Erasing c from the clients of channels chs, where senders may stand at it.
EraseFrom(chs, c) ==
  /\ m_clients' = [ch \in Channels |-> IF ch \in chs THEN m_clients[ch] \ {c} ELSE m_clients[ch]]
  /\ cursor' = [t \in Senders |-> IF ChannelOf(t) \in chs /\ cursor[t] = c THEN Dangling ELSE cursor[t]]
  /\ owed' = [t \in Senders |-> IF ChannelOf(t) \in chs THEN owed[t] \ {c} ELSE owed[t]]

\* OnClose tells every channel.
OwnChannel == {"stats"}
EveryChannel == Channels

OnClose(c) ==
  /\ Ready /\ conn[c] = "closing"
  /\ conn' = [conn EXCEPT ![c] = "none"]
  /\ m_connections' = m_connections \ {c}
  /\ EraseFrom(IF c \in m_connections THEN EveryChannel ELSE {}, c)
  /\ m_tempData' = [i \in DOMAIN m_tempData |-> [m_tempData[i] EXCEPT !.seen = @ \ {c}]]
  /\ UNCHANGED <<token, handling, server, load, m_running, since, tempFailed, main, crashed>>

-----------------------------------------------------------------------------
(* Messages. A message carries the browser's token, which is validated each time. *)

\* The browser logs in, or begins to use a token from an earlier connection.
Login(c) ==
  /\ Ready /\ conn[c] = "open" /\ token[c] # "valid"
  /\ token' = [token EXCEPT ![c] = "valid"]
  /\ UNCHANGED <<conn, m_connections, m_clients, handling, server, broadcasts, stats, main, crashed>>

Expire(c) ==
  /\ token[c] = "valid"
  /\ token' = [token EXCEPT ![c] = "expired"]
  /\ UNCHANGED <<conn, m_connections, m_clients, handling, server, broadcasts, stats, main, crashed>>

NoAuth(c) == TRUE
CheckAuthenticated(c) == token[c] = "valid"

\* Subscribe inserts the client and emits a connect event, which on "stats" is
\* handled under the load mutex.
Subscribe(c, ch) ==
  /\ Ready /\ conn[c] = "open" /\ CheckAuthenticated(c)
  /\ m_clients' = [m_clients EXCEPT ![ch] = @ \cup {c}]
  /\ handling' = IF ch = "stats" THEN c ELSE None
  /\ UNCHANGED <<conn, token, m_connections, server, broadcasts, stats, main, crashed>>

Unsubscribe(c, ch) ==
  /\ Ready /\ conn[c] = "open" /\ CheckAuthenticated(c)
  /\ EraseFrom({ch}, c)
  /\ UNCHANGED <<conn, token, m_connections, handling, server, stats, main, crashed>>

\* The command LOAD_REQ, which is answered like a connect event.
LoadRequest(c) ==
  /\ "stats" \in used
  /\ Ready /\ conn[c] = "open" /\ CheckAuthenticated(c)
  /\ handling' = c
  /\ UNCHANGED <<conn, token, m_connections, m_clients, server, broadcasts, stats, main, crashed>>

AllButLast == 1..(Len(m_tempData) - 1)
WholeHistory == DOMAIN m_tempData

HandleLoadRequest ==
  /\ handling # None /\ ~Locked
  /\ m_tempData' = [i \in DOMAIN m_tempData |->
       IF i \in WholeHistory /\ ~m_tempData[i].failed
       THEN [m_tempData[i] EXCEPT !.seen = @ \cup {handling}] ELSE m_tempData[i]]
  /\ handling' = None
  /\ UNCHANGED <<conn, token, m_connections, m_clients, server, broadcasts,
                 load, m_running, since, tempFailed, main, crashed>>

-----------------------------------------------------------------------------
(* Broadcast: a loop over the clients that the first exception leaves. *)

After(ch, c) == {d \in m_clients[ch] : d > c}
OneTooMany(ch, c) ==
  IF Cardinality(After(ch, c)) < 2 THEN None ELSE Min(After(ch, c) \ {Min(After(ch, c))})
NextClient(ch, c) == IF After(ch, c) = {} THEN None ELSE Min(After(ch, c))

Begin(t) ==
  /\ cursor' = [cursor EXCEPT ![t] = NextClient(ChannelOf(t), None)]
  /\ owed' = [owed EXCEPT ![t] = {c \in m_clients[ChannelOf(t)] : conn[c] = "open"}]

SendTo(t) ==
  /\ cursor[t] \in Clients /\ conn[cursor[t]] = "open"
  /\ cursor' = [cursor EXCEPT ![t] = NextClient(ChannelOf(t), @)]
  /\ owed' = [owed EXCEPT ![t] = IF cursor'[t] = None THEN {} ELSE @ \ {cursor[t]}]

SendThrows(t) ==
  /\ cursor[t] \in Clients /\ conn[cursor[t]] # "open"
  /\ cursor' = [cursor EXCEPT ![t] = None]
  /\ owed' = [owed EXCEPT ![t] = {}]

FollowDangling(t) ==
  /\ cursor[t] = Dangling
  /\ crashed' = TRUE
  /\ UNCHANGED <<sockets, server, broadcasts, stats, main>>

\* A change event reaches the DeviceWebsocketEventHandler.
EventThread ==
  /\ \/ cursor["event"] = None /\ m_clients["devices"] # {} /\ Begin("event")
     \/ SendTo("event")
     \/ SendThrows("event")
  /\ UNCHANGED <<sockets, server, stats, main, crashed>>

-----------------------------------------------------------------------------
(* LoadRequestHandler::Run *)

Due == since.load >= LoadDuration \/ since.temp >= TempDuration

Tick ==
  /\ load = "waiting" /\ ~Due
  /\ since' = [load |-> since.load + 1, temp |-> since.temp + 1,
               entry |-> IF since.entry < TempDuration THEN since.entry + 1 ELSE since.entry]
  /\ UNCHANGED <<sockets, server, broadcasts, load, m_running, m_tempData, tempFailed, main, crashed>>

\* wait_until with its predicate.
Wake ==
  /\ load = "waiting"
  /\ IF m_running THEN Due /\ load' = "checkLoad" ELSE load' = "ended"
  /\ UNCHANGED <<sockets, server, broadcasts, m_running, since, m_tempData, tempFailed, main, crashed>>

CheckLoad ==
  /\ load = "checkLoad"
  /\ IF since.load >= LoadDuration
     THEN Begin("load") /\ load' = "sendLoad"
     ELSE load' = "checkTemp" /\ UNCHANGED broadcasts
  /\ UNCHANGED <<sockets, server, m_running, since, m_tempData, tempFailed, main, crashed>>

\* The temperature can be read or not; old entries give way to new ones.
Kind ==
  IF since.entry >= TempDuration THEN "due" ELSE IF tempFailed THEN "retry" ELSE "early"

Limited(s) == IF Len(s) >= MaxTempData THEN Tail(s) ELSE s

CheckTemp ==
  /\ load = "checkTemp"
  /\ \/ /\ since.temp >= TempDuration
        /\ m_tempData' = Append(Limited(m_tempData), [kind |-> Kind, failed |-> FALSE, seen |-> {}])
        /\ since' = [since EXCEPT !.entry = 0]
        /\ tempFailed' = FALSE
        /\ Begin("load") /\ load' = "sendTemp"
     \/ /\ load' = "waiting"
        /\ since' = IF since.temp >= TempDuration THEN [since EXCEPT !.temp = 0] ELSE since
        /\ UNCHANGED <<broadcasts, m_tempData, tempFailed>>
  /\ UNCHANGED <<sockets, server, m_running, main, crashed>>

LoadSend ==
  /\ load \in {"sendLoad", "sendTemp"}
  /\ SendTo("load")
  /\ m_tempData' = IF load = "sendLoad" THEN m_tempData
                   ELSE [m_tempData EXCEPT ![Len(m_tempData)].seen = @ \cup {cursor["load"]}]
  /\ UNCHANGED <<sockets, server, load, m_running, since, tempFailed, main, crashed>>

\* The time of the check is set after the broadcast.
LastCheckSet ==
  IF load = "sendLoad" THEN [since EXCEPT !.load = 0] ELSE [since EXCEPT !.temp = 0]

LoadSent ==
  /\ load \in {"sendLoad", "sendTemp"} /\ cursor["load"] = None
  /\ since' = LastCheckSet
  /\ load' = IF load = "sendLoad" THEN "checkTemp" ELSE "waiting"
  /\ UNCHANGED <<sockets, server, broadcasts, m_running, m_tempData, tempFailed, main, crashed>>

\* The exception is caught in the loop, which waits again, for a time that is past.
WaitsAgain == "waiting"

LoadThrows ==
  /\ load \in {"sendLoad", "sendTemp"}
  /\ SendThrows("load")
  /\ load' = WaitsAgain
  /\ IF load = "sendTemp"
     THEN tempFailed' = TRUE /\ m_tempData' = [m_tempData EXCEPT ![Len(m_tempData)].failed = TRUE, ![Len(m_tempData)].seen = {}]
     ELSE UNCHANGED <<tempFailed, m_tempData>>
  /\ UNCHANGED <<sockets, server, m_running, since, main, crashed>>

LoadThread == Wake \/ CheckLoad \/ CheckTemp \/ LoadSend \/ LoadSent \/ LoadThrows

-----------------------------------------------------------------------------
(* The main thread stops the server, then the load thread. *)

Stop ==
  /\ main = "run" /\ main' = "joinServer"
  /\ UNCHANGED <<sockets, server, broadcasts, stats, crashed>>

\* What Stop posts to the server's thread.
CloseFirst == {c \in m_connections : conn[c] = "open" /\ \A d \in m_connections : c <= d}
CloseOpen == {c \in m_connections : conn[c] = "open"}

CloseAll ==
  /\ Ready /\ main = "joinServer" /\ server = "accepting"
  /\ server' = "closing"
  /\ Close(CloseOpen)
  /\ UNCHANGED <<m_connections, m_clients, handling, cursor, stats, main, crashed>>

\* run() returns when nothing is left to do.
RunReturns ==
  /\ Ready /\ server = "closing" /\ \A c \in Clients : conn[c] = "none"
  /\ server' = "ended"
  /\ UNCHANGED <<sockets, broadcasts, stats, main, crashed>>

ServerJoined ==
  /\ main = "joinServer" /\ server = "ended" /\ main' = "stopThread"
  /\ UNCHANGED <<sockets, server, broadcasts, stats, crashed>>

StopThread ==
  /\ main = "stopThread" /\ ~Locked
  /\ m_running' = FALSE
  /\ main' = "joinLoad"
  /\ UNCHANGED <<sockets, server, broadcasts, load, since, m_tempData, tempFailed, crashed>>

LoadJoined ==
  /\ main = "joinLoad" /\ load = "ended" /\ main' = "done"
  /\ UNCHANGED <<sockets, server, broadcasts, stats, crashed>>

Ended == (crashed \/ main = "done") /\ UNCHANGED vars

-----------------------------------------------------------------------------
Server(c) ==
  \/ Connect(c) \/ HandshakeFails(c) \/ OnOpen(c) \/ Drop(c) \/ OnClose(c)
  \/ Login(c) \/ LoadRequest(c)
  \/ \E ch \in used : Subscribe(c, ch) \/ Unsubscribe(c, ch)

Step ==
  \/ \E c \in Clients : Server(c) \/ Expire(c)
  \/ HandleLoadRequest \/ CloseAll \/ RunReturns
  \/ EventThread \/ Tick \/ LoadThread
  \/ Stop \/ ServerJoined \/ StopThread \/ LoadJoined
  \/ \E t \in Senders : FollowDangling(t)

Running == ~crashed /\ UNCHANGED used
Next == (Running /\ Step) \/ Ended

Spec == Init /\ [][Next]_vars

\* Every thread goes on.  The library runs callbacks in the order in which they
\* become ready and bounds both handshakes by timeouts, and a thread that waits
\* for the mutex gets it if it is free again and again.
Fairness ==
  /\ WF_vars(Running /\ (LoadThread \/ Tick))
  /\ \A t \in Senders : WF_vars(Running /\ FollowDangling(t))
  /\ \A c \in Clients :
       /\ SF_vars(Running /\ (OnOpen(c) \/ HandshakeFails(c)))
       /\ SF_vars(Running /\ OnClose(c))
  /\ SF_vars(Running /\ HandleLoadRequest)
  /\ SF_vars(Running /\ CloseAll)
  /\ WF_vars(Running /\ (RunReturns \/ ServerJoined \/ LoadJoined))
  /\ SF_vars(Running /\ StopThread)

FairSpec == Spec /\ Fairness

-----------------------------------------------------------------------------
\* The sets of clients, the senders' places in them and the load thread.
TypeOK ==
  /\ conn \in [Clients -> {"none", "handshake", "open", "closing"}]
  /\ token \in [Clients -> {"none", "valid", "expired"}]
  /\ m_connections = {c \in Clients : conn[c] \in {"open", "closing"}}
  /\ m_clients \in [Channels -> SUBSET Clients]
  /\ handling \in Clients \cup {None} /\ server \in {"accepting", "closing", "ended"}
  /\ \A t \in Senders : cursor[t] \in m_clients[ChannelOf(t)] \cup {None, Dangling}
  /\ owed \in [Senders -> SUBSET Clients]
  /\ load \in {"waiting", "checkLoad", "sendLoad", "checkTemp", "sendTemp", "ended"}
  /\ since \in [load : 0..LoadDuration, temp : 0..TempDuration, entry : 0..TempDuration]
  /\ Len(m_tempData) <= MaxTempData
  /\ m_running \in BOOLEAN /\ tempFailed \in BOOLEAN /\ crashed \in BOOLEAN
  /\ main \in {"run", "joinServer", "stopThread", "joinLoad", "done"}

\* A channel's clients are connections that the server knows and that have been
\* used with a token, be it expired by now: a closed connection stays in no
\* channel, and one that never logged in gets into none.
ClientsKnown ==
  \A ch \in Channels : \A c \in m_clients[ch] :
    c \in m_connections /\ (conn[c] = "open" => token[c] # "none")

\* When a broadcast ends, it has missed an open subscriber that was there when it
\* began only if it ends at another one before it, whose connection is closing:
\* subscriptions that come and go during the loop make it skip nobody.
Ends(t) == cursor[t] # None /\ cursor'[t] = None

MissedBehindClosing ==
  [][\A t \in Senders : Ends(t) =>
       \A c \in owed[t] \ {cursor[t]} : conn[cursor[t]] # "open" /\ cursor[t] < c]_vars

\* The history and the broadcasts together leave no gap: a subscriber whose
\* subscription has been answered has seen every temperature of the history,
\* except for one that is being broadcast or whose broadcast threw.
NoTemperatureMissed ==
  \A c \in m_clients["stats"] : conn[c] = "open" /\ handling # c =>
    \A i \in DOMAIN m_tempData :
      \/ c \in m_tempData[i].seen \/ m_tempData[i].failed
      \/ i = Len(m_tempData) /\ load = "sendTemp" /\ c \in owed["load"]

\* The temperatures of the history are at least an interval apart ("Update
\* interval for temperature", LoadRequestHandler.h:46), except for those that
\* follow a broadcast that threw.
HistoryEven == \A i \in DOMAIN m_tempData : m_tempData[i].kind # "early"

\* Together: what a subscriber has been shown of the temperatures is complete, and
\* evenly spaced as far as broadcasts succeeded.
HistoryComplete == NoTemperatureMissed /\ HistoryEven

\* A connection that closes is forgotten, also while the load thread, whose
\* broadcasts it makes fail, goes round without waiting.
ClosingForgotten ==
  \A c \in Clients : conn[c] = "closing" ~> (conn[c] = "none" \/ crashed)

\* Stop ("Stops communication thread if running", WebsocketCommunication.h)
\* closes every connection that it finds open; it and StopThread return, unless a
\* browser that was connecting when the others were closed stays.
StopReturns ==
  /\ \A c \in Clients :
       main = "joinServer" /\ server = "accepting" /\ conn[c] = "open"
         ~> conn[c] # "open" \/ crashed
  /\ main = "joinServer" ~>
       (main = "done" \/ crashed \/ (server = "closing" /\ \E c \in Clients : conn[c] = "open"))

-----------------------------------------------------------------------------
\* "Broadcasts a message to all connections subscribed to this channel"
\* (WebsocketChannel.h): no open subscriber is missed.
BroadcastReachesAll == [][\A t \in Senders : Ends(t) => owed[t] \subseteq {cursor[t]}]_vars

\* Every temperature of the history is at least an interval after the one before.
HistoryAlwaysEven == \A i \in DOMAIN m_tempData : m_tempData[i].kind = "due"

=============================================================================
